CONSTANTS
    w1 = w1
    w2 = w2
    o1 = o1
    o2 = o2
    o3 = o3
    Workers <- TwoWorkers
    Fingerprints <- ThreeOperations
    Ttl = 8
    Timeout = 6
    RenewInterval = 2
    MaxLock = 6
    MaxLate = 1
    MaxFaults = 0
SPECIFICATION Spec
INVARIANT OneOperation
