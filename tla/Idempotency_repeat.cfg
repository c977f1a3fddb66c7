CONSTANTS
    w1 = w1
    w2 = w2
    w3 = w3
    f1 = f1
    f2 = f2
    Workers <- TwoWorkers
    Fingerprints = {f1, f2}
    Ttl = 3
    Timeout = 2
    Backoff = 1
    MaxLock = 2
    MaxLate = 2
    MaxStall = 1
    MaxFaults = 0
SPECIFICATION Spec
INVARIANT OncePerWindow
