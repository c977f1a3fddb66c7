CONSTANTS
    b1 = b1
    b2 = b2
    r1 = r1
    i1 = i1
    i2 = i2
    None = None
    Background <- TwoLoops
    Requests <- OneRequest
    Instances <- TwoInstances
    InstanceOf <- Places
    MaxGrants = 2
    MaxTurns = 2
    MaxRevision = 1
    MaxAttempts = 2
    MaxRefreshes = 1
    MaxAdmin = 1
    MaxFaults = 1
SPECIFICATION FairSpec
INVARIANTS TokenIsKept OneRefreshAtATime QuarantineIsDeserved ReauthorizationStays
CHECK_DEADLOCK FALSE
PROPERTIES DueIsDealtWith
