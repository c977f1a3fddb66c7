CONSTANTS
    w1 = w1
    w2 = w2
    NoOne = NoOne
    Workers <- TwoWorkers
    Hold = 2
    Costs = {1}
    Balances = {1, 3}
    Frozen = {2}
    MaxRetries = 1
    MaxCalls = 1
    MaxFaults = 0
SPECIFICATION FairSpec
PROPERTY HoldIsReturned
\* A job may end with nothing left to do.
CHECK_DEADLOCK FALSE
