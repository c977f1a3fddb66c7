CONSTANTS
    w1 = w1
    w2 = w2
    NoOne = NoOne
    Workers <- TwoWorkers
    Hold = 2
    Costs = {1}
    Balances = {1, 3}
    Frozen = {0, 2}
    MaxRetries = 2
    MaxCalls = 1
    MaxFaults = 2
SPECIFICATION FairSpec
INVARIANTS TypeOK OthersStayFrozen CompletedIsCharged OneWorker RefundedIsStopped
PROPERTIES HoldIsClosed CapturedIsCompleted
\* A job may end with nothing left to do.
CHECK_DEADLOCK FALSE
