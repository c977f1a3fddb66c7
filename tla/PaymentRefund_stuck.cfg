CONSTANTS
    w1 = w1
    w2 = w2
    Kinds = {"balance"}
    Workers <- TwoWorkers
    Amount = 2
    Wallets = {2}
    Overdraft = 0
    MaxFaults = 0
    PartialFailures = FALSE
SPECIFICATION FairSpec
PROPERTY RefundInProgressEnds
\* A refund may end REFUNDED with nobody left to act on it.
CHECK_DEADLOCK FALSE
