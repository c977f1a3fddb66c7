CONSTANTS
    w1 = w1
    w2 = w2
    Kinds = {"balance", "subscription"}
    Workers <- TwoWorkers
    Creator = w1
    GraceTicks = 1
    LeaseTicks = 1
    MaxFaults = 1
SPECIFICATION FairSpec
INVARIANTS DeliveredOnce PaidIsNeverClosed AckMeansSettled
PROPERTIES KeepsPromise PaidSettles OverdueLeavesPending
\* An order may end CANCELLED, EXPIRED or FAILED with nobody left to act.
CHECK_DEADLOCK FALSE
