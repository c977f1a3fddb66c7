CONSTANTS
    w1 = w1
    w2 = w2
    Kinds = {"balance", "subscription"}
    Workers <- TwoWorkers
    Amount = 2
    Wallets = {3}
    Overdraft = 1
    MaxFaults = 1
    PartialFailures = FALSE
SPECIFICATION Spec
INVARIANTS OwnerIsAlone TakenOnce RefundedIsReturned OpenHoldsNothing PendingIsRecorded FirstRefundIsOwned
SYMMETRY Symmetry
\* A refund may end REFUNDED with nobody left to act on it.
CHECK_DEADLOCK FALSE
