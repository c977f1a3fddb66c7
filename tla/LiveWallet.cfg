CONSTANTS
    r1 = r1
    r2 = r2
    w1 = w1
    w2 = w2
    c1 = c1
    Requests <- TwoRequests
    Workers <- NoWorker
    Recoverers <- OneRecoverer
    Hold = 2
    TopUpTarget = 3
    Costs = {0, 4}
    Balances = {3}
    Deltas = {1}
    MaxEvents = 0
    MaxFaults = 1
    MaxLosses = 1
    StaleSnapshots = FALSE
SPECIFICATION Spec
INVARIANTS Conserved SameAmountInBothStores NothingHeldAtTheEnd ServedIsCharged
PROPERTY KeepsAccount
\* Every request ends and nothing else is due: the system may stop.
CHECK_DEADLOCK FALSE
