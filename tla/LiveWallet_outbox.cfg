CONSTANTS
    r1 = r1
    r2 = r2
    w1 = w1
    w2 = w2
    c1 = c1
    Requests <- OneRequest
    Workers <- TwoWorkers
    Recoverers <- OneRecoverer
    Hold = 2
    TopUpTarget = 2
    Costs = {4}
    Balances = {3}
    Deltas = {1}
    MaxEvents = 2
    MaxFaults = 1
    MaxLosses = 0
    StaleSnapshots = FALSE
SPECIFICATION FairSpec
INVARIANTS Conserved AcknowledgedIsIncluded
PROPERTIES InOrder EventsAreDelivered SettlementEnds
\* Every request ends and nothing else is due: the system may stop.
CHECK_DEADLOCK FALSE
