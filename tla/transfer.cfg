SPECIFICATION FairSpec
CONSTANTS
    Transfer = {t1, t2}
    MaxSize = 2
    Windows = {1, 2}
    Budget = 3
    MaxWorkers = 2
INVARIANTS ClosedIsWhole LeaseOwned WithinBudget
PROPERTIES SettledOnce OnlyOwnLease CancelledEnds LeasesReturn
CHECK_DEADLOCK FALSE
