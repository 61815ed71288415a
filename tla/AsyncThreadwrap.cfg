\* Four calls on two workers, over an adapter with or without a close().
CONSTANTS
    t1 = t1
    t2 = t2
    t3 = t3
    t4 = t4
    Tasks <- MCTasks
    MaxWorkers = 2
SPECIFICATION FairSpec
INVARIANTS
    TypeOK
    ShutdownDropsNothing
    CloseReleases
PROPERTIES
    NothingStartsOnClosedAdapter
    CallPromiseKept
    EveryCallEnds
CHECK_DEADLOCK FALSE
