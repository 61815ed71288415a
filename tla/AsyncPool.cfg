\* Three calls on two loops, a pool of one connection, so that two verbs
\* exhaust it, and two schema statements, so that an initialiser can stop
\* between them.
CONSTANTS
    t1 = t1
    t2 = t2
    t3 = t3
    l1 = l1
    l2 = l2
    Tasks <- MCTasks
    Loops <- MCLoops
    PoolMax = 1
    NumDDL = 2
    NoTask = NoTask
    NoLoop = NoLoop
SPECIFICATION FairSpec
INVARIANTS
    TypeOK
    OnePoolAtATime
    SchemaBeforeQuery
    IdleMeansReleased
    LoopConfined
PROPERTIES
    PoolPromiseKept
    EveryCallReturns
\* Every task makes one call, so the system stops when all have.
CHECK_DEADLOCK FALSE
