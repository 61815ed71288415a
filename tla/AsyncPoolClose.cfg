\* The documented effect of close(), under the bounds of AsyncPool.cfg.
CONSTANTS
    t1 = t1
    t2 = t2
    t3 = t3
    l1 = l1
    l2 = l2
    Tasks <- MCTasks
    Loops <- MCLoops
    PoolMax = 1
    NumDDL = 2
    NoTask = NoTask
    NoLoop = NoLoop
SPECIFICATION Spec
INVARIANT CloseReleasesPool
CHECK_DEADLOCK FALSE
