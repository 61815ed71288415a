\* Two calls on two documents; sleeps of 1 and 2 up to a deadline of 3.
CONSTANTS
    c1 = c1
    c2 = c2
    d1 = d1
    d2 = d2
    Calls <- MCCalls
    Docs <- MCDocs
    BaseDelay = 1
    MaxDelay = 2
    DeleteDelay = 2
    Latency = 1
    MaxOverdue = 3
    Timeout = 3
SPECIFICATION Spec
INVARIANTS
    TypeOK
    TimelyEnd
    WaitMeansVisible
    DeleteIsReal
PROPERTIES
    NoMissedAnswer
SYMMETRY MCSymmetry
CHECK_DEADLOCK FALSE
