\* Two workers, two events of two users over one word, four calls, restarts
\* included.
CONSTANTS
    w1 = w1
    w2 = w2
    e1 = e1
    e2 = e2
    u1 = u1
    u2 = u2
    a = a
    Workers <- MCWorkers
    Events <- MCEvents
    Users <- MCUsers
    Words <- MCWords
    MaxCalls = 4
SPECIFICATION Spec
INVARIANTS
    TypeOK
    TouchesOwnMemories
PROPERTIES
    WaitResolvesAll
    DeleteIsReal
SYMMETRY MCSymmetry
CHECK_DEADLOCK FALSE
