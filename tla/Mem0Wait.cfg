\* wait_for_ingest() after a get() that ran out of time.
CONSTANTS
    w1 = w1
    w2 = w2
    e1 = e1
    e2 = e2
    u1 = u1
    u2 = u2
    a = a
    Workers <- MCWorkers
    Events <- MCEvents
    Users <- MCUsers
    Words <- MCWords
    MaxCalls = 3
SPECIFICATION Spec
PROPERTIES
    WaitMeansReadable
CHECK_DEADLOCK FALSE
