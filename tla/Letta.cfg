\* Three calls, two users, memories of up to two passages, and two troubles:
\* a failed request, a deleted agent or a restart each.
CONSTANTS
    c1 = c1
    c2 = c2
    c3 = c3
    u1 = u1
    u2 = u2
    Calls <- MCCalls
    Users <- MCUsers
    MaxPassages = 2
    MaxTroubles = 2
SPECIFICATION Spec
INVARIANTS
    TypeOK
    OwnAgentOnly
    KnownIsComplete
    DeleteComplete
    ListSurvivesAlone
SYMMETRY MCSymmetry
CHECK_DEADLOCK FALSE
