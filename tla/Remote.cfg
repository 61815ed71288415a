\* Two calls, or requests of other HTTP clients; bodies of up to 3 bytes, of which 2 are
\* let in.
CONSTANTS
    c1 = c1
    c2 = c2
    None = None
    Slots <- MCSlots
    Supported <- MCSupported
    CallVerbs = {"add", "audit", "update"}
    Partial = {"update"}
    Bodies <- MCBodies
    Requests <- MCRequests
    MaxBytes = 2
SPECIFICATION Spec
INVARIANTS
    TypeOK
    BodyWholeAndBounded
    OutcomeTellsEffect
    ClientReleased
SYMMETRY MCSymmetry
CHECK_DEADLOCK FALSE
