\* The verbs whose requests the server refuses as invalid.
CONSTANTS
    c1 = c1
    c2 = c2
    None = None
    Slots <- MCSlots
    Supported <- MCSupported
    CallVerbs = {"get", "delete", "list", "search"}
    Partial = {}
    Bodies <- MCBodies
    Requests <- MCRequests
    MaxBytes = 2
SPECIFICATION Spec
INVARIANT AdvertisedVerbForwarded
CHECK_DEADLOCK FALSE
