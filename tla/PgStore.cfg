\* A synchronous and an asynchronous writer and a reader on three rows, the
\* first two of the same instant, in pages of one.
CONSTANTS
    sync = sync
    async = async
    Clients <- MCClients
    Driver <- MCDriver
    Model <- MCModel
    Uses <- MCUses
    Updates <- MCUpdates
    NumRows = 3
    PageLimit = 1
    NoRow = NoRow
    Gone = Gone
    NoTxn = NoTxn
SPECIFICATION Spec
INVARIANTS
    TypeOK
    WalkReturnsSteady
    SearchHonest
PROPERTIES
    WritesStand
