\* Three facts in pages of one; a confirmed live run with --cleanup.
CONSTANTS
    NumProviders = 2
    Paging <- MCPaging
    NumFacts = 3
    NumQueries = 2
    PageSize = 1
    Options <- MCPlain
SPECIFICATION Spec
INVARIANTS
    CleanupComplete
