\* One provider that pages by key and one that pages by number, three facts in
\* pages of one, two queries; a plain run with --cleanup, and every combination
\* of the other options without it.
CONSTANTS
    NumProviders = 2
    Paging <- MCPaging
    NumFacts = 3
    NumQueries = 2
    PageSize = 1
    Options <- MCOptions
SPECIFICATION FairSpec
INVARIANTS
    TypeOK
    NoCallWithoutConsent
    EveryProviderReported
    KeysetCleanupComplete
PROPERTIES
    RunEnds
