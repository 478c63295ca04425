SPECIFICATION Spec
CONSTANTS
    Chunks <- MCChunks
    Content <- MCContent
    Tokens <- MCTokens
    Queries <- MCQueries
    Filters <- MCFilters
    NoFilter <- MCNoFilter
    Roles <- MCRoles
    VectorK = 3
    KeywordK = 3
    FinalK = 2
    RrfK = 60
    MaxCached = 1
INVARIANT RelevantIsSufficient
