SPECIFICATION SearchFairSpec
CONSTANTS
    Rows = {1, 2}
    Subjects = {A}
    A = A
    NoSubject = NoSubject
    Matches <- Overlapping
    Searchers = {v1, v2}
    NoSearch = NoSearch
    Patchers = {p1, p2}
    NoPatch = NoPatch
    CheckEvery = 1
    LongSearches = FALSE
    MaxRequests = 2
    MaxCrashes = 1
    MaxEdits = 1
INVARIANTS CompletedByCurrent StaleWindow OneSearch
PROPERTIES SearchCompletes
CHECK_DEADLOCK FALSE
