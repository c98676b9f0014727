SPECIFICATION Spec
CONSTANTS
    old = old
    new = new
    hidden = hidden
    Paths <- MCPaths
    Tracked <- MCTracked
    Ignored <- MCIgnored
    Temporary = Temporary
    TemporaryShown <- MCShown
    RequireClean = TRUE
    MaxAttempts = 2
    MaxIterations = 5
    MaxMutations = 2
INVARIANTS
    NoBlindReview
CHECK_DEADLOCK FALSE
