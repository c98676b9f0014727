SPECIFICATION MCSpec
CONSTANTS
    Names <- MCNames
    Kinds <- MCKinds
    Root = 0
    MaxSize = 2
    MaxTreeSteps = 2
    Sources <- MCSources
    Configs <- MCConfigs
    TopK = 2
    Multiplier = 2
    RerankPool = 3
    SymbolLimit = 2
    MaxCandidates = 3
    MaxRerankChars = 30
    Indexes <- MCIndexes
    QueryModel = "m"
    QueryDimensions = 1
    Radius = 1
    BudgetTokens = 6
    MaxContextChars = 30
    Markup = 4
    TruncatedMark = 2
    Wrapper = 4
    MaxCommits = 2
INVARIANTS
    SnapshotFaithful
    ChunksCover
    SearchSound
    CitationsWereShown
CHECK_DEADLOCK FALSE
