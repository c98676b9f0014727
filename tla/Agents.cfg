SPECIFICATION MCSpec
CONSTANTS
    MaxPath = 3
    Metadata = {}
    MaxSearchResults = 2
    Hits <- MCHits
    Words <- MCWords
    Trees <- MCTrees
    MaxIterations = 4
    MaxTreeChanges = 1
    EvidenceLimit = 2
    MaxSpool = 2
    MaxChars = 1
    MaxOutput = 3
    MaxRetries = 1
    BatchSize = 2
    MaxBatchChars = 3
    Inputs <- MCInputs
    Dimensions <- MCDimensions
    MaxOperations = 3
    MaxTelemetryFaults = 1
INVARIANTS
    GroundedAnswer
    EvidenceIsObserved
    SubprocessHonest
    EmbeddingsAligned
    StoredTraceIsTheRun
PROPERTIES
    SubprocessEnds
CHECK_DEADLOCK FALSE
