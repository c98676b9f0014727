SPECIFICATION Spec
SYMMETRY MCSymmetry
CONSTANTS
    r1 = r1
    r2 = r2
    r3 = r3
    p1 = p1
    p2 = p2
    small = small
    large = large
    f1 = f1
    f2 = f2
    NoRun = NoRun
    Missing = Missing
    NoFingerprint = NoFingerprint
    Runs <- MCRuns
    Paths <- MCPaths
    Contents <- MCContents
    Configs <- MCConfigs
    ChunksIn <- MCChunksIn
    MaxChunks = 3
    MaxLost = 1
INVARIANTS
    Trustworthy
