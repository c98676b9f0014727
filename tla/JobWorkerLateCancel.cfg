SPECIFICATION WorkerSpec
CONSTANTS
    c1 = c1
    i1 = i1
    q1 = q1
    w1 = w1
    w2 = w2
    r1 = r1
    NoWorker = NoWorker
    NoJob = NoJob
    Http = Http
    Jobs <- MCIndex
    CodingJobs <- MCNone
    Workers <- MCWorkers
    Repos <- MCRepos
    TypeOf <- MCIndexType
    RepoOf <- MCIndexRepo
    MaxAttempts = 2
    Lease = 1
    MaxEdits = 0
    MaxFaults = 1
    MaxDown = 1
SYMMETRY MCSymmetry
INVARIANTS
    CommittedIndexNotCancelled
