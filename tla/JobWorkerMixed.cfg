SPECIFICATION WorkerSpec
CONSTANTS
    c1 = c1
    i1 = i1
    q1 = q1
    w1 = w1
    w2 = w2
    r1 = r1
    NoWorker = NoWorker
    NoJob = NoJob
    Http = Http
    Jobs <- MCMixed
    CodingJobs <- MCCoding
    Workers <- MCWorkers
    Repos <- MCRepos
    TypeOf <- MCMixedTypes
    RepoOf <- MCMixedRepos
    MaxAttempts = 1
    Lease = 1
    MaxEdits = 2
    MaxFaults = 2
    MaxDown = 1
SYMMETRY MCSymmetry
INVARIANTS
    OneRunPerClaim
    CancelledMeansUntouched
    OneLateEdit
