SPECIFICATION Spec
CONSTANTS
    c1 = c1
    n1 = n1
    w1 = w1
    w2 = w2
    NoWorker = NoWorker
    Jobs <- MCJobs
    CodingJobs <- MCCodingJobs
    Workers <- MCWorkers
    MaxAttempts = 2
    Lease = 2
INVARIANTS
    CodingRunsOnce
    CancellationHonest
PROPERTIES
    NoStartAfterCancel
    ImplementsLifecycle
