SPECIFICATION MCSpec
CONSTANTS
    MaxAttempts = 2
    MaxEvents = 2
    MaxDrained = 1
    MaxReconnects = 1
    MaxStreamFaults = 2
    w1 = w1
    w2 = w2
    t1 = t1
    t2 = t2
    t3 = t3
    Idlers <- MCIdlers
    Tasks <- MCTasks
    MaxCoalesced = 1
    MaxOutages = 2
    Capacity = 2
    MaxTraced = 5
INVARIANTS
    AnswerIsOutcome
    StreamFaithful
    NoLostWakeup
    ResultOvertakesNothing
PROPERTIES
    FollowEnds
    DirectStreamEnds
CHECK_DEADLOCK FALSE
