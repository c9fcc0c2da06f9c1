CONSTANTS
    w1 = w1
    w2 = w2
    Nobody = Nobody
    MaxJobs = 1
    MaxAttempts = 2
    MaxTries = 5
    MaxKicks = 0
    MaxFaults = 1
    Workers = {w1, w2}
    Concurrency = 1
    Priorities = {0}
    Immortal = {w2}
    Drainable = {w1}
    CancelFrom = {"queued", "running", "completed", "cancelled", "dead_letter"}
    FaultKinds = {"throw", "stall"}
SPECIFICATION FairSpec
INVARIANTS LeaseConsistent RetryBudget WorkersExact
PROPERTIES JobSettles
CHECK_DEADLOCK FALSE
