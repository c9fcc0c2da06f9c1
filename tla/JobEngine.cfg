CONSTANTS
    w1 = w1
    w2 = w2
    Nobody = Nobody
    MaxJobs = 2
    MaxAttempts = 2
    MaxTries = 3
    MaxKicks = 0
    MaxFaults = 1
    Workers = {w1, w2}
    Concurrency = 1
    Priorities = {0}
    Immortal = {}
    Drainable = {}
    CancelFrom = {"queued", "running", "completed", "cancelled", "dead_letter"}
    FaultKinds = {"throw"}
SPECIFICATION Spec
INVARIANTS TypeOK ExclusiveExecution
SYMMETRY WorkerSymmetry
CHECK_DEADLOCK FALSE
