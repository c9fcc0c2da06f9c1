CONSTANTS
    w1 = w1
    w2 = w2
    w3 = w3
    Nobody = Nobody
    MaxJobs = 1
    MaxAttempts = 3
    MaxTries = 3
    MaxKicks = 0
    MaxFaults = 0
    Workers = {w1, w2, w3}
    Concurrency = 1
    Priorities = {0}
    Immortal = {}
    Drainable = {w1}
    CancelFrom = {"queued"}
    FaultKinds = {}
SPECIFICATION Spec
INVARIANTS ExclusiveExecution
CHECK_DEADLOCK FALSE
