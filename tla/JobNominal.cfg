CONSTANTS
    w1 = w1
    w2 = w2
    w3 = w3
    Nobody = Nobody
    MaxJobs = 1
    MaxAttempts = 2
    MaxTries = 4
    MaxKicks = 1
    MaxFaults = 0
    Workers = {w1, w2, w3}
    Concurrency = 2
    Priorities = {0}
    Immortal = {}
    Drainable = {}
    CancelFrom = {"queued"}
    FaultKinds = {}
SPECIFICATION Spec
INVARIANTS OwnerRuns
PROPERTIES KeepsLifecycle
SYMMETRY WorkerSymmetry
CHECK_DEADLOCK FALSE
