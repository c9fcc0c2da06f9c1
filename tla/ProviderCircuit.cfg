CONSTANTS
    c1 = c1
    c2 = c2
    c3 = c3
    Calls = {c1, c2, c3}
    Ids = 2
    Limit = 2
    SupportsSubtitles = TRUE
    FailureThreshold = 2
    MaxFailures = 3
    OpenThreshold = 2
    MaxAborts = 1
    MaxForeign = 1
SPECIFICATION FairSpec
INVARIANTS TypeOK SlotsExact ProbeOnlyHalfOpen TrialHasRequest
PROPERTIES RequestEnds CircuitRecoversUnaborted
