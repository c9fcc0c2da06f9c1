CONSTANTS
    c1 = c1
    c2 = c2
    c3 = c3
    Calls = {c1}
    Ids = 1
    Limit = 1
    SupportsSubtitles = TRUE
    FailureThreshold = 1
    MaxFailures = 2
    OpenThreshold = 2
    MaxAborts = 1
    MaxForeign = 0
SPECIFICATION FairSpec
PROPERTIES CircuitRecovers
