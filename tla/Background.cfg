CONSTANTS
    r1 = r1
    r2 = r2
    a1 = a1
    a2 = a2
    Hosts = {"h1", "h2"}
    Schedulers = {"c1", "c2", "c3"}
    HostOf <- MCHostOf
    KindOf <- MCKindOf
    Unlocked = Unlocked
    MaxTurns = 1
    MaxTroubles = 2
    Pollers = {"h1", "h2"}
    OutboxRows = {"o1", "o2"}
    Handled = {"o1"}
    NoRow = NoRow
    MaxMisses = 2
    ImportHosts = {"h1", "h2"}
    Importers = {"c1", "c2"}
    IdemKeys = {"k1"}
    NoJob = NoJob
    ListLength = 2
    MaxImports = 2
    MaxReplyLosses = 1
    StreamAddons = {"a", "b"}
    MonitorSweeps = {"m1", "m2"}
    JobSweeps = {"j1"}
    HealthLimit = 2
    JobBatch = 2
    MinRatioPct = 67
    MaxUpsets = 2
    TorrentLookups = {"l1", "l2"}
    Transfers = {"t1"}
    NoLink = NoLink
    UserLimit = 1
    MaxAttempts = 2
    MaxReconfigs = 1
    MaxTransferPolls = 1
    Clients = {"c1", "c2"}
    Leases = {"j1"}
    DrainsJobs = TRUE
    Grace = 4
    DrainTime = 2
    DrainCap = 3
    MaxClock = 4
    Urls = {"a", "b"}
    MinTrusted = TRUE
    NoRevision = NoRevision
    NewTimeout = 1
    MaxRequests = 3
    MaxOutside = 1
    Rows = {"r1", "r2", "r3"}
    MaxCalls = 3
    MaxForeign = 1
    MaxCuts = 1
    Replicas = {r1, r2}
    Addons = {a1, a2}
    MaxMutations = 2
    MaxHealth = 1
    MaxFaults = 1
    MaxLookups = 1
    Writers = {"w1", "w2"}
    StoredAddons = {"a", "b"}
    StoredGrants = {"g"}
    MaxWrites = 3
    MaxDiskFaults = 1
    MaxDeaths = 1
    Connections = {"p1", "p2"}
    PgAddons = {"a", "b"}
    NoVersion = NoVersion
    MaxCommits = 4
    MaxBreaks = 1
    Starters = {"s1", "s2", "s3"}
    Versions = {1, 2}
    Statements = 2
    MaxBootDeaths = 2
    Operators = {"o1", "o2", "o3"}
    OperatorKinds = {"config", "quarantine", "release"}
    FailClosed = TRUE
    MemoryCap = 2
    MaxAuditFaults = 1
SPECIFICATION BackgroundSpec
INVARIANTS BackgroundTypeOK WorkOnce StorageOutlivesWork NothingLeftBehind HealthSound CatalogSound ShownIsTrue ClusterSound StoresSound
PROPERTIES RevisionMonotone
SYMMETRY ClusterSymmetry
CHECK_DEADLOCK FALSE
