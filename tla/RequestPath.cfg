CONSTANTS
    n1 = n1
    n2 = n2
    q1 = q1
    q2 = q2
    q3 = q3
    g1 = g1
    g2 = g2
    ck1 = ck1
    ck2 = ck2
    ck3 = ck3
    BudgetProviders = {"p1", "p2"}
    LimitFor <- MCLimit
    DailyBudget = 4
    ProxyBudget = 2
    ChunkSizes = {0, 1, 2}
    MaxDay = 2
    MaxUnits = 5
    LimitKeys = {"k1", "k2"}
    Quota = 2
    Window = 2
    MaxTick = 4
    CacheKeys = {ck1, ck2, ck3}
    Askers = {"a1", "a2"}
    MaxEntries = 2
    Ttl = 0
    Swr = 1
    NoFlight = NoFlight
    NoKey = NoKey
    MaxTime = 2
    MaxFlights = 3
    MaxResets = 1
    Titles = {"t1", "t2"}
    Viewers = {"v1", "v2"}
    Identities = {"i1"}
    Unknown = Unknown
    MostTitles = 1
    PosTtl = 1
    NegTtl = 1
    FetchTime = 1
    MaxHour = 3
    MaxEdits = 1
    MaxClears = 1
    Fetches = {"f1", "f2"}
    Hostnames = {"h1", "h2", "h3"}
    Addresses = {"pub", "priv"}
    Blocked = {"priv"}
    PerHost = 1
    QueueMax = 1
    MaxTracked = 2
    MaxHops = 1
    FetchBudget = 1
    MaxFetchClock = 1
    MaxDnsChanges = 1
    BulkLookups = {"b1"}
    FastLookups = {"f1"}
    ProgressiveLookups = {"s1"}
    ByPriority <- MCByPriority
    StreamsOf <- MCStreams
    Refusable = {"u2"}
    StreamUrls = {"u1", "u2"}
    MaxProvidersPerRequest = 0
    Wave = 2
    FastWave = 2
    WeightPer = 1
    FastTarget = 1
    BulkLimit = 3
    ProgressiveLimit = 1
    Ranking = TRUE
    MaxStandings = 1
    VideoScore <- MCVideoScore
    Sizes = {0, 10, 40, 1000}
    Tags <- MCTags
    Wishes <- MCWishes
    NoTag = NoTag
    NoWish = NoWish
    MaxFiles = 2
    FaultLimit = 2
    Federations = {"q1", "q2"}
    Backends = {1, 2}
    Upstreams = {"u1", "u2"}
    BackendBudget = 1
    MaxFederations = 3
    Aggregations = {"q1"}
    SubAddons = {1, 2, 3}
    BatchOf = 2
    Brought <- MCBrought
    FallbackBrings <- MCFallback
    HearingPref = "avoid"
    ListedMost = 1
    MaxAggregations = 4
    PageReplicas = {"n1", "n2"}
    Browsers = {"b1", "b2"}
    PageBases = {"pa", "pb"}
    Metas = {"m1", "m2", "m3"}
    ListOf <- MCListOf
    HintOf <- MCHintOf
    NoId = NoId
    MaxItems = 2
    PageTtl = 1
    NoPage = NoPage
    NoHost = NoHost
    MaxPageEdits = 1
    MaxPageAsks = 2
    MaxPageFaults = 1
    MaxPageTime = 3
    Nodes = {n1, n2}
    Media = {q1, q2}
    Grants = {g1, g2}
    IpOf <- MCIpOf
    UserOf <- MCUserOf
    MaxPerIp = 1
    MaxPerUser = 0
    MaxGlobal = 2
    PoolLimit = 1
    MaxActive = 1
    MaxPerRequest = 1
    MaxRedirects = 1
    MaxStreamBytes = 1
    MaxSegments = 1
    MaxIssued = 1
    MaxMishaps = 2
SPECIFICATION PathSpec
INVARIANTS PathTypeOK LimitsHold CachesSound EgressSound LookupsSound PickSound FanOutSound ProxyAccounts
PROPERTIES LookupFinds
SYMMETRY PathSymmetry
CHECK_DEADLOCK FALSE
