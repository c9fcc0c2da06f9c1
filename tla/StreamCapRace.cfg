CONSTANTS
    n1 = n1
    n2 = n2
    q1 = q1
    q2 = q2
    q3 = q3
    g1 = g1
    g2 = g2
    Nodes = {n1}
    Media = {q1, q2, q3}
    Grants = {g1}
    IpOf <- MCIpOf
    UserOf <- MCUserOf
    MaxPerIp = 0
    MaxPerUser = 0
    MaxGlobal = 1
    PoolLimit = 1
    MaxActive = 1
    MaxPerRequest = 1
    MaxRedirects = 1
    MaxStreamBytes = 1
    MaxSegments = 1
    MaxIssued = 1
    MaxMishaps = 0
SPECIFICATION ProxySpec
INVARIANTS SharedCapHolds
SYMMETRY ProxySymmetry
CHECK_DEADLOCK FALSE
