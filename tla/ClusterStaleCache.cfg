CONSTANTS
    r1 = r1
    r2 = r2
    a1 = a1
    a2 = a2
    Replicas = {r1, r2}
    Addons = {a1, a2}
    MaxMutations = 2
    MaxHealth = 0
    MaxFaults = 0
    MaxLookups = 1
SPECIFICATION Spec
INVARIANTS StaleNeverHit
CHECK_DEADLOCK FALSE
