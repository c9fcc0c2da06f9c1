CONSTANTS
    c1 = c1
    c2 = c2
    c3 = c3
    c4 = c4
    c5 = c5
    Callers = {c1, c2, c3, c4, c5}
    Limit = 4
    MaxQueue = 3
    Requests = {0, 2, 3, 9}
    Priorities = {0, 1}
    Timed = {c1, c2, c3, c4, c5}
SYMMETRY CallerSymmetry
SPECIFICATION Spec
INVARIANTS
    TypeOK
    CapacityExact
    QueueSorted
    NoStrandedWaiter
    LoopsAgree
PROPERTIES
    ServedInOrder
    ReleaseServesHead
