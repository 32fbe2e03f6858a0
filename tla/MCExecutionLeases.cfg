CONSTANTS
    p1 = p1
    p2 = p2
    r1 = r1
    r2 = r2
    Invocations = {p1, p2}
    Replica <- OneReplica
    Capacity = 1
    TTL = 7
    CallBounds = {1, 3}
    MaxTime = 15
    MaxFence = 3
SPECIFICATION Spec
INVARIANTS
    StopsWhenTimely
PROPERTIES
    KeepsScope
    LiveLeaseKept
CHECK_DEADLOCK FALSE
