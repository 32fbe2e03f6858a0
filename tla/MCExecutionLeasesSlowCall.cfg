CONSTANTS
    p1 = p1
    p2 = p2
    r1 = r1
    r2 = r2
    Invocations = {p1, p2}
    Replica <- TwoReplicas
    Capacity = 1
    TTL = 7
    CallBounds = {3}
    MaxTime = 16
    MaxFence = 3
SPECIFICATION Spec
INVARIANT StopsBeforeReclaim
CHECK_DEADLOCK FALSE
