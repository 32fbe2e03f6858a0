SPECIFICATION FairSpec
CONSTANTS
    p1 = p1
    p2 = p2
    p3 = p3
    r1 = r1
    r2 = r2
    l1 = l1
    l2 = l2
    NoLimiter = NoLimiter
    NoReplica = NoReplica
    Invocations = {p1, p2, p3}
    Replicas = {r1, r2}
    Entries <- Spread
    Limiters = {l1, l2}
    Limits = {1, 2}
    MaxQueue = 2
    MaxGlobal = 2
INVARIANTS
    ClusterBound
    PermitsAccounted
    OneLimiter
PROPERTIES
    EveryoneServed
CHECK_DEADLOCK FALSE
