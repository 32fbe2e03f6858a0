SPECIFICATION FairSpec
CONSTANTS
    r1 = r1
    r2 = r2
    e1 = e1
    e2 = e2
    NoEndpoint = NoEndpoint
    Requests = {r1, r2}
    Sse = {r2}
    Endpoints = {e1, e2}
    Checked = {e1}
    HealthyThreshold = 2
    UnhealthyThreshold = 2
    Pools <- SmallPools
    MaxAttempts = 2
INVARIANTS
    UpstreamLoadBounded
    RetriesBounded
    DrainIsClean
    OneVerdict
    TransitionsJustified
PROPERTY RequestsEnd
CHECK_DEADLOCK FALSE
