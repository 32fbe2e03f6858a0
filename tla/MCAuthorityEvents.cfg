SPECIFICATION FairSpec
CONSTANTS
    p1 = p1
    p2 = p2
    d1 = d1
    d2 = d2
    Nobody = Nobody
    Producers <- TwoProducers
    Dispatchers <- TwoDispatchers
    Capacities = {2, 3}
    BatchSize = 2
    MaxEvents = 3
    MaxFence = 2
INVARIANTS NothingSkipped InOrder UnitsAccounted
PROPERTIES UndeliveredKept CursorAdvances LeaderCatchesUp KeepsLog
CHECK_DEADLOCK FALSE
