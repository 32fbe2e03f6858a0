SPECIFICATION FairSpec
CONSTANTS
    request = request
    other = other
    lifecycle = lifecycle
    NoEvent = NoEvent
    Events = {request, other, lifecycle}
    Required = {request}
    Control = {lifecycle}
    NormalCapacity = 1
    ControlReserve = 1
    BufferCapacity = 2
    BatchSize = 2
    BatchAttempts = 2
INVARIANTS
    NothingLostUncounted
    DrainTellsLoss
    StreamInOrder
PROPERTIES
    KeepsLedger
    EveryoneAnswered
CHECK_DEADLOCK FALSE
