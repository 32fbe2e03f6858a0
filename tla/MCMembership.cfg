SPECIFICATION Spec
CONSTANTS
    old = old
    new = new
    d = d
    Replicas <- Boots
    Demands = {d}
    Implements <- Builds
    Fingerprint <- Settings
    Window = 2
    MaxWait = 1
    MaxFaults = 1
INVARIANTS NoExcludedLive JoinGate
