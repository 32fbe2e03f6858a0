CONSTANTS
    Attempts = {a1, a2, a3}
    FailureThreshold = 2
    RecoveryThreshold = 2
    HalfOpenMax = 2
    OpenTicks = 2
    FailureWindow = 2
    MaxTime = 4
SPECIFICATION CircuitFairSpec
INVARIANTS
    ProbeAccounting
    TripJustified
PROPERTIES CooldownAdvances HalfOpenDecided
