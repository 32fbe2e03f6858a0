SPECIFICATION Spec
CONSTANTS
    a = a
    g1 = g1
    g2 = g2
    w1 = w1
    Nobody = Nobody
    Records <- OneRecord
    Gates <- OneGate
    Writers <- OneWriter
    MaxRevision = 3
INVARIANT CombinationHeld
