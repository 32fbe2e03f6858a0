SPECIFICATION Spec
CONSTANTS
    a = a
    g1 = g1
    g2 = g2
    w1 = w1
    Nobody = Nobody
    Records <- OneRecord
    Gates <- TwoGates
    Writers <- OneWriter
    MaxRevision = 3
SYMMETRY Symmetry
INVARIANTS BundleIsCut
PROPERTIES AdmittedFresh NeverBack
