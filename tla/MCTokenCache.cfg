SPECIFICATION Spec
CONSTANTS
    c1 = c1
    c2 = c2
    s1 = s1
    s2 = s2
    s3 = s3
    alice = alice
    NoSlot = NoSlot
    NoKey = NoKey
    Calls = {c1, c2}
    Slots = {s1, s2, s3}
    Principals = {alice}
    Keys <- TwoConfigurations
    Capacity = 1
    MaxMints = 2
    MaxPurges = 1
INVARIANTS
    FreshAfterPurge
    PurgeComplete
    OneMintPerKey
    GenerationNamesToken
    NobodyStranded
SYMMETRY Alike
