SPECIFICATION Spec
CONSTANTS
    r1 = r1
    r2 = r2
    r3 = r3
    Requests = {r1, r2, r3}
    GroupOf <- TwoStableAndCanary
    Strategy = "prefix_hash"
    MaxInflight = 1
    CacheSize = 1
    FallbackEnabled = FALSE
    Kinds = {"plain", "stream"}
    Keys = {0, 1}
    Unhashable = {1}
    Outcomes = {"text", "empty", "malformed", "error"}
    HealthResults = {TRUE, FALSE}
    InitialWeights = {0, 120}
    WeightInputs = {0, 50, 110}
    FailureThreshold = 1
    HalfOpenProbes = 1
SYMMETRY RequestSymmetry
INVARIANTS
    TypeOK
    SlotAccounting
    LoadAccounting
    NoLostWakeup
PROPERTIES
    QueuesBehindGrant
