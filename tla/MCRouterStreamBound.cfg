SPECIFICATION Spec
CONSTANTS
    r1 = r1
    r2 = r2
    r3 = r3
    Requests = {r1, r2, r3}
    GroupOf <- TwoStable
    Strategy = "least_outstanding"
    MaxInflight = 1
    CacheSize = 1
    FallbackEnabled = TRUE
    Kinds = {"stream"}
    Keys = {0}
    Unhashable = {}
    Outcomes = {"text", "error"}
    HealthResults = {TRUE, FALSE}
    InitialWeights = {0}
    WeightInputs = {0}
    FailureThreshold = 2
    HalfOpenProbes = 2
SYMMETRY RequestSymmetry
INVARIANTS
    AdmissionBound
