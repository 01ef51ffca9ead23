SPECIFICATION FairSpec
CONSTANTS
    r1 = r1
    r2 = r2
    r3 = r3
    Requests = {r1, r2, r3}
    GroupOf <- TwoStable
    Strategy = "round_robin"
    MaxInflight = 1
    CacheSize = 1
    FallbackEnabled = TRUE
    Kinds = {"plain", "stream"}
    Keys = {0, 1}
    Unhashable = {1}
    Outcomes = {"text", "error"}
    HealthResults = {TRUE}
    InitialWeights = {0}
    WeightInputs = {0}
    FailureThreshold = 2
    HalfOpenProbes = 2
INVARIANTS
    RoundRobinEven
PROPERTIES
    EveryRequestAnswered
    BreakerRecovers
