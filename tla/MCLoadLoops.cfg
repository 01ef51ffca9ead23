SPECIFICATION Spec
CONSTANTS
    Modes = {"latency", "throughput", "open_loop", "trace"}
    Levels <- OneAndTwo
    Quota <- OneWarmupTwoMeasured
    MaxSubmitted <- FewRequests
    Times = {1, 3}
    Rates = {7, 100}
    Demands = {0, 98, 99}
    Costs <- Assumptions
    Precision = 1000
INVARIANTS
    TypeOK
    RequestsAccounted
    LevelsSeparate
    InflightExact
    PercentilesOrdered
    LostOnlyIfNothingServed
    PlanSuffices
CHECK_DEADLOCK FALSE
