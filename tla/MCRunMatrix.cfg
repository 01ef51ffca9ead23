SPECIFICATION Spec
CONSTANTS
    Matrix <- ThreeRuns
    EngineOf <- Engines
    Matched <- Prefixes
    Skipped = {}
INVARIANTS
    TypeOK
    SummaryComplete
    StatusTruthful
    OneServerAtATime
PROPERTIES
    MeasuredOnOwnServer
CHECK_DEADLOCK FALSE
