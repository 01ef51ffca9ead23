SPECIFICATION FairSpec
CONSTANTS
    c1 = c1
    c2 = c2
    Calls = {c1, c2}
    MaxAttempts = 3
    BaseDelay = 1
    MaxDelay = 2
    RetryAfters = {1, 3}
    MayRaise = TRUE
    FailureThreshold = 2
    HalfOpenProbes = 2
INVARIANTS
    TypeOK
    RouterLoadBounded
    FallbackIsEarned
    RetryAfterHonoured
PROPERTIES
    BreakerFollowsDiagram
    EveryCallReturns
CHECK_DEADLOCK FALSE
