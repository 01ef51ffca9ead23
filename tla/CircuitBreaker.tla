--------------------------- MODULE CircuitBreaker ---------------------------
(***************************************************************************)
(* The router's failure-count circuit breaker, one record per backend      *)
(* (platform/router/backend_pool.py, class CircuitBreaker).                *)
(*                                                                         *)
(* Every method is an operator from a breaker record to a breaker record,  *)
(* so that a handler that calls several of them composes them.  The clock  *)
(* is abstracted to one bit: `cooled` says that open_seconds have passed   *)
(* since _opened_at.  It is kept FALSE while the breaker is not open.      *)
(***************************************************************************)
EXTENDS Integers

CONSTANTS FailureThreshold,    \* settings.breaker_failure_threshold
          HalfOpenProbes       \* settings.breaker_half_open_probes

ASSUME BreakerAssumption ==
    /\ FailureThreshold \in Nat \ {0}
    /\ HalfOpenProbes \in Nat \ {0}

BreakerStates == {"closed", "open", "half_open"}

Breaker == [state: BreakerStates, failures: Nat, successes: Nat, cooled: BOOLEAN]

NewBreaker ==
    [state |-> "closed", failures |-> 0, successes |-> 0, cooled |-> FALSE]

(* Variant: the state is compared but never moved. *)
PolledIdle(k) == k

(* The `state` property: reading it is what moves OPEN to HALF_OPEN, so    *)
(* every reader (routing, /status, /metrics, /readyz) is also a writer.    *)
Polled(k) ==
    IF k.state = "open" /\ k.cooled
    THEN [k EXCEPT !.state = "half_open", !.successes = 0, !.cooled = FALSE]
    ELSE k

AllowRequest(k) == Polled(k).state \in {"closed", "half_open"}

(* open_seconds have passed since the breaker was last opened. *)
Cooled(k) == [k EXCEPT !.cooled = TRUE]

(* Variant: failures add up although successes come between them. *)
RecordSuccessForgetful(k) ==
    IF k.state = "half_open"
    THEN [k EXCEPT !.successes = @ + 1,
                   !.state = IF k.successes + 1 >= HalfOpenProbes
                             THEN "closed" ELSE "half_open"]
    ELSE k

RecordSuccess(k) ==
    IF k.state = "half_open"
    THEN [k EXCEPT !.failures  = 0,
                   !.successes = @ + 1,
                   !.state = IF k.successes + 1 >= HalfOpenProbes
                             THEN "closed" ELSE "half_open"]
    ELSE [k EXCEPT !.failures = 0]

(* Opening an open breaker again restarts its open period: a late failure  *)
(* of a request sent before the breaker opened does exactly that.          *)
Reopened(k) == [k EXCEPT !.state = "open", !.successes = 0, !.cooled = FALSE]

RecordFailure(k) ==
    IF k.state = "half_open" THEN Reopened(k)
    ELSE IF k.failures + 1 >= FailureThreshold
         THEN [Reopened(k) EXCEPT !.failures = @ + 1]
         ELSE [k EXCEPT !.failures = @ + 1, !.successes = 0]

=============================================================================
