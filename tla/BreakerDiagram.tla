--------------------------- MODULE BreakerDiagram ---------------------------
(***************************************************************************)
(* What the circuit breaker promises, from the docstring of the class      *)
(* (platform/router/backend_pool.py:28-34), as a function of the outcomes  *)
(* of requests:                                                            *)
(*     CLOSED -> OPEN after `failure_threshold` consecutive failures,      *)
(*     OPEN -> HALF_OPEN after the open period,                            *)
(*     HALF_OPEN -> CLOSED after `half_open_probes` consecutive successes, *)
(*     HALF_OPEN -> OPEN immediately on any failure.                       *)
(* `run` is the length of the current run of failures (closed) or of       *)
(* successes (half open).  A request that was sent before the breaker      *)
(* opened and is answered while it is open changes neither.                *)
(***************************************************************************)
EXTENDS Integers

CONSTANTS FailureThreshold, HalfOpenProbes

VARIABLES state, run,
          failed      \* how many requests have failed so far

vars == <<state, run, failed>>

Init == state = "closed" /\ run = 0 /\ failed = 0

Failure ==
    /\ failed' = failed + 1
    /\ \/ /\ state = "closed"
          /\ IF run + 1 >= FailureThreshold
             THEN state' = "open"   /\ run' = 0
             ELSE state' = "closed" /\ run' = run + 1
       \/ state = "half_open" /\ state' = "open" /\ run' = 0
       \/ state = "open" /\ UNCHANGED <<state, run>>

Success ==
    /\ \/ state = "closed" /\ run' = 0 /\ UNCHANGED state
       \/ /\ state = "half_open"
          /\ IF run + 1 >= HalfOpenProbes
             THEN state' = "closed"    /\ run' = 0
             ELSE state' = "half_open" /\ run' = run + 1
    /\ UNCHANGED failed

HalfOpen ==
    /\ state = "open"
    /\ state' = "half_open"
    /\ run' = 0
    /\ UNCHANGED failed

Next == Failure \/ Success \/ HalfOpen

Spec == Init /\ [][Next]_vars

=============================================================================
