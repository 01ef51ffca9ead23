------------------------ MODULE CircuitBreakerProofs ------------------------
(***************************************************************************)
(* What the operations of a breaker do to its record, and that they are    *)
(* the steps of BreakerDiagram.                                            *)
(***************************************************************************)
EXTENDS CircuitBreaker, TLAPS

LEMMA BreakerTypes ==
    ASSUME NEW k \in Breaker
    PROVE  /\ Polled(k) \in Breaker
           /\ Cooled(k) \in Breaker
           /\ RecordSuccess(k) \in Breaker
           /\ RecordFailure(k) \in Breaker
<1>1. Polled(k) \in Breaker
  BY DEF Polled, Breaker, BreakerStates
<1>2. Cooled(k) \in Breaker
  BY DEF Cooled, Breaker, BreakerStates
<1>3. RecordSuccess(k) \in Breaker
  <2> DEFINE f == [k EXCEPT !.failures = 0]
             s == [f EXCEPT !.successes = k.successes + 1]
             state == IF k.successes + 1 >= HalfOpenProbes THEN "closed" ELSE "half_open"
  <2>1. f \in Breaker /\ k.successes + 1 \in Nat /\ state \in BreakerStates
    BY DEF Breaker, BreakerStates
  <2>2. RecordSuccess(k) = IF k.state = "half_open" THEN [s EXCEPT !.state = state] ELSE f
    BY DEF RecordSuccess
  <2> HIDE DEF f, state
  <2>3. s \in Breaker
    BY <2>1 DEF Breaker
  <2> HIDE DEF s
  <2>4. [s EXCEPT !.state = state] \in Breaker
    BY <2>1, <2>3 DEF Breaker
  <2> QED BY <2>1, <2>2, <2>4
<1>4. Reopened(k) \in Breaker
  BY DEF Reopened, Breaker, BreakerStates
<1>5. [Reopened(k) EXCEPT !.failures = @ + 1] \in Breaker
  BY <1>4 DEF Breaker
<1>6. [k EXCEPT !.failures = @ + 1, !.successes = 0] \in Breaker
  <2> DEFINE f == [k EXCEPT !.failures = @ + 1]
  <2>1. f \in Breaker
    BY DEF Breaker
  <2> HIDE DEF f
  <2>2. [f EXCEPT !.successes = 0] \in Breaker
    BY <2>1 DEF Breaker
  <2> QED BY <2>2 DEF f
<1>7. RecordFailure(k) \in Breaker
  BY <1>4, <1>5, <1>6, Zenon DEF RecordFailure
<1> QED BY <1>1, <1>2, <1>3, <1>7

(* What a breaker has counted in its present state: failures while it is   *)
(* closed, successes while it is half open.                                *)
RunOf(k) ==
    CASE k.state = "closed"    -> k.failures
      [] k.state = "half_open" -> k.successes
      [] OTHER                 -> 0

LEMMA BreakerFields ==
    ASSUME NEW k \in Breaker
    PROVE  /\ k.state \in {"closed", "open", "half_open"}
           /\ k.failures \in Nat /\ k.successes \in Nat
           /\ FailureThreshold \in Nat \ {0} /\ HalfOpenProbes \in Nat \ {0}
  BY BreakerAssumption DEF Breaker, BreakerStates

(* Reading the state is no step, or the end of the open period.            *)
LEMMA PolledRun ==
    ASSUME NEW k \in Breaker
    PROVE  \/ Polled(k) = k
           \/ k.state = "open" /\ Polled(k).state = "half_open" /\ RunOf(Polled(k)) = 0
  BY DEF Polled, RunOf, Breaker

(* A success. *)
LEMMA SuccessRun ==
    ASSUME NEW k \in Breaker
    PROVE  LET x == RecordSuccess(k)
           IN  \/ k.state = "closed" /\ x.state = "closed" /\ RunOf(x) = 0
               \/ k.state = "open" /\ x.state = "open" /\ RunOf(x) = 0
               \/ /\ k.state = "half_open"
                  /\ IF RunOf(k) + 1 >= HalfOpenProbes
                     THEN x.state = "closed" /\ RunOf(x) = 0
                     ELSE x.state = "half_open" /\ RunOf(x) = RunOf(k) + 1
  <1> DEFINE f == [k EXCEPT !.failures = 0]
             s == [f EXCEPT !.successes = k.successes + 1]
             state == IF k.successes + 1 >= HalfOpenProbes THEN "closed" ELSE "half_open"
             x == [s EXCEPT !.state = state]
  <1>1. f.state = k.state /\ f.failures = 0 /\ f \in Breaker
    BY DEF Breaker
  <1>2. RecordSuccess(k) = IF k.state = "half_open" THEN x ELSE f
    BY DEF RecordSuccess
  <1> HIDE DEF f
  <1>3. s.failures = 0 /\ s.successes = k.successes + 1 /\ s \in Breaker
    BY <1>1, BreakerFields DEF Breaker
  <1> HIDE DEF s
  <1>4. x.failures = 0 /\ x.successes = k.successes + 1 /\ x.state = state
    BY <1>3 DEF Breaker
  <1> HIDE DEF x
  <1>5. CASE k.state = "half_open"
    BY <1>2, <1>4, <1>5 DEF RunOf
  <1>6. CASE k.state # "half_open"
    BY <1>1, <1>2, <1>6, BreakerFields DEF RunOf
  <1> QED
    BY <1>5, <1>6

(* A failure. *)
LEMMA FailureRun ==
    ASSUME NEW k \in Breaker
    PROVE  LET x == RecordFailure(k)
           IN  \/ /\ k.state = "closed"
                  /\ IF RunOf(k) + 1 >= FailureThreshold
                     THEN x.state = "open" /\ RunOf(x) = 0
                     ELSE x.state = "closed" /\ RunOf(x) = RunOf(k) + 1
               \/ k.state # "closed" /\ x.state = "open" /\ RunOf(x) = 0
  <1> DEFINE r == Reopened(k)
             o == [r EXCEPT !.failures = r.failures + 1]
             f == [k EXCEPT !.failures = k.failures + 1]
             g == [f EXCEPT !.successes = 0]
  <1>1. r.state = "open" /\ r \in Breaker
    BY DEF Reopened, Breaker, BreakerStates
  <1> HIDE DEF r
  <1>2. o.state = "open"
    BY <1>1 DEF Breaker
  <1>3. f.state = k.state /\ f.failures = k.failures + 1 /\ f \in Breaker
    BY BreakerFields DEF Breaker
  <1> HIDE DEF f
  <1>4. g.state = k.state /\ g.failures = k.failures + 1
    BY <1>3 DEF Breaker
  <1>5. RecordFailure(k) = IF k.state = "half_open" THEN r
                           ELSE IF k.failures + 1 >= FailureThreshold THEN o ELSE g
    BY DEF RecordFailure, r, f
  <1> HIDE DEF o, g
  <1> QED
    BY <1>1, <1>2, <1>4, <1>5, BreakerFields DEF RunOf

=============================================================================
