------------------------------- MODULE Client -------------------------------
(***************************************************************************)
(* The client SDK (platform/client_sdk/onerec_client.py): concurrent calls *)
(* of OneRecClient.complete that share one circuit breaker, against a      *)
(* router that answers, rejects, fails, or keeps working on a request that *)
(* its client has given up.                                                *)
(*                                                                         *)
(* The calls are coroutines of one event loop: an action is the code       *)
(* between two awaits (post() and sleep()).  Time is counted in ticks for  *)
(* the sleeps; the open period of the breaker may pass at any moment.      *)
(***************************************************************************)
EXTENDS Integers, FiniteSets, CircuitBreaker

CONSTANTS
    Calls,         \* calls of complete() that the application makes
    MaxAttempts,   \* RetryPolicy.max_attempts
    BaseDelay,     \* RetryPolicy.base_delay_s, in ticks
    MaxDelay,      \* RetryPolicy.max_delay_s, in ticks
    RetryAfters,   \* Retry-After values of a 429, in ticks
    MayRaise       \* whether httpx raises anything but ConnectError and
                   \* TimeoutException, or a body or header is unreadable

ASSUME ClientAssumption ==
    /\ IsFiniteSet(Calls)
    /\ MaxAttempts \in Nat \ {0}
    /\ BaseDelay \in Nat
    /\ MaxDelay \in Nat
    /\ RetryAfters \subseteq Nat
    /\ MayRaise \in BOOLEAN

VARIABLES
    breaker,   \* OneRecClient.breaker
    call,      \* the coroutine of every call
    work,      \* requests of every call that the router is working on
    failed     \* attempts that have failed (refused, timed out, HTTP 5xx)

vars == <<breaker, call, work, failed>>

(* How a call returns: an answer of the router (a degraded one included),  *)
(* one of the two local fallbacks, an HTTP 4xx handed on, an exception.    *)
Results == {"none", "answered", "circuit_open", "retries_exhausted", "refused", "raised"}

(* `late` counts the posts made in an open period of the breaker; `asked`  *)
(* is what is left of the pause that the router has asked for.             *)
Call == [phase: {"idle", "posting", "sleeping", "done"},
         posts: 0..MaxAttempts, late: Nat,
         sleep: Nat, asked: Nat, result: Results]

TypeOK ==
    /\ breaker \in Breaker
    /\ call \in [Calls -> Call]
    /\ work \in [Calls -> Nat]
    /\ failed \in Nat

Init ==
    /\ breaker = NewBreaker
    /\ call = [c \in Calls |-> [phase |-> "idle", posts |-> 0, late |-> 0,
                                sleep |-> 0, asked |-> 0, result |-> "none"]]
    /\ work = [c \in Calls |-> 0]
    /\ failed = 0

-----------------------------------------------------------------------------
(* The SDK's own copy of the breaker is the state machine of               *)
(* CircuitBreaker, line by line.                                           *)
ReadState(k) == Polled(k)

Allowed(k) == AllowRequest(k)

NoteSuccess(k) == RecordSuccess(k)

(* Variant: a failure in half open starts a new run instead of reopening.  *)
NoteFailureLenient(k) ==
    IF k.state = "half_open"
    THEN [k EXCEPT !.state = "closed", !.failures = 1, !.successes = 0]
    ELSE RecordFailure(k)

NoteFailure(k) == RecordFailure(k)

Least(i, j) == IF i <= j THEN i ELSE j

Greatest(i, j) == IF i <= j THEN j ELSE i

(* Variant: a short jitter wins over the pause the router asked for. *)
DelaysJittered(attempt, asked) == 0..Least(MaxDelay, BaseDelay * 2 ^ attempt)

(* delay_for_attempt: full jitter under an exponential cap, and never less *)
(* than the Retry-After of the answer (0 if there is none).                *)
Delays(attempt, asked) ==
    {Greatest(jittered, asked) : jittered \in 0..Least(MaxDelay, BaseDelay * 2 ^ attempt)}

-----------------------------------------------------------------------------
Returned(q, result) == [q EXCEPT !.phase = "done", !.result = result, !.sleep = 0]

Shut(k) == k.state = "open" /\ ~k.cooled

(* A post, the breaker being k. *)
Posted(q, k) ==
    [q EXCEPT !.phase = "posting", !.posts = @ + 1,
              !.late = IF Shut(k) THEN @ + 1 ELSE @]

(* Variant: the breaker is not asked before the first attempt. *)
StartUnchecked(c) ==
    /\ call[c].phase = "idle"
    /\ call' = [call EXCEPT ![c] = Posted(@, breaker)]
    /\ work' = [work EXCEPT ![c] = @ + 1]
    /\ UNCHANGED <<breaker, failed>>

(* complete() asks the breaker once, before the first attempt. *)
Start(c) ==
    /\ call[c].phase = "idle"
    /\ breaker' = ReadState(breaker)
    /\ IF Allowed(breaker)
       THEN /\ call' = [call EXCEPT ![c] = Posted(@, breaker')]
            /\ work' = [work EXCEPT ![c] = @ + 1]
       ELSE /\ call' = [call EXCEPT ![c] = Returned(@, "circuit_open")]
            /\ UNCHANGED work
    /\ UNCHANGED failed

Waits(c, asked) ==
    \E d \in Delays(call[c].posts - 1, asked) :
        call' = [call EXCEPT ![c] =
                   [@ EXCEPT !.phase = "sleeping", !.sleep = d, !.asked = asked]]

(* The router has finished the request of this attempt. *)
Finishes(c) == work' = [work EXCEPT ![c] = @ - 1]

(* HTTP 200, the router's own degraded answers among them. *)
Answered(c) ==
    /\ call[c].phase = "posting"
    /\ call' = [call EXCEPT ![c] = Returned(@, "answered")]
    /\ breaker' = NoteSuccess(breaker)
    /\ Finishes(c)
    /\ UNCHANGED failed

(* Variant: a rejection by admission control is taken for a failure. *)
RejectedAsFailure(c) ==
    /\ call[c].phase = "posting"
    /\ \E pause \in RetryAfters : Waits(c, pause)
    /\ breaker' = NoteFailure(breaker)
    /\ Finishes(c)
    /\ UNCHANGED failed

(* HTTP 429: wait as asked and try again; no concern of the breaker. *)
Rejected(c) ==
    /\ call[c].phase = "posting"
    /\ \E pause \in RetryAfters : Waits(c, pause)
    /\ Finishes(c)
    /\ UNCHANGED <<breaker, failed>>

Fails(c) ==
    /\ call[c].phase = "posting"
    /\ Waits(c, 0)
    /\ breaker' = NoteFailure(breaker)
    /\ failed' = failed + 1

(* ConnectError, or HTTP 5xx: nothing is left running at the router. *)
Failure(c) == Fails(c) /\ Finishes(c)

(* TimeoutException: the router does not know, and works on. *)
TimedOut(c) == Fails(c) /\ UNCHANGED work

(* Another 4xx is the caller's mistake. *)
Refused(c) ==
    /\ call[c].phase = "posting"
    /\ call' = [call EXCEPT ![c] = Returned(@, "refused")]
    /\ Finishes(c)
    /\ UNCHANGED <<breaker, failed>>

(* What the try clause does not catch: another httpx error (the router may *)
(* work on), a Retry-After that is no number, or the body of a 200 that is *)
(* no JSON, which comes after the success was recorded.                    *)
Raises(c) ==
    /\ MayRaise
    /\ call[c].phase = "posting"
    /\ call' = [call EXCEPT ![c] = Returned(@, "raised")]
    /\ breaker' \in {breaker, NoteSuccess(breaker)}
    /\ Finishes(c) \/ (UNCHANGED work /\ breaker' = breaker)
    /\ UNCHANGED failed

(* Variant: one attempt too many. *)
WakeAgain(c) ==
    /\ call[c].phase = "sleeping"
    /\ call[c].sleep = 0
    /\ IF call[c].posts <= MaxAttempts
       THEN /\ call' = [call EXCEPT ![c] = Posted(@, breaker)]
            /\ work' = [work EXCEPT ![c] = @ + 1]
       ELSE /\ call' = [call EXCEPT ![c] = Returned(@, "retries_exhausted")]
            /\ UNCHANGED work
    /\ UNCHANGED <<breaker, failed>>

(* Variant: the loop waits until the breaker lets it through. *)
WakeWhenAllowed(c) ==
    /\ call[c].phase = "sleeping"
    /\ call[c].sleep = 0
    /\ ~Shut(breaker)
    /\ IF call[c].posts < MaxAttempts
       THEN /\ call' = [call EXCEPT ![c] = Posted(@, breaker)]
            /\ work' = [work EXCEPT ![c] = @ + 1]
       ELSE /\ call' = [call EXCEPT ![c] = Returned(@, "retries_exhausted")]
            /\ UNCHANGED work
    /\ UNCHANGED <<breaker, failed>>

(* The sleep is over.  The loop does not ask the breaker again. *)
Wake(c) ==
    /\ call[c].phase = "sleeping"
    /\ call[c].sleep = 0
    /\ IF call[c].posts < MaxAttempts
       THEN /\ call' = [call EXCEPT ![c] = Posted(@, breaker)]
            /\ work' = [work EXCEPT ![c] = @ + 1]
       ELSE /\ call' = [call EXCEPT ![c] = Returned(@, "retries_exhausted")]
            /\ UNCHANGED work
    /\ UNCHANGED <<breaker, failed>>

(* The router finishes a request whose client has timed out. *)
RouterFinishes(c) ==
    /\ work[c] > IF call[c].phase = "posting" THEN 1 ELSE 0
    /\ Finishes(c)
    /\ UNCHANGED <<breaker, call, failed>>

(* A tick passes for every sleeper. *)
Passed(i) == IF i > 0 THEN i - 1 ELSE 0

Tick ==
    /\ \E c \in Calls : call[c].sleep > 0
    /\ call' = [c \in Calls |-> [call[c] EXCEPT !.sleep = Passed(@), !.asked = Passed(@)]]
    /\ UNCHANGED <<breaker, work, failed>>

(* open_seconds have passed since the breaker was opened. *)
BreakerCools ==
    /\ breaker.state = "open"
    /\ ~breaker.cooled
    /\ breaker' = Cooled(breaker)
    /\ UNCHANGED <<call, work, failed>>

Next ==
    \/ \E c \in Calls :
          \/ Start(c) \/ Answered(c) \/ Rejected(c) \/ Failure(c) \/ TimedOut(c)
          \/ Refused(c) \/ Raises(c) \/ Wake(c) \/ RouterFinishes(c)
    \/ Tick \/ BreakerCools

(* post() has a timeout, and the event loop's clock advances. *)
Responds(c) ==
    \/ Answered(c) \/ Rejected(c) \/ Failure(c) \/ TimedOut(c)
    \/ Refused(c) \/ Raises(c)

Fairness ==
    /\ \A c \in Calls : WF_vars(Responds(c)) /\ WF_vars(Wake(c))
    /\ WF_vars(Tick)

Spec == Init /\ [][Next]_vars

FairSpec == Spec /\ Fairness
-----------------------------------------------------------------------------
(* What a call costs the router: it never works on more requests than the  *)
(* call has made attempts, timed-out ones that still run included, there   *)
(* are at most max_attempts of them, and only retries, never a first       *)
(* attempt, fall into an open period of the breaker                        *)
(* (onerec_client.py:134, 141-148).                                        *)
RouterLoadBounded ==
    \A c \in Calls :
        /\ work[c] <= call[c].posts
        /\ call[c].posts <= MaxAttempts
        /\ call[c].late <= MaxAttempts - 1

(* A local fallback has its reason: the circuit is open only if the router *)
(* has failed failure_threshold times (rejections and mistakes of callers  *)
(* do not add up to that), and retries are exhausted only after all of     *)
(* them (onerec_client.py:134-135, 157-173).                               *)
FallbackIsEarned ==
    \A c \in Calls :
        /\ call[c].result = "circuit_open" =>
              call[c].posts = 0 /\ failed >= FailureThreshold
        /\ call[c].result = "retries_exhausted" => call[c].posts = MaxAttempts

(* After a 429 the call does not come back "sooner than the server asked", *)
(* whatever the jitter and the cap of the backoff are                      *)
(* (onerec_client.py:92-100, 157-161).                                     *)
RetryAfterHonoured ==
    \A c \in Calls : call[c].phase \in {"posting", "done"} => call[c].asked = 0

(* The SDK's breaker follows the same diagram as the router's, for any     *)
(* overlap of calls (onerec_client.py:21-24, 47-83).                       *)
Diagram ==
    INSTANCE BreakerDiagram WITH
        state <- breaker.state,
        run <- CASE breaker.state = "closed"    -> breaker.failures
                 [] breaker.state = "half_open" -> breaker.successes
                 [] OTHER                       -> 0

BreakerFollowsDiagram == Diagram!Spec

(* Every call returns, although sleeps are drawn at random and other calls *)
(* open the breaker meanwhile (onerec_client.py:133-173).                  *)
EveryCallReturns ==
    \A c \in Calls : call[c].phase # "idle" ~> call[c].phase = "done"

=============================================================================
