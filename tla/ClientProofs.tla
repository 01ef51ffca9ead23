---------------------------- MODULE ClientProofs ----------------------------
(***************************************************************************)
(* The client SDK for any calls, policy and breaker: types, what a call    *)
(* costs the router, why it falls back, the pause after a 429, and that    *)
(* the shared breaker implements its diagram.                              *)
(***************************************************************************)
EXTENDS Client, CircuitBreakerProofs

-----------------------------------------------------------------------------
(* One call, with w requests at the router.                                *)
CallOk(q, w) ==
    /\ q \in Call
    /\ w \in Nat
    /\ q.phase = "idle" => q.posts = 0
    /\ q.phase \in {"posting", "sleeping"} => q.posts >= 1
    /\ q.late <= IF q.posts = 0 THEN 0 ELSE q.posts - 1
    /\ q.phase = "posting" => w >= 1
    /\ w <= q.posts
    /\ q.asked <= IF q.phase = "sleeping" THEN q.sleep ELSE 0
    /\ q.phase # "done" => q.result = "none"
    /\ q.result = "circuit_open" => q.posts = 0
    /\ q.result = "retries_exhausted" => q.posts = MaxAttempts

(* The router has failed as often as the breaker has counted. *)
BreakerOk ==
    /\ breaker \in Breaker
    /\ failed \in Nat
    /\ IF breaker.state = "closed" THEN RunOf(breaker) <= failed
                                   ELSE FailureThreshold <= failed
    /\ \A c \in Calls : call[c].result = "circuit_open" => FailureThreshold <= failed

LEMMA CallFields ==
    ASSUME NEW q \in Call
    PROVE  /\ q.phase \in {"idle", "posting", "sleeping", "done"}
           /\ q.posts \in 0..MaxAttempts /\ q.late \in Nat
           /\ q.sleep \in Nat /\ q.asked \in Nat /\ q.result \in Results
           /\ MaxAttempts \in Nat \ {0}
  BY ClientAssumption DEF Call

LEMMA PostedFields ==
    ASSUME NEW q \in Call, NEW k, q.posts < MaxAttempts
    PROVE  /\ Posted(q, k) \in Call
           /\ Posted(q, k).phase = "posting"
           /\ Posted(q, k).posts = q.posts + 1
           /\ Posted(q, k).late = IF Shut(k) THEN q.late + 1 ELSE q.late
           /\ Posted(q, k).sleep = q.sleep
           /\ Posted(q, k).asked = q.asked
           /\ Posted(q, k).result = q.result
  <1> DEFINE late == IF Shut(k) THEN q.late + 1 ELSE q.late
             p1 == [q EXCEPT !.phase = "posting"]
             p2 == [p1 EXCEPT !.posts = q.posts + 1]
             p3 == [p2 EXCEPT !.late = late]
  <1>0. q.posts + 1 \in 0..MaxAttempts /\ late \in Nat
    BY CallFields
  <1>1. Posted(q, k) = p3
    BY DEF Posted
  <1> HIDE DEF late
  <1>2. /\ p1 \in Call /\ p1.phase = "posting" /\ p1.posts = q.posts /\ p1.late = q.late
        /\ p1.sleep = q.sleep /\ p1.asked = q.asked /\ p1.result = q.result
    BY DEF Call
  <1> HIDE DEF p1
  <1>3. /\ p2 \in Call /\ p2.phase = "posting" /\ p2.posts = q.posts + 1
        /\ p2.late = q.late
        /\ p2.sleep = q.sleep /\ p2.asked = q.asked /\ p2.result = q.result
    BY <1>0, <1>2 DEF Call
  <1> HIDE DEF p2
  <1>4. /\ p3 \in Call /\ p3.phase = "posting" /\ p3.posts = q.posts + 1
        /\ p3.late = late
        /\ p3.sleep = q.sleep /\ p3.asked = q.asked /\ p3.result = q.result
    BY <1>0, <1>3 DEF Call
  <1> QED
    BY <1>1, <1>4 DEF late

(* A post goes out: the first attempt past a breaker that is not shut, or  *)
(* a later one once the sleep is over.                                     *)
LEMMA PostedOk ==
    ASSUME NEW q, NEW w, NEW k, CallOk(q, w), q.posts < MaxAttempts,
           \/ q.phase = "idle" /\ ~Shut(k)
           \/ q.phase = "sleeping" /\ q.sleep = 0
    PROVE  CallOk(Posted(q, k), w + 1)
  <1>1. q \in Call
    BY DEF CallOk
  <1>2. Posted(q, k).result = "none"
    BY <1>1, PostedFields DEF CallOk
  <1> QED
    BY <1>1, <1>2, CallFields, PostedFields DEF CallOk

(* A call returns. *)
LEMMA ReturnedOk ==
    ASSUME NEW q, NEW w, NEW v \in Nat, NEW result \in Results, CallOk(q, w), v <= w,
           q.phase = "sleeping" => q.sleep = 0,
           result = "circuit_open" => q.phase = "idle",
           result = "retries_exhausted" => q.posts = MaxAttempts
    PROVE  CallOk(Returned(q, result), v)
  <1> DEFINE p1 == [q EXCEPT !.phase = "done"]
             p2 == [p1 EXCEPT !.result = result]
             p3 == [p2 EXCEPT !.sleep = 0]
  <1>0. q \in Call
    BY DEF CallOk
  <1>1. Returned(q, result) = p3
    BY DEF Returned
  <1>2. /\ p1 \in Call /\ p1.phase = "done" /\ p1.posts = q.posts /\ p1.late = q.late
        /\ p1.sleep = q.sleep /\ p1.asked = q.asked /\ p1.result = q.result
    BY <1>0 DEF Call
  <1> HIDE DEF p1
  <1>3. /\ p2 \in Call /\ p2.phase = "done" /\ p2.posts = q.posts /\ p2.late = q.late
        /\ p2.sleep = q.sleep /\ p2.asked = q.asked /\ p2.result = result
    BY <1>2 DEF Call
  <1> HIDE DEF p2
  <1>4. /\ p3 \in Call /\ p3.phase = "done" /\ p3.posts = q.posts /\ p3.late = q.late
        /\ p3.asked = q.asked /\ p3.result = result
    BY <1>3 DEF Call
  <1> HIDE DEF p3
  <1>5. q.asked = 0
    BY <1>0, CallFields DEF CallOk
  <1> QED
    BY <1>0, <1>1, <1>4, <1>5, CallFields DEF CallOk

(* delay_for_attempt is never shorter than what was asked for.             *)
LEMMA DelayLongEnough ==
    ASSUME NEW attempt, NEW asked \in Nat, NEW d \in Delays(attempt, asked)
    PROVE  d \in Nat /\ asked <= d
  <1> DEFINE cap == Least(MaxDelay, BaseDelay * 2 ^ attempt)
  <1> HIDE DEF cap
  <1>1. PICK jittered \in 0..cap : d = Greatest(jittered, asked)
    BY DEF Delays, cap
  <1>2. jittered \in Nat
    BY <1>1
  <1> QED
    BY <1>1, <1>2 DEF Greatest

(* A call sleeps before its next attempt. *)
LEMMA AsleepOk ==
    ASSUME NEW q, NEW w, NEW v \in Nat, NEW d \in Nat, NEW asked \in Nat,
           CallOk(q, w), v <= w, q.phase = "posting", asked <= d
    PROVE  CallOk([q EXCEPT !.phase = "sleeping", !.sleep = d, !.asked = asked], v)
  <1> DEFINE p1 == [q EXCEPT !.phase = "sleeping"]
             p2 == [p1 EXCEPT !.sleep = d]
             p3 == [p2 EXCEPT !.asked = asked]
  <1>0. q \in Call /\ q.result = "none"
    BY DEF CallOk
  <1>1. /\ p1 \in Call /\ p1.phase = "sleeping" /\ p1.posts = q.posts /\ p1.late = q.late
        /\ p1.result = q.result
    BY <1>0 DEF Call
  <1> HIDE DEF p1
  <1>2. /\ p2 \in Call /\ p2.phase = "sleeping" /\ p2.posts = q.posts /\ p2.late = q.late
        /\ p2.sleep = d /\ p2.result = q.result
    BY <1>1 DEF Call
  <1> HIDE DEF p2
  <1>3. /\ p3 \in Call /\ p3.phase = "sleeping" /\ p3.posts = q.posts /\ p3.late = q.late
        /\ p3.sleep = d /\ p3.asked = asked /\ p3.result = q.result
    BY <1>2 DEF Call
  <1> HIDE DEF p3
  <1>4. CallOk(p3, v)
    BY <1>0, <1>3, CallFields DEF CallOk
  <1> QED
    BY <1>4 DEF p3, p2, p1

(* A tick passes. *)
LEMMA TickedOk ==
    ASSUME NEW q, NEW w, CallOk(q, w)
    PROVE  LET x == [q EXCEPT !.sleep = Passed(@), !.asked = Passed(@)]
           IN  CallOk(x, w) /\ x.result = q.result
  <1> DEFINE p1 == [q EXCEPT !.sleep = Passed(q.sleep)]
             p2 == [p1 EXCEPT !.asked = Passed(q.asked)]
  <1>0. q \in Call /\ Passed(q.sleep) \in Nat /\ Passed(q.asked) \in Nat
    BY CallFields DEF CallOk, Passed
  <1>1. /\ p1 \in Call /\ p1.phase = q.phase /\ p1.posts = q.posts /\ p1.late = q.late
        /\ p1.result = q.result /\ p1.sleep = Passed(q.sleep) /\ p1.asked = q.asked
    BY <1>0 DEF Call
  <1>2. [q EXCEPT !.sleep = Passed(@), !.asked = Passed(@)] = p2
    BY <1>0 DEF Call
  <1> HIDE DEF p1
  <1>3. /\ p2 \in Call /\ p2.phase = q.phase /\ p2.posts = q.posts /\ p2.late = q.late
        /\ p2.result = q.result /\ p2.sleep = Passed(q.sleep) /\ p2.asked = Passed(q.asked)
    BY <1>0, <1>1 DEF Call
  <1> HIDE DEF p2
  <1>4. Passed(q.asked) <= IF q.phase = "sleeping" THEN Passed(q.sleep) ELSE 0
    BY <1>0, CallFields DEF CallOk, Passed
  <1>5. CallOk(p2, w)
    BY <1>3, <1>4 DEF CallOk
  <1> QED
    BY <1>2, <1>3, <1>5

-----------------------------------------------------------------------------
(* All calls. *)

CallsOk ==
    /\ call \in [Calls -> Call]
    /\ work \in [Calls -> Nat]
    /\ \A c \in Calls : CallOk(call[c], work[c])

(* One call moves; its requests at the router become v.                    *)
LEMMA CallMoves ==
    ASSUME CallsOk, NEW c \in Calls, NEW x, NEW v, CallOk(x, v),
           call' = [call EXCEPT ![c] = x],
           work' = [work EXCEPT ![c] = v]
    PROVE  CallsOk'
  <1>1. x \in Call /\ v \in Nat
    BY DEF CallOk
  <1>2. call' \in [Calls -> Call] /\ work' \in [Calls -> Nat]
    BY <1>1 DEF CallsOk
  <1>3. ASSUME NEW d \in Calls PROVE CallOk(call'[d], work'[d])
    <2>1. CASE d = c
      BY <2>1 DEF CallsOk
    <2>2. CASE d # c
      <3>1. call'[d] = call[d] /\ work'[d] = work[d]
        BY <2>2 DEF CallsOk
      <3> QED
        BY <3>1 DEF CallsOk
    <2> QED
      BY <2>1, <2>2
  <1>4. ASSUME NEW d \in Calls PROVE CallOk(call[d], work[d])'
    BY <1>3 DEF CallOk
  <1> QED
    BY <1>2, <1>4 DEF CallsOk

(* The breaker takes what the steps of its operations are, and `failed`    *)
(* counts the failures.                                                    *)
LEMMA BreakerMoves ==
    ASSUME BreakerOk, CallsOk, NEW c \in Calls, NEW x,
           call' = [call EXCEPT ![c] = x],
           \/ breaker' \in {breaker, Polled(breaker), RecordSuccess(breaker)}
              /\ failed' = failed
           \/ breaker' = RecordFailure(breaker) /\ failed' = failed + 1,
           x.result = "circuit_open" => FailureThreshold <= failed'
    PROVE  BreakerOk'
  <1>1. breaker \in Breaker /\ failed \in Nat /\ FailureThreshold \in Nat \ {0}
    BY BreakerFields DEF BreakerOk
  <1>2. breaker' \in Breaker /\ failed' \in Nat /\ failed <= failed'
    BY <1>1, BreakerTypes
  <1>3. ASSUME NEW d \in Calls, call'[d].result = "circuit_open"
        PROVE  FailureThreshold <= failed'
    <2>1. CASE d = c
      BY <1>3, <2>1 DEF CallsOk
    <2>2. CASE d # c
      <3>1. call'[d] = call[d]
        BY <2>2 DEF CallsOk
      <3> QED
        BY <1>1, <1>2, <1>3, <3>1 DEF BreakerOk
    <2> QED
      BY <2>1, <2>2
  <1>4. RunOf(breaker) \in Nat /\ RunOf(breaker') \in Nat
    BY <1>1, <1>2, BreakerFields DEF RunOf
  <1>5. IF breaker'.state = "closed" THEN RunOf(breaker') <= failed'
                                     ELSE FailureThreshold <= failed'
    <2>1. CASE breaker' = breaker /\ failed' = failed
      BY <2>1 DEF BreakerOk
    <2>2. CASE breaker' = Polled(breaker) /\ failed' = failed
      BY <1>1, <2>2, PolledRun DEF BreakerOk
    <2>3. CASE breaker' = RecordSuccess(breaker) /\ failed' = failed
      BY <1>1, <1>4, <2>3, SuccessRun DEF BreakerOk
    <2>4. CASE breaker' = RecordFailure(breaker) /\ failed' = failed + 1
      BY <1>1, <1>4, <2>4, FailureRun DEF BreakerOk
    <2> QED
      BY <2>1, <2>2, <2>3, <2>4
  <1>6. IF breaker.state = "closed" THEN RunOf(breaker) <= failed
                                    ELSE FailureThreshold <= failed
    BY DEF BreakerOk
  <1>7. (RunOf(breaker) <= failed)' <=> RunOf(breaker') <= failed'
    BY DEF RunOf
  <1> QED
    BY <1>2, <1>3, <1>5, <1>7 DEF BreakerOk

(* Where a call is. *)
LEMMA CallIs ==
    ASSUME CallsOk, NEW c \in Calls
    PROVE  /\ CallOk(call[c], work[c])
           /\ call[c] \in Call /\ work[c] \in Nat
  BY DEF CallsOk

LEMMA InitInv == Init => CallsOk /\ BreakerOk
  <1> SUFFICES ASSUME Init PROVE CallsOk /\ BreakerOk
    OBVIOUS
  <1> DEFINE q == [phase |-> "idle", posts |-> 0, late |-> 0,
                   sleep |-> 0, asked |-> 0, result |-> "none"]
  <1>1. q \in Call
    BY ClientAssumption DEF Call, Results
  <1>2. CallOk(q, 0)
    BY <1>1 DEF CallOk
  <1>3. call = [c \in Calls |-> q] /\ work = [c \in Calls |-> 0]
    BY DEF Init
  <1>4. q.result = "none"
    OBVIOUS
  <1> HIDE DEF q
  <1>5. CallsOk
    BY <1>1, <1>2, <1>3 DEF CallsOk
  <1>6. breaker \in Breaker /\ breaker.state = "closed" /\ RunOf(breaker) = 0 /\ failed = 0
    BY DEF Init, NewBreaker, Breaker, BreakerStates, RunOf
  <1>7. BreakerOk
    BY <1>3, <1>4, <1>6 DEF BreakerOk
  <1> QED
    BY <1>5, <1>7

-----------------------------------------------------------------------------
(* The actions. *)

LEMMA StartInv ==
    ASSUME CallsOk, BreakerOk, NEW c \in Calls, Start(c)
    PROVE  CallsOk' /\ BreakerOk'
  <1>1. /\ call[c].phase = "idle" /\ call[c].posts = 0 /\ call[c].posts < MaxAttempts
        /\ call[c].result = "none"
        /\ breaker' = Polled(breaker) /\ failed' = failed
        /\ breaker \in Breaker
    BY CallIs, CallFields DEF Start, ReadState, CallOk, BreakerOk
  <1>2. CASE Allowed(breaker)
    <2>1. ~Shut(breaker')
      BY <1>1, <1>2, BreakerTypes, BreakerFields DEF Allowed, AllowRequest, Shut
    <2>2. CallOk(Posted(call[c], breaker'), work[c] + 1)
      BY <1>1, <2>1, CallIs, PostedOk
    <2>3. /\ call' = [call EXCEPT ![c] = Posted(call[c], breaker')]
          /\ work' = [work EXCEPT ![c] = work[c] + 1]
      BY <1>2 DEF Start
    <2>4. Posted(call[c], breaker').result = "none"
      BY <1>1, CallIs, PostedFields
    <2>5. CallsOk'
      BY <2>2, <2>3, CallMoves
    <2>6. BreakerOk'
      BY <1>1, <2>3, <2>4, BreakerMoves
    <2> QED
      BY <2>5, <2>6
  <1>3. CASE ~Allowed(breaker)
    <2>1. FailureThreshold <= failed
      BY <1>1, <1>3, PolledRun, BreakerFields DEF Allowed, AllowRequest, BreakerOk
    <2>2. CallOk(Returned(call[c], "circuit_open"), work[c])
      BY <1>1, CallIs, ReturnedOk DEF Results
    <2>3. /\ call' = [call EXCEPT ![c] = Returned(call[c], "circuit_open")]
          /\ work' = work
      BY <1>3 DEF Start
    <2>4. work' = [work EXCEPT ![c] = work[c]]
      BY <2>3 DEF CallsOk
    <2>5. CallsOk'
      BY <2>2, <2>3, <2>4, CallMoves
    <2>6. BreakerOk'
      BY <1>1, <2>1, <2>3, BreakerMoves
    <2> QED
      BY <2>5, <2>6
  <1> QED
    BY <1>2, <1>3

(* The result of a call that returns. *)
LEMMA ReturnedResult ==
    ASSUME NEW q \in Call, NEW result \in Results
    PROVE  Returned(q, result).result = result
  <1> DEFINE p1 == [q EXCEPT !.phase = "done"]
             p2 == [p1 EXCEPT !.result = result]
  <1>1. p1 \in Call
    BY DEF Call
  <1> HIDE DEF p1
  <1>2. p2 \in Call /\ p2.result = result
    BY <1>1 DEF Call
  <1> HIDE DEF p2
  <1>3. [p2 EXCEPT !.sleep = 0].result = result
    BY <1>2 DEF Call
  <1> QED
    BY <1>3 DEF Returned, p2, p1

(* An answer that ends a call: what it is, and whether the router is done. *)
LEMMA AnswerInv ==
    ASSUME CallsOk, BreakerOk, NEW c \in Calls, NEW v \in Nat,
           NEW result \in {"answered", "refused", "raised"},
           call[c].phase = "posting", v <= work[c],
           call' = [call EXCEPT ![c] = Returned(@, result)],
           work' = [work EXCEPT ![c] = v],
           breaker' \in {breaker, RecordSuccess(breaker)},
           failed' = failed
    PROVE  CallsOk' /\ BreakerOk'
  <1>1. result \in Results
    BY DEF Results
  <1>2. CallOk(Returned(call[c], result), v)
    BY <1>1, CallIs, ReturnedOk
  <1>3. call' = [call EXCEPT ![c] = Returned(call[c], result)]
    OBVIOUS
  <1>4. Returned(call[c], result).result # "circuit_open"
    BY <1>1, CallIs, ReturnedResult
  <1>5. CallsOk'
    BY <1>2, <1>3, CallMoves
  <1>6. BreakerOk'
    BY <1>3, <1>4, BreakerMoves
  <1> QED
    BY <1>5, <1>6

(* An answer after which the call tries again. *)
LEMMA AgainInv ==
    ASSUME CallsOk, BreakerOk, NEW c \in Calls, NEW v \in Nat, NEW asked \in Nat,
           call[c].phase = "posting", v <= work[c], Waits(c, asked),
           work' = [work EXCEPT ![c] = v],
           \/ breaker' = breaker /\ failed' = failed
           \/ breaker' = RecordFailure(breaker) /\ failed' = failed + 1
    PROVE  CallsOk' /\ BreakerOk'
  <1>1. PICK d \in Delays(call[c].posts - 1, asked) :
          call' = [call EXCEPT ![c] =
                     [call[c] EXCEPT !.phase = "sleeping", !.sleep = d, !.asked = asked]]
    BY DEF Waits
  <1> DEFINE x == [call[c] EXCEPT !.phase = "sleeping", !.sleep = d, !.asked = asked]
  <1>2. d \in Nat /\ asked <= d
    BY DelayLongEnough
  <1>3. CallOk(x, v)
    BY <1>2, CallIs, AsleepOk
  <1>4. call' = [call EXCEPT ![c] = x]
    BY <1>1
  <1> HIDE DEF x
  <1>5. x.result # "circuit_open"
    BY <1>3 DEF CallOk, x
  <1>6. CallsOk'
    BY <1>3, <1>4, CallMoves
  <1>7. BreakerOk'
    BY <1>4, <1>5, BreakerMoves
  <1> QED
    BY <1>6, <1>7

LEMMA WakeInv ==
    ASSUME CallsOk, BreakerOk, NEW c \in Calls, Wake(c)
    PROVE  CallsOk' /\ BreakerOk'
  <1>1. /\ call[c].phase = "sleeping" /\ call[c].sleep = 0 /\ call[c].result = "none"
        /\ breaker' = breaker /\ failed' = failed
        /\ call[c].posts \in 0..MaxAttempts /\ MaxAttempts \in Nat
    BY CallIs, CallFields DEF Wake, CallOk
  <1>2. CASE call[c].posts < MaxAttempts
    <2>1. CallOk(Posted(call[c], breaker), work[c] + 1)
      BY <1>1, <1>2, CallIs, PostedOk
    <2>2. /\ call' = [call EXCEPT ![c] = Posted(call[c], breaker)]
          /\ work' = [work EXCEPT ![c] = work[c] + 1]
      BY <1>2 DEF Wake
    <2>3. Posted(call[c], breaker).result = "none"
      BY <1>1, <1>2, CallIs, PostedFields
    <2>4. CallsOk'
      BY <2>1, <2>2, CallMoves
    <2>5. BreakerOk'
      BY <1>1, <2>2, <2>3, BreakerMoves
    <2> QED
      BY <2>4, <2>5
  <1>3. CASE ~(call[c].posts < MaxAttempts)
    <2>0. call[c].posts = MaxAttempts /\ "retries_exhausted" \in Results
      BY <1>1, <1>3 DEF Results
    <2>1. CallOk(Returned(call[c], "retries_exhausted"), work[c])
      <3>1. CallOk(call[c], work[c]) /\ work[c] \in Nat /\ work[c] <= work[c]
        BY CallIs
      <3>2. "retries_exhausted" # "circuit_open"
        OBVIOUS
      <3> QED
        BY <1>1, <2>0, <3>1, <3>2, ReturnedOk
    <2>2. call' = [call EXCEPT ![c] = Returned(call[c], "retries_exhausted")] /\ work' = work
      BY <1>3 DEF Wake
    <2>3. work' = [work EXCEPT ![c] = work[c]]
      BY <2>2 DEF CallsOk
    <2>4. Returned(call[c], "retries_exhausted").result # "circuit_open"
      BY <2>0, CallIs, ReturnedResult
    <2>5. CallsOk'
      BY <2>1, <2>2, <2>3, CallMoves
    <2>6. BreakerOk'
      BY <1>1, <2>2, <2>4, BreakerMoves
    <2> QED
      BY <2>5, <2>6
  <1> QED
    BY <1>2, <1>3

LEMMA PostingWork ==
    ASSUME CallsOk, NEW c \in Calls, call[c].phase = "posting"
    PROVE  /\ work[c] \in Nat /\ work[c] - 1 \in Nat /\ work[c] - 1 <= work[c]
           /\ Finishes(c) => work' = [work EXCEPT ![c] = work[c] - 1]
           /\ UNCHANGED work => work' = [work EXCEPT ![c] = work[c]]
  <1>1. work[c] \in Nat /\ work[c] >= 1
    BY CallIs DEF CallOk
  <1> QED
    BY <1>1 DEF Finishes, CallsOk

LEMMA RespondsInv ==
    ASSUME CallsOk, BreakerOk, NEW c \in Calls, Responds(c)
    PROVE  CallsOk' /\ BreakerOk'
  <1>0. call[c].phase = "posting"
    BY DEF Responds, Answered, Rejected, Failure, TimedOut, Fails, Refused, Raises
  <1>1. CASE Answered(c)
    BY <1>0, <1>1, PostingWork, AnswerInv DEF Answered, NoteSuccess
  <1>2. CASE Refused(c)
    BY <1>0, <1>2, PostingWork, AnswerInv DEF Refused
  <1>3. CASE Raises(c)
    <2>1. CASE Finishes(c)
      BY <1>0, <1>3, <2>1, PostingWork, AnswerInv DEF Raises, NoteSuccess
    <2>2. CASE UNCHANGED work /\ breaker' = breaker
      <3>1. work[c] <= work[c]
        BY <1>0, PostingWork
      <3> QED
        BY <1>0, <1>3, <2>2, <3>1, PostingWork, AnswerInv DEF Raises
    <2> QED
      BY <1>3, <2>1, <2>2 DEF Raises
  <1>4. CASE Rejected(c)
    <2>1. PICK pause \in RetryAfters : Waits(c, pause)
      BY <1>4 DEF Rejected
    <2>2. pause \in Nat
      BY ClientAssumption
    <2> QED
      BY <1>0, <1>4, <2>1, <2>2, PostingWork, AgainInv DEF Rejected
  <1>5. CASE Failure(c)
    BY <1>0, <1>5, PostingWork, AgainInv DEF Failure, Fails, NoteFailure
  <1>6. CASE TimedOut(c)
    <2>1. work[c] <= work[c]
      BY <1>0, PostingWork
    <2> QED
      BY <1>0, <1>6, <2>1, PostingWork, AgainInv DEF TimedOut, Fails, NoteFailure
  <1> QED
    BY <1>1, <1>2, <1>3, <1>4, <1>5, <1>6 DEF Responds

LEMMA RouterFinishesInv ==
    ASSUME CallsOk, BreakerOk, NEW c \in Calls, RouterFinishes(c)
    PROVE  CallsOk' /\ BreakerOk'
  <1>1. /\ CallOk(call[c], work[c]) /\ work[c] \in Nat
        /\ work[c] > IF call[c].phase = "posting" THEN 1 ELSE 0
    BY CallIs DEF RouterFinishes
  <1>2. CallOk(call[c], work[c] - 1)
    BY <1>1, CallIs, CallFields DEF CallOk
  <1>3. call' = [call EXCEPT ![c] = call[c]]
    BY DEF RouterFinishes, CallsOk
  <1>4. work' = [work EXCEPT ![c] = work[c] - 1]
    BY DEF RouterFinishes, Finishes
  <1>5. CallsOk'
    BY <1>2, <1>3, <1>4, CallMoves
  <1>6. BreakerOk'
    BY DEF RouterFinishes, BreakerOk, RunOf
  <1> QED
    BY <1>5, <1>6

LEMMA TickInv ==
    ASSUME CallsOk, BreakerOk, Tick
    PROVE  CallsOk' /\ BreakerOk'
  <1>1. ASSUME NEW c \in Calls
        PROVE  /\ CallOk(call'[c], work[c])
               /\ call'[c].result = call[c].result
    <2>1. call'[c] = [call[c] EXCEPT !.sleep = Passed(@), !.asked = Passed(@)]
      BY DEF Tick
    <2> QED
      BY <2>1, CallIs, TickedOk
  <1>2. /\ call' = [c \in Calls |-> [call[c] EXCEPT !.sleep = Passed(@), !.asked = Passed(@)]]
        /\ work' = work /\ breaker' = breaker /\ failed' = failed
    BY DEF Tick
  <1>3. \A c \in Calls : call'[c] \in Call
    BY <1>1 DEF CallOk
  <1>4. call' \in [Calls -> Call]
    BY <1>2, <1>3
  <1>5. \A c \in Calls : CallOk(call[c], work[c])'
    BY <1>1, <1>2 DEF CallOk
  <1>6. CallsOk'
    BY <1>2, <1>4, <1>5 DEF CallsOk
  <1>7. \A c \in Calls : call'[c].result = "circuit_open" => FailureThreshold <= failed'
    BY <1>1, <1>2 DEF BreakerOk
  <1>8. BreakerOk'
    BY <1>2, <1>7 DEF BreakerOk, RunOf
  <1> QED
    BY <1>6, <1>8

LEMMA BreakerCoolsInv ==
    ASSUME CallsOk, BreakerOk, BreakerCools
    PROVE  CallsOk' /\ BreakerOk'
  <1>1. breaker \in Breaker /\ breaker.state = "open" /\ breaker' = Cooled(breaker)
    BY DEF BreakerCools, BreakerOk
  <1>2. breaker' \in Breaker /\ breaker'.state = "open"
    BY <1>1, BreakerTypes DEF Cooled, Breaker
  <1>3. call' = call /\ work' = work /\ failed' = failed
    BY DEF BreakerCools
  <1>4. CallsOk'
    BY <1>3 DEF CallsOk, CallOk
  <1>5. BreakerOk'
    BY <1>1, <1>2, <1>3 DEF BreakerOk
  <1> QED
    BY <1>4, <1>5

LEMMA NextInv ==
    ASSUME CallsOk, BreakerOk, [Next]_vars
    PROVE  CallsOk' /\ BreakerOk'
  <1>1. ASSUME NEW c \in Calls, Start(c) PROVE CallsOk' /\ BreakerOk'
    BY <1>1, StartInv
  <1>2. ASSUME NEW c \in Calls, Responds(c) PROVE CallsOk' /\ BreakerOk'
    BY <1>2, RespondsInv
  <1>3. ASSUME NEW c \in Calls, Wake(c) PROVE CallsOk' /\ BreakerOk'
    BY <1>3, WakeInv
  <1>4. ASSUME NEW c \in Calls, RouterFinishes(c) PROVE CallsOk' /\ BreakerOk'
    BY <1>4, RouterFinishesInv
  <1>5. CASE UNCHANGED vars
    BY <1>5 DEF vars, CallsOk, CallOk, BreakerOk, RunOf
  <1> QED
    BY <1>1, <1>2, <1>3, <1>4, <1>5, TickInv, BreakerCoolsInv DEF Next, Responds

-----------------------------------------------------------------------------
(* What holds of every execution. *)

LEMMA Invariance == Spec => [](CallsOk /\ BreakerOk)
  <1>1. Init => CallsOk /\ BreakerOk
    BY InitInv
  <1>2. (CallsOk /\ BreakerOk) /\ [Next]_vars => (CallsOk /\ BreakerOk)'
    BY NextInv
  <1> QED
    BY <1>1, <1>2, PTL DEF Spec

(* Every variable keeps its type, whatever the calls, the policy and the   *)
(* thresholds are (onerec_client.py:118-181).                              *)
THEOREM TypesKept == Spec => []TypeOK
  <1>1. CallsOk /\ BreakerOk => TypeOK
    BY DEF CallsOk, BreakerOk, TypeOK
  <1> QED
    BY <1>1, Invariance, PTL

(* No call makes the router work on more requests than it has made         *)
(* attempts, nor makes more than max_attempts, nor posts its first one     *)
(* into an open period (onerec_client.py:134, 141-148).                    *)
THEOREM LoadIsBounded == Spec => []RouterLoadBounded
  <1>1. CallsOk => RouterLoadBounded
    <2> SUFFICES ASSUME CallsOk, NEW c \in Calls
                 PROVE  /\ work[c] <= call[c].posts
                        /\ call[c].posts <= MaxAttempts
                        /\ call[c].late <= MaxAttempts - 1
      BY DEF RouterLoadBounded
    <2> QED
      BY CallIs, CallFields DEF CallOk
  <1> QED
    BY <1>1, Invariance, PTL

(* A local fallback has its reason: failure_threshold failures of the      *)
(* router, or all the attempts of the call (onerec_client.py:134-135,      *)
(* 157-173).                                                               *)
THEOREM FallbacksAreEarned == Spec => []FallbackIsEarned
  <1>1. CallsOk /\ BreakerOk => FallbackIsEarned
    <2> SUFFICES ASSUME CallsOk, BreakerOk, NEW c \in Calls
                 PROVE  /\ call[c].result = "circuit_open" =>
                              call[c].posts = 0 /\ failed >= FailureThreshold
                        /\ call[c].result = "retries_exhausted" =>
                              call[c].posts = MaxAttempts
      BY DEF FallbackIsEarned
    <2>1. failed \in Nat /\ FailureThreshold \in Nat
      BY BreakerFields DEF BreakerOk
    <2> QED
      BY <2>1, CallIs DEF CallOk, BreakerOk
  <1> QED
    BY <1>1, Invariance, PTL

(* No call comes back sooner than the server asked, whatever Retry-After,  *)
(* backoff, cap and jitter are (onerec_client.py:92-100, 157-161).         *)
THEOREM PausesAreHonoured == Spec => []RetryAfterHonoured
  <1>1. CallsOk => RetryAfterHonoured
    <2> SUFFICES ASSUME CallsOk, NEW c \in Calls, call[c].phase \in {"posting", "done"}
                 PROVE  call[c].asked = 0
      BY DEF RetryAfterHonoured
    <2> QED
      BY CallIs, CallFields DEF CallOk
  <1> QED
    BY <1>1, Invariance, PTL

-----------------------------------------------------------------------------
(* The refinement of BreakerDiagram. *)

BreakerStep ==
    \/ breaker' \in {breaker, Polled(breaker), RecordSuccess(breaker)} /\ failed' = failed
    \/ breaker' = RecordFailure(breaker) /\ failed' = failed + 1
    \/ breaker.state = "open" /\ breaker' = Cooled(breaker) /\ failed' = failed

LEMMA EveryStepIsBreakerStep ==
    ASSUME [Next]_vars
    PROVE  BreakerStep
  <1>1. ASSUME NEW c \in Calls, Start(c) \/ Responds(c) \/ Wake(c) \/ RouterFinishes(c)
        PROVE  BreakerStep
    BY <1>1 DEF Start, Responds, Wake, RouterFinishes, Answered, Rejected, Failure,
                TimedOut, Fails, Refused, Raises, ReadState, NoteSuccess, NoteFailure,
                BreakerStep
  <1>2. CASE Tick \/ BreakerCools \/ UNCHANGED vars
    BY <1>2 DEF Tick, BreakerCools, vars, BreakerStep
  <1> QED
    BY <1>1, <1>2 DEF Next, Responds

LEMMA BreakerStepIsDrawn ==
    ASSUME BreakerOk, BreakerStep
    PROVE  [Diagram!Next]_(Diagram!vars)
  <1> DEFINE s == breaker.state
             n == RunOf(breaker)
             t == breaker'.state
             m == RunOf(breaker')
  <1>1. breaker \in Breaker
    BY DEF BreakerOk
  <1>2. \/ t = s /\ m = n /\ failed' = failed
        \/ s = "open" /\ t = "half_open" /\ m = 0 /\ failed' = failed
        \/ s = "closed" /\ t = "closed" /\ m = 0 /\ failed' = failed
        \/ s = "open" /\ t = "open" /\ m = 0 /\ failed' = failed
        \/ /\ s = "half_open" /\ failed' = failed
           /\ IF n + 1 >= HalfOpenProbes THEN t = "closed" /\ m = 0
                                         ELSE t = "half_open" /\ m = n + 1
        \/ /\ s = "closed" /\ failed' = failed + 1
           /\ IF n + 1 >= FailureThreshold THEN t = "open" /\ m = 0
                                           ELSE t = "closed" /\ m = n + 1
        \/ s \in {"open", "half_open"} /\ t = "open" /\ m = 0 /\ failed' = failed + 1
    <2>1. CASE breaker' = breaker /\ failed' = failed
      BY <2>1
    <2>2. CASE breaker' = Polled(breaker) /\ failed' = failed
      BY <1>1, <2>2, PolledRun
    <2>3. CASE breaker' = RecordSuccess(breaker) /\ failed' = failed
      BY <1>1, <2>3, SuccessRun
    <2>4. CASE breaker' = RecordFailure(breaker) /\ failed' = failed + 1
      BY <1>1, <2>4, FailureRun, BreakerFields
    <2>5. CASE breaker.state = "open" /\ breaker' = Cooled(breaker) /\ failed' = failed
      BY <1>1, <2>5 DEF Cooled, Breaker, RunOf
    <2> QED
      BY <2>1, <2>2, <2>3, <2>4, <2>5 DEF BreakerStep
  <1>3. s = "open" => n = 0
    BY DEF RunOf
  <1> DEFINE N == CASE breaker.state = "closed"    -> breaker.failures
                    [] breaker.state = "half_open" -> breaker.successes
                    [] OTHER                       -> 0
  <1>4. N = n /\ N' = m
    BY DEF RunOf
  <1>5. /\ Diagram!vars = <<s, N, failed>>
        /\ Diagram!vars' = <<t, N', failed'>>
    BY DEF Diagram!vars
  <1>6. Diagram!Next <=>
          \/ /\ failed' = failed + 1
             /\ \/ /\ s = "closed"
                   /\ IF N + 1 >= FailureThreshold THEN t = "open" /\ N' = 0
                                                   ELSE t = "closed" /\ N' = N + 1
                \/ s = "half_open" /\ t = "open" /\ N' = 0
                \/ s = "open" /\ t = s /\ N' = N
          \/ /\ \/ s = "closed" /\ N' = 0 /\ t = s
                \/ /\ s = "half_open"
                   /\ IF N + 1 >= HalfOpenProbes THEN t = "closed" /\ N' = 0
                                                 ELSE t = "half_open" /\ N' = N + 1
             /\ failed' = failed
          \/ s = "open" /\ t = "half_open" /\ N' = 0 /\ failed' = failed
    BY DEF Diagram!Next, Diagram!Failure, Diagram!Success, Diagram!HalfOpen
  <1> HIDE DEF s, t, n, m, N
  <1> QED
    BY <1>2, <1>3, <1>4, <1>5, <1>6

(* The SDK's breaker implements the diagram of BreakerDiagram for any      *)
(* number of calls and any thresholds (onerec_client.py:21-24, 47-83).     *)
THEOREM BreakerIsDrawn == Spec => BreakerFollowsDiagram
  <1>1. Init => Diagram!Init
    BY DEF Init, NewBreaker, Diagram!Init
  <1>2. BreakerOk /\ [Next]_vars => [Diagram!Next]_(Diagram!vars)
    BY EveryStepIsBreakerStep, BreakerStepIsDrawn
  <1> QED
    BY <1>1, <1>2, Invariance, PTL DEF Spec, Diagram!Spec, BreakerFollowsDiagram

=============================================================================
