--------------------------- MODULE AsyncSemaphore ---------------------------
(***************************************************************************)
(* asyncio.Semaphore as the router uses it (external: Python's library).   *)
(* Backend._sem is acquired under asyncio.wait_for and released once per   *)
(* call of release_slot (platform/router/backend_pool.py:121-135).         *)
(*                                                                         *)
(*   value    the permits that nobody holds                                *)
(*   pending  coroutines suspended in acquire(), in arrival order          *)
(*   granted  coroutines whose future was resolved by a release but that   *)
(*            the event loop has not resumed: they own a permit already    *)
(*                                                                         *)
(* An acquire() that finds a permit and no waiter returns without          *)
(* suspending; any other acquire() joins the queue, even when a permit is  *)
(* free, so that it cannot overtake a waiter that has been granted one.    *)
(***************************************************************************)
EXTENDS Integers, Sequences, FiniteSets, SequencesExt

Semaphore(C) == [value: Nat, pending: Seq(C), granted: SUBSET C]

NewSemaphore(n) == [value |-> n, pending |-> <<>>, granted |-> {}]

Locked(s) == s.value = 0 \/ s.pending # <<>> \/ s.granted # {}

Take(s) == [s EXCEPT !.value = @ - 1]

Enqueue(s, c) == [s EXCEPT !.pending = Append(@, c)]

(* _wake_up_next: one permit goes to the first waiter not yet granted. *)
WakeUpNext(s) ==
    IF s.pending = <<>> THEN s
    ELSE [value   |-> s.value - 1,
          pending |-> Tail(s.pending),
          granted |-> s.granted \cup {Head(s.pending)}]

Release(s) == WakeUpNext([s EXCEPT !.value = @ + 1])

(* A granted coroutine runs again: it leaves the queue, and wakes the next *)
(* waiter when permits were released in the meantime.                      *)
ResumeGranted(s, c) ==
    LET left == [s EXCEPT !.granted = @ \ {c}]
    IN  IF left.value > 0 THEN WakeUpNext(left) ELSE left

(* Variant: the permit is given back, but nobody is woken. *)
CancelGrantedSilent(s, c) == [s EXCEPT !.granted = @ \ {c}, !.value = @ + 1]

(* The timeout cancels a coroutine that was granted a permit but has not   *)
(* run: it hands the permit on.                                            *)
CancelGranted(s, c) == Release([s EXCEPT !.granted = @ \ {c}])

(* The timeout cancels the i-th waiting coroutine. *)
CancelPending(s, i) == [s EXCEPT !.pending = RemoveAt(@, i)]

(* Facts about a semaphore that its operations keep. *)

Waiting(s) == ToSet(s.pending)

(* The coroutines of Q, and only they, are suspended in acquire(), each    *)
(* with one future.                                                        *)
WaitersAre(s, Q) ==
    /\ Q = Waiting(s) \cup s.granted
    /\ Waiting(s) \cap s.granted = {}
    /\ \A i, j \in DOMAIN s.pending : s.pending[i] = s.pending[j] => i = j

(* A permit is free beside a waiter only while another waiter, granted one *)
(* already, is about to run and to wake it.                                *)
NoneForgotten(s) == s.pending # <<>> /\ s.value > 0 => s.granted # {}

(* Permits that no coroutine has returned from acquire() with. *)
Permits(s) == s.value + Cardinality(s.granted)

=============================================================================
