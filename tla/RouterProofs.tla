---------------------------- MODULE RouterProofs ----------------------------
(***************************************************************************)
(* What the router promises, for any requests, backends, limits and        *)
(* thresholds: its accounting of slots, its counters, its cache, its       *)
(* breakers and its two order-based routing strategies.                    *)
(***************************************************************************)
EXTENDS Router, AsyncSemaphoreProofs, CircuitBreakerProofs

-----------------------------------------------------------------------------
(* One backend's record. *)

(* The slots and the load figures of backend record x are right for the    *)
(* queued requests Q, the plain requests in flight F, and the streams T    *)
(* that released their slot twice.                                         *)
Slots(x, Q, F, T) ==
    /\ WaitersAre(x.sem, Q)
    /\ NoneForgotten(x.sem)
    /\ Permits(x.sem) + Cardinality(F) = MaxInflight + Cardinality(T)
    /\ x.outstanding = Cardinality(F) - Cardinality(T)
    /\ x.queued = Cardinality(Q)

LEMMA BackendFields ==
    ASSUME NEW x \in Backend
    PROVE  /\ x.healthy \in BOOLEAN /\ x.breaker \in Breaker
           /\ x.sem \in Semaphore(Requests)
           /\ x.outstanding \in Int /\ x.queued \in Int
           /\ x.total_requests \in Nat /\ x.total_failures \in Nat
BY DEF Backend

LEMMA Finiteness ==
    ASSUME NEW S \in SUBSET Requests, NEW r
    PROVE  /\ IsFiniteSet(S) /\ IsFiniteSet(Requests)
           /\ Cardinality(S) \in Nat
           /\ Cardinality(S \cup {r}) = IF r \in S THEN Cardinality(S) ELSE Cardinality(S) + 1
           /\ Cardinality(S \ {r}) = IF r \in S THEN Cardinality(S) - 1 ELSE Cardinality(S)
<1>1. IsFiniteSet(Requests) /\ IsFiniteSet(S)
  BY RouterAssumption, FS_Subset
<1> QED BY <1>1, FS_CardinalityType, FS_AddElement, FS_RemoveElement

LEMMA PermitsType ==
    ASSUME NEW s \in Semaphore(Requests)
    PROVE  Permits(s) \in Nat
<1>1. s.value \in Nat /\ s.granted \in SUBSET Requests
  BY DEF Semaphore
<1>2. Cardinality(s.granted) \in Nat
  BY <1>1, Finiteness
<1> QED BY <1>1, <1>2 DEF Permits

(* Succeeded and Failed touch neither slots nor load figures. *)
LEMMA OutcomeFields ==
    ASSUME NEW x \in Backend
    PROVE  /\ Succeeded(x) \in Backend /\ Failed(x) \in Backend
           /\ \A y \in {Succeeded(x), Failed(x)} :
                 y.sem = x.sem /\ y.outstanding = x.outstanding /\ y.queued = x.queued
<1>1. RecordSuccess(x.breaker) \in Breaker /\ RecordFailure(x.breaker) \in Breaker
  BY BreakerTypes, BackendFields
<1> DEFINE f == [x EXCEPT !.breaker = RecordFailure(x.breaker)]
<1>2. /\ Succeeded(x) \in Backend /\ Succeeded(x).sem = x.sem
      /\ Succeeded(x).outstanding = x.outstanding /\ Succeeded(x).queued = x.queued
  BY <1>1 DEF Succeeded, Backend
<1>3. /\ f \in Backend /\ f.sem = x.sem /\ f.outstanding = x.outstanding
      /\ f.queued = x.queued
  BY <1>1 DEF Backend
<1>4. Failed(x) = [f EXCEPT !.total_failures = x.total_failures + 1]
  BY DEF Failed
<1>5. x.total_failures + 1 \in Nat
  BY DEF Backend
<1> HIDE DEF f
<1>6. /\ Failed(x) \in Backend /\ Failed(x).sem = x.sem
      /\ Failed(x).outstanding = x.outstanding /\ Failed(x).queued = x.queued
  BY <1>3, <1>4, <1>5 DEF Backend
<1> QED BY <1>2, <1>6

LEMMA StartedFields ==
    ASSUME NEW x \in Backend
    PROVE  /\ Started(x) \in Backend
           /\ Started(x).sem = x.sem
           /\ Started(x).outstanding = x.outstanding + 1
           /\ Started(x).queued = x.queued
<1> DEFINE y == [x EXCEPT !.outstanding = @ + 1]
<1>1. /\ y \in Backend /\ y.sem = x.sem /\ y.queued = x.queued
      /\ y.outstanding = x.outstanding + 1
  BY DEF Backend
<1>2. Started(x) = [y EXCEPT !.total_requests = x.total_requests + 1]
  BY DEF Started
<1>3. x.total_requests + 1 \in Nat
  BY DEF Backend
<1> HIDE DEF y
<1> QED BY <1>1, <1>2, <1>3 DEF Backend

LEMMA FinishedFields ==
    ASSUME NEW x \in Backend, NEW Q, WaitersAre(x.sem, Q)
    PROVE  /\ Finished(x) \in Backend
           /\ WaitersAre(Finished(x).sem, Q)
           /\ NoneForgotten(Finished(x).sem)
           /\ Permits(Finished(x).sem) = Permits(x.sem) + 1
           /\ Finished(x).outstanding = x.outstanding - 1
           /\ Finished(x).queued = x.queued
<1>1. /\ Release(x.sem) \in Semaphore(Requests) /\ WaitersAre(Release(x.sem), Q)
      /\ Permits(Release(x.sem)) = Permits(x.sem) + 1 /\ NoneForgotten(Release(x.sem))
  BY BackendFields, ReleaseFacts, RouterAssumption
<1>2. /\ Finished(x) \in Backend
      /\ Finished(x).sem = Release(x.sem)
      /\ Finished(x).outstanding = x.outstanding - 1
      /\ Finished(x).queued = x.queued
  <2> DEFINE y == [x EXCEPT !.outstanding = @ - 1]
  <2>1. /\ y \in Backend /\ y.queued = x.queued /\ y.outstanding = x.outstanding - 1
    BY DEF Backend
  <2>2. Finished(x) = [y EXCEPT !.sem = Release(x.sem)]
    BY DEF Finished
  <2> HIDE DEF y
  <2> QED BY <1>1, <2>1, <2>2 DEF Backend
<1> QED BY <1>1, <1>2

LEMMA LeftFields ==
    ASSUME NEW x \in Backend, NEW sem \in Semaphore(Requests)
    PROVE  /\ Left(x, sem) \in Backend
           /\ Left(x, sem).sem = sem
           /\ Left(x, sem).outstanding = x.outstanding
           /\ Left(x, sem).queued = x.queued - 1
<1> DEFINE y == [x EXCEPT !.queued = @ - 1]
<1>1. y \in Backend /\ y.queued = x.queued - 1 /\ y.outstanding = x.outstanding
  BY DEF Backend
<1>2. Left(x, sem) = [y EXCEPT !.sem = sem]
  BY DEF Left
<1> HIDE DEF y
<1> QED BY <1>1, <1>2 DEF Backend

(* As Slots, while the coroutine that runs owns one more permit. *)
InHand(x, Q, F, T) ==
    /\ WaitersAre(x.sem, Q)
    /\ NoneForgotten(x.sem)
    /\ Permits(x.sem) + Cardinality(F) + 1 = MaxInflight + Cardinality(T)
    /\ x.outstanding = Cardinality(F) - Cardinality(T)
    /\ x.queued = Cardinality(Q)

LEMMA TakenSlots ==
    ASSUME NEW x \in Backend, ~Locked(x.sem),
           NEW Q \in SUBSET Requests, NEW F \in SUBSET Requests,
           NEW T \in SUBSET Requests, Slots(x, Q, F, T)
    PROVE  Taken(x) \in Backend /\ InHand(Taken(x), Q, F, T)
<1>1. /\ Take(x.sem) \in Semaphore(Requests) /\ WaitersAre(Take(x.sem), Q)
      /\ Permits(Take(x.sem)) = Permits(x.sem) - 1 /\ NoneForgotten(Take(x.sem))
  BY BackendFields, TakeFacts, RouterAssumption DEF Slots
<1>2. /\ Taken(x) \in Backend /\ Taken(x).sem = Take(x.sem)
      /\ Taken(x).outstanding = x.outstanding /\ Taken(x).queued = x.queued
  BY <1>1 DEF Taken, Backend
<1>3. Permits(x.sem) \in Nat /\ Cardinality(F) \in Nat /\ Cardinality(T) \in Nat
  BY BackendFields, PermitsType, Finiteness
<1> QED BY <1>1, <1>2, <1>3 DEF Slots, InHand

LEMMA JoinedSlots ==
    ASSUME NEW x \in Backend, Locked(x.sem), NEW r \in Requests,
           NEW Q \in SUBSET Requests, NEW F \in SUBSET Requests,
           NEW T \in SUBSET Requests, Slots(x, Q, F, T), r \notin Q
    PROVE  Joined(x, r) \in Backend /\ Slots(Joined(x, r), Q \cup {r}, F, T)
<1>1. /\ Enqueue(x.sem, r) \in Semaphore(Requests)
      /\ WaitersAre(Enqueue(x.sem, r), Q \cup {r})
      /\ Permits(Enqueue(x.sem, r)) = Permits(x.sem)
      /\ NoneForgotten(Enqueue(x.sem, r))
  BY BackendFields, EnqueueFacts DEF Slots
<1>2. /\ Joined(x, r) \in Backend /\ Joined(x, r).sem = Enqueue(x.sem, r)
      /\ Joined(x, r).outstanding = x.outstanding
      /\ Joined(x, r).queued = x.queued + 1
  <2> DEFINE y == [x EXCEPT !.queued = @ + 1]
  <2>1. y \in Backend /\ y.queued = x.queued + 1 /\ y.outstanding = x.outstanding
    BY DEF Backend
  <2>2. Joined(x, r) = [y EXCEPT !.sem = Enqueue(x.sem, r)]
    BY DEF Joined
  <2> HIDE DEF y
  <2> QED BY <1>1, <2>1, <2>2 DEF Backend
<1>3. Cardinality(Q \cup {r}) = Cardinality(Q) + 1
  BY Finiteness
<1> QED BY <1>1, <1>2, <1>3 DEF Slots

LEMMA ResumedSlots ==
    ASSUME NEW x \in Backend, NEW r \in x.sem.granted,
           NEW Q \in SUBSET Requests, NEW F \in SUBSET Requests,
           NEW T \in SUBSET Requests, Slots(x, Q, F, T),
           NEW y, y = Left(x, ResumeGranted(x.sem, r))
    PROVE  y \in Backend /\ InHand(y, Q \ {r}, F, T)
<1>1. /\ ResumeGranted(x.sem, r) \in Semaphore(Requests)
      /\ WaitersAre(ResumeGranted(x.sem, r), Q \ {r})
      /\ Permits(ResumeGranted(x.sem, r)) = Permits(x.sem) - 1
      /\ NoneForgotten(ResumeGranted(x.sem, r))
  BY BackendFields, ResumeGrantedFacts, RouterAssumption DEF Slots
<1>2. /\ y \in Backend /\ y.sem = ResumeGranted(x.sem, r)
      /\ y.outstanding = x.outstanding /\ y.queued = x.queued - 1
  BY <1>1, LeftFields
<1>3. Cardinality(Q \ {r}) = Cardinality(Q) - 1
  <2>1. r \in Q
    BY DEF Slots, WaitersAre
  <2> QED BY <2>1, Finiteness
<1>4. Permits(x.sem) \in Nat /\ Cardinality(F) \in Nat /\ Cardinality(T) \in Nat
  BY BackendFields, PermitsType, Finiteness
<1> QED BY <1>1, <1>2, <1>3, <1>4 DEF Slots, InHand

LEMMA RejectedSlots ==
    ASSUME NEW x \in Backend, NEW r \in Requests,
           NEW Q \in SUBSET Requests, NEW F \in SUBSET Requests,
           NEW T \in SUBSET Requests, Slots(x, Q, F, T),
           NEW sem,
           \/ r \in x.sem.granted /\ sem = CancelGranted(x.sem, r)
           \/ \E i \in DOMAIN x.sem.pending :
                 x.sem.pending[i] = r /\ sem = CancelPending(x.sem, i)
    PROVE  Left(x, sem) \in Backend /\ Slots(Left(x, sem), Q \ {r}, F, T)
<1>1. /\ sem \in Semaphore(Requests) /\ WaitersAre(sem, Q \ {r})
      /\ Permits(sem) = Permits(x.sem) /\ NoneForgotten(sem)
  <2>1. x.sem \in Semaphore(Requests) /\ WaitersAre(x.sem, Q) /\ NoneForgotten(x.sem)
    BY BackendFields DEF Slots
  <2>2. CASE r \in x.sem.granted /\ sem = CancelGranted(x.sem, r)
    BY <2>1, <2>2, CancelGrantedFacts, RouterAssumption
  <2>3. CASE \E i \in DOMAIN x.sem.pending :
               x.sem.pending[i] = r /\ sem = CancelPending(x.sem, i)
    BY <2>1, <2>3, CancelPendingFacts
  <2> QED BY <2>2, <2>3
<1>2. /\ Left(x, sem) \in Backend /\ Left(x, sem).sem = sem
      /\ Left(x, sem).outstanding = x.outstanding
      /\ Left(x, sem).queued = x.queued - 1
  BY <1>1, LeftFields
<1>3. Cardinality(Q \ {r}) = Cardinality(Q) - 1
  <2>1. r \in Q
    BY DEF Slots, WaitersAre, Waiting, ToSet
  <2> QED BY <2>1, Finiteness
<1> QED BY <1>1, <1>2, <1>3 DEF Slots

(* A plain request keeps its permit; a stream gives it back at once. *)
LEMMA ForwardedSlots ==
    ASSUME NEW x \in Backend, NEW r \in Requests, NEW kind \in {"plain", "stream"},
           NEW Q \in SUBSET Requests, NEW F \in SUBSET Requests,
           NEW T \in SUBSET Requests, InHand(x, Q, F, T), r \notin F
    PROVE  /\ Forwarded(x, kind) \in Backend
           /\ kind = "plain" => Slots(Forwarded(x, kind), Q, F \cup {r}, T)
           /\ kind = "stream" => Slots(Forwarded(x, kind), Q, F, T)
<1>1. /\ Started(x) \in Backend /\ Started(x).sem = x.sem
      /\ Started(x).outstanding = x.outstanding + 1 /\ Started(x).queued = x.queued
  BY StartedFields
<1>2. /\ Permits(x.sem) \in Nat /\ Cardinality(F) \in Nat /\ Cardinality(T) \in Nat
      /\ Cardinality(F \cup {r}) = Cardinality(F) + 1
  BY BackendFields, PermitsType, Finiteness
<1>3. CASE kind = "plain"
  <2>1. Forwarded(x, kind) = Started(x)
    BY <1>3 DEF Forwarded
  <2> QED BY <1>1, <1>2, <1>3, <2>1 DEF Slots, InHand
<1>4. CASE kind = "stream"
  <2>1. Forwarded(x, kind) = Finished(Started(x))
    BY <1>4 DEF Forwarded
  <2>2. WaitersAre(Started(x).sem, Q)
    BY <1>1 DEF InHand
  <2> DEFINE y == Finished(Started(x))
  <2>3. /\ y \in Backend /\ WaitersAre(y.sem, Q) /\ NoneForgotten(y.sem)
        /\ Permits(y.sem) = Permits(Started(x).sem) + 1
        /\ y.outstanding = Started(x).outstanding - 1
        /\ y.queued = Started(x).queued
    BY <1>1, <2>2, FinishedFields
  <2>4. x.outstanding \in Int
    BY BackendFields
  <2> HIDE DEF y
  <2>5. y \in Backend /\ Slots(y, Q, F, T)
    BY <1>1, <1>2, <2>3, <2>4 DEF Slots, InHand
  <2> QED BY <1>4, <2>1, <2>5 DEF y
<1> QED BY <1>3, <1>4

(* The handler's finally clause after a plain request. *)
LEMMA FinishedSlots ==
    ASSUME NEW x \in Backend, NEW r \in Requests,
           NEW Q \in SUBSET Requests, NEW F \in SUBSET Requests,
           NEW T \in SUBSET Requests, Slots(x, Q, F, T), r \in F
    PROVE  Finished(x) \in Backend /\ Slots(Finished(x), Q, F \ {r}, T)
<1>1. /\ Finished(x) \in Backend /\ WaitersAre(Finished(x).sem, Q)
      /\ NoneForgotten(Finished(x).sem)
      /\ Permits(Finished(x).sem) = Permits(x.sem) + 1
      /\ Finished(x).outstanding = x.outstanding - 1
      /\ Finished(x).queued = x.queued
  BY FinishedFields DEF Slots
<1>2. /\ Permits(x.sem) \in Nat /\ Cardinality(F) \in Nat /\ Cardinality(T) \in Nat
      /\ Cardinality(F \ {r}) = Cardinality(F) - 1
  BY BackendFields, PermitsType, Finiteness
<1> QED BY <1>1, <1>2 DEF Slots

(* The response generator's finally clause: one permit too many. *)
LEMMA StreamFinishedSlots ==
    ASSUME NEW x \in Backend, NEW r \in Requests,
           NEW Q \in SUBSET Requests, NEW F \in SUBSET Requests,
           NEW T \in SUBSET Requests, Slots(x, Q, F, T), r \notin T
    PROVE  Finished(x) \in Backend /\ Slots(Finished(x), Q, F, T \cup {r})
<1>1. /\ Finished(x) \in Backend /\ WaitersAre(Finished(x).sem, Q)
      /\ NoneForgotten(Finished(x).sem)
      /\ Permits(Finished(x).sem) = Permits(x.sem) + 1
      /\ Finished(x).outstanding = x.outstanding - 1
      /\ Finished(x).queued = x.queued
  BY FinishedFields DEF Slots
<1>2. /\ Permits(x.sem) \in Nat /\ Cardinality(F) \in Nat /\ Cardinality(T) \in Nat
      /\ Cardinality(T \cup {r}) = Cardinality(T) + 1
  BY BackendFields, PermitsType, Finiteness
<1>3. MaxInflight \in Nat
  BY RouterAssumption
<1> QED BY <1>1, <1>2, <1>3 DEF Slots

-----------------------------------------------------------------------------
(* The inductive invariant.                                                *)

(* Where a request can be in its life: it has a reply only at the end, it  *)
(* has a backend while it queues or is served, and only streams are        *)
(* answered by a generator.                                                *)
Lifecycle ==
    \A r \in Requests :
        /\ req[r].phase # "done" => req[r].reply = "none"
        /\ req[r].phase \in {"queued", "forwarded", "streaming"}
              => req[r].target \in Backends
        /\ req[r].phase # "idle" => req[r].kind \in Kinds
        /\ req[r].phase = "streaming" \/ req[r].reply \in StreamEnds
              => req[r].kind = "stream"

SlotInv ==
    \A b \in Backends :
        Slots(pool[b], InPhase(b, "queued"), InPhase(b, "forwarded"), TwiceReleased(b))

IInv == TypeOK /\ Lifecycle /\ SlotInv

(* Two records of one backend that differ neither in slots nor in load.    *)
SameSlots(x, y) ==
    y.sem = x.sem /\ y.outstanding = x.outstanding /\ y.queued = x.queued

LEMMA BackendsFacts ==
    /\ Backends = 1..Len(GroupOf)
    /\ Len(GroupOf) \in Nat
    /\ IsFiniteSet(Backends)
    /\ NoBackend \notin Backends
    /\ \A b \in Backends : GroupOf[b] \in Groups
<1>1. GroupOf \in Seq(Groups)
  BY RouterAssumption
<1>2. /\ Backends = 1..Len(GroupOf) /\ Len(GroupOf) \in Nat
      /\ \A b \in Backends : GroupOf[b] \in Groups
  BY <1>1, LenProperties, ElementOfSeq DEF Backends
<1>3. IsFiniteSet(1..Len(GroupOf))
  BY <1>2, FS_Interval
<1> QED BY <1>2, <1>3 DEF NoBackend

(* A step that moves request r, and touches the slots of backend b alone,  *)
(* keeps the accounting if b's record is right for where r is now.         *)
LEMMA MoveRequest ==
    ASSUME IInv, NEW r \in Requests, NEW q, req' = [req EXCEPT ![r] = q],
           req[r].phase # "done",
           NEW b,
           req[r].phase \in {"queued", "forwarded"} => req[r].target = b,
           q.phase \in {"queued", "forwarded"} \/ q.reply \in StreamEnds => q.target = b,
           \A c \in Backends \ {b} : SameSlots(pool[c], pool'[c]),
           b \in Backends =>
              Slots(pool'[b],
                    (InPhase(b, "queued") \ {r}) \cup (IF q.phase = "queued" THEN {r} ELSE {}),
                    (InPhase(b, "forwarded") \ {r}) \cup (IF q.phase = "forwarded" THEN {r} ELSE {}),
                    TwiceReleased(b) \cup (IF q.reply \in StreamEnds THEN {r} ELSE {}))
    PROVE  SlotInv'
<1>1. SUFFICES ASSUME NEW c \in Backends
               PROVE  Slots(pool'[c], InPhase(c, "queued")', InPhase(c, "forwarded")',
                            TwiceReleased(c)')
  BY DEF SlotInv
<1>3. /\ InPhase(c, "queued")' = (InPhase(c, "queued") \ {r})
            \cup (IF q.target = c /\ q.phase = "queued" THEN {r} ELSE {})
      /\ InPhase(c, "forwarded")' = (InPhase(c, "forwarded") \ {r})
            \cup (IF q.target = c /\ q.phase = "forwarded" THEN {r} ELSE {})
      /\ TwiceReleased(c)' = (TwiceReleased(c) \ {r})
            \cup (IF q.target = c /\ q.reply \in StreamEnds THEN {r} ELSE {})
  <2>1. req'[r] = q /\ \A s \in Requests \ {r} : req'[s] = req[s]
    BY DEF IInv, TypeOK
  <2> QED BY <2>1 DEF InPhase, TwiceReleased, Replied
<1>4. r \notin TwiceReleased(c)
  BY DEF IInv, Lifecycle, TwiceReleased, Replied, StreamEnds
<1>5. CASE c = b
  <2>1. TwiceReleased(c) \ {r} = TwiceReleased(c)
    BY <1>4
  <2>2. /\ InPhase(c, "queued")' = (InPhase(b, "queued") \ {r})
              \cup (IF q.phase = "queued" THEN {r} ELSE {})
        /\ InPhase(c, "forwarded")' = (InPhase(b, "forwarded") \ {r})
              \cup (IF q.phase = "forwarded" THEN {r} ELSE {})
        /\ TwiceReleased(c)' = TwiceReleased(b)
              \cup (IF q.reply \in StreamEnds THEN {r} ELSE {})
    BY <1>3, <1>5, <2>1
  <2> QED BY <1>5, <2>2
<1>6. CASE c # b
  <2>1. r \notin InPhase(c, "queued") /\ r \notin InPhase(c, "forwarded")
    BY <1>6 DEF InPhase
  <2>2. /\ InPhase(c, "queued")' = InPhase(c, "queued")
        /\ InPhase(c, "forwarded")' = InPhase(c, "forwarded")
        /\ TwiceReleased(c)' = TwiceReleased(c)
    BY <1>3, <1>4, <1>6, <2>1
  <2>3. Slots(pool[c], InPhase(c, "queued"), InPhase(c, "forwarded"), TwiceReleased(c))
    BY DEF IInv, SlotInv
  <2>4. SameSlots(pool[c], pool'[c])
    BY <1>6
  <2> QED BY <2>2, <2>3, <2>4 DEF Slots, SameSlots
<1> QED BY <1>5, <1>6

(* A step that moves no request and touches no slot. *)
LEMMA KeepSlots ==
    ASSUME IInv, UNCHANGED req, \A c \in Backends : SameSlots(pool[c], pool'[c])
    PROVE  SlotInv' /\ Lifecycle'
<1>1. Lifecycle'
  BY DEF IInv, Lifecycle
<1>2. SUFFICES ASSUME NEW c \in Backends
               PROVE  Slots(pool'[c], InPhase(c, "queued")', InPhase(c, "forwarded")',
                            TwiceReleased(c)')
  BY <1>1 DEF SlotInv
<1>3. /\ InPhase(c, "queued")' = InPhase(c, "queued")
      /\ InPhase(c, "forwarded")' = InPhase(c, "forwarded")
      /\ TwiceReleased(c)' = TwiceReleased(c)
  BY DEF InPhase, TwiceReleased, Replied
<1>4. Slots(pool[c], InPhase(c, "queued"), InPhase(c, "forwarded"), TwiceReleased(c))
  BY DEF IInv, SlotInv
<1> QED BY <1>3, <1>4 DEF Slots, SameSlots

-----------------------------------------------------------------------------
(* Types of the pieces of a handler.                                       *)

LEMMA CacheTypes ==
    ASSUME TypeOK, NEW key \in Nat
    PROVE  CachePut(key) \in Seq(Nat) /\ CacheGet(key) \in Seq(Nat)
<1>1. cache \in Seq(Nat) /\ DOMAIN cache = 1..Len(cache)
  BY LenProperties DEF TypeOK
<1>2. Recent(key) \in Seq(Nat)
  <2>1. CASE Cached(key)
    <3> DEFINE i == CHOOSE j \in DOMAIN cache : cache[j] = key
    <3>1. i \in 1..Len(cache)
      BY <1>1, <2>1 DEF Cached
    <3>2. Recent(key) = Append(RemoveAt(cache, i), key)
      BY <2>1 DEF Recent
    <3> HIDE DEF i
    <3>3. RemoveAt(cache, i) \in Seq(Nat)
      BY <1>1, <3>1, RemoveAtElements
    <3> QED BY <3>2, <3>3, AppendProperties
  <2>2. CASE ~Cached(key)
    BY <1>1, <2>2, AppendProperties DEF Recent
  <2> QED BY <2>1, <2>2
<1>3. CachePut(key) \in Seq(Nat)
  <2> DEFINE s == Recent(key)
             lo == Len(s) - CacheSize + 1
  <2>1. s \in Seq(Nat) /\ Len(s) \in Nat /\ CacheSize \in Nat
        /\ \A i \in 1..Len(s) : s[i] \in Nat
    BY <1>2, LenProperties, ElementOfSeq, RouterAssumption
  <2>2. CASE Len(s) > CacheSize
    <3>1. lo \in Int /\ Len(s) \in Int /\ \A i \in lo..Len(s) : s[i] \in Nat
      BY <2>1, <2>2
    <3>2. CachePut(key) = SubSeq(s, lo, Len(s))
      BY <2>2 DEF CachePut
    <3> HIDE DEF s, lo
    <3> QED BY <3>1, <3>2, SubSeqProperties
  <2>3. CASE ~(Len(s) > CacheSize)
    BY <2>1, <2>3 DEF CachePut
  <2> QED BY <2>2, <2>3
<1> QED BY <1>1, <1>2, <1>3 DEF CacheGet

LEMMA CountingType ==
    ASSUME NEW n \in [Statuses -> Nat], NEW status \in Statuses
    PROVE  Counting(n, status) \in [Statuses -> Nat]
BY DEF Counting

LEMMA AnsweredFields ==
    ASSUME NEW q \in Request, NEW reply \in Replies
    PROVE  /\ Answered(q, reply) \in Request
           /\ Answered(q, reply).phase = "done"
           /\ Answered(q, reply).reply = reply
           /\ Answered(q, reply).target = q.target
           /\ Answered(q, reply).kind = q.kind
<1> DEFINE y == [q EXCEPT !.phase = "done"]
<1>1. /\ y \in Request /\ y.phase = "done" /\ y.target = q.target /\ y.kind = q.kind
  BY DEF Request, Phases
<1>2. Answered(q, reply) = [y EXCEPT !.reply = reply]
  BY DEF Answered
<1> HIDE DEF y
<1> QED BY <1>1, <1>2 DEF Request

(* A request that no backend serves ends degraded, refused or failed.      *)
Concluded(r, q, n) == ServeFallback(r, q, n) \/ ServerError(r, q, n)

LEMMA ConcludedCases ==
    ASSUME NEW r, NEW q, NEW n, Concluded(r, q, n)
    PROVE  \/ /\ req' = [req EXCEPT ![r] =
                           Answered(q, IF Cached(q.key) THEN "degraded_cache"
                                       ELSE "degraded_heuristic")]
              /\ cache' = CacheGet(q.key)
              /\ counted' = Counting(n, "degraded_fallback")
           \/ /\ req' = [req EXCEPT ![r] = Answered(q, "unavailable")]
              /\ cache' = cache
              /\ counted' = Counting(n, "error")
           \/ /\ req' = [req EXCEPT ![r] = Answered(q, "server_error")]
              /\ cache' = cache
              /\ counted' = n
BY DEF Concluded, ServeFallback, ServerError

LEMMA ConcludedFacts ==
    ASSUME TypeOK, NEW r \in Requests, NEW q \in Request,
           NEW n \in [Statuses -> Nat], Concluded(r, q, n)
    PROVE  /\ cache' \in Seq(Nat)
           /\ counted' \in [Statuses -> Nat]
           /\ \E p \in Request : /\ req' = [req EXCEPT ![r] = p]
                                 /\ p.phase = "done" /\ p.kind = q.kind
                                 /\ p.target = q.target
                                 /\ p.reply \notin StreamEnds
<1>1. q.key \in Nat
  BY DEF Request
<1>2. CacheGet(q.key) \in Seq(Nat) /\ cache \in Seq(Nat)
  BY <1>1, CacheTypes DEF TypeOK
<1>3. "degraded_fallback" \in Statuses /\ "error" \in Statuses
  BY DEF Statuses
<1>4. cache' \in Seq(Nat) /\ counted' \in [Statuses -> Nat]
  BY <1>2, <1>3, CountingType, ConcludedCases
<1>5. PICK reply \in Replies :
         /\ reply \notin StreamEnds
         /\ req' = [req EXCEPT ![r] = Answered(q, reply)]
  <2>1. {"degraded_cache", "degraded_heuristic", "unavailable", "server_error"}
           \subseteq Replies \ StreamEnds
    BY DEF Replies, Degraded, StreamEnds
  <2> QED BY <2>1, ConcludedCases
<1>6. /\ Answered(q, reply) \in Request
      /\ Answered(q, reply).phase = "done"
      /\ Answered(q, reply).reply = reply
      /\ Answered(q, reply).kind = q.kind
      /\ Answered(q, reply).target = q.target
  BY AnsweredFields
<1> QED BY <1>4, <1>5, <1>6

(* Reading the state of a breaker changes neither slots nor load. *)
LEMMA PolledBackend ==
    ASSUME NEW x \in Backend
    PROVE  /\ [x EXCEPT !.breaker = Polled(@)] \in Backend
           /\ SameSlots(x, [x EXCEPT !.breaker = Polled(@)])
           /\ SameSlots(x, x)
<1>1. Polled(x.breaker) \in Breaker
  BY BackendFields, BreakerTypes
<1> QED BY <1>1 DEF Backend, SameSlots

LEMMA PolledGroupFacts ==
    ASSUME TypeOK, NEW g
    PROVE  /\ PolledGroup(g) \in [Backends -> Backend]
           /\ \A b \in Backends : SameSlots(pool[b], PolledGroup(g)[b])
<1>1. ASSUME NEW b \in Backends
      PROVE  PolledGroup(g)[b] \in Backend /\ SameSlots(pool[b], PolledGroup(g)[b])
  <2>1. pool[b] \in Backend
    BY DEF TypeOK
  <2>2. PolledGroup(g)[b] \in {pool[b], [pool[b] EXCEPT !.breaker = Polled(@)]}
    BY DEF PolledGroup
  <2> QED BY <2>1, <2>2, PolledBackend
<1>2. PolledGroup(g) = [b \in Backends |-> PolledGroup(g)[b]]
  BY DEF PolledGroup
<1> QED BY <1>1, <1>2

-----------------------------------------------------------------------------
(* The invariant holds at the start.                                       *)

LEMMA InitInv == Init => IInv
<1> SUFFICES ASSUME Init PROVE IInv
  OBVIOUS
<1>1. MaxInflight \in Nat
  BY RouterAssumption
<1>2. NewBreaker \in Breaker /\ NewSemaphore(MaxInflight) \in Semaphore(Requests)
  BY <1>1 DEF NewBreaker, Breaker, BreakerStates, NewSemaphore, Semaphore
<1>3. NewBackend \in Backend
  BY <1>2 DEF NewBackend, Backend
<1>4. TypeOK
  <2>1. pool \in [Backends -> Backend]
    BY <1>3 DEF Init
  <2>2. req \in [Requests -> Request]
    BY DEF Init, Request, Phases, Replies
  <2>3. cursor \in [Groups -> Nat] /\ cache \in Seq(Nat) /\ weight \in Weights
        /\ counted \in [Statuses -> Nat]
    BY DEF Init, Weights
  <2> QED BY <2>1, <2>2, <2>3 DEF TypeOK
<1>5. Lifecycle
  BY DEF Init, Lifecycle, StreamEnds
<1>6. ASSUME NEW b \in Backends
      PROVE  Slots(pool[b], InPhase(b, "queued"), InPhase(b, "forwarded"), TwiceReleased(b))
  <2>1. InPhase(b, "queued") = {} /\ InPhase(b, "forwarded") = {} /\ TwiceReleased(b) = {}
    BY DEF Init, InPhase, TwiceReleased, Replied, StreamEnds
  <2>2. /\ pool[b].sem.value = MaxInflight /\ pool[b].sem.pending = <<>>
        /\ pool[b].sem.granted = {} /\ pool[b].outstanding = 0 /\ pool[b].queued = 0
    BY DEF Init, NewBackend, NewSemaphore
  <2>3. Cardinality({}) = 0
    BY FS_EmptySet
  <2>4. WaitersAre(pool[b].sem, {})
    BY <2>2 DEF WaitersAre, Waiting, ToSet
  <2>5. NoneForgotten(pool[b].sem) /\ Permits(pool[b].sem) = MaxInflight
    BY <1>1, <2>2, <2>3 DEF NoneForgotten, Permits
  <2>6. Slots(pool[b], {}, {}, {})
    BY <1>1, <2>2, <2>3, <2>4, <2>5 DEF Slots
  <2> QED BY <2>1, <2>6
<1> QED BY <1>4, <1>5, <1>6 DEF IInv, SlotInv

-----------------------------------------------------------------------------
(* Steps that move no request.                                             *)

(* Backend records may change in anything but slots and load. *)
LEMMA PoolKept ==
    ASSUME IInv, pool' \in [Backends -> Backend],
           \A c \in Backends : SameSlots(pool[c], pool'[c]),
           UNCHANGED <<cursor, req, cache, counted>>, weight' \in Weights
    PROVE  IInv'
<1>1. SlotInv' /\ Lifecycle'
  BY KeepSlots
<1>2. TypeOK'
  BY DEF IInv, TypeOK
<1> QED BY <1>1, <1>2 DEF IInv

LEMMA HealthCheckInv ==
    ASSUME IInv, NEW b \in Backends, HealthCheck(b)
    PROVE  IInv'
<1>1. PICK ok \in BOOLEAN : pool' = [pool EXCEPT ![b].healthy = ok]
  BY RouterAssumption DEF HealthCheck
<1>2. pool \in [Backends -> Backend] /\ weight \in Weights
  BY DEF IInv, TypeOK
<1>3. ASSUME NEW c \in Backends
      PROVE  pool'[c] \in Backend /\ SameSlots(pool[c], pool'[c])
  BY <1>1, <1>2 DEF Backend, SameSlots
<1>4. pool' \in [Backends -> Backend]
  BY <1>1, <1>2, <1>3
<1> QED BY <1>2, <1>3, <1>4, PoolKept DEF HealthCheck

LEMMA BreakerCoolsInv ==
    ASSUME IInv, NEW b \in Backends, BreakerCools(b)
    PROVE  IInv'
<1>1. pool \in [Backends -> Backend] /\ weight \in Weights
  BY DEF IInv, TypeOK
<1>2. Cooled(pool[b].breaker) \in Breaker
  BY <1>1, BackendFields, BreakerTypes
<1>3. pool' = [pool EXCEPT ![b] = [@ EXCEPT !.breaker = Cooled(pool[b].breaker)]]
  BY <1>1 DEF BreakerCools
<1>4. ASSUME NEW c \in Backends
      PROVE  pool'[c] \in Backend /\ SameSlots(pool[c], pool'[c])
  BY <1>1, <1>2, <1>3 DEF Backend, SameSlots
<1>5. pool' \in [Backends -> Backend]
  BY <1>1, <1>3, <1>4
<1> QED BY <1>1, <1>4, <1>5, PoolKept DEF BreakerCools

LEMMA SnapshotInv ==
    ASSUME IInv, Snapshot
    PROVE  IInv'
<1>1. pool \in [Backends -> Backend] /\ weight \in Weights
  BY DEF IInv, TypeOK
<1>2. ASSUME NEW c \in Backends
      PROVE  pool'[c] \in Backend /\ SameSlots(pool[c], pool'[c])
  <2>1. pool'[c] = [pool[c] EXCEPT !.breaker = Polled(@)]
    BY DEF Snapshot
  <2> QED BY <1>1, <2>1, PolledBackend
<1>3. pool' \in [Backends -> Backend]
  BY <1>2 DEF Snapshot
<1> QED BY <1>1, <1>2, <1>3, PoolKept DEF Snapshot

LEMMA ReadyzInv ==
    ASSUME IInv, Readyz
    PROVE  IInv'
<1>1. pool \in [Backends -> Backend] /\ weight \in Weights
  BY DEF IInv, TypeOK
<1>2. ASSUME NEW c \in Backends
      PROVE  pool'[c] \in Backend /\ SameSlots(pool[c], pool'[c])
  <2>1. pool'[c] \in {pool[c], [pool[c] EXCEPT !.breaker = Polled(@)]}
    BY DEF Readyz
  <2> QED BY <1>1, <2>1, PolledBackend
<1>3. pool' \in [Backends -> Backend]
  BY <1>2 DEF Readyz
<1> QED BY <1>1, <1>2, <1>3, PoolKept DEF Readyz

LEMMA SetCanaryWeightInv ==
    ASSUME IInv, SetCanaryWeight
    PROVE  IInv'
<1>1. weight \in Int
  BY RouterAssumption DEF IInv, TypeOK, Weights
<1>2. weight' \in Weights
  BY <1>1, RouterAssumption DEF SetCanaryWeight, Clamp, Weights
<1>3. pool' \in [Backends -> Backend] /\ \A c \in Backends : SameSlots(pool[c], pool'[c])
  BY DEF IInv, TypeOK, SetCanaryWeight, SameSlots
<1> QED BY <1>2, <1>3, PoolKept DEF SetCanaryWeight

-----------------------------------------------------------------------------
(* Steps that move a request.                                              *)

(* What Lifecycle asks of one request. *)
Lives(q) ==
    /\ q.phase # "done" => q.reply = "none"
    /\ q.phase \in {"queued", "forwarded", "streaming"} => q.target \in Backends
    /\ q.phase # "idle" => q.kind \in Kinds
    /\ q.phase = "streaming" \/ q.reply \in StreamEnds => q.kind = "stream"

LEMMA MoveLifecycle ==
    ASSUME IInv, NEW r \in Requests, NEW q \in Request,
           req' = [req EXCEPT ![r] = q], Lives(q)
    PROVE  Lifecycle' /\ req' \in [Requests -> Request]
<1>1. req \in [Requests -> Request]
  BY DEF IInv, TypeOK
<1>2. req' \in [Requests -> Request]
  BY <1>1
<1>3. ASSUME NEW s \in Requests PROVE Lives(req'[s])
  <2>1. Lives(req[s])
    BY DEF IInv, Lifecycle, Lives
  <2>2. req'[s] = IF s = r THEN q ELSE req[s]
    BY <1>1
  <2> QED BY <2>1, <2>2
<1> QED BY <1>2, <1>3 DEF Lifecycle, Lives

(* The records of the backends and the type of what the handler that b     *)
(* serves leaves alone. *)
LEMMA OneBackend ==
    ASSUME IInv, NEW b \in Backends, NEW y \in Backend, pool' = [pool EXCEPT ![b] = y]
    PROVE  /\ pool' \in [Backends -> Backend] /\ pool'[b] = y
           /\ \A c \in Backends \ {b} : SameSlots(pool[c], pool'[c])
BY DEF IInv, TypeOK, SameSlots

LEMMA RequestFacts ==
    ASSUME IInv, NEW r \in Requests
    PROVE  /\ req[r] \in Request /\ Lives(req[r])
           /\ req[r].phase \in Phases /\ req[r].kind \in {"plain", "stream"}
           /\ req[r].key \in Nat /\ req[r].target \in Backends \cup {NoBackend}
           /\ req[r].reply \in Replies
<1>1. req[r] \in Request
  BY DEF IInv, TypeOK
<1>2. Lives(req[r])
  BY DEF IInv, Lifecycle, Lives
<1> QED BY <1>1, <1>2 DEF Request

LEMMA BackendSlots ==
    ASSUME IInv, NEW b \in Backends
    PROVE  /\ pool[b] \in Backend
           /\ Slots(pool[b], InPhase(b, "queued"), InPhase(b, "forwarded"), TwiceReleased(b))
           /\ InPhase(b, "queued") \in SUBSET Requests
           /\ InPhase(b, "forwarded") \in SUBSET Requests
           /\ TwiceReleased(b) \in SUBSET Requests
BY DEF IInv, TypeOK, SlotInv, InPhase, TwiceReleased, Replied

(* The two parts together, for a request that b serves. *)
LEMMA MoveInv ==
    ASSUME IInv, NEW r \in Requests, NEW q \in Request, req' = [req EXCEPT ![r] = q],
           req[r].phase # "done", Lives(q),
           NEW b \in Backends,
           req[r].phase \in {"queued", "forwarded"} => req[r].target = b,
           q.target = b,
           pool' \in [Backends -> Backend],
           \A c \in Backends \ {b} : SameSlots(pool[c], pool'[c]),
           Slots(pool'[b],
                 (InPhase(b, "queued") \ {r}) \cup (IF q.phase = "queued" THEN {r} ELSE {}),
                 (InPhase(b, "forwarded") \ {r}) \cup (IF q.phase = "forwarded" THEN {r} ELSE {}),
                 TwiceReleased(b) \cup (IF q.reply \in StreamEnds THEN {r} ELSE {})),
           cursor' \in [Groups -> Nat], cache' \in Seq(Nat), weight' \in Weights,
           counted' \in [Statuses -> Nat]
    PROVE  IInv'
<1>1. Lifecycle' /\ req' \in [Requests -> Request]
  BY MoveLifecycle
<1>2. SlotInv'
  BY MoveRequest
<1>3. TypeOK'
  BY <1>1 DEF TypeOK
<1> QED BY <1>1, <1>2, <1>3 DEF IInv

LEMMA StreamUnreadInv ==
    ASSUME IInv, NEW r \in Requests, StreamUnread(r)
    PROVE  IInv'
<1> DEFINE q == Answered(req[r], "stream_unread")
<1>1. /\ req' = [req EXCEPT ![r] = q] /\ req[r].phase = "streaming"
      /\ UNCHANGED <<pool, cursor, cache, weight, counted>>
  BY DEF StreamUnread, IInv, TypeOK
<1>2. "stream_unread" \in Replies \ StreamEnds
  BY DEF Replies, StreamEnds
<1>3. /\ q \in Request /\ q.phase = "done" /\ q.reply \notin StreamEnds
      /\ q.kind = req[r].kind
  BY <1>2, RequestFacts, AnsweredFields
<1> HIDE DEF q
<1>4. Lives(q)
  BY <1>1, <1>3, RequestFacts DEF Lives
<1>5. Lifecycle' /\ req' \in [Requests -> Request]
  BY <1>1, <1>3, <1>4, MoveLifecycle
<1>6. SlotInv'
  <2>1. NoBackend \notin Backends
    BY BackendsFacts
  <2>2. \A c \in Backends \ {NoBackend} : SameSlots(pool[c], pool'[c])
    BY <1>1 DEF SameSlots
  <2> QED BY <1>1, <1>3, <2>1, <2>2, MoveRequest
<1>7. TypeOK'
  BY <1>1, <1>5 DEF IInv, TypeOK
<1> QED BY <1>5, <1>6, <1>7 DEF IInv

(* A response generator's finally clause: b has one permit too many. *)
LEMMA StreamEndedInv ==
    ASSUME IInv, NEW r \in Requests, req[r].phase = "streaming",
           NEW x \in Backend, SameSlots(pool[req[r].target], x),
           NEW reply \in StreamEnds, StreamEnded(r, x, reply),
           counted' \in [Statuses -> Nat]
    PROVE  IInv'
<1> DEFINE q == Answered(req[r], reply)
           b == req[r].target
           y == Finished(x)
<1>1. /\ req' = [req EXCEPT ![r] = q] /\ pool' = [pool EXCEPT ![b] = y]
      /\ UNCHANGED <<cursor, cache, weight>>
  BY DEF StreamEnded, IInv, TypeOK
<1>2. reply \in Replies
  BY DEF Replies
<1>3. /\ q \in Request /\ q.phase = "done" /\ q.reply = reply
      /\ q.kind = req[r].kind /\ q.target = b
  BY <1>2, RequestFacts, AnsweredFields
<1>4. b \in Backends /\ req[r].kind = "stream" /\ req[r].kind \in Kinds
  BY RequestFacts DEF Lives
<1>5. r \notin TwiceReleased(b) /\ r \notin InPhase(b, "queued") /\ r \notin InPhase(b, "forwarded")
  <2>1. req[r].reply = "none"
    BY RequestFacts DEF Lives
  <2> QED BY <2>1 DEF TwiceReleased, Replied, InPhase, StreamEnds
<1>6. y \in Backend
      /\ Slots(y, InPhase(b, "queued"), InPhase(b, "forwarded"), TwiceReleased(b) \cup {r})
  <2>1. Slots(x, InPhase(b, "queued"), InPhase(b, "forwarded"), TwiceReleased(b))
    BY <1>4, BackendSlots DEF Slots, SameSlots
  <2> QED BY <1>4, <1>5, <2>1, BackendSlots, StreamFinishedSlots
<1> HIDE DEF q, b, y
<1>7. Lives(q)
  BY <1>3, <1>4 DEF Lives
<1>8. /\ pool' \in [Backends -> Backend] /\ pool'[b] = y
      /\ \A c \in Backends \ {b} : SameSlots(pool[c], pool'[c])
  BY <1>1, <1>4, <1>6, OneBackend
<1>9. Slots(pool'[b],
             (InPhase(b, "queued") \ {r}) \cup (IF q.phase = "queued" THEN {r} ELSE {}),
             (InPhase(b, "forwarded") \ {r}) \cup (IF q.phase = "forwarded" THEN {r} ELSE {}),
             TwiceReleased(b) \cup (IF q.reply \in StreamEnds THEN {r} ELSE {}))
  <2>1. /\ (InPhase(b, "queued") \ {r}) \cup (IF q.phase = "queued" THEN {r} ELSE {})
           = InPhase(b, "queued")
        /\ (InPhase(b, "forwarded") \ {r}) \cup (IF q.phase = "forwarded" THEN {r} ELSE {})
           = InPhase(b, "forwarded")
        /\ (IF q.reply \in StreamEnds THEN {r} ELSE {}) = {r}
    BY <1>3, <1>5
  <2> QED BY <1>6, <1>8, <2>1
<1>10. /\ cursor' \in [Groups -> Nat] /\ cache' \in Seq(Nat) /\ weight' \in Weights
  BY <1>1 DEF IInv, TypeOK
<1> QED BY <1>1, <1>3, <1>4, <1>7, <1>8, <1>9, <1>10, MoveInv

LEMMA StreamEndsInv ==
    ASSUME IInv, NEW r \in Requests, StreamOk(r) \/ StreamError(r) \/ StreamCancelled(r)
    PROVE  IInv'
<1> DEFINE x == pool[req[r].target]
<1>1. req[r].phase = "streaming"
  BY DEF StreamOk, StreamError, StreamCancelled
<1>2. x \in Backend /\ SameSlots(x, x)
  BY <1>1, RequestFacts, BackendSlots DEF Lives, SameSlots
<1>3. /\ Succeeded(x) \in Backend /\ SameSlots(x, Succeeded(x))
      /\ Failed(x) \in Backend /\ SameSlots(x, Failed(x))
  BY <1>2, OutcomeFields DEF SameSlots
<1>4. /\ "stream_ok" \in StreamEnds /\ "stream_error" \in StreamEnds
      /\ "stream_cancelled" \in StreamEnds
      /\ "ok" \in Statuses /\ "error" \in Statuses
  BY DEF StreamEnds, Statuses
<1>5. counted' \in [Statuses -> Nat]
  <2>1. counted \in [Statuses -> Nat]
    BY DEF IInv, TypeOK
  <2> QED BY <1>4, <2>1, CountingType DEF StreamOk, StreamError, StreamCancelled
<1>6. CASE StreamOk(r)
  <2>1. StreamEnded(r, Succeeded(x), "stream_ok")
    BY <1>6 DEF StreamOk
  <2> QED BY <1>1, <1>3, <1>4, <1>5, <2>1, StreamEndedInv
<1>7. CASE StreamError(r)
  <2>1. StreamEnded(r, Failed(x), "stream_error")
    BY <1>7 DEF StreamError
  <2> QED BY <1>1, <1>3, <1>4, <1>5, <2>1, StreamEndedInv
<1>8. CASE StreamCancelled(r)
  <2>1. StreamEnded(r, x, "stream_cancelled")
    BY <1>8 DEF StreamCancelled
  <2> QED BY <1>1, <1>2, <1>4, <1>5, <2>1, StreamEndedInv
<1> QED BY <1>6, <1>7, <1>8

(* The handler's finally clause after a plain request; the answer, and     *)
(* what it is counted as, do not matter.                                   *)
LEMMA PlainAnsweredInv ==
    ASSUME IInv, NEW r \in Requests, req[r].phase = "forwarded",
           NEW x \in Backend, SameSlots(pool[req[r].target], x),
           NEW q \in Request, req' = [req EXCEPT ![r] = q],
           q.phase = "done", q.target = req[r].target, q.kind = req[r].kind,
           q.reply \notin StreamEnds,
           pool' = [pool EXCEPT ![req[r].target] = Finished(x)],
           cursor' = cursor, cache' \in Seq(Nat), weight' = weight,
           counted' \in [Statuses -> Nat]
    PROVE  IInv'
<1> DEFINE b == req[r].target
           y == Finished(x)
<1>1. b \in Backends /\ req[r].kind \in Kinds
  BY RequestFacts DEF Lives
<1>2. r \notin InPhase(b, "queued") /\ r \in InPhase(b, "forwarded")
  BY DEF InPhase
<1>3. /\ y \in Backend
      /\ Slots(y, InPhase(b, "queued"), InPhase(b, "forwarded") \ {r}, TwiceReleased(b))
  <2>1. Slots(x, InPhase(b, "queued"), InPhase(b, "forwarded"), TwiceReleased(b))
    BY <1>1, BackendSlots DEF Slots, SameSlots
  <2> QED BY <1>1, <1>2, <2>1, BackendSlots, FinishedSlots
<1>4. Lives(q)
  BY <1>1 DEF Lives
<1>5. pool' = [pool EXCEPT ![b] = y] /\ q.target = b /\ b = req[r].target
  OBVIOUS
<1> HIDE DEF b, y
<1>6. /\ pool' \in [Backends -> Backend] /\ pool'[b] = y
      /\ \A c \in Backends \ {b} : SameSlots(pool[c], pool'[c])
  BY <1>1, <1>3, <1>5, OneBackend
<1>7. Slots(pool'[b],
            (InPhase(b, "queued") \ {r}) \cup (IF q.phase = "queued" THEN {r} ELSE {}),
            (InPhase(b, "forwarded") \ {r}) \cup (IF q.phase = "forwarded" THEN {r} ELSE {}),
            TwiceReleased(b) \cup (IF q.reply \in StreamEnds THEN {r} ELSE {}))
  <2>1. /\ (InPhase(b, "queued") \ {r}) \cup (IF q.phase = "queued" THEN {r} ELSE {})
           = InPhase(b, "queued")
        /\ (InPhase(b, "forwarded") \ {r}) \cup (IF q.phase = "forwarded" THEN {r} ELSE {})
           = InPhase(b, "forwarded") \ {r}
        /\ TwiceReleased(b) \cup (IF q.reply \in StreamEnds THEN {r} ELSE {})
           = TwiceReleased(b)
    BY <1>2
  <2> QED BY <1>3, <1>6, <2>1
<1>8. cursor' \in [Groups -> Nat] /\ weight' \in Weights
  BY DEF IInv, TypeOK
<1> QED BY <1>1, <1>4, <1>5, <1>6, <1>7, <1>8, MoveInv

LEMMA UpstreamOkInv ==
    ASSUME IInv, NEW r \in Requests, UpstreamOk(r)
    PROVE  IInv'
<1> DEFINE x == pool[req[r].target]
           q == Answered(req[r], "ok")
<1>1. req[r].phase = "forwarded"
  BY DEF UpstreamOk
<1>2. /\ req' = [req EXCEPT ![r] = q]
      /\ pool' = [pool EXCEPT ![req[r].target] = Finished(Succeeded(x))]
      /\ UNCHANGED <<cursor, weight>>
  BY DEF UpstreamOk, IInv, TypeOK
<1>3. x \in Backend /\ SameSlots(x, x)
  BY <1>1, RequestFacts, BackendSlots DEF Lives, SameSlots
<1>4. Succeeded(x) \in Backend /\ SameSlots(x, Succeeded(x))
  BY <1>3, OutcomeFields DEF SameSlots
<1>5. "ok" \in Replies \ StreamEnds /\ "ok" \in Statuses
  BY DEF Replies, StreamEnds, Statuses
<1>6. /\ q \in Request /\ q.phase = "done" /\ q.reply \notin StreamEnds
      /\ q.target = req[r].target /\ q.kind = req[r].kind
  BY <1>5, RequestFacts, AnsweredFields
<1>7. cache' \in Seq(Nat)
  <2>1. TypeOK /\ cache \in Seq(Nat) /\ req[r].key \in Nat
    BY RequestFacts DEF IInv, TypeOK
  <2>2. CachePut(req[r].key) \in Seq(Nat)
    BY <2>1, CacheTypes
  <2> QED BY <2>1, <2>2 DEF UpstreamOk
<1>8. counted' \in [Statuses -> Nat]
  <2>1. counted \in [Statuses -> Nat]
    BY DEF IInv, TypeOK
  <2> QED BY <1>5, <2>1, CountingType DEF UpstreamOk
<1> HIDE DEF q
<1> QED BY <1>1, <1>2, <1>4, <1>6, <1>7, <1>8, PlainAnsweredInv

LEMMA UpstreamFailedInv ==
    ASSUME IInv, NEW r \in Requests, UpstreamError(r) \/ UpstreamMalformed(r)
    PROVE  IInv'
<1> DEFINE x == pool[req[r].target]
<1>1. req[r].phase = "forwarded"
  BY DEF UpstreamError, UpstreamMalformed
<1>2. x \in Backend /\ SameSlots(x, x)
  BY <1>1, RequestFacts, BackendSlots DEF Lives, SameSlots
<1>3. PICK z \in Backend : SameSlots(x, z) /\ UpstreamFailed(r, z)
  <2>1. Succeeded(x) \in Backend /\ SameSlots(x, Succeeded(x))
    BY <1>2, OutcomeFields DEF SameSlots
  <2>2. UpstreamFailed(r, x) \/ UpstreamFailed(r, Succeeded(x))
    BY DEF UpstreamError, UpstreamMalformed
  <2> QED BY <1>2, <2>1, <2>2
<1>4. Failed(z) \in Backend /\ SameSlots(x, Failed(z))
  BY <1>3, OutcomeFields DEF SameSlots
<1>5. req[r] \in Request
  BY RequestFacts
<1>6. TypeOK /\ Counting(counted, "error") \in [Statuses -> Nat]
  <2>1. TypeOK /\ counted \in [Statuses -> Nat] /\ "error" \in Statuses
    BY DEF IInv, TypeOK, Statuses
  <2> QED BY <2>1, CountingType
<1>7. ServeFallback(r, req[r], Counting(counted, "error"))
  BY <1>3 DEF UpstreamFailed
<1>8. /\ cache' \in Seq(Nat) /\ counted' \in [Statuses -> Nat]
      /\ \E q \in Request : /\ req' = [req EXCEPT ![r] = q]
                            /\ q.phase = "done" /\ q.kind = req[r].kind
                            /\ q.target = req[r].target
                            /\ q.reply \notin StreamEnds
  BY <1>5, <1>6, <1>7, ConcludedFacts DEF Concluded
<1>9. PICK q \in Request : /\ req' = [req EXCEPT ![r] = q]
                           /\ q.phase = "done" /\ q.kind = req[r].kind
                           /\ q.target = req[r].target
                           /\ q.reply \notin StreamEnds
  BY <1>8
<1>10. /\ pool' = [pool EXCEPT ![req[r].target] = Finished(Failed(z))]
       /\ UNCHANGED <<cursor, weight>>
  BY <1>3 DEF UpstreamFailed
<1> QED BY <1>1, <1>4, <1>8, <1>9, <1>10, PlainAnsweredInv

LEMMA QueueTimeoutInv ==
    ASSUME IInv, NEW r \in Requests, QueueTimeout(r)
    PROVE  IInv'
<1> DEFINE b == req[r].target
           q == Answered(req[r], "rejected")
<1>1. req[r].phase = "queued" /\ b \in Backends /\ req[r].kind \in Kinds
  BY RequestFacts DEF QueueTimeout, Lives
<1>2. PICK sem :
         /\ \/ r \in pool[b].sem.granted /\ sem = CancelGranted(pool[b].sem, r)
            \/ \E i \in DOMAIN pool[b].sem.pending :
                  pool[b].sem.pending[i] = r /\ sem = CancelPending(pool[b].sem, i)
         /\ Rejected(r, sem)
  BY DEF QueueTimeout
<1> DEFINE y == Left(pool[b], sem)
<1>3. /\ pool' = [pool EXCEPT ![b] = y] /\ req' = [req EXCEPT ![r] = q]
      /\ counted' = Counting(counted, "rejected_admission")
      /\ UNCHANGED <<cursor, cache, weight>>
  BY <1>2 DEF Rejected, IInv, TypeOK
<1>4. /\ y \in Backend
      /\ Slots(y, InPhase(b, "queued") \ {r}, InPhase(b, "forwarded"), TwiceReleased(b))
  BY <1>1, <1>2, BackendSlots, RejectedSlots
<1>5. r \notin InPhase(b, "forwarded")
  BY <1>1 DEF InPhase
<1>6. /\ "rejected" \in Replies \ StreamEnds
      /\ "rejected_admission" \in Statuses
  BY DEF Replies, StreamEnds, Statuses
<1>7. /\ q \in Request /\ q.phase = "done" /\ q.reply \notin StreamEnds
      /\ q.kind = req[r].kind /\ q.target = b
  BY <1>6, RequestFacts, AnsweredFields
<1>8. Lives(q)
  BY <1>1, <1>7 DEF Lives
<1>9. /\ cursor' \in [Groups -> Nat] /\ cache' \in Seq(Nat) /\ weight' \in Weights
      /\ counted \in [Statuses -> Nat]
  BY <1>3 DEF IInv, TypeOK
<1>10. counted' \in [Statuses -> Nat]
  BY <1>3, <1>6, <1>9, CountingType
<1>11. req[r].target = b
  OBVIOUS
<1> HIDE DEF b, q, y
<1>12. /\ pool' \in [Backends -> Backend] /\ pool'[b] = y
       /\ \A c \in Backends \ {b} : SameSlots(pool[c], pool'[c])
  BY <1>1, <1>3, <1>4, OneBackend
<1>13. Slots(pool'[b],
             (InPhase(b, "queued") \ {r}) \cup (IF q.phase = "queued" THEN {r} ELSE {}),
             (InPhase(b, "forwarded") \ {r}) \cup (IF q.phase = "forwarded" THEN {r} ELSE {}),
             TwiceReleased(b) \cup (IF q.reply \in StreamEnds THEN {r} ELSE {}))
  <2>1. /\ (InPhase(b, "queued") \ {r}) \cup (IF q.phase = "queued" THEN {r} ELSE {})
           = InPhase(b, "queued") \ {r}
        /\ (InPhase(b, "forwarded") \ {r}) \cup (IF q.phase = "forwarded" THEN {r} ELSE {})
           = InPhase(b, "forwarded")
        /\ TwiceReleased(b) \cup (IF q.reply \in StreamEnds THEN {r} ELSE {})
           = TwiceReleased(b)
    BY <1>5, <1>7
  <2> QED BY <1>4, <1>12, <2>1
<1> QED BY <1>1, <1>3, <1>7, <1>8, <1>9, <1>10, <1>11, <1>12, <1>13, MoveInv

(* A request that has taken a slot of b is forwarded, x being b's record   *)
(* once the slot is in the handler's hands.                                *)
LEMMA ForwardedInv ==
    ASSUME IInv, NEW r \in Requests, NEW b \in Backends, NEW x \in Backend,
           req[r].phase \in {"idle", "queued"}, req[r].phase = "queued" => req[r].target = b,
           InHand(x, InPhase(b, "queued") \ {r}, InPhase(b, "forwarded"), TwiceReleased(b)),
           NEW q \in Request, req' = [req EXCEPT ![r] = q],
           q.kind \in Kinds, q.phase = PhaseOf(q.kind), q.target = b, q.reply = "none",
           pool' \in [Backends -> Backend], pool'[b] = Forwarded(x, q.kind),
           \A c \in Backends \ {b} : SameSlots(pool[c], pool'[c]),
           cursor' \in [Groups -> Nat], UNCHANGED <<cache, weight, counted>>
    PROVE  IInv'
<1>1. q.kind \in {"plain", "stream"} /\ q.reply \notin StreamEnds
  BY RouterAssumption DEF StreamEnds
<1>2. r \notin InPhase(b, "forwarded")
  BY DEF InPhase
<1>3. Lives(q)
  BY <1>1 DEF Lives, PhaseOf
<1>4. Slots(pool'[b],
            (InPhase(b, "queued") \ {r}) \cup (IF q.phase = "queued" THEN {r} ELSE {}),
            (InPhase(b, "forwarded") \ {r}) \cup (IF q.phase = "forwarded" THEN {r} ELSE {}),
            TwiceReleased(b) \cup (IF q.reply \in StreamEnds THEN {r} ELSE {}))
  <2> DEFINE Q == InPhase(b, "queued") \ {r}
             F == InPhase(b, "forwarded")
             T == TwiceReleased(b)
  <2>1. Q \in SUBSET Requests /\ F \in SUBSET Requests /\ T \in SUBSET Requests
    BY BackendSlots
  <2>2. /\ Q \cup (IF q.phase = "queued" THEN {r} ELSE {}) = Q
        /\ T \cup (IF q.reply \in StreamEnds THEN {r} ELSE {}) = T
        /\ (F \ {r}) \cup (IF q.phase = "forwarded" THEN {r} ELSE {})
           = IF q.kind = "plain" THEN F \cup {r} ELSE F
    BY <1>1, <1>2 DEF PhaseOf
  <2>3. /\ q.kind = "plain" => Slots(Forwarded(x, q.kind), Q, F \cup {r}, T)
        /\ q.kind = "stream" => Slots(Forwarded(x, q.kind), Q, F, T)
    <3> HIDE DEF Q, F, T
    <3>1. InHand(x, Q, F, T) /\ r \notin F
      BY <1>2 DEF Q, F, T
    <3> QED BY <1>1, <2>1, <3>1, ForwardedSlots
  <2>4. Slots(Forwarded(x, q.kind), Q, IF q.kind = "plain" THEN F \cup {r} ELSE F, T)
    <3> HIDE DEF Q, F, T
    <3> QED BY <1>1, <2>3
  <2> QED BY <2>2, <2>4
<1>5. /\ cache' \in Seq(Nat) /\ weight' \in Weights /\ counted' \in [Statuses -> Nat]
  BY DEF IInv, TypeOK
<1> QED BY <1>3, <1>4, <1>5, MoveInv

LEMMA ResumeInv ==
    ASSUME IInv, NEW r \in Requests, Resume(r)
    PROVE  IInv'
<1> DEFINE b == req[r].target
           y == Left(pool[b], ResumeGranted(pool[b].sem, r))
           q == [req[r] EXCEPT !.phase = PhaseOf(req[r].kind)]
           z == Forwarded(y, req[r].kind)
<1>1. /\ req[r].phase = "queued" /\ b \in Backends /\ req[r].kind \in Kinds
      /\ req[r].reply = "none"
  BY RequestFacts DEF Resume, Lives
<1>2. /\ pool' = [pool EXCEPT ![b] = z] /\ req' = [req EXCEPT ![r] = q]
      /\ UNCHANGED <<cursor, cache, weight, counted>> /\ r \in pool[b].sem.granted
  BY DEF Resume, IInv, TypeOK
<1>3. /\ y \in Backend
      /\ InHand(y, InPhase(b, "queued") \ {r}, InPhase(b, "forwarded"), TwiceReleased(b))
  BY <1>1, <1>2, BackendSlots, ResumedSlots
<1>4. /\ q \in Request /\ q.phase = PhaseOf(q.kind) /\ q.kind = req[r].kind
      /\ q.reply = "none" /\ q.target = b
  <2>1. req[r] \in Request
    BY RequestFacts
  <2>2. PhaseOf(req[r].kind) \in Phases
    BY DEF PhaseOf, Phases
  <2> QED BY <1>1, <2>1, <2>2 DEF Request
<1>5. z \in Backend
  <2>1. r \notin InPhase(b, "forwarded") /\ req[r].kind \in {"plain", "stream"}
    BY <1>1, RequestFacts DEF InPhase
  <2>2. /\ InPhase(b, "queued") \ {r} \in SUBSET Requests
        /\ InPhase(b, "forwarded") \in SUBSET Requests
        /\ TwiceReleased(b) \in SUBSET Requests
    BY <1>1, BackendSlots
  <2> HIDE DEF b, y
  <2> QED BY <1>3, <2>1, <2>2, ForwardedSlots
<1>6. cursor' \in [Groups -> Nat]
  BY <1>2 DEF IInv, TypeOK
<1>7. req[r].target = b /\ z = Forwarded(y, q.kind)
  BY <1>4
<1> HIDE DEF b, y, q, z
<1>8. /\ pool' \in [Backends -> Backend] /\ pool'[b] = z
      /\ \A c \in Backends \ {b} : SameSlots(pool[c], pool'[c])
  BY <1>1, <1>2, <1>5, OneBackend
<1> QED BY <1>1, <1>2, <1>3, <1>4, <1>6, <1>7, <1>8, ForwardedInv

LEMMA ArriveDegradedInv ==
    ASSUME IInv, NEW r \in Requests, req[r].phase = "idle",
           NEW kind \in Kinds, NEW key \in Keys, NEW g \in Groups,
           ArriveDegraded(r, kind, key, g) \/ ArriveUnhashable(r, kind, key, g)
    PROVE  IInv'
<1> DEFINE p == [req[r] EXCEPT !.kind = kind, !.key = key]
<1>1. p \in Request /\ p.kind = kind
  <2> DEFINE k == [req[r] EXCEPT !.kind = kind]
  <2>1. kind \in {"plain", "stream"} /\ key \in Nat /\ req[r] \in Request
    BY RequestFacts, RouterAssumption
  <2>2. k \in Request /\ k.kind = kind
    BY <2>1 DEF Request
  <2>3. p = [k EXCEPT !.key = key]
    OBVIOUS
  <2> HIDE DEF k, p
  <2> QED BY <2>1, <2>2, <2>3 DEF Request
<1>2. /\ Concluded(r, p, counted) /\ pool' = PolledGroup(g)
      /\ UNCHANGED <<cursor, weight>>
  BY DEF ArriveDegraded, ArriveUnhashable, Concluded
<1> HIDE DEF p
<1>3. TypeOK /\ counted \in [Statuses -> Nat]
  BY DEF IInv, TypeOK
<1>4. /\ cache' \in Seq(Nat) /\ counted' \in [Statuses -> Nat]
      /\ \E q \in Request : /\ req' = [req EXCEPT ![r] = q]
                            /\ q.phase = "done" /\ q.kind = p.kind
                            /\ q.target = p.target
                            /\ q.reply \notin StreamEnds
  BY <1>1, <1>2, <1>3, ConcludedFacts
<1>5. PICK q \in Request : /\ req' = [req EXCEPT ![r] = q]
                           /\ q.phase = "done" /\ q.kind = kind
                           /\ q.reply \notin StreamEnds
  BY <1>1, <1>4
<1>6. Lives(q)
  BY <1>5 DEF Lives
<1>7. Lifecycle' /\ req' \in [Requests -> Request]
  BY <1>5, <1>6, MoveLifecycle
<1>8. pool' \in [Backends -> Backend] /\ \A c \in Backends : SameSlots(pool[c], pool'[c])
  BY <1>2, <1>3, PolledGroupFacts
<1>9. SlotInv'
  <2>1. NoBackend \notin Backends
    BY BackendsFacts
  <2>2. \A c \in Backends \ {NoBackend} : SameSlots(pool[c], pool'[c])
    BY <1>8
  <2> QED BY <1>5, <2>1, <2>2, MoveRequest
<1>10. TypeOK'
  BY <1>2, <1>3, <1>4, <1>7, <1>8 DEF TypeOK
<1> QED BY <1>7, <1>9, <1>10 DEF IInv

LEMMA NextCursorType ==
    ASSUME TypeOK, NEW g \in Groups, NEW b \in Candidates(g)
    PROVE  NextCursor(g) \in [Groups -> Nat]
<1> DEFINE n == Cardinality(Candidates(g))
<1>1. n \in Nat \ {0}
  <2>1. IsFiniteSet(Candidates(g))
    BY BackendsFacts, FS_Subset DEF Candidates
  <2> QED BY <2>1, FS_CardinalityType, FS_EmptySet
<1>2. cursor \in [Groups -> Nat]
  BY DEF TypeOK
<1>3. (cursor[g] + 1) % n \in Nat
  <2> HIDE DEF n
  <2>1. cursor[g] + 1 \in Nat
    BY <1>2
  <2> QED BY <1>1, <2>1
<1>4. NextCursor(g) \in {cursor, [cursor EXCEPT ![g] = (@ + 1) % n]}
  BY DEF NextCursor
<1> HIDE DEF n
<1> QED BY <1>2, <1>3, <1>4

(* The request an arrival leaves behind. *)
LEMMA RoutedFields ==
    ASSUME NEW q \in Request, NEW kind \in Kinds, NEW key \in Keys,
           NEW b \in Backends, NEW phase \in Phases,
           NEW p, p = RoutedTo(q, kind, key, b, phase)
    PROVE  /\ p \in Request /\ p.kind = kind /\ p.target = b /\ p.phase = phase
           /\ p.reply = q.reply
<1> DEFINE k == [q EXCEPT !.kind = kind]
           l == [k EXCEPT !.key = key]
           m == [l EXCEPT !.target = b]
<1>1. kind \in {"plain", "stream"} /\ key \in Nat
  BY RouterAssumption
<1>2. k \in Request /\ k.kind = kind /\ k.reply = q.reply
  BY <1>1 DEF Request
<1> HIDE DEF k
<1>3. l \in Request /\ l.kind = kind /\ l.reply = q.reply
  BY <1>1, <1>2 DEF Request
<1> HIDE DEF l
<1>4. m \in Request /\ m.kind = kind /\ m.target = b /\ m.reply = q.reply
  BY <1>3 DEF Request
<1>5. p = [m EXCEPT !.phase = phase]
  BY DEF RoutedTo, m, l, k
<1> HIDE DEF m
<1> QED BY <1>4, <1>5 DEF Request

LEMMA ArriveRoutedInv ==
    ASSUME IInv, NEW r \in Requests, req[r].phase = "idle",
           NEW kind \in Kinds, NEW key \in Keys, NEW g \in Groups, NEW b \in Backends,
           ArriveRouted(r, kind, key, g, b)
    PROVE  IInv'
<1> DEFINE x == PolledGroup(g)[b]
           waits == Locked(x.sem)
           phase == IF waits THEN "queued" ELSE PhaseOf(kind)
           y == IF waits THEN Joined(x, r) ELSE Forwarded(Taken(x), kind)
           q == RoutedTo(req[r], kind, key, b, phase)
           Q == InPhase(b, "queued")
           F == InPhase(b, "forwarded")
           T == TwiceReleased(b)
<1>1. TypeOK /\ kind \in {"plain", "stream"}
  BY RouterAssumption DEF IInv
<1>2. /\ pool' = [PolledGroup(g) EXCEPT ![b] = y] /\ req' = [req EXCEPT ![r] = q]
      /\ cursor' = NextCursor(g) /\ UNCHANGED <<cache, weight, counted>>
      /\ b \in Candidates(g)
  <2>1. req' = [req EXCEPT ![r] =
                  RoutedTo(@, kind, key, b, phase)]
    BY DEF ArriveRouted
  <2>2. req' = [req EXCEPT ![r] = q]
    BY <1>1, <2>1 DEF TypeOK
  <2> QED BY <2>2 DEF ArriveRouted, Selects
<1>3. x \in Backend /\ Slots(x, Q, F, T)
  <2>1. x \in Backend /\ SameSlots(pool[b], x)
    BY <1>1, PolledGroupFacts
  <2> QED BY <2>1, BackendSlots DEF Slots, SameSlots
<1>4. /\ Q \in SUBSET Requests /\ F \in SUBSET Requests /\ T \in SUBSET Requests
      /\ r \notin Q /\ r \notin F
  <2>1. r \notin Q /\ r \notin F
    BY DEF InPhase
  <2> QED BY <2>1, BackendSlots
<1>5. cursor' \in [Groups -> Nat]
  BY <1>1, <1>2, NextCursorType
<1>6. phase \in Phases
  BY DEF Phases, PhaseOf
<1>7. /\ q \in Request /\ q.kind = kind /\ q.target = b /\ q.phase = phase
      /\ q.reply = "none"
  <2>1. req[r] \in Request /\ req[r].reply = "none"
    BY RequestFacts DEF Lives
  <2> HIDE DEF phase
  <2> QED BY <1>6, <2>1, RoutedFields
<1>8. y \in Backend
      => /\ pool' \in [Backends -> Backend] /\ pool'[b] = y
         /\ \A c \in Backends \ {b} : SameSlots(pool[c], pool'[c])
  <2>1. /\ PolledGroup(g) \in [Backends -> Backend]
        /\ \A c \in Backends : SameSlots(pool[c], PolledGroup(g)[c])
    BY <1>1, PolledGroupFacts
  <2> HIDE DEF x, y
  <2> QED BY <1>2, <2>1
<1>9. CASE waits
  <2>1. y = Joined(x, r) /\ q.phase = "queued"
    BY <1>7, <1>9
  <2>2. y \in Backend /\ Slots(y, Q \cup {r}, F, T)
    <3> HIDE DEF x, Q, F, T
    <3> QED BY <1>3, <1>4, <1>9, <2>1, JoinedSlots
  <2>3. /\ q.reply \notin StreamEnds /\ Lives(q)
    BY <1>7, <2>1 DEF StreamEnds, Lives
  <2>4. /\ pool' \in [Backends -> Backend] /\ pool'[b] = y
        /\ \A c \in Backends \ {b} : SameSlots(pool[c], pool'[c])
    BY <1>8, <2>2
  <2>5. /\ cache' \in Seq(Nat) /\ weight' \in Weights /\ counted' \in [Statuses -> Nat]
    BY <1>1, <1>2 DEF TypeOK
  <2> HIDE DEF x, waits, phase, y, q
  <2>6. Slots(pool'[b],
              (Q \ {r}) \cup (IF q.phase = "queued" THEN {r} ELSE {}),
              (F \ {r}) \cup (IF q.phase = "forwarded" THEN {r} ELSE {}),
              T \cup (IF q.reply \in StreamEnds THEN {r} ELSE {}))
    <3>1. /\ (Q \ {r}) \cup (IF q.phase = "queued" THEN {r} ELSE {}) = Q \cup {r}
          /\ (F \ {r}) \cup (IF q.phase = "forwarded" THEN {r} ELSE {}) = F
          /\ T \cup (IF q.reply \in StreamEnds THEN {r} ELSE {}) = T
      BY <1>4, <2>1, <2>3
    <3> QED BY <2>2, <2>4, <3>1
  <2> QED BY <1>2, <1>5, <1>7, <2>3, <2>4, <2>5, <2>6, MoveInv
<1>10. CASE ~waits
  <2>1. y = Forwarded(Taken(x), q.kind) /\ q.phase = PhaseOf(q.kind)
    BY <1>7, <1>10
  <2>2. Taken(x) \in Backend /\ InHand(Taken(x), Q, F, T)
    <3> HIDE DEF x, Q, F, T
    <3> QED BY <1>3, <1>4, <1>10, TakenSlots
  <2>3. InHand(Taken(x), Q \ {r}, F, T)
    <3>1. Q \ {r} = Q
      BY <1>4
    <3> QED BY <2>2, <3>1
  <2>4. y \in Backend
    <3> HIDE DEF x, y, q, Q, F, T
    <3> QED BY <1>1, <1>4, <1>7, <2>1, <2>2, ForwardedSlots
  <2>5. /\ pool' \in [Backends -> Backend] /\ pool'[b] = y
        /\ \A c \in Backends \ {b} : SameSlots(pool[c], pool'[c])
    BY <1>8, <2>4
  <2> HIDE DEF x, waits, phase, y, q
  <2> QED BY <1>2, <1>5, <1>7, <2>1, <2>2, <2>3, <2>5, ForwardedInv
<1> QED BY <1>9, <1>10

-----------------------------------------------------------------------------
(* The theorems.                                                           *)

LEMMA StepInv == IInv /\ [Next]_vars => IInv'
<1> SUFFICES ASSUME IInv, [Next]_vars PROVE IInv'
  OBVIOUS
<1>1. ASSUME NEW r \in Requests, Arrive(r) PROVE IInv'
  <2>1. req[r].phase = "idle"
    BY <1>1 DEF Arrive
  <2>2. PICK kind \in Kinds, key \in Keys, g \in Groups :
           \/ ArriveDegraded(r, kind, key, g) \/ ArriveUnhashable(r, kind, key, g)
           \/ \E b \in Backends : ArriveRouted(r, kind, key, g, b)
    BY <1>1 DEF Arrive
  <2> QED BY <2>1, <2>2, ArriveDegradedInv, ArriveRoutedInv
<1>2. ASSUME NEW r \in Requests, Resume(r) PROVE IInv'
  BY <1>2, ResumeInv
<1>3. ASSUME NEW r \in Requests, QueueTimeout(r) PROVE IInv'
  BY <1>3, QueueTimeoutInv
<1>4. ASSUME NEW r \in Requests, UpstreamOk(r) PROVE IInv'
  BY <1>4, UpstreamOkInv
<1>5. ASSUME NEW r \in Requests, UpstreamError(r) \/ UpstreamMalformed(r) PROVE IInv'
  BY <1>5, UpstreamFailedInv
<1>6. ASSUME NEW r \in Requests, StreamOk(r) \/ StreamError(r) \/ StreamCancelled(r)
      PROVE  IInv'
  BY <1>6, StreamEndsInv
<1>7. ASSUME NEW r \in Requests, StreamUnread(r) PROVE IInv'
  BY <1>7, StreamUnreadInv
<1>8. ASSUME NEW b \in Backends, HealthCheck(b) PROVE IInv'
  BY <1>8, HealthCheckInv
<1>9. ASSUME NEW b \in Backends, BreakerCools(b) PROVE IInv'
  BY <1>9, BreakerCoolsInv
<1>10. CASE Snapshot
  BY <1>10, SnapshotInv
<1>11. CASE Readyz
  BY <1>11, ReadyzInv
<1>12. CASE SetCanaryWeight
  BY <1>12, SetCanaryWeightInv
<1>13. CASE UNCHANGED vars
  <2>1. UNCHANGED <<pool, cursor, req, cache, weight, counted>>
    BY <1>13 DEF vars
  <2>2. \A c \in Backends : SameSlots(pool[c], pool'[c])
    BY <2>1 DEF SameSlots
  <2>3. pool' \in [Backends -> Backend] /\ weight' \in Weights
    BY <2>1 DEF IInv, TypeOK
  <2> QED BY <2>1, <2>2, <2>3, PoolKept
<1> QED BY <1>1, <1>2, <1>3, <1>4, <1>5, <1>6, <1>7, <1>8, <1>9, <1>10, <1>11, <1>12,
           <1>13 DEF Next

(* The inductive invariant: types, the life of a request, and for every    *)
(* backend the accounting of its slots, its waiters and its load.          *)
THEOREM Invariance == Spec => []IInv
<1> QED BY InitInv, StepInv, PTL DEF Spec

(* Every variable keeps the type the handlers of app.py assume, for any    *)
(* number of requests and backends and any limits.                         *)
THEOREM TypeCorrect == Spec => []TypeOK
<1>1. IInv => TypeOK
  BY DEF IInv
<1> QED BY <1>1, Invariance, PTL

(* No path through timeouts, errors, cancellations and races leaks a slot  *)
(* of a backend, and only ended streams create one: acquire_slot,          *)
(* release_slot and the two finally clauses of app.py.                     *)
THEOREM SlotsAccounted == Spec => []SlotAccounting
<1>1. IInv => SlotAccounting
  BY DEF IInv, SlotInv, Slots, SlotAccounting
<1> QED BY <1>1, Invariance, PTL

(* outstanding and queued, which routing decides by, are always what they  *)
(* stand for, up to the streams that ended (backend_pool.py:114-135).      *)
THEOREM LoadAccounted == Spec => []LoadAccounting
<1>1. IInv => LoadAccounting
  BY DEF IInv, SlotInv, Slots, LoadAccounting
<1> QED BY <1>1, Invariance, PTL

(* The semaphore's waiting lists hold exactly the queued requests of their *)
(* backend, once each, through every timeout and grant (acquire_slot).     *)
THEOREM WaitersMatched == Spec => []WaitersMatch
<1>1. IInv => WaitersMatch
  BY DEF IInv, SlotInv, Slots, WaitersMatch
<1> QED BY <1>1, Invariance, PTL

(* No free slot is forgotten beside a waiting request, even when queue     *)
(* timeouts cancel waiters that were granted a slot (acquire_slot).        *)
THEOREM NoWakeupLost == Spec => []NoLostWakeup
<1>1. IInv => NoLostWakeup
  BY DEF IInv, SlotInv, Slots, NoLostWakeup
<1> QED BY <1>1, Invariance, PTL

(* Without streams, admission control holds a backend to its limit, for    *)
(* any number of requests and whatever fails (app.py:149-214); the runs    *)
(* show that one stream is enough to break it.                             *)
THEOREM PlainAdmissionBounded ==
    ASSUME Kinds = {"plain"}
    PROVE  Spec => []AdmissionBound
<1>1. ASSUME IInv PROVE AdmissionBound
  <2>1. SUFFICES ASSUME NEW b \in Backends
                 PROVE  Cardinality(InPhase(b, "forwarded") \cup InPhase(b, "streaming"))
                        <= MaxInflight
    BY DEF AdmissionBound
  <2>2. ASSUME NEW r \in Requests
        PROVE  req[r].phase # "streaming" /\ req[r].reply \notin StreamEnds
    BY <1>1, RequestFacts DEF Lives, StreamEnds
  <2>3. InPhase(b, "streaming") = {} /\ TwiceReleased(b) = {}
    BY <2>2 DEF InPhase, TwiceReleased, Replied
  <2>4. InPhase(b, "forwarded") \cup InPhase(b, "streaming") = InPhase(b, "forwarded")
    BY <2>3
  <2>5. Permits(pool[b].sem) + Cardinality(InPhase(b, "forwarded"))
        = MaxInflight + Cardinality(TwiceReleased(b))
    BY <1>1, BackendSlots DEF Slots
  <2>6. Cardinality(TwiceReleased(b)) = 0
    BY <2>3, FS_EmptySet
  <2>7. /\ Permits(pool[b].sem) \in Nat /\ MaxInflight \in Nat
        /\ Cardinality(InPhase(b, "forwarded")) \in Nat
    BY <1>1, BackendSlots, BackendFields, PermitsType, Finiteness, RouterAssumption
  <2>8. Cardinality(InPhase(b, "forwarded")) <= MaxInflight
    BY <2>5, <2>6, <2>7
  <2> QED BY <2>4, <2>8
<1> QED BY <1>1, Invariance, PTL

-----------------------------------------------------------------------------
(* What a step does besides moving slots: to the failures of the backends, *)
(* to REQUESTS_TOTAL and to the cache, by the reply of the request that it *)
(* moves.                                                                  *)

FailuresKept == \A b \in Backends : pool'[b].total_failures = pool[b].total_failures

FailuresRiseAt(b) ==
    \A c \in Backends :
        pool'[c].total_failures = pool[c].total_failures + (IF c = b THEN 1 ELSE 0)

Quiet == UNCHANGED <<req, cache, counted>> /\ FailuresKept

(* Request r, not answered so far, becomes q. *)
Moves(r, q) ==
    /\ req' = [req EXCEPT ![r] = q]
    /\ req[r].phase # "done" /\ q \in Request

Routes(r, q) ==
    /\ Moves(r, q)
    /\ q.phase \in {"queued", "forwarded", "streaming"} /\ q.reply = "none"
    /\ UNCHANGED <<cache, counted>> /\ FailuresKept

Serves(r, q) ==
    /\ Moves(r, q)
    /\ q.phase = "done" /\ q.reply = "ok"
    /\ cache' \in {cache, CachePut(q.key)}
    /\ counted' = Counting(counted, "ok") /\ FailuresKept

TurnsAway(r, q) ==
    /\ Moves(r, q)
    /\ q.phase = "done" /\ q.reply = "rejected"
    /\ counted' = Counting(counted, "rejected_admission")
    /\ UNCHANGED cache /\ FailuresKept

EndsStream(r, q) ==
    /\ Moves(r, q)
    /\ q.phase = "done" /\ q.target = req[r].target /\ q.target \in Backends
    /\ UNCHANGED cache
    /\ \/ q.reply = "stream_ok" /\ counted' = Counting(counted, "ok") /\ FailuresKept
       \/ /\ q.reply = "stream_error"
          /\ counted' = Counting(counted, "error") /\ FailuresRiseAt(q.target)
       \/ /\ q.reply \in {"stream_cancelled", "stream_unread"}
          /\ UNCHANGED counted /\ FailuresKept

(* A request without a backend, p on arrival, is degraded, or fails. *)
DegradesAtOnce(r, p) ==
    /\ p \in Request /\ p.target = req[r].target /\ req[r].phase = "idle"
    /\ Concluded(r, p, counted) /\ FailuresKept

DegradesLate(r) ==
    /\ req[r].phase = "forwarded"
    /\ Concluded(r, req[r], Counting(counted, "error"))
    /\ FailuresRiseAt(req[r].target)

Effect ==
    \/ Quiet
    \/ \E r \in Requests, q \in Request :
          Routes(r, q) \/ Serves(r, q) \/ TurnsAway(r, q) \/ EndsStream(r, q)
    \/ \E r \in Requests, p \in Request : DegradesAtOnce(r, p)
    \/ \E r \in Requests : DegradesLate(r)

(* Two records of one backend that agree on failures and breaker.          *)
SameHistory(x, y) ==
    y.total_failures = x.total_failures /\ y.breaker = x.breaker /\ y.healthy = x.healthy

Historied(x) == {"healthy", "breaker", "total_failures"} \subseteq DOMAIN x

(* Slots and load figures come and go without a trace in the history.      *)
LEMMA SlotsLeaveHistory ==
    ASSUME NEW x, Historied(x)
    PROVE  /\ Historied(Started(x)) /\ SameHistory(x, Started(x))
           /\ Historied(Finished(x)) /\ SameHistory(x, Finished(x))
           /\ Historied(Taken(x)) /\ SameHistory(x, Taken(x))
           /\ \A r : Historied(Joined(x, r)) /\ SameHistory(x, Joined(x, r))
           /\ \A sem : Historied(Left(x, sem)) /\ SameHistory(x, Left(x, sem))
<1>1. ASSUME NEW y, NEW f \in {"outstanding", "queued", "sem", "total_requests"}, NEW v,
             Historied(y), SameHistory(x, y)
      PROVE  Historied([y EXCEPT ![f] = v]) /\ SameHistory(x, [y EXCEPT ![f] = v])
  <2>1. f \notin {"healthy", "breaker", "total_failures"}
    OBVIOUS
  <2> QED BY <1>1, <2>1 DEF Historied, SameHistory
<1>2. SameHistory(x, x)
  BY DEF SameHistory
<1> QED BY <1>1, <1>2 DEF Started, Finished, Taken, Joined, Left

LEMMA OutcomesInHistory ==
    ASSUME NEW x \in Backend
    PROVE  /\ Historied(x) /\ Historied(Succeeded(x)) /\ Historied(Failed(x))
           /\ Succeeded(x).total_failures = x.total_failures
           /\ Succeeded(x).breaker = RecordSuccess(x.breaker)
           /\ Succeeded(x).healthy = x.healthy
           /\ Failed(x).total_failures = x.total_failures + 1
           /\ Failed(x).breaker = RecordFailure(x.breaker)
           /\ Failed(x).healthy = x.healthy
<1>1. Historied(x)
  BY DEF Historied, Backend
<1>2. /\ Historied(Succeeded(x)) /\ Succeeded(x).total_failures = x.total_failures
      /\ Succeeded(x).breaker = RecordSuccess(x.breaker)
      /\ Succeeded(x).healthy = x.healthy
  BY <1>1 DEF Historied, Succeeded
<1> DEFINE y == [x EXCEPT !.breaker = RecordFailure(x.breaker)]
<1>3. /\ Historied(y) /\ y.total_failures = x.total_failures /\ y.healthy = x.healthy
      /\ y.breaker = RecordFailure(x.breaker)
  BY <1>1 DEF Historied
<1>4. Failed(x) = [y EXCEPT !.total_failures = x.total_failures + 1]
  BY DEF Failed
<1> HIDE DEF y
<1>5. /\ Historied(Failed(x)) /\ Failed(x).total_failures = x.total_failures + 1
      /\ Failed(x).breaker = RecordFailure(x.breaker)
      /\ Failed(x).healthy = x.healthy
  BY <1>3, <1>4 DEF Historied
<1> QED BY <1>1, <1>2, <1>5

LEMMA ForwardedLeavesHistory ==
    ASSUME NEW x, Historied(x), NEW kind
    PROVE  SameHistory(x, Forwarded(x, kind))
<1>1. Historied(Started(x)) /\ SameHistory(x, Started(x))
  BY SlotsLeaveHistory
<1>2. SameHistory(Started(x), Finished(Started(x)))
  BY <1>1, SlotsLeaveHistory
<1> QED BY <1>1, <1>2 DEF Forwarded, SameHistory

(* What becomes of the history of a backend in a step. *)
BreakerMoves(x, y) ==
    \/ /\ y.breaker \in {x.breaker, Polled(x.breaker), RecordSuccess(x.breaker)}
       /\ y.total_failures = x.total_failures
    \/ x.breaker.state = "open" /\ y.breaker = Cooled(x.breaker)
       /\ y.total_failures = x.total_failures
    \/ y.breaker = RecordFailure(x.breaker) /\ y.total_failures = x.total_failures + 1
    \/ /\ "malformed" \in Outcomes \/ Unhashable # {}
       /\ y.breaker = RecordFailure(RecordSuccess(x.breaker))
       /\ y.total_failures = x.total_failures + 1

(* Only a probe changes what is known of a backend's health.               *)
HistoryMoves(x, y) == BreakerMoves(x, y) /\ y.healthy \in HealthResults \cup {x.healthy}

LEMMA PolledHistory ==
    ASSUME NEW x \in Backend
    PROVE  /\ [x EXCEPT !.breaker = Polled(@)].total_failures = x.total_failures
           /\ [x EXCEPT !.breaker = Polled(@)].healthy = x.healthy
           /\ [x EXCEPT !.breaker = Polled(@)].breaker = Polled(x.breaker)
           /\ Historied([x EXCEPT !.breaker = Polled(@)])
BY DEF Backend, Historied

(* No breaker, failure or probe. *)
SamePast == \A b \in Backends : SameHistory(pool[b], pool'[b])

LEMMA SamePastFacts ==
    ASSUME SamePast
    PROVE  FailuresKept /\ \A b \in Backends : HistoryMoves(pool[b], pool'[b])
BY DEF SamePast, SameHistory, FailuresKept, HistoryMoves, BreakerMoves

LEMMA PolledGroupHistory ==
    ASSUME TypeOK, NEW g, NEW b \in Backends
    PROVE  /\ Historied(PolledGroup(g)[b])
           /\ PolledGroup(g)[b].total_failures = pool[b].total_failures
           /\ PolledGroup(g)[b].healthy = pool[b].healthy
           /\ PolledGroup(g)[b].breaker \in {pool[b].breaker, Polled(pool[b].breaker)}
<1>1. pool[b] \in Backend
  BY DEF TypeOK
<1>2. PolledGroup(g)[b] \in {pool[b], [pool[b] EXCEPT !.breaker = Polled(@)]}
  BY DEF PolledGroup
<1> QED BY <1>1, <1>2, PolledHistory, OutcomesInHistory

LEMMA ProbesHistory ==
    ASSUME IInv, (\E b \in Backends : HealthCheck(b) \/ BreakerCools(b))
                   \/ Snapshot \/ Readyz \/ SetCanaryWeight \/ UNCHANGED vars
    PROVE  Quiet /\ \A b \in Backends : HistoryMoves(pool[b], pool'[b])
<1>1. pool \in [Backends -> Backend] /\ \A b \in Backends : pool[b] \in Backend
  BY DEF IInv, TypeOK
<1>2. UNCHANGED <<req, cache, counted>>
  BY DEF HealthCheck, BreakerCools, Snapshot, Readyz, SetCanaryWeight, vars
<1>3. SUFFICES ASSUME NEW c \in Backends
               PROVE  HistoryMoves(pool[c], pool'[c])
                      /\ pool'[c].total_failures = pool[c].total_failures
  BY <1>2 DEF Quiet, FailuresKept
<1>4. ASSUME NEW b \in Backends, HealthCheck(b)
      PROVE  /\ pool'[c].healthy \in HealthResults \cup {pool[c].healthy}
             /\ pool'[c].breaker = pool[c].breaker
             /\ pool'[c].total_failures = pool[c].total_failures
  <2>1. PICK ok \in HealthResults : pool' = [pool EXCEPT ![b].healthy = ok]
    BY <1>4 DEF HealthCheck
  <2> QED BY <1>1, <2>1 DEF Backend
<1>5. ASSUME NEW b \in Backends, BreakerCools(b)
      PROVE  /\ pool'[c].healthy = pool[c].healthy
             /\ \/ pool'[c].breaker = pool[c].breaker
                \/ pool[c].breaker.state = "open" /\ pool'[c].breaker = Cooled(pool[c].breaker)
             /\ pool'[c].total_failures = pool[c].total_failures
  <2>1. pool' = [pool EXCEPT ![b].breaker = Cooled(@)] /\ pool[b].breaker.state = "open"
    BY <1>5 DEF BreakerCools
  <2> QED BY <1>1, <2>1 DEF Backend
<1>6. ASSUME Snapshot \/ Readyz
      PROVE  /\ pool'[c].healthy = pool[c].healthy
             /\ pool'[c].breaker \in {pool[c].breaker, Polled(pool[c].breaker)}
             /\ pool'[c].total_failures = pool[c].total_failures
  <2>1. pool'[c] \in {pool[c], [pool[c] EXCEPT !.breaker = Polled(@)]}
    BY <1>6 DEF Snapshot, Readyz
  <2> QED BY <1>1, <2>1, PolledHistory
<1>7. ASSUME SetCanaryWeight \/ UNCHANGED vars PROVE pool'[c] = pool[c]
  BY <1>7 DEF SetCanaryWeight, vars
<1> QED BY <1>4, <1>5, <1>6, <1>7 DEF HistoryMoves, BreakerMoves

LEMMA ArriveHistory ==
    ASSUME IInv, NEW r \in Requests, Arrive(r)
    PROVE  Effect /\ \A b \in Backends : HistoryMoves(pool[b], pool'[b])
<1>1. req[r].phase = "idle" /\ req[r] \in Request /\ TypeOK
  BY RequestFacts DEF Arrive, IInv
<1>2. PICK kind \in Kinds, key \in Keys, g \in Groups :
         \/ ArriveDegraded(r, kind, key, g) \/ ArriveUnhashable(r, kind, key, g)
         \/ \E b \in Backends : ArriveRouted(r, kind, key, g, b)
  BY DEF Arrive
<1>3. ASSUME \A b \in Backends : SameHistory(PolledGroup(g)[b], pool'[b])
      PROVE  FailuresKept /\ \A b \in Backends : HistoryMoves(pool[b], pool'[b])
  <2>1. ASSUME NEW b \in Backends
        PROVE  /\ pool'[b].total_failures = pool[b].total_failures
               /\ pool'[b].healthy = pool[b].healthy
               /\ pool'[b].breaker \in {pool[b].breaker, Polled(pool[b].breaker)}
    BY <1>1, <1>3, PolledGroupHistory DEF SameHistory
  <2> QED BY <2>1 DEF FailuresKept, HistoryMoves, BreakerMoves
<1>4. CASE ArriveDegraded(r, kind, key, g) \/ ArriveUnhashable(r, kind, key, g)
  <2> DEFINE p == [req[r] EXCEPT !.kind = kind, !.key = key]
  <2>1. p \in Request /\ p.target = req[r].target
    <3> DEFINE k == [req[r] EXCEPT !.kind = kind]
    <3>1. kind \in {"plain", "stream"} /\ key \in Nat
      BY RouterAssumption
    <3>2. k \in Request /\ k.target = req[r].target
      BY <1>1, <3>1 DEF Request
    <3>3. p = [k EXCEPT !.key = key]
      OBVIOUS
    <3> HIDE DEF k, p
    <3> QED BY <3>1, <3>2, <3>3 DEF Request
  <2>2. pool' = PolledGroup(g) /\ Concluded(r, p, counted)
    BY <1>4 DEF ArriveDegraded, ArriveUnhashable, Concluded
  <2>3. \A b \in Backends : SameHistory(PolledGroup(g)[b], pool'[b])
    BY <2>2 DEF SameHistory
  <2> HIDE DEF p
  <2>4. DegradesAtOnce(r, p)
    BY <1>1, <1>3, <2>1, <2>2, <2>3 DEF DegradesAtOnce
  <2> QED BY <1>3, <2>1, <2>3, <2>4 DEF Effect
<1>5. ASSUME NEW b \in Backends, ArriveRouted(r, kind, key, g, b)
      PROVE  Effect /\ \A c \in Backends : HistoryMoves(pool[c], pool'[c])
  <2> DEFINE x == PolledGroup(g)[b]
             waits == Locked(x.sem)
             y == IF waits THEN Joined(x, r) ELSE Forwarded(Taken(x), kind)
             phase == IF waits THEN "queued" ELSE PhaseOf(kind)
             q == RoutedTo(req[r], kind, key, b, phase)
  <2>1. /\ pool' = [PolledGroup(g) EXCEPT ![b] = y] /\ req' = [req EXCEPT ![r] = q]
        /\ UNCHANGED <<cache, counted>>
    BY <1>1, <1>5 DEF ArriveRouted, TypeOK
  <2>2. SameHistory(x, y)
    <3>1. Historied(x)
      BY <1>1, PolledGroupHistory
    <3> HIDE DEF x
    <3>2. SameHistory(x, Joined(x, r)) /\ Historied(Taken(x)) /\ SameHistory(x, Taken(x))
      BY <3>1, SlotsLeaveHistory
    <3>3. SameHistory(Taken(x), Forwarded(Taken(x), kind))
      BY <3>2, ForwardedLeavesHistory
    <3> QED BY <3>2, <3>3 DEF SameHistory
  <2>3. phase \in {"queued", "forwarded", "streaming"} /\ phase \in Phases
    BY DEF PhaseOf, Phases
  <2>4. q \in Request /\ q.phase = phase /\ q.reply = "none"
    <3>1. req[r].reply = "none"
      BY <1>1, RequestFacts DEF Lives
    <3> HIDE DEF phase
    <3> QED BY <1>1, <2>3, <3>1, RoutedFields
  <2>5. PolledGroup(g) \in [Backends -> Backend]
    BY <1>1, PolledGroupFacts
  <2>6. x = PolledGroup(g)[b]
    OBVIOUS
  <2> HIDE DEF x, y, q, phase
  <2>7. \A c \in Backends : SameHistory(PolledGroup(g)[c], pool'[c])
    BY <2>1, <2>2, <2>5, <2>6 DEF SameHistory
  <2>8. Routes(r, q)
    BY <1>1, <1>3, <2>1, <2>3, <2>4, <2>7 DEF Routes, Moves
  <2> QED BY <1>3, <2>4, <2>7, <2>8 DEF Effect
<1> QED BY <1>2, <1>4, <1>5

(* One backend, b, is written. *)
LEMMA OneHistory ==
    ASSUME IInv, NEW b \in Backends, NEW y, pool' = [pool EXCEPT ![b] = y],
           BreakerMoves(pool[b], y), y.healthy = pool[b].healthy
    PROVE  /\ \A c \in Backends : HistoryMoves(pool[c], pool'[c])
           /\ y.total_failures = pool[b].total_failures => FailuresKept
           /\ y.total_failures = pool[b].total_failures + 1 => FailuresRiseAt(b)
<1>1. pool'[b] = y /\ \A c \in Backends \ {b} : pool'[c] = pool[c]
  BY DEF IInv, TypeOK
<1>2. \A c \in Backends : pool[c].total_failures \in Nat
  BY BackendFields DEF IInv, TypeOK
<1>3. \A c \in Backends : HistoryMoves(pool[c], pool'[c])
  BY <1>1 DEF HistoryMoves, BreakerMoves
<1> QED BY <1>1, <1>2, <1>3 DEF FailuresKept, FailuresRiseAt

(* A request that has a backend: its record is in the pool. *)
LEMMA ServedFacts ==
    ASSUME IInv, NEW r \in Requests, req[r].phase \in {"queued", "forwarded", "streaming"}
    PROVE  /\ req[r] \in Request /\ req[r].reply = "none"
           /\ req[r].target \in Backends
           /\ pool[req[r].target] \in Backend /\ Historied(pool[req[r].target])
           /\ pool[req[r].target].total_failures \in Nat
           /\ req \in [Requests -> Request]
<1>1. req[r] \in Request /\ Lives(req[r]) /\ req \in [Requests -> Request]
  BY RequestFacts DEF IInv, TypeOK
<1>2. req[r].target \in Backends /\ req[r].reply = "none"
  BY <1>1 DEF Lives
<1>3. pool[req[r].target] \in Backend
  BY <1>2 DEF IInv, TypeOK
<1> QED BY <1>1, <1>2, <1>3, OutcomesInHistory, BackendFields

LEMMA ResumeHistory ==
    ASSUME IInv, NEW r \in Requests, Resume(r)
    PROVE  Effect /\ \A b \in Backends : HistoryMoves(pool[b], pool'[b])
<1> DEFINE b == req[r].target
           x == pool[b]
           l == Left(x, ResumeGranted(x.sem, r))
           y == Forwarded(l, req[r].kind)
           q == [req[r] EXCEPT !.phase = PhaseOf(req[r].kind)]
<1>1. /\ req[r].phase = "queued" /\ pool' = [pool EXCEPT ![b] = y]
      /\ UNCHANGED <<cache, counted>>
  BY DEF Resume
<1>2. /\ req[r] \in Request /\ req[r].reply = "none" /\ b \in Backends
      /\ Historied(x) /\ req \in [Requests -> Request]
  BY <1>1, ServedFacts
<1>3. req' = [req EXCEPT ![r] = q]
  BY <1>2 DEF Resume
<1>4. /\ q \in Request /\ q.phase \in {"queued", "forwarded", "streaming"}
      /\ q.reply = "none"
  BY <1>2 DEF Request, Phases, PhaseOf
<1>5. SameHistory(x, y)
  <2> HIDE DEF x
  <2>1. Historied(l) /\ SameHistory(x, l)
    BY <1>2, SlotsLeaveHistory
  <2>2. SameHistory(l, y)
    BY <2>1, ForwardedLeavesHistory
  <2> QED BY <2>1, <2>2 DEF SameHistory
<1> HIDE DEF b, y, q
<1>6. BreakerMoves(pool[b], y) /\ y.healthy = pool[b].healthy
      /\ y.total_failures = pool[b].total_failures
  BY <1>5 DEF BreakerMoves, SameHistory
<1>7. FailuresKept /\ \A c \in Backends : HistoryMoves(pool[c], pool'[c])
  BY <1>1, <1>2, <1>6, OneHistory
<1>8. Routes(r, q)
  BY <1>1, <1>3, <1>4, <1>7 DEF Routes, Moves
<1> QED BY <1>4, <1>7, <1>8 DEF Effect

LEMMA QueueTimeoutHistory ==
    ASSUME IInv, NEW r \in Requests, QueueTimeout(r)
    PROVE  Effect /\ \A b \in Backends : HistoryMoves(pool[b], pool'[b])
<1> DEFINE b == req[r].target
           q == Answered(req[r], "rejected")
<1>1. req[r].phase = "queued"
  BY DEF QueueTimeout
<1>2. PICK sem : Rejected(r, sem)
  BY DEF QueueTimeout
<1> DEFINE y == Left(pool[b], sem)
<1>3. /\ req[r] \in Request /\ b \in Backends
      /\ Historied(pool[b]) /\ req \in [Requests -> Request]
  BY <1>1, ServedFacts
<1>4. /\ pool' = [pool EXCEPT ![b] = y] /\ req' = [req EXCEPT ![r] = q]
      /\ counted' = Counting(counted, "rejected_admission") /\ UNCHANGED cache
  BY <1>2, <1>3 DEF Rejected, IInv, TypeOK
<1>5. "rejected" \in Replies
  BY DEF Replies
<1>6. q \in Request /\ q.phase = "done" /\ q.reply = "rejected"
  BY <1>3, <1>5, AnsweredFields
<1>7. SameHistory(pool[b], y)
  BY <1>3, SlotsLeaveHistory
<1> HIDE DEF b, y, q
<1>8. BreakerMoves(pool[b], y) /\ y.healthy = pool[b].healthy
      /\ y.total_failures = pool[b].total_failures
  BY <1>7 DEF BreakerMoves, SameHistory
<1>9. FailuresKept /\ \A c \in Backends : HistoryMoves(pool[c], pool'[c])
  BY <1>3, <1>4, <1>8, OneHistory
<1>10. TurnsAway(r, q)
  BY <1>1, <1>4, <1>6, <1>9 DEF TurnsAway, Moves
<1> QED BY <1>6, <1>9, <1>10 DEF Effect

LEMMA UpstreamOkHistory ==
    ASSUME IInv, NEW r \in Requests, UpstreamOk(r)
    PROVE  Effect /\ \A b \in Backends : HistoryMoves(pool[b], pool'[b])
<1> DEFINE b == req[r].target
           x == pool[b]
           y == Finished(Succeeded(x))
           q == Answered(req[r], "ok")
<1>1. req[r].phase = "forwarded"
  BY DEF UpstreamOk
<1>2. /\ req[r] \in Request /\ b \in Backends
      /\ x \in Backend /\ req \in [Requests -> Request]
  BY <1>1, ServedFacts
<1>3. /\ pool' = [pool EXCEPT ![b] = y] /\ req' = [req EXCEPT ![r] = q]
      /\ counted' = Counting(counted, "ok")
      /\ cache' \in {cache, CachePut(req[r].key)}
  BY <1>2 DEF UpstreamOk, IInv, TypeOK
<1>4. "ok" \in Replies
  BY DEF Replies
<1>5. q \in Request /\ q.phase = "done" /\ q.reply = "ok" /\ q.key = req[r].key
  <2>1. q.key = req[r].key
    BY <1>2 DEF Answered, Request
  <2> QED BY <1>2, <1>4, <2>1, AnsweredFields
<1>6. /\ y.breaker = RecordSuccess(x.breaker) /\ y.healthy = x.healthy
      /\ y.total_failures = x.total_failures
  <2>1. /\ Historied(Succeeded(x)) /\ Succeeded(x).total_failures = x.total_failures
        /\ Succeeded(x).breaker = RecordSuccess(x.breaker)
        /\ Succeeded(x).healthy = x.healthy
    BY <1>2, OutcomesInHistory
  <2>2. SameHistory(Succeeded(x), Finished(Succeeded(x)))
    BY <2>1, SlotsLeaveHistory
  <2> QED BY <2>1, <2>2 DEF SameHistory
<1> HIDE DEF b, y, q
<1>7. BreakerMoves(pool[b], y)
  BY <1>6 DEF BreakerMoves
<1>8. FailuresKept /\ \A c \in Backends : HistoryMoves(pool[c], pool'[c])
  BY <1>2, <1>3, <1>6, <1>7, OneHistory
<1>9. Serves(r, q)
  BY <1>1, <1>3, <1>5, <1>8 DEF Serves, Moves
<1> QED BY <1>5, <1>8, <1>9 DEF Effect

LEMMA UpstreamFailedHistory ==
    ASSUME IInv, NEW r \in Requests, UpstreamError(r) \/ UpstreamMalformed(r)
    PROVE  Effect /\ \A b \in Backends : HistoryMoves(pool[b], pool'[b])
<1> DEFINE b == req[r].target
           x == pool[b]
<1>1. req[r].phase = "forwarded"
  BY DEF UpstreamError, UpstreamMalformed
<1>2. b \in Backends /\ x \in Backend
  BY <1>1, ServedFacts
<1>3. Succeeded(x) \in Backend
  BY <1>2, OutcomeFields
<1>4. PICK z \in Backend :
         /\ UpstreamFailed(r, z)
         /\ z.total_failures = x.total_failures /\ z.healthy = x.healthy
         /\ \/ z.breaker = x.breaker
            \/ ("malformed" \in Outcomes \/ Unhashable # {}) /\ z.breaker = RecordSuccess(x.breaker)
  <2>1. CASE UpstreamError(r)
    BY <1>2, <2>1 DEF UpstreamError
  <2>2. CASE UpstreamMalformed(r)
    <3>1. UpstreamFailed(r, Succeeded(x)) /\ ("malformed" \in Outcomes \/ Unhashable # {})
      BY <2>2 DEF UpstreamMalformed
    <3> QED BY <1>2, <1>3, <3>1, OutcomesInHistory
  <2> QED BY <2>1, <2>2
<1> DEFINE y == Finished(Failed(z))
<1>5. /\ y.breaker = RecordFailure(z.breaker) /\ y.healthy = z.healthy
      /\ y.total_failures = z.total_failures + 1
  <2>1. /\ Historied(Failed(z)) /\ Failed(z).total_failures = z.total_failures + 1
        /\ Failed(z).breaker = RecordFailure(z.breaker)
        /\ Failed(z).healthy = z.healthy
    BY OutcomesInHistory
  <2>2. SameHistory(Failed(z), Finished(Failed(z)))
    BY <2>1, SlotsLeaveHistory
  <2> QED BY <2>1, <2>2 DEF SameHistory
<1>6. /\ pool' = [pool EXCEPT ![b] = y]
      /\ Concluded(r, req[r], Counting(counted, "error"))
  BY <1>4 DEF UpstreamFailed, Concluded
<1>7. BreakerMoves(pool[b], y)
  BY <1>4, <1>5, Zenon DEF BreakerMoves
<1>8. y.healthy = pool[b].healthy /\ y.total_failures = pool[b].total_failures + 1
  BY <1>4, <1>5
<1>9. req[r].target = b
  OBVIOUS
<1> HIDE DEF b, y
<1>10. FailuresRiseAt(b) /\ \A c \in Backends : HistoryMoves(pool[c], pool'[c])
  BY <1>2, <1>6, <1>7, <1>8, OneHistory
<1>11. DegradesLate(r)
  BY <1>1, <1>6, <1>9, <1>10 DEF DegradesLate
<1> QED BY <1>10, <1>11 DEF Effect

LEMMA StreamHistory ==
    ASSUME IInv, NEW r \in Requests,
           StreamOk(r) \/ StreamError(r) \/ StreamCancelled(r) \/ StreamUnread(r)
    PROVE  Effect /\ \A b \in Backends : HistoryMoves(pool[b], pool'[b])
<1> DEFINE b == req[r].target
           x == pool[b]
           q(reply) == Answered(req[r], reply)
<1>1. req[r].phase = "streaming"
  BY DEF StreamOk, StreamError, StreamCancelled, StreamUnread
<1>2. /\ req[r] \in Request /\ b \in Backends /\ x \in Backend
      /\ req \in [Requests -> Request]
  BY <1>1, ServedFacts
<1>3. ASSUME NEW reply \in StreamEnds \cup {"stream_unread"}
      PROVE  /\ q(reply) \in Request /\ q(reply).phase = "done"
             /\ q(reply).reply = reply /\ q(reply).target = b
  <2>1. reply \in Replies
    BY DEF Replies, StreamEnds
  <2> QED BY <1>2, <2>1, AnsweredFields
<1>4. ASSUME NEW z, Historied(z), NEW reply \in StreamEnds, StreamEnded(r, z, reply)
      PROVE  /\ pool' = [pool EXCEPT ![b] = Finished(z)]
             /\ SameHistory(z, Finished(z))
             /\ req' = [req EXCEPT ![r] = q(reply)] /\ UNCHANGED cache
  BY <1>2, <1>4, SlotsLeaveHistory DEF StreamEnded
<1>5. /\ Historied(x) /\ Historied(Succeeded(x)) /\ Historied(Failed(x))
      /\ Succeeded(x).total_failures = x.total_failures
      /\ Succeeded(x).breaker = RecordSuccess(x.breaker)
      /\ Succeeded(x).healthy = x.healthy
      /\ Failed(x).total_failures = x.total_failures + 1
      /\ Failed(x).breaker = RecordFailure(x.breaker)
      /\ Failed(x).healthy = x.healthy
  BY <1>2, OutcomesInHistory
<1>6. /\ "stream_ok" \in StreamEnds /\ "stream_error" \in StreamEnds
      /\ "stream_cancelled" \in StreamEnds
  BY DEF StreamEnds
<1>7. CASE StreamOk(r)
  <2> DEFINE y == Finished(Succeeded(x))
             p == q("stream_ok")
  <2>1. /\ pool' = [pool EXCEPT ![b] = y] /\ SameHistory(Succeeded(x), y)
        /\ req' = [req EXCEPT ![r] = p] /\ UNCHANGED cache
        /\ counted' = Counting(counted, "ok")
    BY <1>4, <1>5, <1>6, <1>7 DEF StreamOk
  <2>2. p \in Request /\ p.phase = "done" /\ p.reply = "stream_ok" /\ p.target = req[r].target
    BY <1>3, <1>6
  <2>3. b = req[r].target
    OBVIOUS
  <2>4. y.breaker = RecordSuccess(x.breaker) /\ y.healthy = x.healthy
        /\ y.total_failures = x.total_failures
    BY <1>5, <2>1 DEF SameHistory
  <2> HIDE DEF b, y, p
  <2>5. BreakerMoves(pool[b], y)
    BY <2>4 DEF BreakerMoves
  <2>6. FailuresKept /\ \A c \in Backends : HistoryMoves(pool[c], pool'[c])
    BY <1>2, <2>1, <2>4, <2>5, OneHistory
  <2>7. EndsStream(r, p)
    BY <1>1, <1>2, <2>1, <2>2, <2>3, <2>6 DEF EndsStream, Moves
  <2> QED BY <2>2, <2>6, <2>7 DEF Effect
<1>8. CASE StreamError(r)
  <2> DEFINE y == Finished(Failed(x))
             p == q("stream_error")
  <2>1. /\ pool' = [pool EXCEPT ![b] = y] /\ SameHistory(Failed(x), y)
        /\ req' = [req EXCEPT ![r] = p] /\ UNCHANGED cache
        /\ counted' = Counting(counted, "error")
    BY <1>4, <1>5, <1>6, <1>8 DEF StreamError
  <2>2. p \in Request /\ p.phase = "done" /\ p.reply = "stream_error" /\ p.target = req[r].target
    BY <1>3, <1>6
  <2>3. b = req[r].target
    OBVIOUS
  <2>4. y.breaker = RecordFailure(x.breaker) /\ y.healthy = x.healthy
        /\ y.total_failures = x.total_failures + 1
    BY <1>5, <2>1 DEF SameHistory
  <2> HIDE DEF b, y, p
  <2>5. BreakerMoves(pool[b], y)
    BY <2>4 DEF BreakerMoves
  <2>6. FailuresRiseAt(b) /\ \A c \in Backends : HistoryMoves(pool[c], pool'[c])
    BY <1>2, <2>1, <2>4, <2>5, OneHistory
  <2>7. EndsStream(r, p)
    BY <1>1, <1>2, <2>1, <2>2, <2>3, <2>6 DEF EndsStream, Moves
  <2> QED BY <2>2, <2>6, <2>7 DEF Effect
<1>9. CASE StreamCancelled(r)
  <2> DEFINE y == Finished(x)
             p == q("stream_cancelled")
  <2>1. /\ pool' = [pool EXCEPT ![b] = y] /\ SameHistory(x, y)
        /\ req' = [req EXCEPT ![r] = p] /\ UNCHANGED <<cache, counted>>
    BY <1>4, <1>5, <1>6, <1>9 DEF StreamCancelled
  <2>2. p \in Request /\ p.phase = "done" /\ p.reply = "stream_cancelled" /\ p.target = req[r].target
    BY <1>3, <1>6
  <2>3. b = req[r].target
    OBVIOUS
  <2> HIDE DEF b, y, p
  <2>4. BreakerMoves(pool[b], y) /\ y.healthy = pool[b].healthy
        /\ y.total_failures = pool[b].total_failures
    BY <2>1 DEF BreakerMoves, SameHistory, x
  <2>5. FailuresKept /\ \A c \in Backends : HistoryMoves(pool[c], pool'[c])
    BY <1>2, <2>1, <2>4, OneHistory
  <2>6. EndsStream(r, p)
    BY <1>1, <1>2, <2>1, <2>2, <2>3, <2>5 DEF EndsStream, Moves
  <2> QED BY <2>2, <2>5, <2>6 DEF Effect
<1>10. CASE StreamUnread(r)
  <2> DEFINE p == q("stream_unread")
  <2>1. /\ req' = [req EXCEPT ![r] = p] /\ UNCHANGED <<pool, cache, counted>>
    BY <1>2, <1>10 DEF StreamUnread
  <2>2. p \in Request /\ p.phase = "done" /\ p.reply = "stream_unread" /\ p.target = req[r].target
    BY <1>3
  <2> HIDE DEF p
  <2>3. FailuresKept /\ \A c \in Backends : HistoryMoves(pool[c], pool'[c])
    BY <2>1, SamePastFacts DEF SamePast, SameHistory
  <2>4. EndsStream(r, p)
    BY <1>1, <1>2, <2>1, <2>2, <2>3 DEF EndsStream, Moves
  <2> QED BY <2>2, <2>3, <2>4 DEF Effect
<1> QED BY <1>7, <1>8, <1>9, <1>10

LEMMA StepHistory ==
    ASSUME IInv, [Next]_vars
    PROVE  Effect /\ \A b \in Backends : HistoryMoves(pool[b], pool'[b])
<1>1. CASE \E r \in Requests :
             \/ Arrive(r) \/ Resume(r) \/ QueueTimeout(r)
             \/ UpstreamOk(r) \/ UpstreamError(r) \/ UpstreamMalformed(r)
             \/ StreamOk(r) \/ StreamError(r) \/ StreamCancelled(r) \/ StreamUnread(r)
  BY <1>1, ArriveHistory, ResumeHistory, QueueTimeoutHistory, UpstreamOkHistory,
     UpstreamFailedHistory, StreamHistory
<1>2. CASE (\E b \in Backends : HealthCheck(b) \/ BreakerCools(b))
             \/ Snapshot \/ Readyz \/ SetCanaryWeight \/ UNCHANGED vars
  BY <1>2, ProbesHistory DEF Effect
<1> QED BY <1>1, <1>2 DEF Next

-----------------------------------------------------------------------------
(* The counters. *)

Failing == Degraded \cup {"unavailable", "server_error", "stream_error"}

CountInv ==
    /\ CountersMatchAnswers
    /\ \A r \in Requests : req[r].phase = "idle" => req[r].target = NoBackend

One(P) == IF P THEN 1 ELSE 0

LEMMA RepliedMoves ==
    ASSUME IInv, NEW r \in Requests, NEW q, Moves(r, q), NEW R, "none" \notin R
    PROVE  /\ Replied(R)' = IF q.reply \in R THEN Replied(R) \cup {r} ELSE Replied(R)
           /\ Cardinality(Replied(R)) \in Nat
           /\ Cardinality(Replied(R)') = Cardinality(Replied(R)) + One(q.reply \in R)
<1>1. /\ req \in [Requests -> Request] /\ req[r].reply = "none"
      /\ req' = [req EXCEPT ![r] = q]
  BY RequestFacts DEF IInv, TypeOK, Lives, Moves
<1>2. /\ req'[r] = q /\ \A s \in Requests \ {r} : req'[s] = req[s]
      /\ r \notin Replied(R)
  BY <1>1 DEF Replied
<1>3. Replied(R)' = IF q.reply \in R THEN Replied(R) \cup {r} ELSE Replied(R)
  BY <1>2 DEF Replied
<1>4. Replied(R) \in SUBSET Requests
  BY DEF Replied
<1>5. /\ Cardinality(Replied(R)) \in Nat
      /\ Cardinality(Replied(R) \cup {r}) = Cardinality(Replied(R)) + 1
  BY <1>2, <1>4, Finiteness
<1> QED BY <1>3, <1>5 DEF One

LEMMA FailedMoves ==
    ASSUME IInv, NEW r \in Requests, NEW q, Moves(r, q), NEW B
    PROVE  LET failed == {s \in Replied(Failing) : req[s].target \in B}
               fails == q.reply \in Failing /\ q.target \in B
           IN  /\ failed' = IF fails THEN failed \cup {r} ELSE failed
               /\ Cardinality(failed) \in Nat
               /\ Cardinality(failed') = Cardinality(failed) + One(fails)
<1> DEFINE failed == {s \in Replied(Failing) : req[s].target \in B}
           fails == q.reply \in Failing /\ q.target \in B
<1>1. /\ req \in [Requests -> Request] /\ req' = [req EXCEPT ![r] = q]
      /\ "none" \notin Failing
  BY DEF IInv, TypeOK, Moves, Failing, Degraded
<1>2. req[r].reply = "none"
  BY RequestFacts DEF Lives, Moves
<1>3. req'[r] = q /\ \A s \in Requests \ {r} : req'[s] = req[s]
  BY <1>1
<1>4. failed = {s \in Requests : req[s].reply \in Failing /\ req[s].target \in B}
      /\ failed' = {s \in Requests : req'[s].reply \in Failing /\ req'[s].target \in B}
  BY DEF Replied
<1>5. r \notin failed
  BY <1>1, <1>2, <1>4
<1>6. failed' = IF fails THEN failed \cup {r} ELSE failed
  BY <1>3, <1>4, <1>5
<1>7. failed \in SUBSET Requests
  BY <1>4
<1> HIDE DEF failed, fails
<1>8. /\ Cardinality(failed) \in Nat
      /\ Cardinality(failed \cup {r}) = Cardinality(failed) + 1
  BY <1>5, <1>7, Finiteness
<1>9. Cardinality(failed') = Cardinality(failed) + One(fails)
  BY <1>6, <1>8 DEF One
<1> QED BY <1>6, <1>8, <1>9 DEF failed, fails

(* A move is counted right if its share of every counter is. *)
LEMMA MoveCounts ==
    ASSUME IInv, CountInv, NEW r \in Requests, NEW q \in Request, Moves(r, q),
           q.phase # "idle",
           counted'["ok"] = counted["ok"] + One(q.reply \in {"ok", "stream_ok"}),
           counted'["degraded_fallback"]
             = counted["degraded_fallback"] + One(q.reply \in Degraded),
           counted'["rejected_admission"]
             = counted["rejected_admission"] + One(q.reply \in {"rejected"}),
           counted'["error"]
             = counted["error"] + One(q.reply \in {"unavailable"})
               + One(q.reply \in Failing /\ q.target \in Backends),
           \A b \in Backends :
              pool'[b].total_failures
                = pool[b].total_failures + One(q.reply \in Failing /\ q.target \in {b})
    PROVE  CountInv'
<1>1. /\ "none" \notin {"ok", "stream_ok"} /\ "none" \notin Degraded
      /\ "none" \notin {"rejected"} /\ "none" \notin {"unavailable"}
  BY DEF Degraded
<1>2. /\ Cardinality(Replied({"ok", "stream_ok"})')
           = Cardinality(Replied({"ok", "stream_ok"})) + One(q.reply \in {"ok", "stream_ok"})
      /\ Cardinality(Replied(Degraded)')
           = Cardinality(Replied(Degraded)) + One(q.reply \in Degraded)
      /\ Cardinality(Replied({"rejected"})')
           = Cardinality(Replied({"rejected"})) + One(q.reply \in {"rejected"})
      /\ Cardinality(Replied({"unavailable"})')
           = Cardinality(Replied({"unavailable"})) + One(q.reply \in {"unavailable"})
      /\ Cardinality(Replied({"unavailable"})) \in Nat
  BY <1>1, RepliedMoves
<1> DEFINE all == UNION {FailedAt(b) : b \in Backends}
<1>3. /\ Cardinality(all) \in Nat
      /\ Cardinality(all') = Cardinality(all)
                             + One(q.reply \in Failing /\ q.target \in Backends)
  <2> DEFINE failed == {s \in Replied(Failing) : req[s].target \in Backends}
  <2>1. /\ Cardinality(failed) \in Nat
        /\ Cardinality(failed') = Cardinality(failed)
                                  + One(q.reply \in Failing /\ q.target \in Backends)
    BY FailedMoves
  <2>2. all = failed /\ all' = failed'
    BY DEF FailedAt, Failing, Replied
  <2> HIDE DEF all, failed
  <2> QED BY <2>1, <2>2
<1>4. ASSUME NEW b \in Backends
      PROVE  pool'[b].total_failures = Cardinality(FailedAt(b)')
  <2> DEFINE failed == {s \in Replied(Failing) : req[s].target \in {b}}
  <2>1. Cardinality(failed') = Cardinality(failed)
                                  + One(q.reply \in Failing /\ q.target \in {b})
    BY FailedMoves
  <2>2. FailedAt(b) = failed /\ FailedAt(b)' = failed'
    BY DEF FailedAt, Failing, Replied
  <2>3. pool[b].total_failures = Cardinality(FailedAt(b))
    BY DEF CountInv, CountersMatchAnswers
  <2> HIDE DEF failed
  <2> QED BY <2>1, <2>2, <2>3
<1>5. counted'["error"] = Cardinality(Replied({"unavailable"})') + Cardinality(all')
  <2>1. /\ counted["error"] = Cardinality(Replied({"unavailable"})) + Cardinality(all)
        /\ One(q.reply \in {"unavailable"}) \in Nat
        /\ One(q.reply \in Failing /\ q.target \in Backends) \in Nat
    BY DEF CountInv, CountersMatchAnswers, One
  <2> HIDE DEF all
  <2> QED BY <1>2, <1>3, <2>1
<1>6. CountersMatchAnswers'
  BY <1>2, <1>4, <1>5 DEF CountInv, CountersMatchAnswers
<1>7. \A s \in Requests : req'[s].phase = "idle" => req'[s].target = NoBackend
  BY DEF CountInv, Moves, IInv, TypeOK
<1> QED BY <1>6, <1>7 DEF CountInv

LEMMA CountingFacts ==
    ASSUME NEW n \in [Statuses -> Nat], NEW s \in Statuses, NEW t \in Statuses
    PROVE  /\ Counting(n, s) \in [Statuses -> Nat]
           /\ n[t] \in Nat
           /\ Counting(n, s)[t] = n[t] + One(s = t)
BY DEF Counting, One

LEMMA KnownStatuses ==
    /\ "ok" \in Statuses /\ "error" \in Statuses
    /\ "degraded_fallback" \in Statuses /\ "rejected_admission" \in Statuses
BY DEF Statuses

(* What becomes of request p, the counters n and the cache. *)
LEMMA ConcludedReplies ==
    ASSUME TypeOK, NEW r \in Requests, NEW p \in Request, NEW n, Concluded(r, p, n)
    PROVE  \E q \in Request :
              /\ req' = [req EXCEPT ![r] = q]
              /\ q.phase = "done" /\ q.target = p.target /\ q.key = p.key
              /\ \/ /\ q.reply = IF Cached(p.key) THEN "degraded_cache"
                                                  ELSE "degraded_heuristic"
                    /\ counted' = Counting(n, "degraded_fallback")
                    /\ cache' = CacheGet(p.key)
                 \/ /\ q.reply = "unavailable"
                    /\ counted' = Counting(n, "error") /\ UNCHANGED cache
                 \/ /\ q.reply = "server_error"
                    /\ counted' = n /\ UNCHANGED cache
<1> DEFINE deg == IF Cached(p.key) THEN "degraded_cache" ELSE "degraded_heuristic"
<1>1. deg \in Replies /\ "unavailable" \in Replies /\ "server_error" \in Replies
  BY DEF Replies, Degraded
<1>2. ASSUME NEW reply \in Replies
      PROVE  /\ Answered(p, reply) \in Request /\ Answered(p, reply).phase = "done"
             /\ Answered(p, reply).target = p.target /\ Answered(p, reply).key = p.key
             /\ Answered(p, reply).reply = reply
  <2>1. Answered(p, reply).key = p.key
    BY DEF Answered, Request
  <2> QED BY <2>1, AnsweredFields
<1>3. CASE /\ req' = [req EXCEPT ![r] = Answered(p, deg)]
           /\ counted' = Counting(n, "degraded_fallback") /\ cache' = CacheGet(p.key)
  BY <1>1, <1>2, <1>3
<1>4. CASE /\ req' = [req EXCEPT ![r] = Answered(p, "unavailable")]
           /\ counted' = Counting(n, "error") /\ cache' = cache
  BY <1>1, <1>2, <1>4
<1>5. CASE /\ req' = [req EXCEPT ![r] = Answered(p, "server_error")]
           /\ counted' = n /\ cache' = cache
  BY <1>1, <1>2, <1>5
<1> QED BY <1>3, <1>4, <1>5, ConcludedCases

LEMMA EffectCounts ==
    ASSUME IInv, CountInv, Effect
    PROVE  CountInv'
<1>1. /\ TypeOK /\ counted \in [Statuses -> Nat]
      /\ \A t \in Statuses : counted[t] \in Nat
      /\ \A b \in Backends : pool[b].total_failures \in Nat
  BY BackendFields DEF IInv, TypeOK
<1>2. ASSUME Quiet PROVE CountInv'
  <2>1. \A R : Replied(R)' = Replied(R)
    BY <1>2 DEF Quiet, Replied
  <2>2. \A b : FailedAt(b)' = FailedAt(b)
    BY <1>2 DEF Quiet, Replied, FailedAt
  <2>3. UNION {FailedAt(b) : b \in Backends}' = UNION {FailedAt(b) : b \in Backends}
    BY <2>2
  <2> QED BY <1>2, <2>1, <2>2, <2>3
          DEF Quiet, FailuresKept, CountInv, CountersMatchAnswers
<1>3. ASSUME NEW r \in Requests, NEW q \in Request, Routes(r, q) PROVE CountInv'
  <2>1. ~(q.reply \in {"ok", "stream_ok"}) /\ ~(q.reply \in Degraded)
        /\ ~(q.reply \in {"rejected"}) /\ ~(q.reply \in {"unavailable"})
        /\ ~(q.reply \in Failing) /\ q.phase # "idle"
    BY <1>3 DEF Routes, Degraded, Failing
  <2> QED BY <1>1, <1>3, <2>1, KnownStatuses, MoveCounts DEF Routes, FailuresKept, One
<1>4. ASSUME NEW r \in Requests, NEW q \in Request, Serves(r, q) \/ TurnsAway(r, q)
      PROVE  CountInv'
  <2>1. ~(q.reply \in Degraded) /\ ~(q.reply \in {"unavailable"})
        /\ ~(q.reply \in Failing) /\ q.phase # "idle" /\ Moves(r, q) /\ FailuresKept
    BY <1>4 DEF Serves, TurnsAway, Degraded, Failing
  <2>2. \/ q.reply = "ok" /\ counted' = Counting(counted, "ok")
        \/ q.reply = "rejected" /\ counted' = Counting(counted, "rejected_admission")
    BY <1>4 DEF Serves, TurnsAway
  <2>3. /\ counted'["ok"] = counted["ok"] + One(q.reply \in {"ok", "stream_ok"})
        /\ counted'["degraded_fallback"] = counted["degraded_fallback"]
        /\ counted'["rejected_admission"]
             = counted["rejected_admission"] + One(q.reply \in {"rejected"})
        /\ counted'["error"] = counted["error"]
    BY <1>1, <2>2, KnownStatuses, CountingFacts DEF One
  <2> QED BY <1>1, <2>1, <2>3, KnownStatuses, MoveCounts DEF FailuresKept, One
<1>5. ASSUME NEW r \in Requests, NEW q \in Request, EndsStream(r, q) PROVE CountInv'
  <2>1. /\ ~(q.reply \in Degraded) /\ ~(q.reply \in {"unavailable"})
        /\ ~(q.reply \in {"rejected"}) /\ q.phase # "idle" /\ Moves(r, q)
        /\ q.target \in Backends
        /\ q.reply \in {"ok", "stream_ok"} <=> q.reply = "stream_ok"
        /\ q.reply \in Failing <=> q.reply = "stream_error"
    BY <1>5 DEF EndsStream, Degraded, Failing
  <2>2. /\ counted'["ok"] = counted["ok"] + One(q.reply \in {"ok", "stream_ok"})
        /\ counted'["degraded_fallback"] = counted["degraded_fallback"]
        /\ counted'["rejected_admission"] = counted["rejected_admission"]
        /\ counted'["error"]
             = counted["error"] + One(q.reply \in Failing /\ q.target \in Backends)
    BY <1>1, <1>5, <2>1, KnownStatuses, CountingFacts DEF EndsStream, One
  <2>3. \A b \in Backends :
           pool'[b].total_failures
             = pool[b].total_failures + One(q.reply \in Failing /\ q.target \in {b})
    BY <1>1, <1>5, <2>1 DEF EndsStream, FailuresKept, FailuresRiseAt, One
  <2> QED BY <1>1, <2>1, <2>2, <2>3, KnownStatuses, MoveCounts DEF One
<1>6. ASSUME NEW r \in Requests, NEW p \in Request, DegradesAtOnce(r, p) PROVE CountInv'
  <2>1. /\ Concluded(r, p, counted) /\ FailuresKept /\ req[r].phase = "idle"
        /\ p.target = NoBackend
    BY <1>6 DEF DegradesAtOnce, CountInv
  <2>2. PICK q \in Request :
           /\ req' = [req EXCEPT ![r] = q] /\ q.phase = "done" /\ q.target = p.target
           /\ \/ q.reply \in Degraded /\ counted' = Counting(counted, "degraded_fallback")
              \/ q.reply = "unavailable" /\ counted' = Counting(counted, "error")
              \/ q.reply = "server_error" /\ counted' = counted
    BY <1>1, <2>1, ConcludedReplies DEF Degraded
  <2>3. Moves(r, q) /\ q.target \notin Backends /\ q.phase # "idle"
    BY <2>1, <2>2, BackendsFacts DEF Moves
  <2>4. /\ ~(q.reply \in {"ok", "stream_ok"}) /\ ~(q.reply \in {"rejected"})
        /\ q.reply \in Degraded => ~(q.reply \in {"unavailable"})
    BY <2>2 DEF Degraded
  <2>5. /\ counted'["ok"] = counted["ok"]
        /\ counted'["degraded_fallback"]
             = counted["degraded_fallback"] + One(q.reply \in Degraded)
        /\ counted'["rejected_admission"] = counted["rejected_admission"]
        /\ counted'["error"] = counted["error"] + One(q.reply \in {"unavailable"})
    <3>1. CASE q.reply \in Degraded /\ counted' = Counting(counted, "degraded_fallback")
      BY <1>1, <2>4, <3>1, KnownStatuses, CountingFacts DEF One
    <3>2. CASE q.reply = "unavailable" /\ counted' = Counting(counted, "error")
      BY <1>1, <3>2, KnownStatuses, CountingFacts DEF One, Degraded
    <3>3. CASE q.reply = "server_error" /\ counted' = counted
      BY <1>1, <3>3, KnownStatuses DEF One, Degraded
    <3> QED BY <2>2, <3>1, <3>2, <3>3
  <2> QED BY <1>1, <2>1, <2>3, <2>4, <2>5, KnownStatuses, MoveCounts
          DEF FailuresKept, One
<1>7. ASSUME NEW r \in Requests, DegradesLate(r) PROVE CountInv'
  <2> DEFINE n == Counting(counted, "error")
  <2>1. /\ Concluded(r, req[r], n) /\ FailuresRiseAt(req[r].target)
        /\ req[r].phase = "forwarded"
    BY <1>7 DEF DegradesLate
  <2>2. req[r] \in Request /\ req[r].target \in Backends
    BY <2>1, ServedFacts
  <2>3. /\ n \in [Statuses -> Nat]
        /\ \A t \in Statuses : n[t] = counted[t] + One("error" = t)
    BY <1>1, KnownStatuses, CountingFacts
  <2> HIDE DEF n
  <2>4. PICK q \in Request :
           /\ req' = [req EXCEPT ![r] = q] /\ q.phase = "done" /\ q.target = req[r].target
           /\ \/ q.reply \in Degraded /\ counted' = Counting(n, "degraded_fallback")
              \/ q.reply = "unavailable" /\ counted' = Counting(n, "error")
              \/ q.reply = "server_error" /\ counted' = n
    BY <1>1, <2>1, <2>2, ConcludedReplies DEF Degraded
  <2>5. Moves(r, q) /\ q.target \in Backends /\ q.phase # "idle"
    BY <2>1, <2>2, <2>4 DEF Moves
  <2>6. /\ ~(q.reply \in {"ok", "stream_ok"}) /\ ~(q.reply \in {"rejected"})
        /\ q.reply \in Degraded => ~(q.reply \in {"unavailable"})
        /\ q.reply \in Failing
    BY <2>4 DEF Degraded, Failing
  <2>7. \A t \in Statuses :
           /\ n[t] \in Nat
           /\ \/ /\ q.reply \in Degraded
                 /\ counted'[t] = n[t] + One("degraded_fallback" = t)
              \/ q.reply = "unavailable" /\ counted'[t] = n[t] + One("error" = t)
              \/ q.reply = "server_error" /\ counted'[t] = n[t]
    BY <2>3, <2>4, KnownStatuses, CountingFacts DEF Degraded
  <2>8. /\ counted'["ok"] = counted["ok"]
        /\ counted'["degraded_fallback"]
             = counted["degraded_fallback"] + One(q.reply \in Degraded)
        /\ counted'["rejected_admission"] = counted["rejected_admission"]
        /\ counted'["error"] = counted["error"] + One(q.reply \in {"unavailable"}) + 1
    <3>1. "server_error" \notin Degraded /\ "unavailable" \notin Degraded
      BY DEF Degraded
    <3> QED BY <1>1, <2>3, <2>6, <2>7, <3>1, KnownStatuses DEF One
  <2>9. \A b \in Backends :
           pool'[b].total_failures
             = pool[b].total_failures + One(q.reply \in Failing /\ q.target \in {b})
    BY <1>1, <2>1, <2>4, <2>6 DEF FailuresRiseAt, One
  <2>10. /\ One(q.reply \in {"ok", "stream_ok"}) = 0 /\ One(q.reply \in {"rejected"}) = 0
         /\ One(q.reply \in Failing /\ q.target \in Backends) = 1
         /\ counted["ok"] \in Nat /\ counted["rejected_admission"] \in Nat
    BY <1>1, <2>5, <2>6, KnownStatuses DEF One
  <2> QED BY <2>5, <2>8, <2>9, <2>10, MoveCounts
<1> QED BY <1>2, <1>3, <1>4, <1>5, <1>6, <1>7, Zenon DEF Effect

LEMMA InitCounts == Init => CountInv
<1> SUFFICES ASSUME Init PROVE CountInv
  OBVIOUS
<1>1. \A R : "none" \notin R => Replied(R) = {}
  BY DEF Init, Replied
<1>2. /\ Replied({"ok", "stream_ok"}) = {} /\ Replied(Degraded) = {}
      /\ Replied({"rejected"}) = {} /\ Replied({"unavailable"}) = {}
      /\ Replied(Failing) = {}
  BY <1>1 DEF Degraded, Failing
<1>3. \A b : FailedAt(b) = {}
  BY <1>2 DEF FailedAt, Failing
<1>4. UNION {FailedAt(b) : b \in Backends} = {}
  BY <1>3
<1>5. \A b \in Backends : pool[b].total_failures = 0
  BY DEF Init, NewBackend
<1>6. \A t \in Statuses : counted[t] = 0
  BY DEF Init
<1>7. Cardinality({}) = 0
  BY FS_EmptySet
<1>8. CountersMatchAnswers
  BY <1>2, <1>3, <1>4, <1>5, <1>6, <1>7, KnownStatuses DEF CountersMatchAnswers
<1>9. \A r \in Requests : req[r].phase = "idle" => req[r].target = NoBackend
  BY DEF Init
<1> QED BY <1>8, <1>9 DEF CountInv

(* Every answer is counted once under its own status, every failed call    *)
(* once at its backend, and "error" counts the failed calls and the 503s,  *)
(* in any interleaving of requests, streams, timeouts and probes (app.py,  *)
(* REQUESTS_TOTAL).                                                        *)
THEOREM AnswersAreCounted == Spec => []CountersMatchAnswers
<1>1. Init => CountInv
  BY InitCounts
<1>2. IInv /\ CountInv /\ [Next]_vars => CountInv'
  BY StepHistory, EffectCounts
<1>3. CountInv => CountersMatchAnswers
  BY DEF CountInv
<1> QED BY <1>1, <1>2, <1>3, Invariance, PTL DEF Spec

-----------------------------------------------------------------------------
(* The fallback cache. *)

Within(p, q) == \A j \in DOMAIN p : \E k \in DOMAIN q : p[j] = q[k]

LEMMA RemovedFrom ==
    ASSUME NEW C, NEW q \in Seq(C), NEW i \in 1..Len(q), NEW p, p = RemoveAt(q, i)
    PROVE  p \in Seq(C) /\ Within(p, q)
<1>1. PICK n \in Nat : n = Len(q) /\ DOMAIN q = 1..n /\ i \in 1..n
  BY LenProperties
<1>2. /\ p \in Seq(C) /\ DOMAIN p = 1..(n - 1)
      /\ \A j \in 1..(n - 1) : p[j] = IF j < i THEN q[j] ELSE q[j + 1]
  BY <1>1, RemoveAtElements, LenProperties
<1>3. ASSUME NEW j \in 1..(n - 1) PROVE \E k \in 1..n : p[j] = q[k]
  <2>1. j \in 1..n /\ j + 1 \in 1..n /\ p[j] \in {q[j], q[j + 1]}
    BY <1>2
  <2> QED BY <2>1
<1> QED BY <1>1, <1>2, <1>3 DEF Within

(* Putting a key adds no other, and looking one up adds none.              *)
LEMMA CacheElements ==
    ASSUME TypeOK, NEW key \in Nat
    PROVE  /\ \A i \in DOMAIN CachePut(key) :
                 CachePut(key)[i] = key \/ \E j \in DOMAIN cache : CachePut(key)[i] = cache[j]
           /\ Within(CacheGet(key), cache)
<1> DEFINE From(v) == v = key \/ \E j \in DOMAIN cache : v = cache[j]
<1>1. cache \in Seq(Nat) /\ DOMAIN cache = 1..Len(cache)
  BY LenProperties DEF TypeOK
<1>2. Recent(key) \in Seq(Nat) /\ \A i \in DOMAIN Recent(key) : From(Recent(key)[i])
  <2>1. CASE Cached(key)
    <3> DEFINE i == CHOOSE j \in DOMAIN cache : cache[j] = key
               rest == RemoveAt(cache, i)
    <3>1. i \in 1..Len(cache)
      BY <1>1, <2>1 DEF Cached
    <3>2. Recent(key) = Append(rest, key)
      BY <2>1 DEF Recent
    <3> HIDE DEF i
    <3>3. PICK p : p = rest
      OBVIOUS
    <3> HIDE DEF rest
    <3>4. p \in Seq(Nat) /\ Within(p, cache)
      BY <1>1, <3>1, <3>3, RemovedFrom DEF rest
    <3>5. DOMAIN p = 1..Len(p) /\ \A j \in 1..Len(p) : From(p[j])
      BY <3>4, LenProperties DEF Within
    <3> HIDE DEF From
    <3>6. From(key)
      BY DEF From
    <3> QED BY <3>2, <3>3, <3>4, <3>5, <3>6, AppendProperties, LenProperties
  <2>2. CASE ~Cached(key)
    <3>1. Recent(key) = Append(cache, key)
      BY <2>2 DEF Recent
    <3> QED BY <1>1, <3>1, AppendProperties, LenProperties
  <2> QED BY <2>1, <2>2
<1>3. \A i \in DOMAIN CachePut(key) : From(CachePut(key)[i])
  <2> DEFINE s == Recent(key)
             lo == Len(s) - CacheSize + 1
  <2>1. /\ s \in Seq(Nat) /\ Len(s) \in Nat /\ CacheSize \in Nat /\ DOMAIN s = 1..Len(s)
        /\ \A i \in 1..Len(s) : s[i] \in Nat /\ From(s[i])
    BY <1>2, LenProperties, ElementOfSeq, RouterAssumption
  <2>2. CASE Len(s) > CacheSize
    <3>1. CachePut(key) = SubSeq(s, lo, Len(s))
      BY <2>2 DEF CachePut
    <3> HIDE DEF s, From
    <3>2. lo \in 1..Len(s) + 1
      BY <2>1, <2>2
    <3>3. /\ DOMAIN SubSeq(s, lo, Len(s)) = 1 .. Len(s) - lo + 1
          /\ \A i \in 1 .. Len(s) - lo + 1 : SubSeq(s, lo, Len(s))[i] = s[lo + i - 1]
      BY <2>1, <3>2, SubSeqProperties, LenProperties
    <3>4. \A i \in 1 .. Len(s) - lo + 1 : lo + i - 1 \in 1..Len(s)
      BY <2>1, <3>2
    <3> QED BY <2>1, <3>1, <3>3, <3>4
  <2>3. CASE ~(Len(s) > CacheSize)
    <3>1. CachePut(key) = s
      BY <2>3 DEF CachePut
    <3> HIDE DEF s, From
    <3> QED BY <2>1, <3>1
  <2> QED BY <2>2, <2>3
<1>4. Within(CacheGet(key), cache)
  <2>1. CASE Cached(key)
    <3>1. PICK j \in DOMAIN cache : cache[j] = key
      BY <2>1 DEF Cached
    <3>2. CacheGet(key) = Recent(key)
      BY <2>1 DEF CacheGet
    <3> QED BY <1>2, <3>1, <3>2 DEF Within
  <2>2. CASE ~Cached(key)
    BY <2>2 DEF CacheGet, Within
  <2> QED BY <2>1, <2>2
<1> QED BY <1>3, <1>4

(* Every key in the cache is that of a text that was served.               *)
CacheInv ==
    /\ \A i \in DOMAIN cache : \E s \in Replied({"ok"}) : req[s].key = cache[i]
    /\ CachedAnswersAreReal

(* An answered request stays as it is. *)
LEMMA AnsweredStay ==
    ASSUME IInv, NEW r \in Requests, NEW q, Moves(r, q), NEW s \in Requests,
           req[s].phase = "done" \/ req[s].reply # "none"
    PROVE  req'[s] = req[s] /\ s # r
<1>1. s # r
  BY RequestFacts DEF Lives, Moves
<1> QED BY <1>1 DEF Moves, IInv, TypeOK

(* A move keeps the cache honest if it puts into it no key but that of a   *)
(* text it serves, and degrades from it only with a key it has.            *)
LEMMA MoveCaches ==
    ASSUME IInv, CacheInv, NEW r \in Requests, NEW q \in Request, Moves(r, q),
           \A i \in DOMAIN cache' :
              \/ q.reply = "ok" /\ cache'[i] = q.key
              \/ \E j \in DOMAIN cache : cache'[i] = cache[j],
           q.reply = "degraded_cache" => Cached(q.key)
    PROVE  CacheInv'
<1>1. /\ req' = [req EXCEPT ![r] = q] /\ req \in [Requests -> Request]
      /\ req'[r] = q
  BY DEF Moves, IInv, TypeOK
<1>2. ASSUME NEW s \in Replied({"ok"})
      PROVE  s \in Replied({"ok"})' /\ req'[s] = req[s] /\ s # r
  <2>1. s \in Requests /\ req[s].reply = "ok"
    BY DEF Replied
  <2>2. req'[s] = req[s] /\ s # r
    BY <2>1, AnsweredStay
  <2> QED BY <2>1, <2>2 DEF Replied
<1>3. ASSUME NEW i \in DOMAIN cache'
      PROVE  \E s \in Replied({"ok"})' : req'[s].key = cache'[i]
  <2>1. CASE q.reply = "ok" /\ cache'[i] = q.key
    <3>1. r \in Replied({"ok"})'
      BY <1>1, <2>1 DEF Replied
    <3> QED BY <1>1, <2>1, <3>1
  <2>2. CASE \E j \in DOMAIN cache : cache'[i] = cache[j]
    <3>1. PICK j \in DOMAIN cache : cache'[i] = cache[j]
      BY <2>2
    <3>2. PICK s \in Replied({"ok"}) : req[s].key = cache[j]
      BY DEF CacheInv
    <3> QED BY <1>2, <3>1, <3>2
  <2> QED BY <2>1, <2>2
<1>4. ASSUME NEW t \in Replied({"degraded_cache"})'
      PROVE  \E s \in Replied({"ok"})' : s # t /\ req'[s].key = req'[t].key
  <2>1. t \in Requests /\ req'[t].reply = "degraded_cache"
    BY DEF Replied
  <2>2. CASE t = r
    <3>1. PICK j \in DOMAIN cache : cache[j] = q.key
      BY <1>1, <2>1, <2>2 DEF Cached
    <3>2. PICK s \in Replied({"ok"}) : req[s].key = cache[j]
      BY DEF CacheInv
    <3> QED BY <1>1, <1>2, <2>2, <3>1, <3>2
  <2>3. CASE t # r
    <3>1. req'[t] = req[t] /\ t \in Replied({"degraded_cache"})
      BY <1>1, <2>1, <2>3 DEF Replied
    <3>2. PICK s \in Replied({"ok"}) : s # t /\ req[s].key = req[t].key
      BY <3>1 DEF CacheInv, CachedAnswersAreReal
    <3> QED BY <1>2, <3>1, <3>2
  <2> QED BY <2>2, <2>3
<1> QED BY <1>3, <1>4 DEF CacheInv, CachedAnswersAreReal

LEMMA EffectCaches ==
    ASSUME IInv, CacheInv, Effect
    PROVE  CacheInv'
<1>1. TypeOK
  BY DEF IInv
<1>2. ASSUME Quiet PROVE CacheInv'
  BY <1>2 DEF Quiet, CacheInv, CachedAnswersAreReal, Replied
<1>3. ASSUME NEW r \in Requests, NEW q \in Request,
             Routes(r, q) \/ TurnsAway(r, q) \/ EndsStream(r, q)
      PROVE  CacheInv'
  BY <1>3, MoveCaches DEF Routes, TurnsAway, EndsStream
<1>4. ASSUME NEW r \in Requests, NEW q \in Request, Serves(r, q) PROVE CacheInv'
  <2>1. /\ Moves(r, q) /\ q.reply = "ok" /\ cache' \in {cache, CachePut(q.key)}
        /\ q.key \in Nat
    BY <1>4 DEF Serves, Request
  <2>2. \A i \in DOMAIN cache' :
           cache'[i] = q.key \/ \E j \in DOMAIN cache : cache'[i] = cache[j]
    BY <1>1, <2>1, CacheElements
  <2> QED BY <2>1, <2>2, MoveCaches
<1>5. ASSUME NEW r \in Requests, NEW p \in Request, NEW n, Concluded(r, p, n),
             req[r].phase # "done"
      PROVE  CacheInv'
  <2>1. PICK q \in Request :
           /\ req' = [req EXCEPT ![r] = q] /\ q.key = p.key
           /\ \/ /\ q.reply = IF Cached(p.key) THEN "degraded_cache"
                                               ELSE "degraded_heuristic"
                 /\ cache' = CacheGet(p.key)
              \/ q.reply \in {"unavailable", "server_error"} /\ UNCHANGED cache
    BY <1>1, <1>5, ConcludedReplies
  <2>2. Moves(r, q) /\ (q.reply = "degraded_cache" => Cached(q.key))
    BY <1>5, <2>1 DEF Moves
  <2>3. p.key \in Nat
    BY DEF Request
  <2>4. \A i \in DOMAIN cache' : \E j \in DOMAIN cache : cache'[i] = cache[j]
    BY <1>1, <2>1, <2>3, CacheElements DEF Within
  <2> QED BY <2>2, <2>4, MoveCaches
<1>6. ASSUME NEW r \in Requests, NEW p \in Request, DegradesAtOnce(r, p) PROVE CacheInv'
  BY <1>5, <1>6 DEF DegradesAtOnce
<1>7. ASSUME NEW r \in Requests, DegradesLate(r) PROVE CacheInv'
  BY <1>5, <1>7, RequestFacts DEF DegradesLate
<1> QED BY <1>2, <1>3, <1>4, <1>6, <1>7, Zenon DEF Effect

(* A degraded answer from the cache always repeats a text that was served  *)
(* to another request with the same prefix, whatever was put, looked up    *)
(* and evicted in between and for any cache size (fallback.py:36-62).      *)
THEOREM CacheIsHonest == Spec => []CachedAnswersAreReal
<1>1. Init => CacheInv
  BY DEF Init, CacheInv, CachedAnswersAreReal, Replied
<1>2. IInv /\ CacheInv /\ [Next]_vars => CacheInv'
  BY StepHistory, EffectCaches
<1>3. CacheInv => CachedAnswersAreReal
  BY DEF CacheInv
<1> QED BY <1>1, <1>2, <1>3, Invariance, PTL DEF Spec

-----------------------------------------------------------------------------
(* The breakers. *)

LEMMA HistoryIsDrawn ==
    ASSUME TypeOK, "malformed" \notin Outcomes, Unhashable = {}, 1 \in Backends,
           BreakerMoves(pool[1], pool'[1])
    PROVE  [First!Next]_(First!vars)
<1> DEFINE j == pool[1].breaker
           k == pool'[1].breaker
           f == pool[1].total_failures
           g == pool'[1].total_failures
           s == j.state
           n == RunOf(j)
           t == k.state
           m == RunOf(k)
<1>1. j \in Breaker
  BY BackendFields DEF TypeOK
<1>2. \/ t = s /\ m = n /\ g = f
      \/ s = "open" /\ t = "half_open" /\ m = 0 /\ g = f
      \/ s = "closed" /\ t = "closed" /\ m = 0 /\ g = f
      \/ s = "open" /\ t = "open" /\ m = 0 /\ g = f
      \/ /\ s = "half_open" /\ g = f
         /\ IF n + 1 >= HalfOpenProbes THEN t = "closed" /\ m = 0
                                       ELSE t = "half_open" /\ m = n + 1
      \/ /\ s = "closed" /\ g = f + 1
         /\ IF n + 1 >= FailureThreshold THEN t = "open" /\ m = 0
                                         ELSE t = "closed" /\ m = n + 1
      \/ s \in {"open", "half_open"} /\ t = "open" /\ m = 0 /\ g = f + 1
  <2> HIDE DEF j, k, f, g
  <2>1. CASE k = j /\ g = f
    BY <2>1
  <2>2. CASE k = Polled(j) /\ g = f
    BY <1>1, <2>2, PolledRun
  <2>3. CASE k = RecordSuccess(j) /\ g = f
    BY <1>1, <2>3, SuccessRun
  <2>4. CASE k = RecordFailure(j) /\ g = f + 1
    BY <1>1, <2>4, FailureRun, BreakerFields
  <2>5. CASE j.state = "open" /\ k = Cooled(j) /\ g = f
    BY <1>1, <2>5 DEF Cooled, Breaker, RunOf
  <2> QED
    BY <2>1, <2>2, <2>3, <2>4, <2>5 DEF BreakerMoves, j, k, f, g
<1>3. s = "open" => n = 0
  BY DEF RunOf
<1>4. DiagramRun(1) = n /\ DiagramRun(1)' = m /\ DiagramState(1) = s /\ DiagramState(1)' = t
  BY DEF RunOf, DiagramRun, DiagramState
<1>5. /\ First!vars = <<s, n, f>>
      /\ First!vars' = <<t, m, g>>
  BY <1>4 DEF First!vars
<1>6. First!Next <=>
        \/ /\ g = f + 1
           /\ \/ /\ s = "closed"
                 /\ IF n + 1 >= FailureThreshold THEN t = "open" /\ m = 0
                                                 ELSE t = "closed" /\ m = n + 1
              \/ s = "half_open" /\ t = "open" /\ m = 0
              \/ s = "open" /\ t = s /\ m = n
        \/ /\ \/ s = "closed" /\ m = 0 /\ t = s
              \/ /\ s = "half_open"
                 /\ IF n + 1 >= HalfOpenProbes THEN t = "closed" /\ m = 0
                                               ELSE t = "half_open" /\ m = n + 1
           /\ g = f
        \/ s = "open" /\ t = "half_open" /\ m = 0 /\ g = f
  BY <1>4 DEF First!Next, First!Failure, First!Success, First!HalfOpen
<1> HIDE DEF s, t, n, m, f, g
<1> QED
  BY <1>2, <1>3, <1>5, <1>6

(* A backend's breaker implements the diagram of BreakerDiagram, an        *)
(* outcome being that of one request, for any thresholds and any number of *)
(* requests in flight, provided that no 200 has an unreadable body and     *)
(* every prompt can be hashed (backend_pool.py:27-71); the runs show what  *)
(* one such body does.                                                     *)
THEOREM BreakerIsDrawn ==
    ASSUME "malformed" \notin Outcomes, Unhashable = {}, 1 \in Backends
    PROVE  Spec => BreakerFollowsDiagram
<1>1. Init => First!Init
  BY DEF Init, NewBackend, NewBreaker, First!Init, DiagramState, DiagramRun
<1>2. IInv /\ [Next]_vars => [First!Next]_(First!vars)
  BY StepHistory, HistoryIsDrawn DEF HistoryMoves, IInv
<1> QED BY <1>1, <1>2, Invariance, PTL DEF Spec, First!Spec, BreakerFollowsDiagram

-----------------------------------------------------------------------------
(* Routing. *)

(* Nobody is given a backend or put in a queue, and no cursor moves.       *)
Settled ==
    /\ cursor' = cursor
    /\ \A r \in Requests :
          /\ req'[r].target = req[r].target
          /\ req[r].phase = "idle" => req'[r].phase # "queued"

LEMMA MovedSettles ==
    ASSUME IInv, NEW r \in Requests, NEW q, req' = [req EXCEPT ![r] = q],
           q.target = req[r].target, req[r].phase # "idle" \/ q.phase # "queued",
           cursor' = cursor
    PROVE  Settled
<1>1. req'[r] = q /\ \A s \in Requests \ {r} : req'[s] = req[s]
  BY DEF IInv, TypeOK
<1> QED BY <1>1 DEF Settled

LEMMA AnsweredTarget ==
    ASSUME IInv, NEW r \in Requests, NEW reply
    PROVE  /\ Answered(req[r], reply).target = req[r].target
           /\ Answered(req[r], reply).phase = "done"
  BY RequestFacts DEF Answered, Request

LEMMA ConcludedSettles ==
    ASSUME IInv, NEW r \in Requests, NEW p \in Request, p.target = req[r].target,
           NEW n, Concluded(r, p, n), cursor' = cursor
    PROVE  Settled
<1>1. TypeOK
  BY DEF IInv
<1>2. PICK q \in Request : /\ req' = [req EXCEPT ![r] = q]
                           /\ q.phase = "done" /\ q.target = p.target
  BY <1>1, ConcludedReplies
<1> QED BY <1>2, MovedSettles

LEMMA OnlyArrivalsRoute ==
    ASSUME IInv, [Next]_vars
    PROVE  \/ Settled
           \/ \E r \in Requests, kind \in Kinds, key \in Keys, g \in Groups, b \in Backends :
                 req[r].phase = "idle" /\ ArriveRouted(r, kind, key, g, b)
<1>1. ASSUME UNCHANGED <<req, cursor>> PROVE Settled
  BY <1>1 DEF Settled
<1>2. ASSUME NEW r \in Requests, NEW kind \in Kinds, NEW key \in Keys, NEW g \in Groups,
             ArriveDegraded(r, kind, key, g) \/ ArriveUnhashable(r, kind, key, g)
      PROVE  Settled
  <2> DEFINE k == [req[r] EXCEPT !.kind = kind]
             p == [req[r] EXCEPT !.kind = kind, !.key = key]
  <2>1. kind \in {"plain", "stream"} /\ key \in Nat /\ req[r] \in Request
    BY RequestFacts, RouterAssumption
  <2>2. k \in Request /\ k.target = req[r].target
    BY <2>1 DEF Request
  <2>3. p = [k EXCEPT !.key = key]
    OBVIOUS
  <2>4. Concluded(r, p, counted) /\ cursor' = cursor
    BY <1>2 DEF ArriveDegraded, ArriveUnhashable, Concluded
  <2> HIDE DEF k, p
  <2>5. p \in Request /\ p.target = req[r].target
    BY <2>1, <2>2, <2>3 DEF Request
  <2> QED BY <2>4, <2>5, ConcludedSettles
<1>3. ASSUME NEW r \in Requests, Resume(r) PROVE Settled
  <2> DEFINE q == [req[r] EXCEPT !.phase = PhaseOf(req[r].kind)]
  <2>1. /\ req' = [req EXCEPT ![r] = q] /\ cursor' = cursor /\ req[r].phase = "queued"
        /\ q.target = req[r].target
    BY <1>3, RequestFacts DEF Resume, IInv, TypeOK, Request
  <2> QED BY <2>1, MovedSettles
<1>4. ASSUME NEW r \in Requests, NEW reply,
             req' = [req EXCEPT ![r] = Answered(@, reply)], cursor' = cursor
      PROVE  Settled
  <2>1. req' = [req EXCEPT ![r] = Answered(req[r], reply)]
    BY <1>4 DEF IInv, TypeOK
  <2> QED BY <1>4, <2>1, AnsweredTarget, MovedSettles
<1>5. ASSUME NEW r \in Requests, QueueTimeout(r) \/ UpstreamOk(r) \/ StreamOk(r) \/ StreamError(r)
                                   \/ StreamCancelled(r) \/ StreamUnread(r)
      PROVE  Settled
  <2>1. PICK reply : req' = [req EXCEPT ![r] = Answered(@, reply)] /\ cursor' = cursor
    BY <1>5 DEF QueueTimeout, Rejected, UpstreamOk, StreamOk, StreamError, StreamCancelled,
                StreamUnread, StreamEnded
  <2> QED BY <1>4, <2>1
<1>6. ASSUME NEW r \in Requests, UpstreamError(r) \/ UpstreamMalformed(r) PROVE Settled
  <2>1. PICK n : Concluded(r, req[r], n) /\ cursor' = cursor
    BY <1>6 DEF UpstreamError, UpstreamMalformed, UpstreamFailed, Concluded
  <2> QED BY <2>1, RequestFacts, ConcludedSettles
<1>7. ASSUME NEW b \in Backends, HealthCheck(b) \/ BreakerCools(b) PROVE Settled
  BY <1>1, <1>7 DEF HealthCheck, BreakerCools
<1>8. ASSUME Snapshot \/ Readyz \/ SetCanaryWeight \/ UNCHANGED vars PROVE Settled
  BY <1>1, <1>8 DEF Snapshot, Readyz, SetCanaryWeight, vars
<1>9. ASSUME NEW r \in Requests, Arrive(r)
      PROVE  \/ Settled
             \/ \E kind \in Kinds, key \in Keys, g \in Groups, b \in Backends :
                   req[r].phase = "idle" /\ ArriveRouted(r, kind, key, g, b)
  BY <1>2, <1>9 DEF Arrive
<1> QED BY <1>3, <1>5, <1>6, <1>7, <1>8, <1>9 DEF Next

(* With plain requests only, a backend without load has a free slot and    *)
(* nobody waiting for it. *)
LEMMA IdleIsFree ==
    ASSUME IInv, Kinds \subseteq {"plain"}, NEW b \in Backends
    PROVE  /\ pool[b].outstanding \in Nat /\ pool[b].queued \in Nat
           /\ Idle(b) => ~Locked(pool[b].sem)
<1>1. ASSUME NEW r \in Requests PROVE req[r].reply \notin StreamEnds
  <2>1. Lives(req[r]) /\ (req[r].reply \in StreamEnds => req[r].phase # "idle")
    BY RequestFacts DEF Lives, StreamEnds
  <2> QED BY <2>1 DEF Lives
<1>2. TwiceReleased(b) = {}
  BY <1>1 DEF TwiceReleased, Replied
<1> DEFINE F == InPhase(b, "forwarded")
           Q == InPhase(b, "queued")
           x == pool[b]
<1>3. /\ x \in Backend /\ Slots(x, Q, F, {}) /\ Q \in SUBSET Requests
      /\ F \in SUBSET Requests /\ MaxInflight \in Nat \ {0}
  BY <1>2, BackendSlots, RouterAssumption
<1> HIDE DEF F, Q, x
<1>4. /\ Cardinality(F) \in Nat /\ Cardinality(Q) \in Nat /\ Cardinality({}) = 0
      /\ IsFiniteSet(F) /\ IsFiniteSet(Q)
  BY <1>3, Finiteness, FS_EmptySet
<1>5. /\ x.outstanding = Cardinality(F) /\ x.queued = Cardinality(Q)
      /\ Permits(x.sem) + Cardinality(F) = MaxInflight
  BY <1>3, <1>4 DEF Slots
<1>6. ASSUME x.outstanding = 0, x.queued = 0 PROVE ~Locked(x.sem)
  <2>1. Q = {} /\ WaitersAre(x.sem, Q) /\ x.sem \in Semaphore(Requests)
    BY <1>3, <1>4, <1>5, <1>6, FS_EmptySet, BackendFields DEF Slots
  <2>2. x.sem.granted = {} /\ ToSet(x.sem.pending) = {} /\ x.sem.pending \in Seq(Requests)
    BY <2>1 DEF WaitersAre, Waiting, Semaphore
  <2>3. x.sem.pending = <<>>
    <3>1. SUFFICES ASSUME NEW p \in Seq(Requests), ToSet(p) = {}, p # <<>> PROVE FALSE
      BY <2>2
    <3>2. Len(p) \in Nat \ {0} /\ DOMAIN p = 1..Len(p)
      BY <3>1, EmptySeq, LenProperties
    <3>3. p[1] \in ToSet(p)
      BY <3>2 DEF ToSet
    <3> QED BY <3>1, <3>3
  <2>4. x.sem.value = MaxInflight /\ x.sem.value \in Nat
    BY <1>4, <1>5, <1>6, <2>1, <2>2 DEF Permits, Semaphore
  <2> QED BY <1>3, <2>2, <2>3, <2>4 DEF Locked
<1> QED BY <1>4, <1>5, <1>6 DEF Idle, x

LEMMA StepQueuesRightly ==
    ASSUME IInv, [Next]_vars, Kinds \subseteq {"plain"}, Strategy = "least_outstanding",
           NEW r \in Requests, req[r].phase = "idle", req'[r].phase = "queued"
    PROVE  \A c \in Candidates(GroupOf[req'[r].target]) : ~Idle(c)
<1>1. PICK s \in Requests, kind \in Kinds, key \in Keys, g \in Groups, b \in Backends :
         ArriveRouted(s, kind, key, g, b)
  BY OnlyArrivalsRoute DEF Settled
<1> DEFINE x == PolledGroup(g)[b]
           phase == IF Locked(x.sem) THEN "queued" ELSE PhaseOf(kind)
           q == RoutedTo(req[s], kind, key, b, phase)
<1>2. /\ req' = [req EXCEPT ![s] = q] /\ req \in [Requests -> Request]
      /\ b \in Candidates(g) /\ LeastOutstanding(g, b)
  BY <1>1 DEF ArriveRouted, Selects, IInv, TypeOK
<1>3. phase \in {"queued", "forwarded", "streaming"} /\ phase \in Phases
  BY DEF PhaseOf, Phases
<1>4. q.phase = phase /\ q.target = b
  <2>1. req[s] \in Request
    BY <1>2
  <2> HIDE DEF phase
  <2> QED BY <1>3, <2>1, RoutedFields
<1>5. s = r
  BY <1>2
<1>6. Locked(x.sem) /\ req'[r].target = b
  <2>1. req'[r] = q
    BY <1>2, <1>5
  <2> HIDE DEF q
  <2> QED BY <1>4, <2>1 DEF PhaseOf
<1>7. x.sem = pool[b].sem
  BY PolledGroupFacts DEF IInv, SameSlots
<1>8. GroupOf[b] = g
  BY <1>2 DEF Candidates
<1>9. ~Idle(b)
  BY <1>6, <1>7, IdleIsFree
<1>10. SUFFICES ASSUME NEW c \in Candidates(g), Idle(c) PROVE FALSE
  BY <1>6, <1>8
<1>11. c \in Backends /\ pool[c].outstanding = 0 /\ pool[c].queued = 0
  BY <1>10 DEF Candidates, Idle
<1>12. pool[b].outstanding \in Nat /\ pool[b].queued \in Nat
  BY IdleIsFree
<1>13. LoadScore(b) <= 0
  BY <1>2, <1>11, <1>12 DEF LeastOutstanding, LoadScore
<1>14. pool[b].outstanding = 0 /\ pool[b].queued = 0
  BY <1>12, <1>13 DEF LoadScore
<1> QED BY <1>9, <1>14 DEF Idle

(* Least-outstanding routing never makes a plain request wait at a busy    *)
(* backend while an available backend of its group is idle, for any number *)
(* of backends and requests and any limit (routing.py:28-31).              *)
THEOREM NobodyQueuesBesideIdle ==
    ASSUME Kinds \subseteq {"plain"}, Strategy = "least_outstanding"
    PROVE  Spec => NoQueueBesideIdle
<1> DEFINE A == \A r \in Requests :
                  req[r].phase = "idle" /\ req'[r].phase = "queued" =>
                      \A c \in Candidates(GroupOf[req'[r].target]) : ~Idle(c)
<1>1. IInv /\ [Next]_vars => A
  BY StepQueuesRightly
<1>2. IInv /\ [Next]_vars => [A]_vars
  BY <1>1
<1> HIDE DEF A
<1>3. Spec => [][A]_vars
  BY <1>2, Invariance, PTL DEF Spec
<1> QED BY <1>3 DEF A, NoQueueBesideIdle

(* A backend at which requests wait, and nobody was granted a slot, is at  *)
(* its limit also by its load figure, whatever streams have ended there. *)
LEMMA LockedIsFull ==
    ASSUME IInv, NEW b \in Backends, Locked(pool[b].sem), pool[b].sem.granted = {}
    PROVE  pool[b].outstanding = MaxInflight /\ pool[b].queued \in Nat
<1> DEFINE F == InPhase(b, "forwarded")
           Q == InPhase(b, "queued")
           T == TwiceReleased(b)
           x == pool[b]
<1>1. /\ x \in Backend /\ Slots(x, Q, F, T) /\ MaxInflight \in Nat \ {0}
      /\ Cardinality(F) \in Nat /\ Cardinality(T) \in Nat /\ Cardinality(Q) \in Nat
  BY BackendSlots, Finiteness, RouterAssumption
<1> HIDE DEF F, Q, T, x
<1>2. x.sem \in Semaphore(Requests) /\ Locked(x.sem) /\ x.sem.granted = {}
  BY <1>1, BackendFields DEF x
<1>3. x.sem.value = 0
  BY <1>1, <1>2 DEF Slots, NoneForgotten, Locked, Semaphore
<1>4. Permits(x.sem) = 0
  BY <1>2, <1>3, FS_EmptySet DEF Permits
<1> QED BY <1>1, <1>4 DEF Slots, x

LEMMA StepQueuesBehindGrant ==
    ASSUME IInv, [Next]_vars, Strategy # "round_robin",
           NEW r \in Requests, req[r].phase = "idle", req'[r].phase = "queued",
           pool[req'[r].target].sem.granted = {}
    PROVE  \A c \in Candidates(GroupOf[req'[r].target]) : ~Idle(c)
<1>1. PICK s \in Requests, kind \in Kinds, key \in Keys, g \in Groups, b \in Backends :
         ArriveRouted(s, kind, key, g, b)
  BY OnlyArrivalsRoute DEF Settled
<1> DEFINE x == PolledGroup(g)[b]
           phase == IF Locked(x.sem) THEN "queued" ELSE PhaseOf(kind)
           q == RoutedTo(req[s], kind, key, b, phase)
<1>2. /\ req' = [req EXCEPT ![s] = q] /\ req \in [Requests -> Request]
      /\ b \in Candidates(g) /\ (LeastOutstanding(g, b) \/ ~AtCapacity(b))
  BY <1>1, RouterAssumption DEF ArriveRouted, Selects, PrefixHash, Strategies, IInv, TypeOK
<1>3. phase \in {"queued", "forwarded", "streaming"} /\ phase \in Phases
  BY DEF PhaseOf, Phases
<1>4. q.phase = phase /\ q.target = b
  <2>1. req[s] \in Request
    BY <1>2
  <2> HIDE DEF phase
  <2> QED BY <1>3, <2>1, RoutedFields
<1>5. s = r
  BY <1>2
<1>6. Locked(x.sem) /\ req'[r].target = b
  <2>1. req'[r] = q
    BY <1>2, <1>5
  <2> HIDE DEF q
  <2> QED BY <1>4, <2>1 DEF PhaseOf
<1>7. x.sem = pool[b].sem
  BY PolledGroupFacts DEF IInv, SameSlots
<1>8. GroupOf[b] = g
  BY <1>2 DEF Candidates
<1>9. pool[b].outstanding = MaxInflight /\ pool[b].queued \in Nat
  <2>1. pool[b].sem.granted = {}
    BY <1>6
  <2>2. Locked(pool[b].sem)
    <3> HIDE DEF x
    <3> QED BY <1>6, <1>7
  <2> QED BY <2>1, <2>2, LockedIsFull
<1>10. MaxInflight \in Nat \ {0}
  BY RouterAssumption
<1>11. LeastOutstanding(g, b)
  BY <1>2, <1>9, <1>10 DEF AtCapacity
<1>12. SUFFICES ASSUME NEW c \in Candidates(g), Idle(c) PROVE FALSE
  BY <1>6, <1>8
<1>13. LoadScore(c) = 0
  BY <1>12 DEF Idle, LoadScore
<1>14. LoadScore(b) \in Nat \ {0}
  BY <1>9, <1>10 DEF LoadScore
<1> QED BY <1>11, <1>12, <1>13, <1>14 DEF LeastOutstanding

(* With least-outstanding or prefix-hash routing whoever queues beside an  *)
(* idle candidate queues behind a granted waiter, for any requests, plain  *)
(* or streamed, backends and limits (routing.py:28-54).                    *)
THEOREM OnlyGrantsHideLoad ==
    ASSUME Strategy # "round_robin"
    PROVE  Spec => QueuesBehindGrant
<1> DEFINE A == \A r \in Requests :
                  req[r].phase = "idle" /\ req'[r].phase = "queued" =>
                      \/ pool[req'[r].target].sem.granted # {}
                      \/ \A c \in Candidates(GroupOf[req'[r].target]) : ~Idle(c)
<1>1. IInv /\ [Next]_vars => A
  BY StepQueuesBehindGrant
<1>2. IInv /\ [Next]_vars => [A]_vars
  BY <1>1
<1> HIDE DEF A
<1>3. Spec => [][A]_vars
  BY <1>2, Invariance, PTL DEF Spec
<1> QED BY <1>3 DEF A, QueuesBehindGrant

-----------------------------------------------------------------------------
(* Round robin. *)

(* A breaker that has not seen enough failures to open is closed.          *)
Calm ==
    \A b \in Backends :
        /\ HealthResults \subseteq {TRUE} => pool[b].healthy = TRUE
        /\ pool[b].breaker.failures <= pool[b].total_failures
        /\ pool[b].total_failures < FailureThreshold => pool[b].breaker.state = "closed"

LEMMA FailuresAddUp ==
    ASSUME NEW k \in Breaker
    PROVE  /\ Polled(k).failures = k.failures /\ Cooled(k).failures = k.failures
           /\ k.state = "closed" => Polled(k) = k
           /\ RecordSuccess(k).failures = 0
           /\ k.state = "closed" => RecordSuccess(k).state = "closed"
           /\ RecordFailure(k).failures <= k.failures + 1
           /\ k.state = "closed" /\ k.failures + 1 < FailureThreshold
                => RecordFailure(k).state = "closed"
<1>1. /\ Polled(k).failures = k.failures /\ Cooled(k).failures = k.failures
      /\ k.state = "closed" => Polled(k) = k
  BY DEF Polled, Cooled, Breaker
<1> DEFINE f == [k EXCEPT !.failures = 0]
           s == [f EXCEPT !.successes = k.successes + 1]
           state == IF k.successes + 1 >= HalfOpenProbes THEN "closed" ELSE "half_open"
           x == [s EXCEPT !.state = state]
<1>2. /\ RecordSuccess(k).failures = 0
      /\ k.state = "closed" => RecordSuccess(k).state = "closed"
  <2>1. f.failures = 0 /\ f.state = k.state /\ f \in Breaker
    BY DEF Breaker
  <2>2. RecordSuccess(k) = IF k.state = "half_open" THEN x ELSE f
    BY DEF RecordSuccess
  <2> HIDE DEF f
  <2>3. s.failures = 0 /\ s \in Breaker
    BY <2>1, BreakerFields DEF Breaker
  <2> HIDE DEF s
  <2>4. x.failures = 0
    BY <2>3 DEF Breaker
  <2> HIDE DEF x
  <2> QED BY <2>1, <2>2, <2>4
<1> DEFINE r == Reopened(k)
           o == [r EXCEPT !.failures = r.failures + 1]
           g == [k EXCEPT !.failures = k.failures + 1]
           h == [g EXCEPT !.successes = 0]
<1>3. /\ RecordFailure(k).failures <= k.failures + 1
      /\ k.state = "closed" /\ k.failures + 1 < FailureThreshold
           => RecordFailure(k).state = "closed"
  <2>1. r.failures = k.failures /\ r \in Breaker /\ k.failures \in Nat
    BY BreakerFields DEF Reopened, Breaker, BreakerStates
  <2> HIDE DEF r
  <2>2. o.failures = k.failures + 1
    BY <2>1 DEF Breaker
  <2>3. g.state = k.state /\ g.failures = k.failures + 1 /\ g \in Breaker
    BY <2>1 DEF Breaker
  <2> HIDE DEF g
  <2>4. h.state = k.state /\ h.failures = k.failures + 1
    BY <2>3 DEF Breaker
  <2>5. RecordFailure(k) = IF k.state = "half_open" THEN r
                           ELSE IF k.failures + 1 >= FailureThreshold THEN o ELSE h
    BY DEF RecordFailure, r, g
  <2> HIDE DEF o, h
  <2> QED BY <2>1, <2>2, <2>4, <2>5, BreakerFields
<1> QED BY <1>1, <1>2, <1>3

LEMMA CalmStep ==
    ASSUME IInv, Calm, \A b \in Backends : HistoryMoves(pool[b], pool'[b])
    PROVE  /\ Calm'
           /\ \A b \in Backends : pool[b].total_failures <= pool'[b].total_failures
<1>1. SUFFICES ASSUME NEW b \in Backends
               PROVE  /\ HealthResults \subseteq {TRUE} => pool'[b].healthy = TRUE
                      /\ pool'[b].breaker.failures <= pool'[b].total_failures
                      /\ pool'[b].total_failures < FailureThreshold
                           => pool'[b].breaker.state = "closed"
                      /\ pool[b].total_failures <= pool'[b].total_failures
  BY DEF Calm
<1> DEFINE j == pool[b].breaker
           k == pool'[b].breaker
           f == pool[b].total_failures
           n == pool'[b].total_failures
<1>2. j \in Breaker /\ f \in Nat /\ j.failures \in Nat /\ FailureThreshold \in Nat
  BY BackendFields, BreakerFields DEF IInv, TypeOK
<1>3. /\ j.failures <= f /\ (f < FailureThreshold => j.state = "closed")
      /\ BreakerMoves(pool[b], pool'[b])
  BY DEF Calm, HistoryMoves
<1>4. HealthResults \subseteq {TRUE} => pool'[b].healthy = TRUE
  BY DEF Calm, HistoryMoves
<1>5. \/ k \in {j, Polled(j), RecordSuccess(j)} /\ n = f
      \/ j.state = "open" /\ k = Cooled(j) /\ n = f
      \/ k = RecordFailure(j) /\ n = f + 1
      \/ k = RecordFailure(RecordSuccess(j)) /\ n = f + 1
  BY <1>3 DEF BreakerMoves
<1> HIDE DEF j, k, f, n
<1>6. k.failures <= n /\ (n < FailureThreshold => k.state = "closed") /\ f <= n
  <2>1. CASE k \in {j, Polled(j), RecordSuccess(j)} /\ n = f
    BY <1>2, <1>3, <2>1, FailuresAddUp
  <2>2. CASE j.state = "open" /\ k = Cooled(j) /\ n = f
    BY <1>2, <1>3, <2>2, FailuresAddUp
  <2>3. CASE k = RecordFailure(j) /\ n = f + 1
    <3>1. k.failures <= j.failures + 1 /\ k \in Breaker /\ k.failures \in Nat
      BY <1>2, <2>3, FailuresAddUp, BreakerTypes, BreakerFields
    <3>2. k.failures <= n
      BY <1>2, <1>3, <2>3, <3>1
    <3>3. ASSUME n < FailureThreshold PROVE k.state = "closed"
      <4>1. j.state = "closed" /\ j.failures + 1 < FailureThreshold
        BY <1>2, <1>3, <2>3, <3>3
      <4> QED BY <1>2, <2>3, <4>1, FailuresAddUp
    <3> QED BY <1>2, <2>3, <3>2, <3>3
  <2>4. CASE k = RecordFailure(RecordSuccess(j)) /\ n = f + 1
    <3> DEFINE l == RecordSuccess(j)
    <3>1. /\ l \in Breaker /\ l.failures \in Nat /\ l.failures <= j.failures
          /\ j.state = "closed" => l.state = "closed"
      <4>1. l \in Breaker
        BY <1>2, BreakerTypes
      <4>2. l.failures = 0 /\ (j.state = "closed" => l.state = "closed")
        BY <1>2, FailuresAddUp
      <4> HIDE DEF l
      <4> QED BY <1>2, <4>1, <4>2
    <3>2. k = RecordFailure(l)
      BY <2>4
    <3> HIDE DEF l
    <3>3. k.failures <= l.failures + 1 /\ k \in Breaker /\ k.failures \in Nat
      BY <3>1, <3>2, FailuresAddUp, BreakerTypes, BreakerFields
    <3>4. k.failures <= n
      BY <1>2, <1>3, <2>4, <3>1, <3>3
    <3>5. ASSUME n < FailureThreshold PROVE k.state = "closed"
      <4>1. l.state = "closed" /\ l.failures + 1 < FailureThreshold
        BY <1>2, <1>3, <2>4, <3>1, <3>5
      <4> QED BY <3>1, <3>2, <4>1, FailuresAddUp
    <3> QED BY <1>2, <2>4, <3>4, <3>5
  <2> QED BY <1>5, <2>1, <2>2, <2>3, <2>4
<1> QED BY <1>4, <1>6 DEF j, k, f, n


(* The backends of group g, and the place of one in its group. *)
Members(g) == {b \in Backends : GroupOf[b] = g}

Rank(g, b) == Cardinality({c \in Members(g) : c < b})

LEMMA Ranks ==
    ASSUME NEW g, NEW b \in Members(g)
    PROVE  /\ Cardinality(Members(g)) \in Nat /\ Rank(g, b) \in Nat
           /\ Rank(g, b) < Cardinality(Members(g))
           /\ \A c \in Members(g) : Rank(g, c) = Rank(g, b) => c = b
<1> DEFINE Below(a) == {c \in Members(g) : c < a}
<1>1. Members(g) \subseteq Nat /\ IsFiniteSet(Members(g))
  BY BackendsFacts, FS_Subset DEF Members
<1>2. \A a : Below(a) \subseteq Members(g) /\ IsFiniteSet(Below(a))
  BY <1>1, FS_Subset
<1>3. /\ Cardinality(Members(g)) \in Nat
      /\ \A a : Cardinality(Below(a)) \in Nat /\ Rank(g, a) = Cardinality(Below(a))
  BY <1>1, <1>2, FS_CardinalityType DEF Rank
<1>4. Cardinality(Below(b)) < Cardinality(Members(g))
  <2>1. Below(b) \in SUBSET Members(g) /\ Members(g) # Below(b)
    BY <1>1
  <2> HIDE DEF Below
  <2> QED BY <1>1, <1>3, <2>1, FS_Subset
<1>5. ASSUME NEW x \in Members(g), NEW y \in Members(g), x < y
      PROVE  Cardinality(Below(x)) < Cardinality(Below(y))
  <2>1. Below(x) \in SUBSET Below(y) /\ Below(y) # Below(x)
    BY <1>1, <1>5
  <2> HIDE DEF Below
  <2> QED BY <1>2, <1>3, <2>1, FS_Subset
<1> HIDE DEF Below
<1>6. ASSUME NEW c \in Members(g), Rank(g, c) = Rank(g, b) PROVE c = b
  <2>1. c \in Nat /\ b \in Nat
    BY <1>1
  <2> QED BY <1>3, <1>5, <1>6, <2>1
<1> QED BY <1>3, <1>4, <1>6

(* No breaker can have opened. *)
NeverOut == \A b \in Backends : pool[b].total_failures < FailureThreshold

(* After m whole rounds of group g the backends before the cursor have had *)
(* one request more than the others.                                       *)
Rounds(g, m) ==
    \A b \in Members(g) :
        /\ cursor[g] < Cardinality(Members(g))
        /\ Cardinality(Routed(b)) = IF Rank(g, b) < cursor[g] THEN m + 1 ELSE m

EvenInv == Calm /\ (NeverOut => \A g \in Groups : \E m \in Nat : Rounds(g, m))

LEMMA SmallMod ==
    ASSUME NEW i \in Nat, NEW n \in Nat \ {0}
    PROVE  (i < n => i % n = i) /\ (i = n => i % n = 0)
OBVIOUS

LEMMA CalmCandidates ==
    ASSUME IInv, Calm, NeverOut, HealthResults \subseteq {TRUE}, NEW g
    PROVE  Candidates(g) = Members(g)
<1>1. ASSUME NEW b \in Backends PROVE Available(pool[b])
  <2>1. pool[b].healthy = TRUE /\ pool[b].breaker.state = "closed"
    BY DEF Calm, NeverOut
  <2> QED BY <2>1 DEF Available, AllowRequest, Polled
<1> QED BY <1>1 DEF Candidates, Members

LEMMA RoundsKept ==
    ASSUME Settled, NEW g, NEW m, Rounds(g, m)
    PROVE  Rounds(g, m)'
<1>1. \A b : Routed(b)' = Routed(b)
  BY DEF Settled, Routed
<1> QED BY <1>1 DEF Settled, Rounds, Members, Rank

LEMMA RoundsMove ==
    ASSUME IInv, Calm, NeverOut, HealthResults \subseteq {TRUE}, Strategy = "round_robin",
           NEW r \in Requests, req[r].target = NoBackend,
           NEW kind \in Kinds, NEW key \in Keys, NEW h \in Groups, NEW b \in Backends,
           ArriveRouted(r, kind, key, h, b),
           NEW g \in Groups, NEW m \in Nat, Rounds(g, m)
    PROVE  \E n \in Nat : Rounds(g, n)'
<1> DEFINE x == PolledGroup(h)[b]
           phase == IF Locked(x.sem) THEN "queued" ELSE PhaseOf(kind)
           q == RoutedTo(req[r], kind, key, b, phase)
<1>1. /\ req' = [req EXCEPT ![r] = q] /\ req \in [Requests -> Request]
      /\ b \in Candidates(h) /\ RoundRobin(h, b)
      /\ cursor' = [cursor EXCEPT ![h] = (@ + 1) % Cardinality(Candidates(h))]
      /\ cursor \in [Groups -> Nat]
  BY DEF ArriveRouted, Selects, NextCursor, IInv, TypeOK
<1>2. q.target = b
  <2>1. phase \in Phases /\ req[r] \in Request
    BY <1>1 DEF PhaseOf, Phases
  <2> HIDE DEF phase
  <2> QED BY <2>1, RoutedFields
<1>3. Candidates(h) = Members(h)
  BY CalmCandidates
<1> HIDE DEF q
<1>4. /\ r \notin Routed(b) /\ Routed(b)' = Routed(b) \cup {r}
      /\ \A c \in Backends \ {b} : Routed(c)' = Routed(c)
  <2>1. NoBackend \notin Backends
    BY BackendsFacts
  <2>2. \A s \in Requests : req'[s].target = IF s = r THEN b ELSE req[s].target
    BY <1>1, <1>2
  <2> QED BY <2>1, <2>2 DEF Routed
<1>5. /\ Cardinality(Routed(b))' = Cardinality(Routed(b)) + 1
      /\ \A c \in Backends \ {b} : Cardinality(Routed(c))' = Cardinality(Routed(c))
  <2>1. Routed(b) \in SUBSET Requests
    BY DEF Routed
  <2> QED BY <1>4, <2>1, Finiteness
<1>6. CASE g # h
  <2>1. cursor'[g] = cursor[g] /\ b \notin Members(g)
    BY <1>1, <1>3, <1>6 DEF Members
  <2>2. \A c \in Members(g) : Cardinality(Routed(c))' = Cardinality(Routed(c))
    BY <1>5, <2>1 DEF Members
  <2> QED BY <2>1, <2>2 DEF Rounds, Members, Rank
<1>7. CASE g = h
  <2> DEFINE n == Cardinality(Members(g))
             k == cursor[g]
  <2>1. /\ b \in Members(g) /\ n \in Nat /\ k \in Nat /\ k < n
        /\ Rank(g, b) = k % n /\ cursor'[g] = (k + 1) % n
    <3>1. b \in Members(g) /\ k \in Nat
      BY <1>1, <1>3, <1>7
    <3>2. Rank(g, b) = k % n
      BY <1>1, <1>3, <1>7 DEF RoundRobin, Position, Rank
    <3>3. cursor'[g] = (k + 1) % n
      BY <1>1, <1>3, <1>7
    <3> QED BY <3>1, <3>2, <3>3, Ranks DEF Rounds
  <2>2. \A c \in Members(g) : Cardinality(Routed(c)) = IF Rank(g, c) < k THEN m + 1 ELSE m
    BY DEF Rounds
  <2>3. \A c \in Members(g) : c \in Backends /\ Rank(g, c) \in Nat /\ Rank(g, c) < n
                              /\ (c # b => Rank(g, c) # Rank(g, b))
    BY <2>1, Ranks DEF Members
  <2>4. SUFFICES \E j \in Nat : \A c \in Members(g) :
                    /\ cursor'[g] < n
                    /\ Cardinality(Routed(c))'
                       = IF Rank(g, c) < cursor'[g] THEN j + 1 ELSE j
    BY DEF Rounds, Members, Rank
  <2> HIDE DEF n, k
  <2>5. k % n = k
    BY <2>1, SmallMod
  <2>6. ASSUME NEW c \in Members(g), c # b
        PROVE  /\ Cardinality(Routed(c))' = IF Rank(g, c) < k THEN m + 1 ELSE m
               /\ Rank(g, c) # k
    BY <1>5, <2>1, <2>2, <2>3, <2>5, <2>6
  <2>7. Cardinality(Routed(b))' = m + 1 /\ Rank(g, b) = k
    BY <1>5, <2>1, <2>2, <2>5
  <2>8. CASE k + 1 < n
    <3>1. (k + 1) % n = k + 1
      BY <2>1, <2>8, SmallMod
    <3>2. cursor'[g] = k + 1
      BY <2>1, <3>1
    <3>3. \A c \in Members(g) :
             Cardinality(Routed(c))' = IF Rank(g, c) < k + 1 THEN m + 1 ELSE m
      BY <2>1, <2>3, <2>6, <2>7
    <3> QED BY <2>8, <3>2, <3>3
  <2>9. CASE k + 1 = n
    <3>1. (k + 1) % n = 0
      BY <2>1, <2>9, SmallMod
    <3>2. cursor'[g] = 0
      BY <2>1, <3>1
    <3>3. \A c \in Members(g) : Cardinality(Routed(c))' = m + 1 /\ Rank(g, c) \in Nat
      BY <2>1, <2>3, <2>6, <2>7, <2>9
    <3>4. \A c \in Members(g) :
             /\ cursor'[g] < n
             /\ Cardinality(Routed(c))' = IF Rank(g, c) < cursor'[g] THEN m + 1 + 1 ELSE m + 1
      BY <2>1, <3>2, <3>3
    <3>5. m + 1 \in Nat
      OBVIOUS
    <3> QED BY <3>4, <3>5
  <2> QED BY <2>1, <2>8, <2>9
<1> QED BY <1>6, <1>7


LEMMA EvenStep ==
    ASSUME IInv, CountInv, EvenInv, [Next]_vars, Strategy = "round_robin",
           HealthResults \subseteq {TRUE}
    PROVE  EvenInv'
<1>1. /\ Calm /\ Calm'
      /\ \A b \in Backends : pool[b].total_failures <= pool'[b].total_failures
  BY StepHistory, CalmStep DEF EvenInv
<1>2. SUFFICES ASSUME NeverOut', NEW g \in Groups PROVE \E m \in Nat : Rounds(g, m)'
  BY <1>1 DEF EvenInv
<1>3. NeverOut
  <2>1. SUFFICES ASSUME NEW b \in Backends PROVE pool[b].total_failures < FailureThreshold
    BY DEF NeverOut
  <2>2. /\ pool[b].total_failures \in Nat /\ pool'[b].total_failures \in Nat
        /\ FailureThreshold \in Nat
    BY BackendFields, StepInv, BreakerAssumption DEF IInv, TypeOK
  <2>3. /\ pool[b].total_failures <= pool'[b].total_failures
        /\ pool'[b].total_failures < FailureThreshold
    BY <1>1, <1>2 DEF NeverOut
  <2> QED BY <2>2, <2>3
<1>4. PICK m \in Nat : Rounds(g, m)
  BY <1>3 DEF EvenInv
<1>5. CASE Settled
  BY <1>4, <1>5, RoundsKept
<1>6. ASSUME NEW r \in Requests, NEW kind \in Kinds, NEW key \in Keys, NEW h \in Groups,
             NEW b \in Backends, req[r].phase = "idle", ArriveRouted(r, kind, key, h, b)
      PROVE  \E n \in Nat : Rounds(g, n)'
  <2>1. req[r].target = NoBackend
    BY <1>6 DEF CountInv
  <2> QED BY <1>1, <1>3, <1>4, <1>6, <2>1, RoundsMove
<1> QED BY <1>5, <1>6, OnlyArrivalsRoute

LEMMA EvenImplies ==
    ASSUME IInv, EvenInv, HealthResults \subseteq {TRUE}
    PROVE  RoundRobinEven
<1>1. SUFFICES ASSUME NeverOut, NEW b \in Backends, NEW c \in Backends, GroupOf[b] = GroupOf[c]
               PROVE  Cardinality(Routed(b)) <= Cardinality(Routed(c)) + 1
  BY DEF RoundRobinEven, NeverOut
<1>2. PICK g \in Groups : GroupOf[b] = g /\ GroupOf[c] = g
  BY <1>1, BackendsFacts
<1>3. PICK m \in Nat : Rounds(g, m)
  BY <1>1 DEF EvenInv
<1>4. Cardinality(Routed(b)) \in {m, m + 1} /\ Cardinality(Routed(c)) \in {m, m + 1}
  BY <1>2, <1>3 DEF Rounds, Members
<1> QED BY <1>4

(* While no backend has failed often enough to open its breaker and every  *)
(* probe succeeds, round robin gives two backends of a group numbers of    *)
(* requests that differ by at most one, for any groups and any             *)
(* interleaving (routing.py:21-25, backend_pool.py:156-159).               *)
THEOREM RoundRobinIsEven ==
    ASSUME Strategy = "round_robin"
    PROVE  Spec => []RoundRobinEven
<1>1. CASE HealthResults \subseteq {TRUE}
  <2>1. Init => CountInv /\ EvenInv
    <3> SUFFICES ASSUME Init PROVE CountInv /\ EvenInv
      OBVIOUS
    <3>1. Calm
      <4>1. SUFFICES ASSUME NEW b \in Backends
                     PROVE  /\ HealthResults \subseteq {TRUE} => pool[b].healthy = TRUE
                            /\ pool[b].breaker.failures <= pool[b].total_failures
                            /\ pool[b].total_failures < FailureThreshold
                                 => pool[b].breaker.state = "closed"
        BY Zenon DEF Calm
      <4>2. pool[b] = NewBackend
        BY DEF Init
      <4>3. /\ NewBackend.healthy = TRUE /\ NewBackend.total_failures = 0
            /\ NewBackend.breaker = NewBreaker
        BY DEF NewBackend
      <4>4. /\ pool[b].healthy = TRUE /\ pool[b].total_failures = 0
            /\ pool[b].breaker.failures = 0 /\ pool[b].breaker.state = "closed"
        BY <4>2, <4>3 DEF NewBreaker
      <4>5. pool[b].breaker.failures <= pool[b].total_failures
        BY <4>4
      <4> QED BY <4>4, <4>5, Zenon
    <3>2. \A b \in Backends : Routed(b) = {}
      BY BackendsFacts DEF Init, Routed
    <3>3. ASSUME NEW g \in Groups PROVE Rounds(g, 0)
      <4>1. cursor[g] = 0 /\ Cardinality({}) = 0
        BY FS_EmptySet DEF Init
      <4>2. SUFFICES ASSUME NEW b \in Members(g)
                     PROVE  /\ cursor[g] < Cardinality(Members(g))
                            /\ Cardinality(Routed(b)) = IF Rank(g, b) < cursor[g] THEN 1 ELSE 0
        BY DEF Rounds
      <4>3. Cardinality(Routed(b)) = 0
        BY <3>2, <4>1 DEF Members
      <4> QED BY <4>1, <4>3, Ranks
    <3> QED BY <3>1, <3>3, InitCounts DEF EvenInv
  <2>2. IInv /\ CountInv /\ EvenInv /\ [Next]_vars => CountInv' /\ EvenInv'
    BY <1>1, StepHistory, EffectCounts, EvenStep
  <2>3. IInv /\ EvenInv => RoundRobinEven
    BY <1>1, EvenImplies
  <2> QED BY <2>1, <2>2, <2>3, Invariance, PTL DEF Spec
<1>2. CASE ~(HealthResults \subseteq {TRUE})
  <2>1. RoundRobinEven
    BY <1>2 DEF RoundRobinEven
  <2> QED BY <2>1, PTL
<1> QED BY <1>1, <1>2

=============================================================================
