------------------------------- MODULE Router -------------------------------
(***************************************************************************)
(* The OneRec router (platform/router): admission control, routing,        *)
(* circuit breaking, health checking and graceful degradation of one       *)
(* router process in front of a fixed list of engine replicas.             *)
(*                                                                         *)
(* The program is one asyncio event loop, so an action is the code that    *)
(* runs between two suspensions of one coroutine.  A request's handler     *)
(* suspends at most twice: while it waits for a concurrency slot, and      *)
(* while the backend answers; the body of a streamed answer is a second    *)
(* coroutine that outlives the handler.                                    *)
(***************************************************************************)
EXTENDS Integers, Sequences, FiniteSets, CircuitBreaker, AsyncSemaphore

CONSTANTS
    Requests,        \* requests the router will ever receive
    GroupOf,         \* settings.backends: the group of each backend, in order
    Strategy,        \* settings.routing_strategy
    MaxInflight,     \* settings.max_inflight_per_backend
    CacheSize,       \* settings.fallback_cache_size
    FallbackEnabled, \* settings.fallback_enabled
    Kinds,           \* request kinds that arrive: "plain", "stream"
    Keys,            \* prompt-prefix hashes
    Unhashable,      \* those that stand for a prompt that is a list, which has none
    Outcomes,        \* what a backend may do with a plain request
    HealthResults,   \* what a health probe may find
    InitialWeights,  \* settings.canary_weight_pct at the start, as configured
    WeightInputs     \* canary_weight_pct values an operator posts

Groups == {"stable", "canary"}

Backends == DOMAIN GroupOf

Strategies == {"least_outstanding", "round_robin", "prefix_hash"}

ASSUME RouterAssumption ==
    /\ IsFiniteSet(Requests)
    /\ GroupOf \in Seq(Groups)
    /\ Strategy \in Strategies
    /\ MaxInflight \in Nat \ {0}
    /\ CacheSize \in Nat
    /\ FallbackEnabled \in BOOLEAN
    /\ Kinds \subseteq {"plain", "stream"}
    /\ Keys \subseteq Nat /\ Unhashable \subseteq Keys
    /\ Outcomes \subseteq {"text", "empty", "malformed", "error"}
    /\ HealthResults \subseteq BOOLEAN
    /\ InitialWeights \subseteq Int /\ WeightInputs \subseteq Int

VARIABLES
    pool,     \* BackendPool.backends: the mutable state of every Backend
    cursor,   \* BackendPool._rr_cursor
    req,      \* the handler (or response generator) of every request
    cache,    \* FallbackCache._store: its keys, least recently used first
    weight,   \* settings.canary_weight_pct
    counted   \* REQUESTS_TOTAL, by status

vars == <<pool, cursor, req, cache, weight, counted>>

Phases == {"idle", "queued", "forwarded", "streaming", "done"}

Degraded == {"degraded_cache", "degraded_heuristic"}

(* A stream's reply is how its response generator ended; one that the      *)
(* client abandoned before the first chunk never ran at all.               *)
StreamEnds == {"stream_ok", "stream_error", "stream_cancelled"}

(* "unavailable" is HTTP 503, "server_error" the HTTP 500 of an exception  *)
(* that nobody catches.                                                    *)
Replies == {"none", "ok", "rejected", "unavailable", "server_error", "stream_unread"}
           \cup Degraded \cup StreamEnds

Statuses == {"ok", "error", "degraded_fallback", "rejected_admission"}

NoBackend == 0

Backend == [healthy: BOOLEAN, breaker: Breaker,
            sem: Semaphore(Requests),
            outstanding: Int, queued: Int,
            total_requests: Nat, total_failures: Nat]

Request == [phase: Phases, kind: {"plain", "stream"}, key: Nat,
            target: Backends \cup {NoBackend}, reply: Replies]

(* The configured weight is taken as it is, later ones are clamped. *)
Weights == 0..100 \cup InitialWeights

TypeOK ==
    /\ pool \in [Backends -> Backend]
    /\ cursor \in [Groups -> Nat]
    /\ req \in [Requests -> Request]
    /\ cache \in Seq(Nat)
    /\ weight \in Weights
    /\ counted \in [Statuses -> Nat]

NewBackend ==
    [healthy |-> TRUE, breaker |-> NewBreaker, sem |-> NewSemaphore(MaxInflight),
     outstanding |-> 0, queued |-> 0, total_requests |-> 0, total_failures |-> 0]

Init ==
    /\ pool = [b \in Backends |-> NewBackend]
    /\ cursor = [g \in Groups |-> 0]
    /\ req = [r \in Requests |->
                [phase |-> "idle", kind |-> "plain", key |-> 0,
                 target |-> NoBackend, reply |-> "none"]]
    /\ cache = <<>>
    /\ weight \in InitialWeights
    /\ counted = [s \in Statuses |-> 0]

-----------------------------------------------------------------------------
(* Routing (routing.py).  Health and breakers are read through `available`, *)
(* which moves a cooled breaker to half open.                               *)

Available(x) == x.healthy /\ AllowRequest(x.breaker)

(* What reading `available` of every backend of a group leaves behind; the *)
(* breaker of an unhealthy backend is not read.                            *)
PolledGroup(g) ==
    [b \in Backends |->
        IF GroupOf[b] = g /\ pool[b].healthy
        THEN [pool[b] EXCEPT !.breaker = Polled(@)]
        ELSE pool[b]]

Candidates(g) == {b \in Backends : GroupOf[b] = g /\ Available(pool[b])}

(* Position of b in the candidate list, from 0. *)
Position(g, b) == Cardinality({c \in Candidates(g) : c < b})

(* Variant: one request too many. *)
AtCapacityLate(b) == pool[b].outstanding > MaxInflight

AtCapacity(b) == pool[b].outstanding >= MaxInflight

(* Variant: requests in flight are forgotten. *)
LoadScoreQueued(b) == pool[b].queued

(* Backend.load_score of an available backend, in tenths of a request. *)
LoadScore(b) == 10 * pool[b].outstanding + pool[b].queued

(* min() returns the first of the candidates with the lowest score. *)
LeastOutstanding(g, b) ==
    \A c \in Candidates(g) :
        \/ LoadScore(b) < LoadScore(c)
        \/ LoadScore(b) = LoadScore(c) /\ b <= c

RoundRobin(g, b) == Position(g, b) = cursor[g] % Cardinality(Candidates(g))

PrefixBucket(g, key, b) == Position(g, b) = key % Cardinality(Candidates(g))

PrefixHash(g, key, b) ==
    \/ PrefixBucket(g, key, b) /\ ~AtCapacity(b)
    \/ /\ \E c \in Candidates(g) : PrefixBucket(g, key, c) /\ AtCapacity(c)
       /\ LeastOutstanding(g, b)

(* The strategy picks candidate b. *)
Selects(g, key, b) ==
    /\ b \in Candidates(g)
    /\ CASE Strategy = "round_robin" -> RoundRobin(g, b)
         [] Strategy = "prefix_hash" -> key \notin Unhashable /\ PrefixHash(g, key, b)
         [] Strategy = "least_outstanding" -> LeastOutstanding(g, b)

(* Variant: the cursor is read but never advanced. *)
NextCursorStuck(g) == cursor

NextCursor(g) ==
    IF Strategy = "round_robin"
    THEN [cursor EXCEPT ![g] = (@ + 1) % Cardinality(Candidates(g))]
    ELSE cursor

(* random.uniform(0, 100) may draw any value below 100: with a canary group *)
(* and a weight strictly between the bounds both groups are possible.       *)
GroupDrawn(g) ==
    LET hasCanary == \E b \in Backends : GroupOf[b] = "canary"
    IN  CASE g = "canary" -> hasCanary /\ weight > 0
          [] g = "stable" -> ~hasCanary \/ weight < 100

-----------------------------------------------------------------------------
(* The fallback cache (fallback.py), an ordered map of which only the keys *)
(* and their recency matter.                                               *)

Cached(key) == \E i \in DOMAIN cache : cache[i] = key

Recent(key) ==
    IF Cached(key)
    THEN LET i == CHOOSE j \in DOMAIN cache : cache[j] = key
         IN  Append(RemoveAt(cache, i), key)
    ELSE Append(cache, key)

CachePut(key) ==
    LET stored == Recent(key)
    IN  IF Len(stored) > CacheSize
        THEN SubSeq(stored, Len(stored) - CacheSize + 1, Len(stored))
        ELSE stored

CacheGet(key) == IF Cached(key) THEN Recent(key) ELSE cache

-----------------------------------------------------------------------------
(* Pieces of a handler. *)

Counting(n, status) == [n EXCEPT ![status] = @ + 1]

RoutedTo(q, kind, key, b, phase) ==
    [q EXCEPT !.kind = kind, !.key = key, !.target = b, !.phase = phase]

Answered(q, reply) == [q EXCEPT !.phase = "done", !.reply = reply]

(* prefix_hash_key raises for a prompt that is a list, say of token ids,   *)
(* and nobody catches it: the answer is HTTP 500.                          *)
ServerError(r, q, n) ==
    /\ req' = [req EXCEPT ![r] = Answered(q, "server_error")]
    /\ counted' = n
    /\ UNCHANGED cache

(* Variant: the degraded answer itself is cached. *)
ServeFallbackCaching(r, q, n) ==
    /\ req' = [req EXCEPT ![r] =
                 Answered(q, IF Cached(q.key) THEN "degraded_cache"
                             ELSE "degraded_heuristic")]
    /\ cache' = CachePut(q.key)
    /\ counted' = Counting(n, "degraded_fallback")

(* _serve_fallback: q and n are the request and the counters as they are   *)
(* when the handler calls it.                                              *)
ServeFallback(r, q, n) ==
    \/ /\ FallbackEnabled
       /\ q.key \notin Unhashable
       /\ req' = [req EXCEPT ![r] =
                    Answered(q, IF Cached(q.key) THEN "degraded_cache"
                                ELSE "degraded_heuristic")]
       /\ cache' = CacheGet(q.key)
       /\ counted' = Counting(n, "degraded_fallback")
    \/ /\ FallbackEnabled
       /\ q.key \in Unhashable
       /\ ServerError(r, q, n)
    \/ /\ ~FallbackEnabled
       /\ req' = [req EXCEPT ![r] = Answered(q, "unavailable")]
       /\ counted' = Counting(n, "error")
       /\ UNCHANGED cache

(* Variants: the finally clause forgets the slot, or the load figure, or   *)
(* the `except` clause has released the slot before it.                    *)
FinishedKeepsSlot(x) == [x EXCEPT !.outstanding = @ - 1]
FinishedKeepsLoad(x) == [x EXCEPT !.sem = Release(@)]
FinishedTwice(x) == [x EXCEPT !.outstanding = @ - 1, !.sem = Release(Release(@))]

(* The handler's finally clause, and the response generator's. *)
Finished(x) == [x EXCEPT !.outstanding = @ - 1, !.sem = Release(@)]

Started(x) == [x EXCEPT !.outstanding = @ + 1, !.total_requests = @ + 1]

(* acquire_slot: a slot taken at once, the queue joined, the queue left.   *)
Taken(x) == [x EXCEPT !.sem = Take(@)]

Joined(x, r) == [x EXCEPT !.queued = @ + 1, !.sem = Enqueue(@, r)]

Left(x, sem) == [x EXCEPT !.queued = @ - 1, !.sem = sem]

(* From a slot acquired to the next suspension.  A plain request suspends  *)
(* in post(); a streaming one builds its StreamingResponse and returns,    *)
(* through the finally clause, without suspending.                         *)
Forwarded(x, kind) == IF kind = "stream" THEN Finished(Started(x)) ELSE Started(x)

PhaseOf(kind) == IF kind = "stream" THEN "streaming" ELSE "forwarded"

Succeeded(x) == [x EXCEPT !.breaker = RecordSuccess(@)]

Failed(x) == [x EXCEPT !.breaker = RecordFailure(@), !.total_failures = @ + 1]

-----------------------------------------------------------------------------
(* Requests. *)

(* A request of group g finds no available backend: degraded at once. *)
ArriveDegraded(r, kind, key, g) ==
    /\ GroupDrawn(g)
    /\ Candidates(g) = {}
    /\ ServeFallback(r, [req[r] EXCEPT !.kind = kind, !.key = key], counted)
    /\ pool' = PolledGroup(g)
    /\ UNCHANGED <<cursor, weight>>

(* Hashing the prompt of a request of group g fails while it is routed. *)
ArriveUnhashable(r, kind, key, g) ==
    /\ GroupDrawn(g)
    /\ Strategy = "prefix_hash"
    /\ key \in Unhashable
    /\ Candidates(g) # {}
    /\ ServerError(r, [req[r] EXCEPT !.kind = kind, !.key = key], counted)
    /\ pool' = PolledGroup(g)
    /\ UNCHANGED <<cursor, weight>>

(* A request of group g is routed to b.  With a free slot it is forwarded  *)
(* in the same step; otherwise it queues.                                  *)
ArriveRouted(r, kind, key, g, b) ==
    /\ GroupDrawn(g)
    /\ Selects(g, key, b)
    /\ LET x == PolledGroup(g)[b]
           waits == Locked(x.sem)
       IN  /\ pool' = [PolledGroup(g) EXCEPT ![b] =
                         IF waits THEN Joined(x, r) ELSE Forwarded(Taken(x), kind)]
           /\ req' = [req EXCEPT ![r] =
                        RoutedTo(@, kind, key, b,
                                 IF waits THEN "queued" ELSE PhaseOf(kind))]
    /\ cursor' = NextCursor(g)
    /\ UNCHANGED <<cache, weight, counted>>

Arrive(r) ==
    /\ req[r].phase = "idle"
    /\ \E kind \in Kinds, key \in Keys, g \in Groups :
          \/ ArriveDegraded(r, kind, key, g)
          \/ ArriveUnhashable(r, kind, key, g)
          \/ \E b \in Backends : ArriveRouted(r, kind, key, g, b)

(* The event loop resumes a queued request that was granted a slot.        *)
(* Neither the health nor the breaker of the backend is read again.        *)
Resume(r) ==
    LET b == req[r].target
        x == pool[b]
    IN  /\ req[r].phase = "queued"
        /\ r \in x.sem.granted
        /\ pool' = [pool EXCEPT ![b] =
                      Forwarded(Left(x, ResumeGranted(x.sem, r)), req[r].kind)]
        /\ req' = [req EXCEPT ![r].phase = PhaseOf(req[r].kind)]
        /\ UNCHANGED <<cursor, cache, weight, counted>>

(* queue_wait_timeout_s has passed: HTTP 429.  The timeout may hit after a *)
(* slot was granted but before the request ran again.                      *)
Rejected(r, sem) ==
    /\ pool' = [pool EXCEPT ![req[r].target] = Left(@, sem)]
    /\ req' = [req EXCEPT ![r] = Answered(@, "rejected")]
    /\ counted' = Counting(counted, "rejected_admission")
    /\ UNCHANGED <<cursor, cache, weight>>

QueueTimeout(r) ==
    /\ req[r].phase = "queued"
    /\ LET sem == pool[req[r].target].sem
       IN  \/ \E i \in DOMAIN sem.pending :
                 sem.pending[i] = r /\ Rejected(r, CancelPending(sem, i))
           \/ r \in sem.granted /\ Rejected(r, CancelGranted(sem, r))

(* HTTP 200 with a body the handler can read.  Only a non-empty text is    *)
(* worth caching, under the hash of its prompt.                            *)
UpstreamOk(r) ==
    LET b == req[r].target
    IN  /\ req[r].phase = "forwarded"
        /\ \E outcome \in Outcomes \cap {"text", "empty"} :
              /\ outcome = "text" => req[r].key \notin Unhashable
              /\ cache' = IF outcome = "text" THEN CachePut(req[r].key) ELSE cache
        /\ pool' = [pool EXCEPT ![b] = Finished(Succeeded(@))]
        /\ req' = [req EXCEPT ![r] = Answered(@, "ok")]
        /\ counted' = Counting(counted, "ok")
        /\ UNCHANGED <<cursor, weight>>

(* Variant: only the degraded answer is counted. *)
UpstreamFailedUncounted(r, x) ==
    /\ pool' = [pool EXCEPT ![req[r].target] = Finished(Failed(x))]
    /\ ServeFallback(r, req[r], counted)
    /\ UNCHANGED <<cursor, weight>>

(* The `except` clause: the error is counted, then the degraded answer is  *)
(* served, then the slot is released.                                      *)
UpstreamFailed(r, x) ==
    /\ pool' = [pool EXCEPT ![req[r].target] = Finished(Failed(x))]
    /\ ServeFallback(r, req[r], Counting(counted, "error"))
    /\ UNCHANGED <<cursor, weight>>

(* Connection error, httpx timeout, or a status other than 200. *)
UpstreamError(r) ==
    /\ req[r].phase = "forwarded"
    /\ "error" \in Outcomes
    /\ UpstreamFailed(r, pool[req[r].target])

(* HTTP 200 with a body that is no JSON object of the expected shape, or a *)
(* text for a prompt that has no hash: the breaker has recorded a success  *)
(* when reading the body, or hashing the prompt, raises.                   *)
UpstreamMalformed(r) ==
    /\ req[r].phase = "forwarded"
    /\ "malformed" \in Outcomes \/ (req[r].key \in Unhashable /\ "text" \in Outcomes)
    /\ UpstreamFailed(r, Succeeded(pool[req[r].target]))

(* The response generator ends: the backend's stream is exhausted, the     *)
(* backend fails, or the client goes away and the generator is cancelled   *)
(* (no outcome is recorded).  Each path runs its finally clause.           *)
StreamEnded(r, x, reply) ==
    /\ pool' = [pool EXCEPT ![req[r].target] = Finished(x)]
    /\ req' = [req EXCEPT ![r] = Answered(@, reply)]
    /\ UNCHANGED <<cursor, cache, weight>>

StreamOk(r) ==
    /\ req[r].phase = "streaming"
    /\ StreamEnded(r, Succeeded(pool[req[r].target]), "stream_ok")
    /\ counted' = Counting(counted, "ok")

StreamError(r) ==
    /\ req[r].phase = "streaming"
    /\ StreamEnded(r, Failed(pool[req[r].target]), "stream_error")
    /\ counted' = Counting(counted, "error")

(* Variant: a cancelled generator skips its finally clause. *)
StreamCancelledLeaking(r) ==
    /\ req[r].phase = "streaming"
    /\ req' = [req EXCEPT ![r] = Answered(@, "stream_cancelled")]
    /\ UNCHANGED <<pool, cursor, cache, weight, counted>>

StreamCancelled(r) ==
    /\ req[r].phase = "streaming"
    /\ StreamEnded(r, pool[req[r].target], "stream_cancelled")
    /\ UNCHANGED counted

(* The client is gone before the generator's first step: it never runs,    *)
(* and neither does its finally clause.                                    *)
StreamUnread(r) ==
    /\ req[r].phase = "streaming"
    /\ req' = [req EXCEPT ![r] = Answered(@, "stream_unread")]
    /\ UNCHANGED <<pool, cursor, cache, weight, counted>>

-----------------------------------------------------------------------------
(* Health checks, operators and time. *)

(* _check_one: a probe of b comes back. *)
HealthCheck(b) ==
    /\ \E ok \in HealthResults : pool' = [pool EXCEPT ![b].healthy = ok]
    /\ UNCHANGED <<cursor, req, cache, weight, counted>>

(* open_seconds pass for an open breaker. *)
BreakerCools(b) ==
    /\ pool[b].breaker.state = "open"
    /\ ~pool[b].breaker.cooled
    /\ pool' = [pool EXCEPT ![b].breaker = Cooled(@)]
    /\ UNCHANGED <<cursor, req, cache, weight, counted>>

(* /status and /metrics: snapshot() reads the breaker state of every       *)
(* backend, healthy or not.                                                *)
Snapshot ==
    /\ pool' = [b \in Backends |-> [pool[b] EXCEPT !.breaker = Polled(@)]]
    /\ UNCHANGED <<cursor, req, cache, weight, counted>>

(* /readyz: any() stops at the first available backend, so that only the   *)
(* healthy backends up to that one are read.                               *)
Readyz ==
    /\ pool' = [b \in Backends |->
                  IF pool[b].healthy /\ \A c \in Backends : c < b => ~Available(pool[c])
                  THEN [pool[b] EXCEPT !.breaker = Polled(@)]
                  ELSE pool[b]]
    /\ UNCHANGED <<cursor, req, cache, weight, counted>>

(* Variant: only negative weights are corrected. *)
ClampBelow(pct) == IF pct < 0 THEN 0 ELSE pct

Clamp(pct) == IF pct < 0 THEN 0 ELSE IF pct > 100 THEN 100 ELSE pct

(* A body without a weight asks for the one there is. *)
SetCanaryWeight ==
    /\ \E pct \in WeightInputs \cup {weight} : weight' = Clamp(pct)
    /\ UNCHANGED <<pool, cursor, req, cache, counted>>

Next ==
    \/ \E r \in Requests :
          \/ Arrive(r) \/ Resume(r) \/ QueueTimeout(r)
          \/ UpstreamOk(r) \/ UpstreamError(r) \/ UpstreamMalformed(r)
          \/ StreamOk(r) \/ StreamError(r) \/ StreamCancelled(r) \/ StreamUnread(r)
    \/ \E b \in Backends : HealthCheck(b) \/ BreakerCools(b)
    \/ Snapshot \/ Readyz \/ SetCanaryWeight

Spec == Init /\ [][Next]_vars
-----------------------------------------------------------------------------
(* Who holds what. *)

InPhase(b, phase) == {r \in Requests : req[r].target = b /\ req[r].phase = phase}

Replied(replies) == {r \in Requests : req[r].reply \in replies}

(* Streams of b whose generator ran its finally clause: each has given its *)
(* slot back a second time.                                                *)
TwiceReleased(b) == {r \in Replied(StreamEnds) : req[r].target = b}

(* Every slot of a backend is free, granted to a waiter, or held by one    *)
(* plain request, and the only slots created out of nothing are those a    *)
(* stream releases a second time (backend_pool.py:121-135, app.py:212-214, *)
(* 239-241): no path through timeouts, errors and races leaks one.         *)
SlotAccounting ==
    \A b \in Backends :
        Permits(pool[b].sem) + Cardinality(InPhase(b, "forwarded"))
        = MaxInflight + Cardinality(TwiceReleased(b))

(* The two load figures routing decides by are what they stand for: the    *)
(* waiting requests, and the plain requests in flight less one for every   *)
(* stream that has ended (backend_pool.py:114-119).                        *)
LoadAccounting ==
    \A b \in Backends :
        /\ pool[b].outstanding
           = Cardinality(InPhase(b, "forwarded")) - Cardinality(TwiceReleased(b))
        /\ pool[b].queued = Cardinality(InPhase(b, "queued"))

(* The semaphore's two waiting lists and the handlers agree: a request     *)
(* waits for the backend it was routed to, once, and only while it queues  *)
(* (the finally clauses of acquire() and acquire_slot).                    *)
WaitersMatch == \A b \in Backends : WaitersAre(pool[b].sem, InPhase(b, "queued"))

(* No slot is left free beside a waiting request: when one is free, a      *)
(* waiter that was granted another is about to run and pass it on          *)
(* (acquire_slot under a timeout that may cancel a granted waiter).        *)
NoLostWakeup == \A b \in Backends : NoneForgotten(pool[b].sem)

(* Admission control bounds the requests a backend works on, streams       *)
(* included (config.py:47-48, backend_pool.py:121-124).                    *)
AdmissionBound ==
    \A b \in Backends :
        Cardinality(InPhase(b, "forwarded") \cup InPhase(b, "streaming")) <= MaxInflight

(* The requests that a backend failed. *)
FailedAt(b) ==
    {r \in Replied(Degraded \cup {"unavailable", "server_error", "stream_error"}) :
        req[r].target = b}

(* REQUESTS_TOTAL against what clients and backends saw: answers are       *)
(* counted under their own status, every failed call of a backend under    *)
(* that backend, and "error" counts them all and every 503                 *)
(* (app.py:154, 189, 201-202, 227, 231, 264, 269).                         *)
CountersMatchAnswers ==
    /\ counted["ok"] = Cardinality(Replied({"ok", "stream_ok"}))
    /\ counted["degraded_fallback"] = Cardinality(Replied(Degraded))
    /\ counted["rejected_admission"] = Cardinality(Replied({"rejected"}))
    /\ counted["error"] = Cardinality(Replied({"unavailable"}))
                          + Cardinality(UNION {FailedAt(b) : b \in Backends})
    /\ \A b \in Backends : pool[b].total_failures = Cardinality(FailedAt(b))

(* A degraded answer said to come from the cache repeats a text that the   *)
(* router really served before, to another request with the same prompt    *)
(* prefix (app.py:186-188, fallback.py:48-62).                             *)
CachedAnswersAreReal ==
    \A r \in Replied({"degraded_cache"}) :
        \E s \in Replied({"ok"}) : s # r /\ req[s].key = req[r].key

Idle(b) == pool[b].outstanding = 0 /\ pool[b].queued = 0

(* Least-outstanding routing never puts a plain request in the queue of a  *)
(* busy backend while another available backend of its group is idle       *)
(* (routing.py:28-31).                                                     *)
NoQueueBesideIdle ==
    [][\A r \in Requests :
          req[r].phase = "idle" /\ req'[r].phase = "queued" =>
              \A c \in Candidates(GroupOf[req'[r].target]) : ~Idle(c)]_vars

(* Prefix hashing is to send nobody to a full backend beside an idle one   *)
(* (routing.py:41-54).  It sees a backend as full by its load figure, so   *)
(* what it keeps, whatever streams have done to that figure, is this: who  *)
(* queues at a backend beside an idle one queues behind a waiter that was  *)
(* granted a slot of it and has not run (backend_pool.py:110-119).         *)
QueuesBehindGrant ==
    [][\A r \in Requests :
          req[r].phase = "idle" /\ req'[r].phase = "queued" =>
              \/ pool[req'[r].target].sem.granted # {}
              \/ \A c \in Candidates(GroupOf[req'[r].target]) : ~Idle(c)]_vars

Routed(b) == {r \in Requests : req[r].target = b}

(* Round robin spreads requests: as long as every backend is healthy and   *)
(* none has failed often enough to open its breaker, the numbers of        *)
(* requests routed to two backends of a group differ by at most one,       *)
(* waiting and rejected ones included (routing.py:21-25,                   *)
(* backend_pool.py:156-159).                                               *)
RoundRobinEven ==
    (\A b \in Backends : HealthResults \subseteq {TRUE}
                          /\ pool[b].total_failures < FailureThreshold)
        => \A b, c \in Backends :
              GroupOf[b] = GroupOf[c]
                  => Cardinality(Routed(b)) <= Cardinality(Routed(c)) + 1

(* Each backend's breaker follows the diagram of its docstring             *)
(* (backend_pool.py:28-34), an outcome being that of one request.          *)
DiagramState(b) == pool[b].breaker.state

DiagramRun(b) ==
    CASE pool[b].breaker.state = "closed"    -> pool[b].breaker.failures
      [] pool[b].breaker.state = "half_open" -> pool[b].breaker.successes
      [] OTHER                               -> 0

First ==
    INSTANCE BreakerDiagram WITH
        state <- DiagramState(1), run <- DiagramRun(1), failed <- pool[1].total_failures

BreakerFollowsDiagram == First!Spec

-----------------------------------------------------------------------------
(* Fairness.  The event loop runs a granted coroutine; a backend answers,  *)
(* fails or runs into the httpx timeout; a stream ends one way or another; *)
(* Prometheus scrapes /metrics; clocks advance.  Requests need not arrive, *)
(* probes need not come back, and queue timeouts are not needed.           *)
Answer(r) == UpstreamOk(r) \/ UpstreamError(r) \/ UpstreamMalformed(r)

StreamEnd(r) ==
    StreamOk(r) \/ StreamError(r) \/ StreamCancelled(r) \/ StreamUnread(r)

Fairness ==
    /\ \A r \in Requests : WF_vars(Resume(r)) /\ WF_vars(Answer(r)) /\ WF_vars(StreamEnd(r))
    /\ \A b \in Backends : WF_vars(BreakerCools(b))
    /\ WF_vars(Snapshot)

FairSpec == Spec /\ Fairness

(* Every request that arrives is answered, even if no queue timeout ever   *)
(* fires: the waiting line of every backend moves (app.py:132-214).        *)
EveryRequestAnswered ==
    \A r \in Requests : req[r].phase # "idle" ~> req[r].phase = "done"

(* A backend that was shut off by its breaker is tried again               *)
(* (backend_pool.py:45-50): late failures cannot keep it open for ever.    *)
BreakerRecovers ==
    \A b \in Backends :
        pool[b].breaker.state = "open" ~> pool[b].breaker.state # "open"

=============================================================================
