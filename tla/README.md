# Verification of the OneRec serving platform

TLA+ models of the serving platform in `src/`, the TLC configurations that check them, and
TLAPS proofs about them. Line numbers refer to the sources; short names such as `app.py:212`
stand for files of `src/platform/router/` unless a directory is given.

## 1. Inventory

The platform serves a recommendation model on several engine replicas (vLLM, SGLang,
TensorRT-LLM). Most of its code of its own is Python; the engines, Redis, Kubernetes and
Prometheus are other people's programs and appear here as environment.

| Component | State | Operations | Talks to |
|---|---|---|---|
| Router handlers (`app.py`) | one coroutine per request, one per streamed answer | `completions`/`chat_completions`, `_stream_and_record`, `_serve_fallback`, `/readyz`, `/status`, `/metrics`, `/admin/canary_weight` | pool, fallback cache, counters; engines by HTTP |
| Backend pool (`backend_pool.py`) | per backend: health, breaker, semaphore, `outstanding`, `queued`, totals; the round-robin cursor | `acquire_slot`, `release_slot`, `_check_one`, `snapshot` | engines' `/health` |
| Circuit breaker (`backend_pool.py`) | state, runs of failures and successes, time of opening | `state`, `allow_request`, `record_success`, `record_failure` | handlers, and every reader of `available` |
| Routing (`routing.py`) | none of its own (the cursor) | three strategies, `select_group` | pool |
| Fallback cache (`fallback.py`) | ordered map of served texts | `put`, `get`, `heuristic` | handlers |
| Metrics, logging, tracing, configuration | counters, gauges, settings | increments, parsing | Prometheus, OpenTelemetry |
| Model registry CLI (`platform/registry`) | `ledger.json`: versions, `active`, `history` | `register`, `promote`, `rollback`, readers | the file, `kubectl` |
| Client SDK (`platform/client_sdk`) | a breaker per client | `complete` with its retry loop | router by HTTP |
| Feature store (`platform/feature_store`) | histories, user set, seeded flag (memory or Redis) | `get_user_history`, `record_event`, `list_user_ids`, `_ensure_seeded` | Redis |
| Matrix orchestrator (`bench/run_matrix.py`, `scripts/*.sh`) | containers and ports, result files, run summary | start, smoke test, benchmarks, stop per run | docker |
| Benchmark client (`bench/benchmark_client.py`) | tasks in flight, measurements | closed-loop, open-loop and trace sweeps | engines or router |
| Capacity planner, report (`bench/capacity_planner.py`, `generate_report.py`) | none | choice of a level, sizing, tables | result files |
| Prompt data, slides | none | formatting | files |
| Kubernetes and observability manifests | none | declarative | — |

What is hard, and what makes each part correct:

- **Router.** One event loop, so the code between two suspensions is atomic; everything
  interesting happens in how those pieces interleave. A handler suspends while it waits for a
  slot and while the backend answers, and the generator of a streamed answer outlives its
  handler. A queue timeout races with a grant. Reading `available`, `snapshot()` or `/readyz`
  *moves* a breaker. Correct means: no slot is leaked or invented, no waiter is forgotten, the
  load figures routing reads are true, limits hold, breakers follow their docstring, counters
  agree with what clients saw, a degraded answer comes from a real one.
- **Registry.** One process per command, no lock, a truncating write, `kubectl` after the
  save. Correct means: the ledger is coherent, complete, never behind the cluster, and a
  rollback undoes a promotion.
- **Client SDK.** Concurrent calls share a breaker that is read once per call; timeouts are
  retried while the first attempt may still run. Correct means: bounded attempts, no retry
  sooner than asked, a fallback only with a reason, a breaker that reflects outcomes.
- **Feature store.** Read-modify-write over awaits, several replicas over one Redis, lazy
  seeding, restarts in the middle of it. Correct means: a recorded event is lost only to a
  request that overlapped it, histories stay newest first, seeding is complete once it says so.
- **Orchestrator and load generators.** Failures and timeouts at each stage, tear-down in a
  `finally`. Correct means: each run is measured on its own server, a status says what there
  is, every request submitted is accounted for, a plan rests on reliable levels and suffices.

The `hazards` of `PROJECT.json` name each of these at its line, with the properties that
cover it or the reason why none does.

## 2. Modules

| Module | Models | Uses |
|---|---|---|
| `CircuitBreaker` | the breaker of the router and, copied there, of the SDK, as operators from record to record | |
| `BreakerDiagram` | the abstract breaker of the docstring (`backend_pool.py:28-34`) | |
| `AsyncSemaphore` | `asyncio.Semaphore` under `asyncio.wait_for` (external) | |
| `Router` | one router process: handlers, pool, routing, cache, counters, operators | `CircuitBreaker`, `AsyncSemaphore`; refines `BreakerDiagram` |
| `Client` | `complete()` of the SDK, concurrent calls of one client | `CircuitBreaker`; refines `BreakerDiagram` |
| `AuditedLedger` | the abstract ledger of the registry's docstring | |
| `Registry` | the command line tool: concurrent invocations, the file, kubectl, crashes | refines `AuditedLedger` |
| `FeatureStore` | both adapters behind the HTTP service, replicas over one Redis | |
| `RunMatrix` | the orchestrator and the scripts it runs, containers and ports | |
| `CapacityPlan` | the planner's sizing: the sets of results that floating-point rounding can have | |
| `LoadLoops` | the sweeps of the benchmark client, its figures, the level the planner takes | `CapacityPlan` |

`MCRouter`, `MCClient`, `MCRegistry`, `MCFeatureStore`, `MCRunMatrix` and `MCLoadLoops` are the
instances for TLC; `AsyncSemaphoreProofs`, `CircuitBreakerProofs`, `RouterProofs`,
`ClientProofs`, `RegistryProofs`, `FeatureStoreProofs`, `RunMatrixProofs` and
`LoadLoopsProofs` hold the proofs. Definitions marked "Variant" in the comments are
what the code is not: `PROJECT.json` names for each property a variant that breaks it.

### Router: state and actions

`pool[b]` is the record of `Backend` b; `req[r]` is the handler of request r and, for a
stream, its response generator; `cursor`, `cache`, `weight`, `counted` are the round-robin
cursor, the keys of the fallback cache in order of use, the canary weight and
`REQUESTS_TOTAL`. An action is the code from one suspension to the next:

| Action | Code |
|---|---|
| `Arrive` | a request is received, the group drawn, a backend selected; it is degraded, queued or forwarded at once, or fails because its prompt cannot be hashed (`app.py:122-184`) |
| `Resume` | a queued handler runs again with a slot granted |
| `QueueTimeout` | `wait_for` expires, before or after a grant: HTTP 429 |
| `UpstreamOk`, `UpstreamError`, `UpstreamMalformed` | `post()` returns or raises; success, `except` clause and `finally` clause run as one step |
| `StreamOk`, `StreamError`, `StreamCancelled`, `StreamUnread` | the response generator ends, or never starts |
| `HealthCheck`, `BreakerCools` | a probe comes back; the open period of a breaker passes |
| `Snapshot`, `Readyz`, `SetCanaryWeight` | the other endpoints, with the breaker moves that reading causes |

A streamed request runs `Started` and `Finished` in the same step as it takes its slot: the
handler returns its `StreamingResponse` through the `finally` clause (`app.py:178`, `212-214`)
before the backend is called. The generator runs the same clause again (`239-241`). The model
does what the code does, and `SlotAccounting` and `LoadAccounting` state exactly how far off
the figures are then.

A prompt may be a list (of strings or token ids), which the completions API allows and
`prefix_hash_key` cannot hash: the keys in `Unhashable` stand for such prompts. Under prefix
hashing the handler then fails while it routes (`ArriveUnhashable`); otherwise a good answer
ends in the `except` clause (`app.py:188`), and with the fallback on `_serve_fallback` raises in
its turn (267): `ServerError`, HTTP 500. The canary weight starts as it is configured, within
bounds or not (`config.py:126`), and is clamped only when an operator sets it (`app.py:101-107`).

What is abstracted: the texts (a prompt is its prefix hash, an answer is a non-empty text, an
empty text, an unreadable body or an error); time (one bit per breaker, and timeouts that may
fire at any moment); random draws (any outcome the draw can have); `load_score` (in
tenths, so that the weight 0.1 of `queued` is exact). The images run Python
3.12, in which `acquire()` under `wait_for` does not suspend when a slot is free.

### Registry: state and actions

`file` is the contents of `ledger.json` (a ledger, empty after a truncation, or garbled by
two overlapping writes), `cli[o]` the running invocation of operator o, `cluster` the image of
each deployment. A command is `Cmd…` (read the file and compute the new ledger, or be refused),
`Truncate`, `Write` (the two halves of `write_text`), `ApplyK8s` (which may fail), with `Crash`
possible between any two. A version stands for its id, image and configuration; time stamps
are left out, and a refused command changes nothing and is no action. `MaxHistory` is a bound
of the model on the length of a history.

### Client: state and actions

`call[c]` is the coroutine of one `complete()`: posting, sleeping or done, its attempts, what is
left of its sleep, how it returned. `breaker` is the client's breaker, and `work[c]` counts
the requests of a call that the router still works on, which is where a timed-out attempt goes
on living. `failed`, `late` (attempts that fell into an open period) and `asked` (what is left
of a `Retry-After`) record what the properties are about.

| Action | Code (`platform/client_sdk/onerec_client.py`) |
|---|---|
| `Start` | the breaker is asked, once, and the first attempt sent or the fallback returned (133-144) |
| `Answered`, `Rejected`, `Failure`, `TimedOut`, `Refused` | HTTP 200, 429, a refused connection or 5xx, a timeout, another 4xx (141-171) |
| `Raises` | anything the `try` clause does not catch |
| `Wake`, `Tick` | a sleep drawn by `delay_for_attempt` (92-100) is over; time passes |
| `RouterFinishes`, `BreakerCools` | the router ends a request its client gave up; the open period passes |

The router is the environment here: which answer comes is not determined, degraded answers
are HTTP 200.

### FeatureStore: state and actions

A handler on the in-memory adapter does not suspend and is one action, `Serve`. On Redis every
command is awaited: `Begin`, then `CheckSeeded`, `SeedHistory`, `SeedUser`, `SeedFlag`
(`_ensure_seeded`, `adapter.py:125-137`), then the commands of the operation, `GetHistory`,
`CreateHistory`, `CreateUser` or `ReadHistory`, `WriteHistory` or `ListUsers`. `known[p]` is the
flag each process keeps of the seeding, `req[r]` what the handler carries from one command
to the next, in particular the history it has read. `CommandFails` is a command that raises: the
handler ends in HTTP 500, what it had done stays, and its replica goes on. `Restart` kills a
replica with all its handlers. An event is the request that recorded it, and the fixed events of a
synthetic history
are one item.

### RunMatrix: state and actions

`pc` walks through the steps of the current run: `ServeRefused` (the serve script dies on a wrong
number of GPUs, before it touches a container), `ServeClean`, `ServeRun`, `ServeWait` (the rest of
it), `Smoke`, `Latency`, `Throughput`, `Stop`, with `Raises` for the `except` clause and
`StopTimeout` for the exception that leaves the `finally` clause. `container[n]` is what docker has
under the name of run n; engines of one kind share a port, so whoever `Answering` says is
tested and measured. A `docker run` that outlives its killed script is "ordered" and starts
its container later (`LateStart`); containers may crash, restart or be left over from an
earlier matrix. `results` is the set of result files with the server that was really measured.
`strays` is an observation: containers that may be there although their run is over.

### LoadLoops: state and actions

A sweep is in a `level`, and in it in a warm-up or measured window; `task` is the list of
requests of the sweep (the times of earlier windows are forgotten when a window opens), `inflight`,
`peak` and `backlog` are the counters of the window, `figures` what is reported. `Submit`,
`StartTask` and `Answer` are the requests, the last one with the next request of the same worker in
a closed loop; `PromptRaises` is a prompt that cannot be built, outside the `try` clause: an open
loop never counts that request out again, a worker of a throughput sweep ends unnoticed, a latency
sweep ends altogether. `WindowOver`, `Drained`, `WarmedUp`, `Collect`,
`NextLevel`, `WriteResults` the course of the sweep, with the exceptions of the code as the step
"crashed". `Plan` takes a level as `pick_best_config` does and sizes the fleet by the operators of
`CapacityPlan`; a fleet of no GPUs has no price per token (a division by zero) and so no plan. Time
is not counted: a window may end at any moment. Rates are chosen freely, since a rate is a
measurement.

The planner divides doubles and rounds up what comes out, so that a quotient next to an integer may
be rounded to the one above: `98 / (7 * 0.7)` is 20.000000000000004. `Rounded` is therefore a set, of
every integer that `math.ceil` may give for a quotient that is off by less than one part in
`Precision`; `Plan` takes any of them. This is more than a given machine does, never less.

## 3. What the runs check

| Run | Instance | Shows |
|---|---|---|
| `router_plain` | 4 plain requests, 2 stable replicas of one slot, least-outstanding, threshold 2, probes 2, 2 prefix keys, cache of 1 | the limit holds, nobody queues beside an idle replica, counters agree with answers, degraded answers repeat real ones, the breaker implements `BreakerDiagram` |
| `router_stream` | 3 plain or streamed requests, 2 stable replicas and a canary, prefix hash, prompts that are strings and lists, weights 0 and 120 configured and 0, 50 and 110 set, every outcome, fallback off, thresholds 1 | the type invariant; slots and load figures are exact up to ended streams; no lost wake-up; who queues beside an idle backend does so behind a granted waiter |
| `router_live` | 3 requests, with string and list prompts, 2 replicas, round robin, fallback on | every request is answered even if no queue timeout fires; an open breaker is tried again; round robin is even |
| `client` | 2 calls, 3 attempts, delays of up to 2 ticks, `Retry-After` 1 or 3, threshold 2, probes 2, exceptions | what a call costs the router, why it falls back, the pause after a 429; the breaker implements `BreakerDiagram`; every call returns |
| `registry_one_operator` | 2 versions, one with a deployment, histories of 3 | the ledger is coherent, at most one version is `active`, the cluster runs recorded versions only, and the tool implements `AuditedLedger` |
| `feature_store` | 3 requests, 2 replicas, 2 seed users and a new one, both adapters | which events may be lost and which not, order of histories, seeding complete under restarts, who is missing from the list of users, with restarts and failing commands at any point |
| `run_matrix` | 3 runs, two of one engine where one name begins the other, every `--only` | the summary is complete and true; only a left-over container can stand in for a run's own |
| `load_loops` | the four kinds of sweep, levels of 1 and 2, 1 warm-up and 2 measured requests, times 1 and 3 | figures add up, windows and levels do not mix, percentiles are in order, when results are lost, the plan suffices |
| `router_stream_bound` | streams only | *violated*: a replica limited to one request serves two streams |
| `router_malformed` | unreadable 200 answers | *violated*: the breaker stays closed after `threshold` failed requests in a row |
| `registry_two_operators` | 2 operators | *violated*: a registered version is erased by an overlapping command |
| `registry_rollback_again` | histories of 4 | *violated*: a second rollback activates the version the first one removed |

The violated properties each state what a document, a docstring or a comment of the
repository says; `PROJECT.json` quotes the line. They are of some consequence together: a
router that streams does not limit its backends, and every ended stream adds a slot for plain
requests too, which is why `AdmissionBound` is claimed for plain traffic only.

`NoQueueBesideIdle` is about least-outstanding routing only, and plain requests. Of prefix hashing
the docstring says as much (`routing.py:41-45`), but the code keeps less, and `QueuesBehindGrant`
states what it keeps: a request may queue beside an idle backend, but only behind a waiter to whom
a slot of its own backend was granted and who has not run, which no load figure shows.
`CountersMatchAnswers` is run on plain requests; the theorem `AnswersAreCounted` has it for streams and
malformed answers too.

Some properties say less than a user might wish, on purpose. `EventKept` excuses the loss of an
event to a request that *overlapped* it, because a read-modify-write over awaits does lose it
then; it claims that nothing else does, neither a seeding cut short nor a replica that starts
later. `ListMissesOnlyRecorded` lets users who came by `record_event` alone be missing.
`RouterLoadBounded` lets retries, though no first attempt, fall into an open period.
`OneServerAtATime` and `MeasuredOnOwnServer` except the strays, each of which has a cause that the
model names. `SummaryComplete` says what an aborted matrix lacks, `LostOnlyIfNothingServed` which
crash of a sweep loses its results.

### Bounds

- *Router.* One slot per replica is where queueing and races occur already with two or three
  requests. Four requests let one be in flight, one be granted and not yet resumed, one wait
  and one arrive at the same replica, the largest configuration in which the semaphore's rules
  differ; longer lines are covered by the proofs. A threshold of 2 distinguishes a run of
  failures from a sum; a cache of 1 with 2 keys evicts. With threshold 1 in `router_stream` three
  requests see a breaker open, half open and closed again; with two stable replicas one may be full
  and the other idle.
- *Client.* Two calls with three attempts each open a breaker of threshold 2, half-open it and
  reopen it while the other call sleeps or posts. A pause of 3 is above the cap of the backoff
  (2) and one of 1 below it. The proofs cover any number of calls.
- *Registry.* Three entries of history contain a promotion, a second one and a rollback; a
  command touches the version it names and the one active before, hence two versions.
- *Feature store.* Three requests are one that writes a stale copy, one that is overwritten
  and one that ended before; two replicas seed at the same time; two seed users make a seeding
  that can be cut in the middle, and a user beyond them is created or recorded.
- *Matrix.* A run with the port and the name prefix of the next one, and one of another engine;
  three runs put a stray's run two rounds back.
- *Load loops.* Two levels, since what bleeds over does so into the next one. `MaxSubmitted`
  bounds the requests of an open-loop window to 2 and of the others to 4. Two times, or a
  failure, make up to three different percentiles; 70 % utilization, 60 % reserved, a peak
  ratio of 2.5 and a tp of 2 make each ceiling of the planner bite, with a demand on a multiple of a
  replica's capacity (98 tokens per second, where rounding may add a replica), one beside it and none.
  A `Precision` of 1000 instead of the 2^50 or so of a few roundings of doubles makes the sets
  `Rounded` larger; the theorems hold for any.

Requests, and replicas of the feature store, are symmetric (no definition tells one from
another); symmetry is used in safety runs only, never under fairness. Deadlock is checked in
every router run: `/status` is always possible. Elsewhere the system really ends: the calls
have returned, the requests are served, the program is over, the ledger is unreadable.

### Fairness

`router_live`: the event loop resumes a granted coroutine (`Resume`). `httpx` has a timeout, so a
call of a backend ends, with an answer the environment chooses. A stream ends when either side
closes it. Clocks advance (`BreakerCools`) and Prometheus scrapes `/metrics` (`Snapshot`), which
moves an open breaker when no request arrives. Nothing is assumed of arrivals, probes,
operators or queue timeouts.

`client`: every `post()` has a timeout and so ends in some way, a sleeper whose time is over is
run (`Wake`), and time passes (`Tick`). Nothing is assumed of new calls, of the router
finishing what its client gave up, or of the breaker's open period.

`RoundRobinEven` is stated for healthy replicas whose breakers cannot have opened; when the
candidates change from one call to the next, the cursor is reduced modulo another number and
nothing of the kind is true.

## 4. What is proved

Every theorem holds for all values of the constants within the module's named assumption; the
figures of section 3 are bounds of the runs only.

**Router, slots** (`AsyncSemaphoreProofs`, `RouterProofs`): `TypeCorrect`, `SlotsAccounted`,
`LoadAccounted`, `WaitersMatched`, `NoWakeupLost`, and `PlainAdmissionBounded` (`AdmissionBound`,
assuming only plain requests arrive). The inductive invariant is
`IInv == TypeOK /\ Lifecycle /\ SlotInv`. `SlotInv` joins `SlotAccounting`, `LoadAccounting`,
`WaitersMatch` and `NoLostWakeup` for every backend: none is inductive alone, for a release
passes a slot to a waiter, and only `WaitersMatch` says that this waiter is a queued request of
that backend and is counted once; `NoLostWakeup` in turn needs to know which waiters are granted.
`Lifecycle` ties the phase of a request to its reply and its target: a request that is not done
has no reply, so that a stream that ends was not counted among the ended ones before. The
argument has three layers: lemmas about the semaphore's operations, lemmas that each piece of a
handler keeps the slots of one backend right while a request moves from one set to another, and
one lemma per action.

**Router, histories** (`RouterProofs`): `AnswersAreCounted` (`CountersMatchAnswers`), `CacheIsHonest`
(`CachedAnswersAreReal`), `BreakerIsDrawn` (`BreakerFollowsDiagram`), `NobodyQueuesBesideIdle`
(`NoQueueBesideIdle`), `OnlyGrantsHideLoad` (`QueuesBehindGrant`) and `RoundRobinIsEven`
(`RoundRobinEven`). The first three, and the breakers of
the last, rest on one lemma, `StepHistory`: whatever its action, a step either leaves requests, cache
and counters alone or moves one request by one `Effect`, an entry of the finite list of what a piece of
a handler counts, caches and answers; and each breaker does at most one thing to its diagram
(`HistoryMoves`). What remains is about `Effect` alone.

- `CountInv` adds to the counters that an idle request has no target, without which an arrival
  could be counted at a backend before it is routed.
- `CacheInv` adds that every key in the cache, not only one that was served from it, has been
  answered with a text.
- The diagram is followed when no answer is malformed and every prompt can be hashed; with a
  malformed answer it is not, and `router_malformed` shows how (an answer whose prompt cannot be
  hashed takes the same path). `CircuitBreakerProofs` has the lemma for each operation of the
  breaker. The theorem is stated for backend 1, as the property is; no definition tells backends apart.
- `OnlyGrantsHideLoad` (any strategy but round robin, any mix of requests) rests on `SlotInv` and on
  `LockedIsFull`: if the semaphore of a backend is locked and no waiter of it has been granted a slot,
  `outstanding` is at the limit. This holds for streams too, since what they give back twice they give
  back to slot and load figure alike.
- Nobody queues beside an idle backend with `Strategy = "least_outstanding"` and plain requests. Both
  assumptions are needed: round robin and prefix hashing do not look at loads first, and an ended
  stream leaves a load figure below the truth.
- Evenness needs `Calm` (a breaker's run of failures is part of the backend's failures, so that it is
  closed below the threshold) and, while no breaker can have opened, the cursor: every group
  has had some number of whole rounds, and its members ranked before the cursor one request more.

**Client** (`CircuitBreakerProofs`, `ClientProofs`): `TypesKept`, `LoadIsBounded`,
`FallbacksAreEarned`, `PausesAreHonoured`, and `BreakerIsDrawn`: the shared breaker implements
`BreakerDiagram`. `CallOk` is inductive for each call by itself: a posting call has a request at the
router, a request at the router belongs to an attempt, the attempts in an open period are
fewer than the attempts (the first was let through), the rest of a pause is at most the rest
of the sleep. `BreakerOk` relates the breaker to history: its run of failures is at most the
failures there were, and it is not closed only if they reached the threshold. The refinement maps
each action to a step of the diagram or a stutter; the fact about each operation of the breaker
is a lemma of `CircuitBreakerProofs`, shared with the router.

**Feature store** (`FeatureStoreProofs`): `TypesKept`, `StoreIsCoherent`, `HistoriesAreNewestFirst`,
`RecordedEventsAreKept`, `OnlyRecordedAreMissing` (`ListMissesOnlyRecorded`). Five invariants build on
each other. `Shape` is the type invariant with
what a handler may be at each point. `SeedInv` says how far a seeding under way has come: the
users before its place in the loop are in the set with a history, whatever other requests do,
because nothing is ever removed (`Grows`).
`OrderInv` says of every history, of the stored ones and of the copies handlers have read, that
it is newest first and that its events have begun: the one put in front is of a request that
is not over, and so was in the `before` of none of them. `KeepInv` says what a handler that
began after an event was recorded must not undo: it is not seeding (whoever recorded the event
had seen the flag), and
if it is to write a history of that user, its copy has the event or another request excuses
the loss. `EventKept` alone is not inductive, since the copy read earlier does the damage later.
`ListInv` says of each user with synthetic events, in the store or in a copy that is to be
written back, that it is listed, or that some request still owes the listing or was cut short before
it. Failing commands
and restarts are one case in each of these (`Abort`).

**Registry** (`RegistryProofs`): `RegistryTypes`, `Coherence` (`LedgerCoherent`) and `OneActive`
(`AtMostOneActive`), for any number of overlapping invocations. The invariant says of every ledger
in the system, in the file or in the memory of a process, that it is well formed; a process may
write an old ledger over a newer one, so that a statement about the file alone is not inductive.

What overlapping commands break is proved for one operator, with any number of commands, crashes and
failures of `kubectl`: `ClusterIsRecorded` (`RunningIsRecorded`), `SoleOperatorKeepsVersions`
(`VersionsKept`, which `registry_two_operators` refutes for two) and `SoleOperatorIsAudited`, the
refinement of `AuditedLedger`. `SoleInv` says what the only process knows: what it has read is the
file until it truncates it, the file is empty until it has written, the ledger it is to write
follows from the one it read by exactly one command, and the image it is to apply is recorded. A
crash leaves the old ledger, the new one or none; each is a step of the abstract ledger.

**Matrix** (`RunMatrixProofs`): `TypesKept`, `OneServer`, `OwnServer`, `StatusesAreTrue` and
`SummaryIsComplete`. The first three follow from `PlacesOk`; a measurement is taken from a server that
answers, which is the current run's or a stray. For the statuses `FilesOk` says that files belong to
runs begun, `EntriesOk` that entries belong to runs over, and `RunOk` what files the current run has at
each step; a later run never adds a file to an earlier one, because names are distinct.
`SummaryInv` relates the loop to its entries: they have a status, they name the runs that are
over and they are in the order of the matrix. From the last two follows that no run has two, and from
this the length of the summary.

**Load generator and capacity planner** (`LoadLoopsProofs`): `TypeCorrect`, `RequestsAreAccounted`,
`LevelsAreSeparate`, `InflightIsExact`, `PercentilesAreOrdered`, `LossesAreEmpty` and
`PlanIsSufficient`, for
any modes, levels, quotas, times and rates. The invariant `IInv` has a part for each question.
`TasksPlaced` says where a request may be at each step: one that runs is of the current level, and
in a closed loop of the current window. `OneCreated` says that the event loop runs a new task before
another is submitted, which is why the backlog misses one request at most. `CountsRight` keeps the
in-flight figure equal to the running requests of its own window, while those of the warm-up end
beside it. `FiguresRight` counts levels and figures, `ResultsRight` holds what was reported. Percentiles
are taken of order statistics, which are shown to exist and to be monotone: the k-th least time is
the least one within which k good requests were served.

The sizing is arithmetic, for every result that rounding can have. `FleetIsRight`: the planned GPUs
provide the demand at the utilization target up to one part in `Precision`, and with two replicas less
they do not. (That not even one replica less would do is false of the code, as the example in section
2 shows.) `PeakIsCovered`: reserved and burst GPUs together cover the peak up to one part in
`Precision`. `FleetAssumption` says that no fleet has as many replicas as a double has units of
precision, without which the second half of `FleetIsRight` would not follow. `PlanIsSufficient` puts
these together with the sweep: the level has served requests, because a level without a good one
ends the sweep before the file is written and one with a failure is not taken.

Every invariant, refinement and action property of the passing runs is stated by one of these
theorems. Only model-checked is liveness: `EveryRequestAnswered`, `BreakerRecovers` and
`EveryCallReturns` need fairness and ENABLED, which are outside the prover's reach. The proofs
assume of constants only what is said above and the assumptions the modules name.

## 5. Where documents and code disagree

With a run (and a `finding` that quotes both sides): `router_stream_bound`, `router_malformed`,
`registry_two_operators`, `registry_rollback_again`. Without a run, met while modelling:

- `config.py:49` reads `max_queue_depth_per_backend`, which nothing uses; the queue of a backend has
  no bound but the timeout of each request. `docs/PRODUCTION_ARCHITECTURE.md:128-131` describes a
  bounded queue and an immediate 429. (A second file it names, `admission.py`, does not exist.)
- `routing.py:52` tests `at_capacity`, which does not count a slot granted to a waiter that has not
  resumed, so a hashed request may queue beside an idle replica, against lines 41-43 ("so a request
  never gets stuck routing to a healthy-but-hashed-away backend when others are idle").
  `NoQueueBesideIdle` is violated under `Strategy = "prefix_hash"`; `QueuesBehindGrant` is what is kept.
- `prefix_hash_key` raises for a prompt that is a list (`routing.py:16-18`, called at `app.py:188` and
  `267`): with the fallback on, a request that no backend can take gets HTTP 500, against
  `fallback.py:1-3` ("instead of a hard failure") and 11 ("always available"), and one that a backend
  has answered counts as its failure first.
- `config.py:126` takes `CANARY_WEIGHT_PCT` as it is, while `app.py:101-107` clamps what is set at
  runtime to 0 to 100; a weight above 100 acts as 100 and one below 0 as 0, but `/status` shows it.
- `benchmark_client.py:393-396` builds the prompt after counting the request in and outside the `try`
  clause that counts it out: if that raises, the in-flight figure of the window stays too high.
  `InflightExact` states by how much.
- `onerec_client.py:134` asks the breaker before the first attempt only: retries of calls under way
  go on while it is open, against lines 10-14. `RouterLoadBounded` bounds them.
- `onerec_client.py:144` catches `ConnectError` and `TimeoutException` only; a read error, an unreadable
  body or a `Retry-After` that is a date reaches the caller as an exception, against lines 15-17.
- `run_matrix.py:81` has a timeout that is not caught at line 178, in a `finally` clause outside the
  `try`: it ends the matrix without a summary, against "continuing past failures" (lines 3-5).
- `capacity_planner.py:47` takes any level without failures, also one above a level that failed, which
  `generate_report.py:207-209` says not to trust. `PlanSuffices` claims no more of the level than that
  it has served requests.
- `docs/RUNBOOK.md:211-213` has a serve script time out when a left-over container holds the port; if
  that container serves, the health wait and the smoke test pass and its figures are taken for the
  run's (`Foreign` in `RunMatrix`).

## 6. Not modelled

- Response bodies, prompt texts, the heuristic text of a fallback, log lines and their redaction,
  histograms, tracing, parsing of settings: output or input without state of its own.
- The GPU sampler (its blocking `nvidia-smi` delays the event loop that measures, which is a matter
  of time and not of order), token counts and arrival times of the benchmark client. A stream that
  breaks off after its first token without an error counts as a good request
  (`benchmark_client.py:187-216`); the model has no partial answers.
- Stale result files: `generate_report.py:23-32` reads what is in the directory, also of an earlier
  matrix; `RunMatrix` starts without files.
- Prices and power of the planner, plots, tables and slides: formulas and formatting over what they
  read. Prompt data sets: file input.
- Installation scripts, the SGLang and TensorRT-LLM serve scripts (which have the course of the
  vLLM one), Kubernetes and observability manifests. Engines, Redis, docker and kubectl are
  environment.
- `Client` and `Router` are not composed: a product of the two is beyond the bounds at which the
  cases of either occur. What joins them is in each: the client's environment gives every answer
  the router can give and keeps abandoned work, and the router's requests arrive at any moment.

## 7. What is left

Liveness stays with the runs. Of safety, statements that go beyond the present ones would add most:
the router's limit for a mixture of plain requests and streams (how far ended streams exceed it), and
what a second operator of the registry can lose at most. `PROJECT.json` lists the hazards that no
property covers, with the reason.
