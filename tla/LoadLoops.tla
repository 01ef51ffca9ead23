----------------------------- MODULE LoadLoops -----------------------------
(***************************************************************************)
(* The load generator (bench/benchmark_client.py) and what is read off its *)
(* result file (generate_report.py, capacity_planner.py).                  *)
(*                                                                         *)
(* A sweep goes through levels; a level is a warm-up and a measured window *)
(* (of a trace there is one window only).  A latency sweep sends one       *)
(* request after the other, a throughput sweep keeps `concurrency` workers *)
(* busy until the time is over and waits for them, an open-loop sweep      *)
(* submits requests on a schedule of its own and waits at the end only so  *)
(* long.  Time is not counted: a window may end at any moment, and a       *)
(* request takes one of a few times, or fails.                             *)
(***************************************************************************)
EXTENDS Integers, Sequences, FiniteSets, CapacityPlan

CONSTANTS
    Modes,         \* --mode, with "trace" for --qps-trace-file
    Levels,        \* the concurrency of each level, or just their number
    Quota,         \* requests of a latency sweep: --warmup-requests, --repetitions
    MaxSubmitted,  \* model bound, by mode: requests of a window that time ends
    Times,         \* end-to-end times of requests
    Rates,         \* measured rates, as the planner reads them
    Demands,       \* --target-qps times --avg-output-tokens
    Costs          \* cost_assumptions.yaml, and tp as the run's name has it

ASSUME LoadAssumption ==
    /\ Modes \subseteq {"latency", "throughput", "open_loop", "trace"}
    /\ Levels \in Seq(Nat \ {0}) /\ Levels # <<>>
    /\ Quota \in [warmup: Nat, measure: Nat \ {0}]
    /\ MaxSubmitted \in [Modes -> Nat]
    /\ Times \subseteq Nat \ {0}
    /\ Rates \subseteq Nat \ {0}
    /\ Demands \subseteq Nat
    /\ Costs \in [utilization: 1..100, coverage: Nat, peakTenths: Nat, tp: Nat \ {0}]

(* No fleet has as many replicas as a double has units of precision. *)
ASSUME FleetAssumption ==
    \A required \in Demands, rate \in Rates :
        100 * required <= Precision * rate * Costs.utilization * Costs.tp

VARIABLES
    mode, level, part, step,   \* where the sweep is
    task,       \* the requests of this level, in the order of submission
    inflight,   \* state["inflight"] of the window
    peak,       \* state["max_inflight"]
    backlog,    \* backlog_at_window_end
    figures,    \* the results of the levels that are over
    plan        \* what the planner makes of them

vars == <<mode, level, part, step, task, inflight, peak, backlog, figures, plan>>

where == <<mode, level, part>>
counts == <<inflight, peak, backlog>>
outcome == <<figures, plan>>

(* "created": asyncio has not run the task yet.  "raised": its prompt      *)
(* could not be built.  "cut": its session was closed under it.  A failed  *)
(* request has taken no time.                                              *)
Task == [level: 1..Len(Levels), part: {"warmup", "measure"},
         state: {"created", "running", "done", "cut", "raised"}, time: Times \cup {0}]

Figures == [sent: Nat, ok: Nat, failed: Nat, backlog: Nat, peak: Nat, p50: Nat, p99: Nat]

NoPlan == [level |-> 0, required |-> 0, rate |-> 0, gpus |-> 0, reserved |-> 0, burst |-> 0]

TypeOK ==
    /\ mode \in Modes
    /\ level \in 1..Len(Levels)
    /\ part \in {"warmup", "measure"}
    /\ step \in {"sending", "draining", "sampling", "collected", "written",
                 "planned", "crashed"}
    /\ task \in Seq(Task)
    /\ inflight \in Nat /\ peak \in Nat /\ backlog \in Nat
    /\ figures \in Seq(Figures)
    /\ plan \in [level: Nat, required: Nat, rate: Nat, gpus: Nat, reserved: Nat, burst: Nat]

OpenLoop(m) == m \in {"open_loop", "trace"}

LastLevel(m) == IF m = "trace" THEN 1 ELSE Len(Levels)

(* The requests that a window begins with. *)
AtOnce(m, l, p) ==
    CASE m = "latency"    -> IF Quota[p] = 0 THEN 0 ELSE 1
      [] m = "throughput" -> Levels[l]
      [] OpenLoop(m)      -> 0

New(l, p, state) == [level |-> l, part |-> p, state |-> state, time |-> 0]

Started(m, l, p) == [i \in 1..AtOnce(m, l, p) |-> New(l, p, "running")]

Init ==
    /\ mode \in Modes
    /\ level = 1
    /\ part = IF mode = "trace" THEN "measure" ELSE "warmup"
    /\ step = "sending"
    /\ task = Started(mode, 1, part)
    /\ inflight = 0 /\ peak = 0 /\ backlog = 0
    /\ figures = <<>>
    /\ plan = NoPlan

-----------------------------------------------------------------------------
Window == {t \in DOMAIN task : task[t].level = level /\ task[t].part = part}

InState(ts, state) == {t \in ts : task[t].state = state}

Running == InState(DOMAIN task, "running")

(* The sweep may send another request now. *)
MaySend ==
    /\ step = "sending"
    /\ Cardinality(Window) < IF mode = "latency" THEN Quota[part] ELSE MaxSubmitted[mode]

(* _run_one_open_loop_window creates a task; it runs when the event loop   *)
(* comes to it, which may be after the window has ended.                   *)
Submit ==
    /\ OpenLoop(mode)
    /\ MaySend
    /\ InState(DOMAIN task, "created") = {}
    /\ task' = Append(task, New(level, part, "created"))
    /\ UNCHANGED <<where, step, counts, outcome>>

CountedIn ==
    /\ inflight' = inflight + 1
    /\ peak' = IF inflight' > peak THEN inflight' ELSE peak

StartTask(t) ==
    /\ task[t].state = "created"
    /\ task' = [task EXCEPT ![t].state = "running"]
    /\ CountedIn
    /\ UNCHANGED <<where, step, backlog, outcome>>

(* build_prompt raises, before anything is sent: outside the `try` clause, *)
(* so that the request of an open loop is never counted out again.  A      *)
(* worker of the throughput sweep ends with it, unnoticed, and a latency   *)
(* sweep altogether.                                                       *)
PromptRaises(t) ==
    /\ task[t].state = IF OpenLoop(mode) THEN "created" ELSE "running"
    /\ task' = [task EXCEPT ![t].state = "raised"]
    /\ IF OpenLoop(mode) THEN CountedIn ELSE UNCHANGED <<inflight, peak>>
    /\ step' = IF mode = "latency" THEN "crashed" ELSE step
    /\ UNCHANGED <<where, backlog, outcome>>

(* send_one_request: a time, or a failure; a warm-up result is thrown away. *)
TimesOf(t) == IF task[t].part = "measure" THEN Times \cup {0} ELSE {0}

Ended(t, time) == [task EXCEPT ![t].state = "done", ![t].time = time]

(* Variant: all windows count in one place. *)
CountsOutShared(t) == inflight' = IF OpenLoop(mode) THEN inflight - 1 ELSE inflight

(* The `finally` clause of a request counts it out of its own window. *)
CountsOut(t) ==
    inflight' = IF OpenLoop(mode) /\ t \in Window THEN inflight - 1 ELSE inflight

(* A request ends.  In the closed loops its worker goes on to the next one *)
(* in the same step; at the bound of the model the window ends first.      *)
Answer(t) ==
    /\ task[t].state = "running"
    /\ mode = "throughput" /\ step = "sending" => MaySend
    /\ \E time \in TimesOf(t) :
          task' = IF ~OpenLoop(mode) /\ MaySend
                  THEN Append(Ended(t, time), New(level, part, "running"))
                  ELSE Ended(t, time)
    /\ CountsOut(t)
    /\ UNCHANGED <<where, step, peak, backlog, outcome>>

(* The time of the window is over, or its quota used up. *)
WindowOver ==
    /\ step = "sending"
    /\ mode = "latency" => ~MaySend /\ InState(Window, "running") = {}
    /\ step' = "draining"
    /\ backlog' = inflight
    /\ UNCHANGED <<where, task, inflight, peak, outcome>>

Unfinished == InState(Window, "created") \cup InState(Window, "running")

(* Closed loops wait for their workers.  The open loop waits until the     *)
(* drain timeout, which lets a created task begin but not always end;      *)
(* asyncio.wait rejects an empty list.                                     *)
Drained ==
    /\ step = "draining"
    /\ IF OpenLoop(mode) THEN InState(Window, "created") = {} ELSE Unfinished = {}
    /\ step' = IF OpenLoop(mode) /\ Window = {} THEN "crashed" ELSE "sampling"
    /\ UNCHANGED <<where, task, counts, outcome>>

-----------------------------------------------------------------------------
(* What is made of the measured requests. *)

(* Variant: the interpolation starts from the upper neighbour. *)
PercentileAbove(values, p) ==
    LET k == (Len(values) - 1) * p
        f == 1 + k \div 100
        c == IF f < Len(values) THEN f + 1 ELSE f
    IN  100 * values[c] + (values[c] - values[f]) * (k % 100)

(* _percentiles, of sorted values and in hundredths. *)
Percentile(values, p) ==
    LET k == (Len(values) - 1) * p
        f == 1 + k \div 100
        c == IF f < Len(values) THEN f + 1 ELSE f
    IN  100 * values[f] + (values[c] - values[f]) * (k % 100)

Good == {t \in InState(Window, "done") : task[t].time > 0}

Bad == {t \in InState(Window, "done") : task[t].time = 0}

(* The times of the good requests, in order: the k-th is the least within   *)
(* which k of them were served.                                            *)
GoodTimes ==
    LET times == {task[t].time : t \in Good}
        Served(x) == Cardinality({t \in Good : task[t].time <= x})
    IN  [k \in 1..Cardinality(Good) |->
            CHOOSE x \in times : /\ k <= Served(x)
                                 /\ \A y \in times : k <= Served(y) => x <= y]

Raised == InState(Window, "raised")

(* n_submitted of the open loop; a closed loop counts its results. *)
Sent == IF OpenLoop(mode) THEN Window ELSE Window \ Raised

(* Variant: a request that has not ended is taken for a good one.          *)
FiguresOptimistic ==
    [sent |-> Cardinality(Sent), ok |-> Cardinality(Window \ Bad),
     failed |-> Cardinality(Bad), backlog |-> backlog, peak |-> peak,
     p50 |-> IF Good = {} THEN 0 ELSE Percentile(GoodTimes, 50),
     p99 |-> IF Good = {} THEN 0 ELSE Percentile(GoodTimes, 99)]

FiguresNow ==
    [sent |-> Cardinality(Sent), ok |-> Cardinality(Good),
     failed |-> Cardinality(Bad), backlog |-> backlog, peak |-> peak,
     p50 |-> IF Good = {} THEN 0 ELSE Percentile(GoodTimes, 50),
     p99 |-> IF Good = {} THEN 0 ELSE Percentile(GoodTimes, 99)]

(* Of the windows before, only what still runs is of interest: how long    *)
(* their requests took, and which had no prompt, is forgotten.             *)
Forgotten(x) == [x EXCEPT !.time = 0, !.state = IF @ = "raised" THEN "done" ELSE @]

Opens(l, p) ==
    /\ level' = l
    /\ part' = p
    /\ step' = "sending"
    /\ task' = [t \in DOMAIN task |-> Forgotten(task[t])] \o Started(mode, l, p)
    /\ inflight' = 0 /\ peak' = 0 /\ backlog' = 0
    /\ UNCHANGED <<mode, outcome>>

(* The measured window follows on the session of the warm-up. *)
WarmedUp ==
    /\ step = "sampling"
    /\ part = "warmup"
    /\ Opens(level, "measure")

(* Variant: one session serves all levels. *)
CutNone == task

(* Leaving the session of the level ends what still runs on it. *)
Cut ==
    [t \in DOMAIN task |->
        IF task[t].state \in {"created", "running"}
        THEN [task[t] EXCEPT !.state = "cut"] ELSE task[t]]

(* Variant: one failure suffices for the sweep to end.                     *)
PrintFailsEarly == ~OpenLoop(mode) /\ Bad # {}

(* The closed loops print percentiles with a number format, which raises   *)
(* TypeError if there are none; the open loop prints them as they are.     *)
PrintFails == ~OpenLoop(mode) /\ Good = {}

Collect ==
    /\ step = "sampling"
    /\ part = "measure"
    /\ figures' = Append(figures, FiguresNow)
    /\ step' = IF PrintFails THEN "crashed" ELSE "collected"
    /\ task' = Cut
    /\ UNCHANGED <<where, counts, plan>>

NextLevel ==
    /\ step = "collected"
    /\ level < LastLevel(mode)
    /\ Opens(level + 1, "warmup")

(* main_async: the one and only write, of all levels. *)
WriteResults ==
    /\ step = "collected"
    /\ level = LastLevel(mode)
    /\ step' = "written"
    /\ UNCHANGED <<where, task, counts, outcome>>

(* generate_report.py: the rows of the throughput table, by level. *)
ThroughputTable == [l \in DOMAIN figures |-> [n_failed |-> figures[l].failed]]

(* pick_best_config: the reliable rows, of which the fastest is taken; how *)
(* fast a level was is a measurement.                                      *)
ReliableLevels == {l \in DOMAIN ThroughputTable : ThroughputTable[l].n_failed = 0}

(* capacity_planner.py: without a GPU the price of a token is a division   *)
(* by zero, and there is no plan.                                          *)
Plan ==
    /\ step = "written"
    /\ mode = "throughput"
    /\ \E l \in ReliableLevels, rate \in Rates, required \in Demands :
       \E replicas \in Replicas(required, rate, Costs.utilization, Costs.tp) :
          LET gpus == Costs.tp * replicas
          IN  \E reserved \in ReservedGpus(gpus, Costs.coverage),
                 peakGpus \in PeakGpus(gpus, Costs.peakTenths) :
                 /\ gpus > 0
                 /\ plan' = [level |-> l, required |-> required, rate |-> rate, gpus |-> gpus,
                             reserved |-> reserved, burst |-> BurstGpus(peakGpus, reserved)]
    /\ step' = "planned"
    /\ UNCHANGED <<where, task, counts, figures>>

Live == step \notin {"written", "planned", "crashed"}

Next ==
    \/ Submit \/ WindowOver \/ Drained \/ WarmedUp \/ Collect \/ NextLevel
    \/ WriteResults \/ Plan
    \/ Live /\ \E t \in DOMAIN task : StartTask(t) \/ PromptRaises(t) \/ Answer(t)

Spec == Init /\ [][Next]_vars

-----------------------------------------------------------------------------
(* No request is lost or counted twice: the figures of a level add up.     *)
(* What is missing was cut off by the end of the session or had no prompt, *)
(* and of either there is nothing in a closed loop                         *)
(* (benchmark_client.py:347-349, 478-491).                                 *)
RequestsAccounted ==
    step = "collected" =>
        LET f == figures[Len(figures)]
            cut == InState(Window, "cut")
        IN  /\ f.ok = Cardinality(Good) /\ f.failed = Cardinality(Bad)
            /\ f.sent = f.ok + f.failed
                        + IF OpenLoop(mode) THEN Cardinality(cut) + Cardinality(Raised) ELSE 0
            /\ cut # {} => OpenLoop(mode)

(* "connection-pool state/backlog from one level can never bleed into the  *)
(* next" (benchmark_client.py:304-310): what runs belongs to this level    *)
(* and, in a closed loop, to this window.                                  *)
LevelsSeparate ==
    \A t \in Running :
        task[t].level = level /\ (~OpenLoop(mode) => task[t].part = part)

(* The in-flight figure of an open window counts its own requests only,    *)
(* though requests of the warm-up may run on beside them, and those that   *)
(* never had a prompt for good.  The maximum and the backlog derive from   *)
(* it, and the backlog misses one request at most of those the window      *)
(* leaves undone, which was submitted last and had not begun               *)
(* (benchmark_client.py:393-400, 453, 461-478).                            *)
InflightExact ==
    OpenLoop(mode) /\ Live =>
        /\ step # "collected" =>
              inflight = Cardinality(InState(Window, "running")) + Cardinality(Raised)
        /\ inflight <= peak /\ backlog <= peak
        /\ step \in {"draining", "sampling"} => Cardinality(Unfinished) <= backlog + 1

(* Percentiles lie between the fastest and the slowest good request and    *)
(* are in order (benchmark_client.py:232-241).                             *)
PercentilesOrdered ==
    step = "collected" /\ Good # {} =>
        LET f == figures[Len(figures)]
            times == {task[t].time : t \in Good}
        IN  /\ \A x \in times : \E y \in times : 100 * y <= f.p50
            /\ f.p50 <= f.p99
            /\ \E y \in times : f.p99 <= 100 * y

(* Results are lost only if a level has served nothing at all, an open     *)
(* window has submitted nothing, or a prompt of the latency sweep could    *)
(* not be built; a file holds every level                                  *)
(* (benchmark_client.py:256-274, 288, 384, 478, 602-615).                  *)
LostOnlyIfNothingServed ==
    /\ step = "crashed" =>
          IF OpenLoop(mode) THEN Window = {}
          ELSE Good = {} \/ (mode = "latency" /\ Raised # {})
    /\ step \in {"written", "planned"} => Len(figures) = LastLevel(mode)

(* x is not below y, but for rounding. *)
Covers(x, y) == Precision * x >= (Precision - 1) * y

(* Whatever rounding does, the planned fleet is right: it rests on a level *)
(* that has served requests, provides the required rate at the utilization *)
(* target, has one whole replica too many at most, and reserved and burst  *)
(* GPUs together cover the peak (capacity_planner.py:42-57, 79-103).       *)
PlanSuffices ==
    step = "planned" =>
        LET need == 100 * plan.required
            each == plan.rate * Costs.utilization
        IN  /\ figures[plan.level].ok > 0
            /\ Covers(each * plan.gpus, need)
            /\ each * (plan.gpus - 2 * Costs.tp) < need
            /\ Covers(10 * (plan.reserved + plan.burst), plan.gpus * Costs.peakTenths)

=============================================================================
