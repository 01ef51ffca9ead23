----------------------------- MODULE RunMatrix -----------------------------
(***************************************************************************)
(* The benchmark orchestrator (bench/run_matrix.py) with the scripts that  *)
(* it runs (scripts/10_serve_vllm.sh and its siblings, 20_smoke_test.sh,   *)
(* 90_stop_serving.sh): for every run of the matrix a container is         *)
(* started, tested, measured and removed.                                  *)
(*                                                                         *)
(* Every subprocess may fail, and every one the loop starts may run into   *)
(* its timeout, which kills the script but not the docker command that the *)
(* script has started.  Engines have a port each, and whoever listens on   *)
(* it is tested and measured.                                              *)
(***************************************************************************)
EXTENDS Integers, Sequences, FiniteSets, Functions

CONSTANTS
    Matrix,      \* names of the runs in configs/matrix.yaml, in order
    EngineOf,    \* the engine of each run, and so its port
    Matched,     \* the runs whose container names begin with that of a run
    Skipped      \* the modes that --skip-latency and --skip-throughput name

Names == Range(Matrix)

Modes == {"latency", "throughput"}

ASSUME RunMatrixAssumption ==
    /\ Matrix \in Seq(DOMAIN EngineOf)
    /\ IsInjective(Matrix)
    /\ Matched \in [Names -> SUBSET Names]
    /\ \A n \in Names : n \in Matched[n]
    /\ Skipped \subseteq Modes

VARIABLES
    only,       \* the runs that --only has left
    at,         \* position in the matrix
    pc,         \* the step of the current run
    entry,      \* its summary entry
    summary,    \* the list of entries
    container,  \* what docker has under the container name of every run
    results,    \* the benchmark files: whose run, which mode, which server
    strays      \* containers that may be there although their run is over

vars == <<only, at, pc, entry, summary, container, results, strays>>

Statuses == {"none", "ok", "partial_failure", "server_failed_to_start",
             "smoke_test_failed", "exception"}

Serving == {"serve_clean", "serve_run", "serve_wait"}

Working == Serving \cup {"smoke", "latency", "throughput", "stop"}

(* "created": docker could not bind the port.  "ordered": docker run has   *)
(* outlived its script and is still to start the container.                *)
Containers == {"none", "ordered", "created", "starting", "serving"}

TypeOK ==
    /\ only \subseteq Names
    /\ at \in 0..Len(Matrix)
    /\ pc \in Working \cup {"next", "done", "aborted"}
    /\ entry \in [status: Statuses, lat_ok: BOOLEAN]
    /\ summary \in Seq([name: Names, status: Statuses])
    /\ container \in [Names -> Containers]
    /\ results \subseteq [name: Names, mode: Modes, server: Names]
    /\ strays \subseteq Names

NewEntry == [status |-> "none", lat_ok |-> FALSE]

(* Containers of an earlier matrix, whose orchestrator was killed, may be  *)
(* serving still.                                                          *)
Init ==
    /\ only \in SUBSET Names
    /\ at = 0
    /\ pc = "next"
    /\ entry = NewEntry
    /\ summary = <<>>
    /\ container \in [Names -> {"none", "serving"}]
    /\ \A m, n \in Names : m # n /\ EngineOf[m] = EngineOf[n] =>
                              "none" \in {container[m], container[n]}
    /\ results = {}
    /\ strays = {n \in Names : container[n] = "serving"}

-----------------------------------------------------------------------------
Current == Matrix[at]

(* The runs that are still to come, by position. *)
Ahead == {i \in at + 1 .. Len(Matrix) : Matrix[i] \in only}

Running(n) == container[n] \in {"starting", "serving"}

PortTaken(n) == \E m \in Names : Running(m) /\ EngineOf[m] = EngineOf[n]

(* Whoever answers on the port of a run. *)
Answering(n) == {m \in Names : container[m] = "serving" /\ EngineOf[m] = EngineOf[n]}

Ends(status) == entry' = [entry EXCEPT !.status = status] /\ pc' = "stop"

(* docker rm -f of the containers in cs, any of which may fail unnoticed.  *)
Removes(cs) ==
    \E gone \in SUBSET {n \in cs : container[n] \notin {"none", "ordered"}} :
        /\ container' = [n \in Names |-> IF n \in gone THEN "none" ELSE container[n]]
        /\ strays' = (strays \ gone) \cup {n \in cs : container'[n] # "none"}

(* Variant: one round too many. *)
NextRunPastEnd ==
    /\ pc = "next"
    /\ IF at <= Len(Matrix)
       THEN at' = at + 1 /\ pc' = "serve_clean" /\ entry' = NewEntry
       ELSE pc' = "done" /\ UNCHANGED <<at, entry>>
    /\ UNCHANGED <<only, summary, container, results, strays>>

(* The next run of the loop, or the summary file. *)
NextRun ==
    /\ pc = "next"
    /\ \/ /\ at' \in Ahead /\ \A i \in Ahead : at' <= i
          /\ pc' = "serve_clean"
          /\ entry' = NewEntry
       \/ Ahead = {} /\ pc' = "done" /\ UNCHANGED <<at, entry>>
    /\ UNCHANGED <<only, summary, container, results, strays>>

(* The serve script dies at once when the run lists other than `tp` GPUs;  *)
(* which runs of the matrix file do so is left open.                       *)
ServeRefused ==
    /\ pc = "serve_clean"
    /\ Ends("server_failed_to_start")
    /\ UNCHANGED <<only, at, summary, container, results, strays>>

(* stop_container, for a container of the same name. *)
ServeClean ==
    /\ pc = "serve_clean"
    /\ pc' = "serve_run"
    /\ Removes({Current})
    /\ UNCHANGED <<only, at, entry, summary, results>>

(* docker run, refused if the name is taken, and left without a port if    *)
(* that is taken.  Its exit status is not looked at.                       *)
DockerRan(n) ==
    [container EXCEPT ![n] = IF @ \notin {"none", "ordered"} THEN @
                             ELSE IF PortTaken(n) THEN "created" ELSE "starting"]

ServeRun ==
    /\ pc = "serve_run"
    /\ \/ container' = DockerRan(Current)
       \/ UNCHANGED container      \* an image that cannot be pulled
    /\ pc' = "serve_wait"
    /\ UNCHANGED <<only, at, entry, summary, results, strays>>

(* wait_for_http, until the port answers or the wait is over. *)
ServeWait ==
    /\ pc = "serve_wait"
    /\ \/ /\ Answering(Current) # {}
          /\ pc' = "smoke"
          /\ UNCHANGED entry
       \/ Answering(Current) = {} /\ Ends("server_failed_to_start")
    /\ UNCHANGED <<only, at, summary, container, results, strays>>

Smoke ==
    /\ pc = "smoke"
    /\ \/ /\ Answering(Current) # {}
          /\ pc' = "latency"
          /\ UNCHANGED entry
       \/ Ends("smoke_test_failed")
    /\ UNCHANGED <<only, at, summary, container, results, strays>>

(* run_bench: the file is written at the end, if all went well. *)
Measures(mode, ok) ==
    IF mode \in Skipped THEN ok /\ UNCHANGED results
    ELSE \/ /\ ok
            /\ \E m \in Answering(Current) :
                  results' = results \cup {[name |-> Current, mode |-> mode, server |-> m]}
         \/ ~ok /\ UNCHANGED results

Latency ==
    /\ pc = "latency"
    /\ \E ok \in BOOLEAN :
          Measures("latency", ok) /\ entry' = [entry EXCEPT !.lat_ok = ok]
    /\ pc' = "throughput"
    /\ UNCHANGED <<only, at, summary, container, strays>>

(* Variant: the outcome of the latency sweep is forgotten. *)
ThroughputAlone ==
    /\ pc = "throughput"
    /\ \E ok \in BOOLEAN :
          Measures("throughput", ok) /\ Ends(IF ok THEN "ok" ELSE "partial_failure")
    /\ UNCHANGED <<only, at, summary, container, strays>>

Throughput ==
    /\ pc = "throughput"
    /\ \E ok \in BOOLEAN :
          /\ Measures("throughput", ok)
          /\ Ends(IF entry.lat_ok /\ ok THEN "ok" ELSE "partial_failure")
    /\ UNCHANGED <<only, at, summary, container, strays>>

(* A subprocess runs into its timeout, or cannot be started: the `except`  *)
(* clause.  A docker run that is cut off from its script goes on.          *)
Raises ==
    /\ pc \in Working \ {"stop"}
    /\ Ends("exception")
    /\ IF pc = "serve_run" /\ container[Current] = "none"
       THEN /\ container' = [container EXCEPT ![Current] = "ordered"]
            /\ strays' = strays \cup {Current}
       ELSE UNCHANGED <<container, strays>>
    /\ UNCHANGED <<only, at, summary, results>>

Entered(status) == Append(summary, [name |-> Current, status |-> status])

(* Variant: no container is removed after a failed start or test.          *)
StopOnlyMeasured ==
    /\ pc = "stop"
    /\ IF entry.status \in {"server_failed_to_start", "smoke_test_failed"}
       THEN UNCHANGED <<container, strays>> ELSE Removes(Matched[Current])
    /\ summary' = Entered(entry.status)
    /\ pc' = "next"
    /\ UNCHANGED <<only, at, entry, results>>

(* Variant: a run that raised is not entered. *)
StopUnlisted ==
    /\ pc = "stop"
    /\ Removes(Matched[Current])
    /\ summary' = IF entry.status = "exception" THEN summary ELSE Entered(entry.status)
    /\ pc' = "next"
    /\ UNCHANGED <<only, at, entry, results>>

(* The `finally` clause: the stop script, whose result is not looked at,   *)
(* and the entry. *)
Stop ==
    /\ pc = "stop"
    /\ Removes(Matched[Current])
    /\ summary' = Entered(entry.status)
    /\ pc' = "next"
    /\ UNCHANGED <<only, at, entry, results>>

(* The stop script runs into its timeout: TimeoutExpired leaves the        *)
(* `finally` clause and ends the program.                                  *)
StopTimeout ==
    /\ pc = "stop"
    /\ Removes(Matched[Current])
    /\ pc' = "aborted"
    /\ UNCHANGED <<only, at, entry, summary, results>>

(* A server becomes healthy, or crashes and is started again by docker. *)
ServerChanges(n) ==
    /\ Running(n)
    /\ container' = [container EXCEPT ![n] = IF @ = "starting" THEN "serving" ELSE "starting"]
    /\ UNCHANGED <<only, at, pc, entry, summary, results, strays>>

(* A docker run that has outlived its script starts its container.         *)
LateStart(n) ==
    /\ container[n] = "ordered"
    /\ container' = DockerRan(n)
    /\ UNCHANGED <<only, at, pc, entry, summary, results, strays>>

Step ==
    \/ NextRun \/ ServeRefused \/ ServeClean \/ ServeRun \/ ServeWait \/ Smoke
    \/ Latency \/ Throughput \/ Raises \/ Stop \/ StopTimeout

Next == Step \/ \E n \in Names : ServerChanges(n) \/ LateStart(n)

Spec == Init /\ [][Next]_vars

-----------------------------------------------------------------------------
(* The runs that are over, by position. *)
Over == {j \in 1..Len(Matrix) :
            /\ Matrix[j] \in only
            /\ j < at \/ (j = at /\ pc \notin Working \cup {"aborted"})}

(* However its parts fail, a matrix that is not aborted has one entry for  *)
(* every run that is over, in order and with a status; one that is aborted *)
(* lacks the entry of the run that aborted it (run_matrix.py:174-184).     *)
SummaryComplete ==
    /\ \A i \in DOMAIN summary : summary[i].status # "none"
    /\ {summary[i].name : i \in DOMAIN summary} = {Matrix[j] : j \in Over}
    /\ \A h, i \in DOMAIN summary, j, k \in Over :
          h < i /\ summary[h].name = Matrix[j] /\ summary[i].name = Matrix[k] => j < k
    /\ pc = "done" => Len(summary) = Cardinality(only)

Measured(n, mode) == \E r \in results : r.name = n /\ r.mode = mode

Missing(n) == {mode \in Modes \ Skipped : ~Measured(n, mode)}

Tells(n, status) ==
    CASE status = "ok" -> Missing(n) = {}
      [] status = "partial_failure" -> Missing(n) # {}
      [] status = "exception" -> TRUE
      [] OTHER -> ~\E mode \in Modes : Measured(n, mode)

(* A status says what there is: "ok" a result file of every mode that was  *)
(* not skipped, "partial_failure" that one is missing, the others but      *)
(* "exception" that nothing was measured (run_matrix.py:158-176).          *)
StatusTruthful ==
    \A i \in DOMAIN summary : Tells(summary[i].name, summary[i].status)

(* "Runs execute SEQUENTIALLY [...] so GPUs are never shared between two   *)
(* configurations being measured" (configs/matrix.yaml:5-7): apart from    *)
(* containers that docker failed to remove, that a docker command left     *)
(* alone by its script has started, or that an earlier matrix has left,    *)
(* only that of the current run is there, and a result was measured on the *)
(* run's own server or on one of those.                                    *)
OneServerAtATime ==
    \A n \in Names : container[n] # "none" =>
        n \in strays \/ (pc \in Working /\ n = Current)

(* Results that come from another run's server. *)
Foreign == {r \in results : r.server # r.name}

(* A result can come from another run's server only if that server was a   *)
(* stray when it was measured (run_matrix.py:31, 10_serve_vllm.sh:72-97).  *)
MeasuredOnOwnServer ==
    [][\A r \in Foreign' \ Foreign : r.server \in strays]_vars

=============================================================================
