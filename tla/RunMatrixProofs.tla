-------------------------- MODULE RunMatrixProofs --------------------------
(***************************************************************************)
(* The matrix orchestrator for any matrix, engines and container names:    *)
(* types, one server at a time, whose server was measured, and that a      *)
(* status tells the truth.                                                 *)
(***************************************************************************)
EXTENDS RunMatrix, SequenceTheorems, FiniteSetTheorems, TLAPS

(* Types, and a run that is being worked on. *)
Sound ==
    /\ TypeOK
    /\ pc \in Working \cup {"aborted"} => at >= 1

LEMMA MatrixFacts ==
    /\ \A i \in 1..Len(Matrix) : Matrix[i] \in Names
    /\ \A i, j \in 1..Len(Matrix) : Matrix[i] = Matrix[j] => i = j
    /\ Len(Matrix) \in Nat
    /\ \A n \in Names : Matched[n] \subseteq Names /\ n \in Matched[n]
  <1>1. Len(Matrix) \in Nat /\ DOMAIN Matrix = 1..Len(Matrix)
    BY RunMatrixAssumption
  <1>2. \A i \in 1..Len(Matrix) : Matrix[i] \in Names
    BY <1>1 DEF Names, Range
  <1> QED
    BY <1>1, <1>2, RunMatrixAssumption DEF IsInjective

LEMMA CurrentFacts ==
    ASSUME Sound, pc \in Working
    PROVE  /\ at \in 1..Len(Matrix) /\ Len(Matrix) \in Nat
           /\ Current \in Names
           /\ Matched[Current] \subseteq Names /\ Current \in Matched[Current]
  <1>1. at \in 1..Len(Matrix)
    BY MatrixFacts DEF Sound, TypeOK
  <1> QED
    BY <1>1, MatrixFacts DEF Current

(* What docker rm leaves. *)
LEMMA RemovesFacts ==
    ASSUME Sound, NEW cs \in SUBSET Names, Removes(cs)
    PROVE  /\ container' \in [Names -> Containers]
           /\ strays' \subseteq Names
           /\ \A n \in Names : container'[n] # "none" =>
                 /\ container[n] # "none"
                 /\ n \in strays \cup cs => n \in strays'
  <1>1. PICK gone \in SUBSET {n \in cs : container[n] \notin {"none", "ordered"}} :
          /\ container' = [n \in Names |-> IF n \in gone THEN "none" ELSE container[n]]
          /\ strays' = (strays \ gone) \cup {n \in cs : container'[n] # "none"}
    BY DEF Removes
  <1>2. container \in [Names -> Containers] /\ strays \subseteq Names
    BY DEF Sound, TypeOK
  <1> QED
    BY <1>1, <1>2 DEF Containers

LEMMA DockerRanFacts ==
    ASSUME Sound, NEW n \in Names
    PROVE  /\ DockerRan(n) \in [Names -> Containers]
           /\ \A m \in Names : m # n => DockerRan(n)[m] = container[m]
  BY DEF DockerRan, Sound, TypeOK, Containers

(* An entry ends with a status. *)
LEMMA EndsFacts ==
    ASSUME Sound, NEW status \in Statuses, Ends(status)
    PROVE  /\ pc' = "stop"
           /\ entry' \in [status: Statuses, lat_ok: BOOLEAN]
           /\ entry'.status = status /\ entry'.lat_ok = entry.lat_ok
  BY DEF Ends, Sound, TypeOK

LEMMA EnteredFacts ==
    ASSUME Sound, pc = "stop"
    PROVE  /\ Entered(entry.status) \in Seq([name: Names, status: Statuses])
           /\ Len(Entered(entry.status)) = Len(summary) + 1
           /\ \A i \in DOMAIN Entered(entry.status) :
                 Entered(entry.status)[i] =
                   IF i \in DOMAIN summary THEN summary[i]
                   ELSE [name |-> Current, status |-> entry.status]
  <1>1. Current \in Names
    BY CurrentFacts DEF Working
  <1>2. [name |-> Current, status |-> entry.status] \in [name: Names, status: Statuses]
    BY <1>1 DEF Sound, TypeOK
  <1>3. summary \in Seq([name: Names, status: Statuses])
    BY DEF Sound, TypeOK
  <1> QED
    BY <1>2, <1>3 DEF Entered

LEMMA InitSound == Init => Sound
  <1> SUFFICES ASSUME Init PROVE Sound
    OBVIOUS
  <1>1. container \in [Names -> Containers] /\ strays \subseteq Names
    BY DEF Init, Containers
  <1>2. NewEntry \in [status: Statuses, lat_ok: BOOLEAN]
    BY DEF NewEntry, Statuses
  <1>3. 0 \in 0..Len(Matrix)
    BY MatrixFacts
  <1>4. summary \in Seq([name: Names, status: Statuses])
    BY DEF Init
  <1> QED
    BY <1>1, <1>2, <1>3, <1>4 DEF Init, Sound, TypeOK, Working, Serving

(* The measurements of a mode: a file by whoever answers. *)
LEMMA MeasuresFacts ==
    ASSUME Sound, NEW mode \in Modes, NEW ok \in BOOLEAN, pc \in Working,
           Measures(mode, ok)
    PROVE  /\ results' \subseteq [name: Names, mode: Modes, server: Names]
           /\ results \subseteq results'
           /\ \A r \in results' \ results :
                 /\ r.name = Current /\ r.mode = mode /\ ok
                 /\ r.server \in Names /\ container[r.server] = "serving"
           /\ ok => mode \in Skipped \/ \E r \in results' : r.name = Current /\ r.mode = mode
           /\ ~ok => results' = results /\ mode \notin Skipped
  <1>1. results \subseteq [name: Names, mode: Modes, server: Names] /\ Current \in Names
    BY CurrentFacts DEF Sound, TypeOK
  <1>2. CASE results' = results /\ (ok <=> mode \in Skipped)
    BY <1>1, <1>2
  <1>3. CASE ok /\ \E m \in Answering(Current) :
               results' = results \cup {[name |-> Current, mode |-> mode, server |-> m]}
    <2>1. PICK m \in Answering(Current) :
            results' = results \cup {[name |-> Current, mode |-> mode, server |-> m]}
      BY <1>3
    <2>2. m \in Names /\ container[m] = "serving"
      BY DEF Answering
    <2> DEFINE file == [name |-> Current, mode |-> mode, server |-> m]
    <2>3. file \in results' /\ file.name = Current /\ file.mode = mode /\ file.server = m
      BY <2>1
    <2> QED
      BY <1>1, <1>3, <2>1, <2>2, <2>3
  <1> QED
    BY <1>2, <1>3 DEF Measures

-----------------------------------------------------------------------------
(* Types, and one server at a time. *)

PlacesOk == Sound /\ OneServerAtATime

LEMMA NextRunPlaces == PlacesOk /\ NextRun => PlacesOk'
  <1> SUFFICES ASSUME PlacesOk, NextRun PROVE PlacesOk'
    OBVIOUS
  <1>1. NewEntry \in [status: Statuses, lat_ok: BOOLEAN]
    BY DEF NewEntry, Statuses
  <1>2. at \in Int /\ (at' \in Ahead => at' \in 1..Len(Matrix))
    BY MatrixFacts DEF Ahead, PlacesOk, Sound, TypeOK
  <1>3. Sound'
    BY <1>1, <1>2, MatrixFacts
       DEF NextRun, PlacesOk, Sound, TypeOK, Working, Serving
  <1>4. \A n \in Names : container[n] # "none" => n \in strays
    BY DEF NextRun, PlacesOk, OneServerAtATime, Working, Serving
  <1>5. OneServerAtATime'
    BY <1>4 DEF NextRun, OneServerAtATime
  <1> QED
    BY <1>3, <1>5 DEF PlacesOk

(* The containers are as they were or belong to the current run, and the   *)
(* program still works on that run.                                        *)
LEMMA StaysPlaces ==
    ASSUME PlacesOk, pc \in Working, pc' \in Working, at' = at,
           \A n \in Names : container'[n] # "none" /\ n # Current =>
              container[n] # "none" /\ (n \in strays => n \in strays')
    PROVE  OneServerAtATime'
  <1>1. Current' = Current
    BY DEF Current
  <1> QED
    BY <1>1 DEF PlacesOk, OneServerAtATime

LEMMA ServePlaces == PlacesOk /\ (ServeClean \/ ServeRun) => PlacesOk'
  <1> SUFFICES ASSUME PlacesOk, ServeClean \/ ServeRun PROVE PlacesOk'
    OBVIOUS
  <1>1. pc \in Working /\ pc' \in Working /\ at' = at /\ Sound
    BY DEF ServeClean, ServeRun, Working, Serving, PlacesOk
  <1>2. CASE ServeClean
    <2>1. Removes({Current}) /\ {Current} \in SUBSET Names
      BY <1>1, <1>2, CurrentFacts DEF ServeClean
    <2>2. OneServerAtATime'
      BY <1>1, <2>1, RemovesFacts, StaysPlaces
    <2>3. Sound'
      BY <1>1, <1>2, <2>1, RemovesFacts DEF ServeClean, Sound, TypeOK
    <2> QED
      BY <2>2, <2>3 DEF PlacesOk
  <1>3. CASE ServeRun
    <2>1. container' \in {DockerRan(Current), container} /\ strays' = strays
      BY <1>3 DEF ServeRun
    <2>2. OneServerAtATime'
      BY <1>1, <2>1, CurrentFacts, DockerRanFacts, StaysPlaces
    <2>3. Sound'
      BY <1>1, <1>3, <2>1, CurrentFacts, DockerRanFacts DEF ServeRun, Sound, TypeOK
    <2> QED
      BY <2>2, <2>3 DEF PlacesOk
  <1> QED
    BY <1>2, <1>3

LEMMA TestPlaces == PlacesOk /\ (ServeRefused \/ ServeWait \/ Smoke) => PlacesOk'
  <1> SUFFICES ASSUME PlacesOk, ServeRefused \/ ServeWait \/ Smoke PROVE PlacesOk'
    OBVIOUS
  <1>1. Sound /\ pc \in Working
    BY DEF ServeRefused, ServeWait, Smoke, Working, Serving, PlacesOk
  <1>2. /\ pc' \in Working /\ entry' \in [status: Statuses, lat_ok: BOOLEAN]
    BY <1>1, EndsFacts
       DEF ServeRefused, ServeWait, Smoke, Working, Serving, Statuses, Sound, TypeOK
  <1>3. UNCHANGED <<only, at, summary, container, results, strays>>
    BY DEF ServeRefused, ServeWait, Smoke
  <1>4. OneServerAtATime'
    BY <1>1, <1>2, <1>3, StaysPlaces
  <1>5. Sound'
    BY <1>1, <1>2, <1>3 DEF Sound, TypeOK
  <1> QED
    BY <1>4, <1>5 DEF PlacesOk

LEMMA LatencyPlaces == PlacesOk /\ Latency => PlacesOk'
  <1> SUFFICES ASSUME PlacesOk, Latency PROVE PlacesOk'
    OBVIOUS
  <1>1. Sound /\ pc \in Working /\ pc' \in Working
    BY DEF Latency, Working, Serving, PlacesOk
  <1>2. PICK ok \in BOOLEAN : Measures("latency", ok) /\ entry' = [entry EXCEPT !.lat_ok = ok]
    BY DEF Latency
  <1>3. UNCHANGED <<only, at, summary, container, strays>>
    BY DEF Latency
  <1>4. results' \subseteq [name: Names, mode: Modes, server: Names]
    BY <1>1, <1>2, MeasuresFacts DEF Modes
  <1>5. entry' \in [status: Statuses, lat_ok: BOOLEAN]
    BY <1>1, <1>2 DEF Sound, TypeOK
  <1>6. OneServerAtATime'
    BY <1>1, <1>3, StaysPlaces
  <1>7. Sound'
    BY <1>1, <1>3, <1>4, <1>5 DEF Sound, TypeOK
  <1> QED
    BY <1>6, <1>7 DEF PlacesOk

LEMMA ThroughputPlaces == PlacesOk /\ Throughput => PlacesOk'
  <1> SUFFICES ASSUME PlacesOk, Throughput PROVE PlacesOk'
    OBVIOUS
  <1>1. Sound /\ pc \in Working
    BY DEF Throughput, Working, PlacesOk
  <1>2. PICK ok \in BOOLEAN :
          /\ Measures("throughput", ok)
          /\ Ends(IF entry.lat_ok /\ ok THEN "ok" ELSE "partial_failure")
    BY DEF Throughput
  <1>3. UNCHANGED <<only, at, summary, container, strays>>
    BY DEF Throughput
  <1>4. results' \subseteq [name: Names, mode: Modes, server: Names]
    BY <1>1, <1>2, MeasuresFacts DEF Modes
  <1>5. (IF entry.lat_ok /\ ok THEN "ok" ELSE "partial_failure") \in Statuses
    BY DEF Statuses
  <1>6. pc' = "stop" /\ entry' \in [status: Statuses, lat_ok: BOOLEAN]
    BY <1>1, <1>2, <1>5, EndsFacts
  <1>7. pc' \in Working
    BY <1>6 DEF Working
  <1>8. OneServerAtATime'
    BY <1>1, <1>3, <1>7, StaysPlaces
  <1>9. Sound'
    BY <1>1, <1>3, <1>4, <1>6, <1>7 DEF Sound, TypeOK
  <1> QED
    BY <1>8, <1>9 DEF PlacesOk

LEMMA RaisesPlaces == PlacesOk /\ Raises => PlacesOk'
  <1> SUFFICES ASSUME PlacesOk, Raises PROVE PlacesOk'
    OBVIOUS
  <1>1. Sound /\ pc \in Working /\ UNCHANGED <<only, at, summary, results>>
    BY DEF Raises, PlacesOk
  <1>2. "exception" \in Statuses
    BY DEF Statuses
  <1>3. pc' = "stop" /\ entry' \in [status: Statuses, lat_ok: BOOLEAN]
    BY <1>1, <1>2, EndsFacts DEF Raises
  <1>4. pc' \in Working
    BY <1>3 DEF Working
  <1>5. /\ container \in [Names -> Containers] /\ strays \subseteq Names
        /\ Current \in Names
    BY <1>1, CurrentFacts DEF Sound, TypeOK
  <1>6. \/ container' = [container EXCEPT ![Current] = "ordered"]
           /\ strays' = strays \cup {Current}
        \/ container' = container /\ strays' = strays
    BY DEF Raises
  <1>7. container' \in [Names -> Containers] /\ strays' \subseteq Names
    BY <1>5, <1>6 DEF Containers
  <1>8. OneServerAtATime'
    BY <1>1, <1>4, <1>5, <1>6, StaysPlaces
  <1>9. Sound'
    BY <1>1, <1>3, <1>4, <1>7 DEF Sound, TypeOK
  <1> QED
    BY <1>8, <1>9 DEF PlacesOk

LEMMA StopPlaces == PlacesOk /\ (Stop \/ StopTimeout) => PlacesOk'
  <1> SUFFICES ASSUME PlacesOk, Stop \/ StopTimeout PROVE PlacesOk'
    OBVIOUS
  <1>1. /\ Sound /\ pc = "stop" /\ pc \in Working
        /\ pc' \in {"next", "aborted"} /\ at' = at
    BY DEF Stop, StopTimeout, Working, PlacesOk
  <1>2. /\ Removes(Matched[Current]) /\ Matched[Current] \in SUBSET Names
        /\ Current \in Matched[Current]
    BY <1>1, CurrentFacts DEF Stop, StopTimeout
  <1>3. \A n \in Names : container'[n] # "none" => n \in strays'
    BY <1>2, <1>1, RemovesFacts DEF PlacesOk, OneServerAtATime
  <1>4. OneServerAtATime'
    BY <1>3 DEF OneServerAtATime
  <1>5. summary' \in Seq([name: Names, status: Statuses])
    BY <1>1, EnteredFacts DEF Stop, StopTimeout, Sound, TypeOK
  <1>6. UNCHANGED <<only, entry, results>>
    BY DEF Stop, StopTimeout
  <1>7. Sound'
    BY <1>1, <1>2, <1>5, <1>6, RemovesFacts DEF Sound, TypeOK, Working, Serving
  <1> QED
    BY <1>4, <1>7 DEF PlacesOk

LEMMA DockerPlaces ==
    PlacesOk /\ (\E n \in Names : ServerChanges(n) \/ LateStart(n)) => PlacesOk'
  <1> SUFFICES ASSUME PlacesOk, NEW n \in Names, ServerChanges(n) \/ LateStart(n)
               PROVE  PlacesOk'
    OBVIOUS
  <1>1. Sound /\ UNCHANGED <<only, at, pc, entry, summary, results, strays>>
    BY DEF PlacesOk, ServerChanges, LateStart
  <1>2. container[n] # "none"
    BY DEF ServerChanges, LateStart, Running
  <1>3. /\ container' \in [Names -> Containers]
        /\ \A m \in Names : m # n => container'[m] = container[m]
    <2>1. CASE ServerChanges(n)
      BY <1>1, <2>1 DEF ServerChanges, Sound, TypeOK, Containers
    <2>2. CASE LateStart(n)
      BY <1>1, <2>2, DockerRanFacts DEF LateStart
    <2> QED
      BY <2>1, <2>2
  <1>4. Current' = Current
    BY <1>1 DEF Current
  <1>5. OneServerAtATime'
    BY <1>1, <1>2, <1>3, <1>4 DEF PlacesOk, OneServerAtATime
  <1>6. Sound'
    BY <1>1, <1>3 DEF Sound, TypeOK
  <1> QED
    BY <1>5, <1>6 DEF PlacesOk

LEMMA NextPlaces == PlacesOk /\ [Next]_vars => PlacesOk'
  <1>1. PlacesOk /\ UNCHANGED vars => PlacesOk'
    BY DEF vars, PlacesOk, Sound, TypeOK, OneServerAtATime, Current
  <1> QED
    BY <1>1, NextRunPlaces, ServePlaces, TestPlaces, LatencyPlaces, ThroughputPlaces,
       RaisesPlaces, StopPlaces, DockerPlaces DEF Next, Step

LEMMA InitPlaces == Init => PlacesOk
  <1>1. Init => OneServerAtATime
    BY DEF Init, OneServerAtATime
  <1> QED
    BY <1>1, InitSound DEF PlacesOk

LEMMA PlacesAlways == Spec => []PlacesOk
  BY InitPlaces, NextPlaces, PTL DEF Spec

(* Every variable keeps its type, for any matrix (run_matrix.py:119-184).  *)
THEOREM TypesKept == Spec => []TypeOK
  <1>1. PlacesOk => TypeOK
    BY DEF PlacesOk, Sound
  <1> QED
    BY <1>1, PlacesAlways, PTL

(* Whatever fails, no container is there but that of the current run and   *)
(* the strays (run_matrix.py:158-181, 90_stop_serving.sh:9-22).            *)
THEOREM OneServer == Spec => []OneServerAtATime
  <1>1. PlacesOk => OneServerAtATime
    BY DEF PlacesOk
  <1> QED
    BY <1>1, PlacesAlways, PTL

(* A result is that of the run's own server, or of a stray that listened   *)
(* on the port when it was measured (run_matrix.py:84-116).                *)
THEOREM OwnServer == Spec => MeasuredOnOwnServer
  <1>1. PlacesOk /\ [Next]_vars =>
          [\A r \in Foreign' \ Foreign : r.server \in strays]_vars
    <2> SUFFICES ASSUME PlacesOk, [Next]_vars, NEW r \in Foreign' \ Foreign
                 PROVE  r.server \in strays
      OBVIOUS
    <2>1. r \in results' /\ r \notin results /\ r.server # r.name
      BY DEF Foreign
    <2>2. Latency \/ Throughput
      BY <2>1 DEF Next, Step, NextRun, ServeClean, ServeRun, ServeRefused, ServeWait, Smoke, Raises,
                  Stop, StopTimeout, ServerChanges, LateStart, vars
    <2>3. PICK mode \in Modes, ok \in BOOLEAN : Measures(mode, ok)
      BY <2>2 DEF Latency, Throughput, Modes
    <2>4. Sound /\ pc \in Working
      BY <2>2 DEF Latency, Throughput, Working, PlacesOk
    <2>5. r.name = Current /\ r.server \in Names /\ container[r.server] = "serving"
      BY <2>1, <2>3, <2>4, MeasuresFacts
    <2> QED
      BY <2>1, <2>5 DEF PlacesOk, OneServerAtATime
  <1> QED
    BY <1>1, PlacesAlways, PTL DEF Spec, MeasuredOnOwnServer

-----------------------------------------------------------------------------
(* What a status says.  Results and entries are of runs up to the present  *)
(* one; what the present one has measured goes with its step.              *)

Unmeasured == Serving \cup {"smoke", "latency"}

HasFile(n, mode) == \E r \in results : r.name = n /\ r.mode = mode

FilesOk ==
    \A r \in results : \E j \in 1..at :
        /\ r.name = Matrix[j]
        /\ j = at => pc \notin Unmeasured /\ (pc = "throughput" => r.mode = "latency")

EntriesOk ==
    \A i \in DOMAIN summary : \E j \in 1..at :
        /\ summary[i].name = Matrix[j]
        /\ pc \in Working \cup {"aborted"} => j < at

RunOk ==
    /\ pc = "throughput" => (entry.lat_ok <=> "latency" \in Skipped \/ HasFile(Current, "latency"))
    /\ pc = "stop" => Tells(Current, entry.status)

StatusOk == FilesOk /\ EntriesOk /\ RunOk /\ StatusTruthful

(* A run that has not come to its benchmarks has measured nothing.         *)
LEMMA NothingYet ==
    ASSUME Sound, FilesOk, pc \in Working, NEW r \in results, r.name = Current
    PROVE  /\ pc \notin Unmeasured
           /\ pc = "throughput" => r.mode = "latency"
  <1>1. PICK j \in 1..at :
          /\ r.name = Matrix[j]
          /\ j = at => pc \notin Unmeasured /\ (pc = "throughput" => r.mode = "latency")
    BY DEF FilesOk
  <1>2. at \in 1..Len(Matrix) /\ Current = Matrix[at] /\ j \in 1..Len(Matrix)
    BY CurrentFacts DEF Current
  <1>3. j = at
    BY <1>1, <1>2, MatrixFacts
  <1> QED
    BY <1>1, <1>3

(* A status goes on to be true if its run's files stay as they are.        *)
LEMMA TellsKept ==
    ASSUME NEW n, NEW status, Tells(n, status),
           \A mode \in Modes : HasFile(n, mode)' <=> HasFile(n, mode)
    PROVE  Tells(n, status)'
  <1>1. \A mode \in Modes : Measured(n, mode)' <=> Measured(n, mode)
    BY DEF Measured, HasFile
  <1>2. Missing(n)' = Missing(n)
    BY <1>1 DEF Missing
  <1> QED
    BY <1>1, <1>2 DEF Tells

(* Steps that write no file and no entry. *)
LEMMA QuietStatus ==
    ASSUME StatusOk, Sound, UNCHANGED <<at, results, summary>>,
           pc' \in Unmeasured => pc \in Unmeasured,
           pc' = "throughput" => pc = "throughput" /\ entry' = entry,
           pc' \in Working \cup {"aborted"} => pc \in Working,
           pc' = "stop" => Tells(Current, entry'.status)
    PROVE  StatusOk'
  <1>1. FilesOk'
    BY DEF StatusOk, FilesOk
  <1>2. EntriesOk'
    BY DEF StatusOk, EntriesOk
  <1>3. Current' = Current /\ \A n, mode : HasFile(n, mode)' <=> HasFile(n, mode)
    BY DEF Current, HasFile
  <1>4. StatusTruthful'
    <2> SUFFICES ASSUME NEW i \in DOMAIN summary
                 PROVE  Tells(summary[i].name, summary[i].status)'
      BY DEF StatusTruthful
    <2> QED
      BY DEF StatusOk, StatusTruthful, Tells, Missing, Measured
  <1>5. pc' = "stop" => Tells(Current, entry.status)'
    BY <1>3 DEF Tells, Missing, Measured
  <1>6. pc' = "throughput" =>
           (entry'.lat_ok <=> "latency" \in Skipped \/ HasFile(Current, "latency")')
    BY <1>3 DEF StatusOk, RunOk, HasFile
  <1>7. RunOk'
    BY <1>5, <1>6, <1>3 DEF RunOk, HasFile
  <1> QED
    BY <1>1, <1>2, <1>4, <1>7 DEF StatusOk

LEMMA NextRunStatus == StatusOk /\ Sound /\ NextRun => StatusOk'
  <1> SUFFICES ASSUME StatusOk, Sound, NextRun PROVE StatusOk'
    OBVIOUS
  <1>1. UNCHANGED <<results, summary>>
    BY DEF NextRun
  <1>2. \A i \in DOMAIN summary : Tells(summary[i].name, summary[i].status)'
    BY <1>1 DEF StatusOk, StatusTruthful, Tells, Missing, Measured
  <1>3. StatusTruthful'
    BY <1>1, <1>2 DEF StatusTruthful, Tells, Missing, Measured
  <1>4. /\ at \in Nat /\ at' \in Nat /\ pc' \notin {"stop", "throughput"}
        /\ at < at' \/ (at' = at /\ pc' = "done")
    BY MatrixFacts DEF NextRun, Ahead, Sound, TypeOK
  <1>5. FilesOk'
    BY <1>1, <1>4 DEF StatusOk, FilesOk, Unmeasured, Serving
  <1>6. EntriesOk'
    BY <1>1, <1>4 DEF StatusOk, EntriesOk, Working, Serving
  <1>7. RunOk'
    BY <1>4 DEF RunOk
  <1> QED
    BY <1>3, <1>5, <1>6, <1>7 DEF StatusOk

LEMMA TestStatus ==
    /\ StatusOk /\ Sound
    /\ ServeClean \/ ServeRun \/ ServeRefused \/ ServeWait \/ Smoke \/ Raises
    => StatusOk'
  <1> SUFFICES ASSUME StatusOk, Sound,
                      ServeClean \/ ServeRun \/ ServeRefused \/ ServeWait \/ Smoke \/ Raises
               PROVE  StatusOk'
    OBVIOUS
  <1>1. UNCHANGED <<at, results, summary>> /\ pc \in Working
    BY DEF ServeClean, ServeRun, ServeRefused, ServeWait, Smoke, Raises, Working, Serving
  <1>2. CASE pc' # "stop"
    <2>1. pc \in Unmeasured /\ pc' # "throughput"
      BY <1>2 DEF ServeClean, ServeRun, ServeRefused, ServeWait, Smoke, Raises, Ends,
                  Unmeasured, Serving
    <2> QED
      BY <1>1, <1>2, <2>1, QuietStatus
  <1>3. CASE pc' = "stop"
    <2>1. \/ pc \in Unmeasured
             /\ entry'.status \in {"server_failed_to_start", "smoke_test_failed"}
          \/ entry'.status = "exception"
      BY <1>3, EndsFacts
         DEF ServeClean, ServeRun, ServeRefused, ServeWait, Smoke, Raises, Unmeasured,
             Serving, Statuses
    <2>2. pc \in Unmeasured => ~\E mode \in Modes : Measured(Current, mode)
      BY <1>1, NothingYet DEF Measured, StatusOk
    <2>3. Tells(Current, entry'.status)
      BY <2>1, <2>2 DEF Tells
    <2>4. pc' \notin Unmeasured /\ pc' # "throughput"
      BY <1>3 DEF Unmeasured, Serving
    <2> QED
      BY <1>1, <2>3, <2>4, QuietStatus
  <1> QED
    BY <1>2, <1>3

(* The benchmarks add files of the current run only. *)
LEMMA MeasuresStatus ==
    ASSUME StatusOk, Sound, NEW mode \in Modes, NEW ok \in BOOLEAN, pc \in Working,
           Measures(mode, ok), at' = at, summary' = summary, pc' \in Working,
           pc' \notin Unmeasured, pc' = "throughput" => pc = "latency" /\ mode = "latency"
    PROVE  FilesOk' /\ EntriesOk' /\ StatusTruthful'
  <1>1. /\ results \subseteq results'
        /\ \A r \in results' \ results : r.name = Current /\ r.mode = mode
    BY MeasuresFacts
  <1>2. at \in 1..Len(Matrix) /\ Current = Matrix[at] /\ Current' = Current
        /\ at \in 1..at
    BY CurrentFacts DEF Current
  <1>3. ASSUME NEW r \in results'
        PROVE  \E j \in 1..at :
                  /\ r.name = Matrix[j]
                  /\ j = at => (pc' = "throughput" => r.mode = "latency")
    <2>1. CASE r \in results
      <3>1. PICK j \in 1..at :
              /\ r.name = Matrix[j]
              /\ j = at => pc \notin Unmeasured /\ (pc = "throughput" => r.mode = "latency")
        BY <2>1 DEF StatusOk, FilesOk
      <3>2. j = at => pc' # "throughput"
        BY <3>1 DEF Unmeasured
      <3> QED
        BY <3>1, <3>2
    <2>2. CASE r \notin results
      BY <1>1, <1>2, <2>2
    <2> QED
      BY <2>1, <2>2
  <1>4. FilesOk'
    BY <1>3 DEF FilesOk
  <1>5. EntriesOk'
    BY DEF StatusOk, EntriesOk
  <1>6. StatusTruthful'
    <2> SUFFICES ASSUME NEW i \in DOMAIN summary
                 PROVE  Tells(summary[i].name, summary[i].status)'
      BY DEF StatusTruthful
    <2>1. PICK j \in 1..at : summary[i].name = Matrix[j] /\ j < at
      BY DEF StatusOk, EntriesOk
    <2>2. summary[i].name # Current
      BY <1>2, <2>1, MatrixFacts
    <2>3. \A m \in Modes :
             HasFile(summary[i].name, m) <=> \E r \in results' : r.name = summary[i].name /\ r.mode = m
      BY <1>1, <2>2 DEF HasFile
    <2>4. Tells(summary[i].name, summary[i].status)
      BY DEF StatusOk, StatusTruthful
    <2>5. \A m \in Modes :
             Measured(summary[i].name, m) <=> \E r \in results' : r.name = summary[i].name /\ r.mode = m
      BY <2>3 DEF HasFile, Measured
    <2> QED
      BY <2>4, <2>5 DEF Tells, Missing, Measured
  <1> QED
    BY <1>4, <1>5, <1>6

LEMMA LatencyStatus == StatusOk /\ Sound /\ Latency => StatusOk'
  <1> SUFFICES ASSUME StatusOk, Sound, Latency PROVE StatusOk'
    OBVIOUS
  <1>1. PICK ok \in BOOLEAN : Measures("latency", ok) /\ entry' = [entry EXCEPT !.lat_ok = ok]
    BY DEF Latency
  <1>2. /\ pc = "latency" /\ pc \in Working /\ pc' = "throughput" /\ pc' \in Working
        /\ pc' \notin Unmeasured /\ at' = at /\ summary' = summary /\ "latency" \in Modes
    BY DEF Latency, Working, Unmeasured, Serving, Modes
  <1>3. FilesOk' /\ EntriesOk' /\ StatusTruthful'
    BY <1>1, <1>2, MeasuresStatus
  <1>4. entry'.lat_ok = ok
    BY <1>1 DEF Sound, TypeOK
  <1>5. ok <=> "latency" \in Skipped \/ \E r \in results' : r.name = Current /\ r.mode = "latency"
    <2>1. ok => "latency" \in Skipped
                \/ \E r \in results' : r.name = Current /\ r.mode = "latency"
      BY <1>1, <1>2, MeasuresFacts
    <2>2. ~ok => results' = results /\ "latency" \notin Skipped
      BY <1>1, <1>2, MeasuresFacts
    <2>3. \A r \in results : r.name # Current
      BY <1>2, NothingYet DEF StatusOk, Unmeasured
    <2> QED
      BY <2>1, <2>2, <2>3
  <1>6. RunOk'
    BY <1>2, <1>4, <1>5 DEF RunOk, HasFile, Current
  <1> QED
    BY <1>3, <1>6 DEF StatusOk

LEMMA ThroughputStatus == StatusOk /\ Sound /\ Throughput => StatusOk'
  <1> SUFFICES ASSUME StatusOk, Sound, Throughput PROVE StatusOk'
    OBVIOUS
  <1>1. PICK ok \in BOOLEAN :
          /\ Measures("throughput", ok)
          /\ Ends(IF entry.lat_ok /\ ok THEN "ok" ELSE "partial_failure")
    BY DEF Throughput
  <1>2. entry'.status = (IF entry.lat_ok /\ ok THEN "ok" ELSE "partial_failure")
        /\ pc' = "stop"
    BY <1>1, EndsFacts DEF Statuses
  <1>3. /\ pc = "throughput" /\ pc \in Working /\ pc' \in Working
        /\ pc' \notin Unmeasured /\ at' = at /\ summary' = summary /\ "throughput" \in Modes
    BY <1>2 DEF Throughput, Working, Unmeasured, Serving, Modes
  <1>4. FilesOk' /\ EntriesOk' /\ StatusTruthful'
    BY <1>1, <1>2, <1>3, MeasuresStatus
  <1> DEFINE Has(mode) == \E r \in results' : r.name = Current /\ r.mode = mode
  <1>5. entry.lat_ok <=> "latency" \in Skipped \/ Has("latency")
    <2>1. entry.lat_ok <=> "latency" \in Skipped \/ HasFile(Current, "latency")
      BY <1>3 DEF StatusOk, RunOk
    <2>2. results \subseteq results' /\ \A r \in results' \ results : r.mode = "throughput"
      BY <1>1, <1>3, MeasuresFacts
    <2> QED
      BY <2>1, <2>2 DEF HasFile
  <1>6. ok <=> "throughput" \in Skipped \/ Has("throughput")
    <2>1. ok => "throughput" \in Skipped \/ Has("throughput")
      BY <1>1, <1>3, MeasuresFacts
    <2>2. ~ok => results' = results /\ "throughput" \notin Skipped
      BY <1>1, <1>3, MeasuresFacts
    <2>3. \A r \in results : r.name = Current => r.mode # "throughput"
      BY <1>3, NothingYet DEF StatusOk
    <2> QED
      BY <2>1, <2>2, <2>3
  <1>7. \A mode \in Modes : Measured(Current, mode)' <=> Has(mode)
    BY <1>3 DEF Measured, Current
  <1>8. (Missing(Current))' = {mode \in Modes \ Skipped : ~Has(mode)}
    BY <1>7 DEF Missing
  <1> HIDE DEF Has
  <1>9. entry.lat_ok /\ ok <=> (Missing(Current))' = {}
    BY <1>5, <1>6, <1>8 DEF Modes
  <1>10. Tells(Current, entry.status)'
    BY <1>2, <1>9 DEF Tells
  <1>11. RunOk'
    BY <1>2, <1>10 DEF RunOk
  <1> QED
    BY <1>4, <1>11 DEF StatusOk

LEMMA StopStatus == StatusOk /\ Sound /\ Stop => StatusOk'
  <1> SUFFICES ASSUME StatusOk, Sound, Stop PROVE StatusOk'
    OBVIOUS
  <1>1. /\ pc = "stop" /\ pc \in Working /\ pc' = "next" /\ at' = at /\ results' = results
        /\ summary' = Entered(entry.status)
    BY DEF Stop, Working
  <1>2. FilesOk'
    BY <1>1 DEF StatusOk, FilesOk, Unmeasured, Serving
  <1>3. RunOk'
    BY <1>1 DEF RunOk
  <1>4. at \in 1..at /\ Current = Matrix[at]
    BY <1>1, CurrentFacts DEF Current
  <1>5. \A i \in DOMAIN summary' :
           summary'[i] = IF i \in DOMAIN summary THEN summary[i]
                         ELSE [name |-> Current, status |-> entry.status]
    BY <1>1, EnteredFacts
  <1>6. EntriesOk'
    BY <1>1, <1>4, <1>5 DEF StatusOk, EntriesOk, Working, Serving
  <1>7. \A i \in DOMAIN summary' : Tells(summary'[i].name, summary'[i].status)
    BY <1>1, <1>5 DEF StatusOk, StatusTruthful, RunOk
  <1>8. StatusTruthful'
    BY <1>1, <1>7 DEF StatusTruthful, Tells, Missing, Measured
  <1> QED
    BY <1>2, <1>3, <1>6, <1>8 DEF StatusOk

LEMMA StopTimeoutStatus == StatusOk /\ Sound /\ StopTimeout => StatusOk'
  <1> SUFFICES ASSUME StatusOk, Sound, StopTimeout PROVE StatusOk'
    OBVIOUS
  <1>1. /\ UNCHANGED <<at, results, summary>> /\ pc \in Working /\ pc' = "aborted"
    BY DEF StopTimeout, Working
  <1>2. pc' \notin Unmeasured /\ pc' # "throughput" /\ pc' # "stop"
    BY <1>1 DEF Unmeasured, Serving
  <1> QED
    BY <1>1, <1>2, QuietStatus

LEMMA DockerStatus ==
    StatusOk /\ Sound /\ ((\E n \in Names : ServerChanges(n) \/ LateStart(n))
                          \/ UNCHANGED vars) => StatusOk'
  <1> SUFFICES ASSUME StatusOk, Sound, UNCHANGED <<at, pc, entry, summary, results>>
               PROVE  StatusOk'
    BY DEF ServerChanges, LateStart, vars
  <1> QED
    BY DEF StatusOk, FilesOk, EntriesOk, RunOk, StatusTruthful, Tells, Missing, Measured,
           HasFile, Current

(* However its parts fail, a status in the summary says what the run has   *)
(* measured (run_matrix.py:158-184).                                       *)
THEOREM StatusesAreTrue == Spec => []StatusTruthful
  <1>1. Init => StatusOk
    BY DEF Init, StatusOk, FilesOk, EntriesOk, RunOk, StatusTruthful
  <1>2. StatusOk /\ PlacesOk /\ [Next]_vars => StatusOk'
    BY NextRunStatus, TestStatus, LatencyStatus, ThroughputStatus, StopStatus,
       StopTimeoutStatus, DockerStatus DEF Next, Step, PlacesOk
  <1>3. StatusOk => StatusTruthful
    BY DEF StatusOk
  <1> QED
    BY <1>1, <1>2, <1>3, PlacesAlways, PTL DEF Spec

-----------------------------------------------------------------------------
(* The summary: an entry for each run that is over, in the matrix' order.  *)

EntriesHaveStatus == \A i \in DOMAIN summary : summary[i].status # "none"

EntriesNameOver == {summary[i].name : i \in DOMAIN summary} = {Matrix[j] : j \in Over}

EntriesInOrder ==
    \A h, i \in DOMAIN summary, j, k \in Over :
        h < i /\ summary[h].name = Matrix[j] /\ summary[i].name = Matrix[k] => j < k

(* The current run is one of those asked for and will end with a status;   *)
(* the loop ends only when no run is left.                                 *)
LoopOk ==
    /\ pc = "stop" => entry.status # "none"
    /\ pc \in Working \cup {"aborted"} => Matrix[at] \in only
    /\ pc = "done" => \A j \in 1..Len(Matrix) : Matrix[j] \in only => j <= at

SummaryInv == LoopOk /\ EntriesHaveStatus /\ EntriesNameOver /\ EntriesInOrder

(* The entries fit as long as they and the runs that are over are the same. *)
LEMMA KeepEntries ==
    ASSUME SummaryInv, summary' = summary, Over' = Over
    PROVE  EntriesHaveStatus' /\ EntriesNameOver' /\ EntriesInOrder'
  <1>1. EntriesHaveStatus'
    BY DEF SummaryInv, EntriesHaveStatus
  <1>2. EntriesNameOver'
    <2>1. {summary'[i].name : i \in DOMAIN summary'} = {summary[i].name : i \in DOMAIN summary}
      OBVIOUS
    <2>2. {Matrix[j] : j \in Over'} = {Matrix[j] : j \in Over}
      OBVIOUS
    <2> QED
      BY <2>1, <2>2 DEF SummaryInv, EntriesNameOver
  <1>3. EntriesInOrder'
    BY DEF SummaryInv, EntriesInOrder
  <1> QED
    BY <1>1, <1>2, <1>3

(* Steps that neither go on to another run nor enter one. *)
LEMMA QuietSummary ==
    ASSUME SummaryInv, UNCHANGED <<only, at, summary>>,
           \/ pc' = pc /\ entry' = entry
           \/ /\ pc \in Working /\ pc' \in Working \cup {"aborted"}
              /\ pc' = "stop" => entry'.status # "none"
    PROVE  SummaryInv'
  <1>1. Over' = Over
    BY DEF Over
  <1>2. EntriesHaveStatus' /\ EntriesNameOver' /\ EntriesInOrder'
    BY <1>1, KeepEntries
  <1>3. LoopOk'
    BY DEF SummaryInv, LoopOk, Working, Serving
  <1> QED
    BY <1>2, <1>3 DEF SummaryInv

LEMMA RunSummary ==
    SummaryInv /\ Sound
      /\ (ServeClean \/ ServeRun \/ ServeRefused \/ ServeWait \/ Smoke \/ Latency
            \/ Throughput \/ Raises \/ StopTimeout) => SummaryInv'
  <1> SUFFICES ASSUME SummaryInv, Sound,
                      ServeClean \/ ServeRun \/ ServeRefused \/ ServeWait \/ Smoke \/ Latency
                        \/ Throughput \/ Raises \/ StopTimeout
               PROVE  SummaryInv'
    OBVIOUS
  <1>1. UNCHANGED <<only, at, summary>> /\ pc \in Working
    BY DEF ServeClean, ServeRun, ServeRefused, ServeWait, Smoke, Latency, Throughput, Raises,
           StopTimeout, Working, Serving
  <1>2. CASE \E status \in Statuses \ {"none"} : Ends(status)
    <2>1. pc' = "stop" /\ entry'.status # "none"
      BY <1>2, EndsFacts
    <2> QED
      BY <1>1, <2>1, QuietSummary DEF Working
  <1>3. CASE pc' \in (Working \ {"stop"}) \cup {"aborted"}
    BY <1>1, <1>3, QuietSummary
  <1> QED
    BY <1>2, <1>3
       DEF ServeClean, ServeRun, ServeRefused, ServeWait, Smoke, Latency, Throughput, Raises,
           StopTimeout, Statuses, Working, Serving

(* No run is passed over, so that the same ones are over as before.        *)
LEMMA NextRunSummary == SummaryInv /\ Sound /\ NextRun => SummaryInv'
  <1> SUFFICES ASSUME SummaryInv, Sound, NextRun PROVE SummaryInv'
    OBVIOUS
  <1>1. /\ pc = "next" /\ UNCHANGED <<only, summary>>
        /\ at \in 0..Len(Matrix) /\ Len(Matrix) \in Nat
    BY MatrixFacts DEF NextRun, Sound, TypeOK
  <1>2. Over = {j \in 1..Len(Matrix) : Matrix[j] \in only /\ j <= at}
    BY <1>1 DEF Over, Working, Serving
  <1>3. CASE at' \in Ahead /\ (\A i \in Ahead : at' <= i) /\ pc' = "serve_clean"
    <2>1. at' \in 1..Len(Matrix) /\ at < at' /\ Matrix[at'] \in only
      BY <1>1, <1>3 DEF Ahead
    <2>2. Over' = {j \in 1..Len(Matrix) : Matrix[j] \in only /\ j < at'}
      BY <1>1, <1>3, <2>1 DEF Over, Working, Serving
    <2>3. \A j \in 1..Len(Matrix) : Matrix[j] \in only => (j <= at <=> j < at')
      BY <1>1, <1>3, <2>1 DEF Ahead
    <2>4. Over' = Over
      BY <1>2, <2>2, <2>3
    <2>5. EntriesHaveStatus' /\ EntriesNameOver' /\ EntriesInOrder'
      BY <1>1, <2>4, KeepEntries
    <2>6. LoopOk'
      BY <1>1, <1>3, <2>1 DEF LoopOk
    <2> QED
      BY <2>5, <2>6 DEF SummaryInv
  <1>4. CASE Ahead = {} /\ pc' = "done" /\ at' = at
    <2>1. Over' = Over
      BY <1>1, <1>2, <1>4 DEF Over, Working, Serving
    <2>2. EntriesHaveStatus' /\ EntriesNameOver' /\ EntriesInOrder'
      BY <1>1, <2>1, KeepEntries
    <2>3. \A j \in 1..Len(Matrix) : Matrix[j] \in only => j <= at
      BY <1>1, <1>4 DEF Ahead
    <2>4. LoopOk'
      BY <1>1, <1>4, <2>3 DEF LoopOk, Working, Serving
    <2> QED
      BY <2>2, <2>4 DEF SummaryInv
  <1> QED
    BY <1>3, <1>4 DEF NextRun

(* The run that is over now comes behind all that were over before.        *)
LEMMA StopSummary == SummaryInv /\ Sound /\ Stop => SummaryInv'
  <1> SUFFICES ASSUME SummaryInv, Sound, Stop PROVE SummaryInv'
    OBVIOUS
  <1>1. /\ pc = "stop" /\ pc \in Working /\ pc' = "next" /\ UNCHANGED <<only, at>>
        /\ summary' = Entered(entry.status)
        /\ Matrix[at] \in only /\ entry.status # "none"
    BY DEF Stop, Working, SummaryInv, LoopOk
  <1>2. at \in 1..Len(Matrix) /\ Len(Matrix) \in Nat /\ Current = Matrix[at]
    BY <1>1, CurrentFacts DEF Current
  <1>3. /\ summary \in Seq([name: Names, status: Statuses])
        /\ summary' \in Seq([name: Names, status: Statuses])
        /\ Len(summary') = Len(summary) + 1
        /\ \A i \in DOMAIN summary' :
              summary'[i] = IF i \in DOMAIN summary THEN summary[i]
                            ELSE [name |-> Current, status |-> entry.status]
    BY <1>1, EnteredFacts DEF Sound, TypeOK
  <1> DEFINE new == Len(summary) + 1
  <1>4. /\ DOMAIN summary = 1..Len(summary) /\ Len(summary) \in Nat
        /\ DOMAIN summary' = 1..new
        /\ summary'[new].name = Matrix[at] /\ summary'[new].status = entry.status
        /\ \A i \in DOMAIN summary : i \in DOMAIN summary' /\ summary'[i] = summary[i]
    BY <1>2, <1>3
  <1>5. DOMAIN summary' = DOMAIN summary \cup {new}
    BY <1>4
  <1> HIDE DEF new
  <1>6. Over = {j \in 1..Len(Matrix) : Matrix[j] \in only /\ j < at}
    BY <1>1, <1>2 DEF Over, Working, Serving
  <1>7. Over' = Over \cup {at}
    BY <1>1, <1>2, <1>6 DEF Over, Working, Serving
  <1>8. EntriesHaveStatus'
    BY <1>1, <1>4, <1>5 DEF SummaryInv, EntriesHaveStatus
  <1>9. EntriesNameOver'
    <2>1. {summary'[i].name : i \in DOMAIN summary'}
            = {summary[i].name : i \in DOMAIN summary} \cup {Matrix[at]}
      <3>1. summary'[new].name = Matrix[at] /\ \A i \in DOMAIN summary : summary'[i] = summary[i]
        BY <1>4 DEF new
      <3> QED
        BY <1>5, <3>1
    <2>2. {Matrix[j] : j \in Over'} = {Matrix[j] : j \in Over} \cup {Matrix[at]}
      BY <1>7
    <2> QED
      BY <2>1, <2>2 DEF SummaryInv, EntriesNameOver
  <1>10. EntriesInOrder'
    <2> SUFFICES ASSUME NEW h \in DOMAIN summary', NEW i \in DOMAIN summary',
                        NEW j \in Over', NEW k \in Over', h < i,
                        summary'[h].name = Matrix[j], summary'[i].name = Matrix[k]
                 PROVE  j < k
      BY DEF EntriesInOrder
    <2>1. h \in DOMAIN summary
      BY <1>4, <1>5 DEF new
    <2>2. PICK m \in Over : summary[h].name = Matrix[m]
      BY <2>1 DEF SummaryInv, EntriesNameOver
    <2>3. j = m /\ j \in Over /\ j < at
      BY <1>2, <1>4, <1>6, <1>7, <2>1, <2>2, MatrixFacts
    <2>4. CASE i = new
      <3>1. k = at
        BY <1>2, <1>4, <1>6, <1>7, <2>4, MatrixFacts
      <3> QED
        BY <2>3, <3>1
    <2>5. CASE i # new
      <3>1. i \in DOMAIN summary
        BY <1>5, <2>5
      <3>2. PICK l \in Over : summary[i].name = Matrix[l]
        BY <3>1 DEF SummaryInv, EntriesNameOver
      <3>3. k = l
        BY <1>2, <1>4, <1>6, <1>7, <3>1, <3>2, MatrixFacts
      <3> QED
        BY <1>4, <2>1, <2>3, <3>1, <3>2, <3>3 DEF SummaryInv, EntriesInOrder
    <2> QED
      BY <2>4, <2>5
  <1>11. LoopOk'
    BY <1>1 DEF LoopOk, Working, Serving
  <1> QED
    BY <1>8, <1>9, <1>10, <1>11 DEF SummaryInv

(* Entries are in order, hence distinct, and so as many as their names.    *)
LEMMA DoneIsCounted ==
    ASSUME SummaryInv, Sound, pc = "done"
    PROVE  Len(summary) = Cardinality(only)
  <1>1. /\ summary \in Seq([name: Names, status: Statuses])
        /\ DOMAIN summary = 1..Len(summary) /\ Len(summary) \in Nat
        /\ only \subseteq Names /\ at \in 0..Len(Matrix) /\ Len(Matrix) \in Nat
    BY MatrixFacts DEF Sound, TypeOK
  <1>2. Over = {j \in 1..Len(Matrix) : Matrix[j] \in only}
    BY <1>1 DEF Over, Working, Serving, SummaryInv, LoopOk
  <1>3. \A n \in only : \E j \in 1..Len(Matrix) : n = Matrix[j]
    <2>1. DOMAIN Matrix = 1..Len(Matrix)
      BY RunMatrixAssumption
    <2> QED
      BY <1>1, <2>1 DEF Names, Range
  <1>4. {Matrix[j] : j \in Over} = only
    BY <1>2, <1>3
  <1> DEFINE f == [i \in 1..Len(summary) |-> summary[i].name]
  <1>5. \A i \in 1..Len(summary) : summary[i].name \in only
    BY <1>1, <1>4 DEF SummaryInv, EntriesNameOver
  <1>6. \A n \in only : \E i \in 1..Len(summary) : summary[i].name = n
    BY <1>1, <1>4 DEF SummaryInv, EntriesNameOver
  <1>7. ASSUME NEW h \in 1..Len(summary), NEW i \in 1..Len(summary), h < i
        PROVE  summary[h].name # summary[i].name
    <2>1. PICK j \in Over : summary[h].name = Matrix[j]
      BY <1>4, <1>5
    <2>2. PICK k \in Over : summary[i].name = Matrix[k]
      BY <1>4, <1>5
    <2>3. j < k
      BY <1>1, <1>7, <2>1, <2>2 DEF SummaryInv, EntriesInOrder
    <2>4. j \in Int /\ k \in Int
      BY <1>1, <1>2
    <2> QED
      BY <2>1, <2>2, <2>3, <2>4, <1>1, <1>2, MatrixFacts
  <1>8. \A h, i \in 1..Len(summary) : summary[h].name = summary[i].name => h = i
    <2> SUFFICES ASSUME NEW h \in 1..Len(summary), NEW i \in 1..Len(summary), h # i
                 PROVE  summary[h].name # summary[i].name
      OBVIOUS
    <2>1. h < i \/ i < h
      BY <1>1
    <2> QED
      BY <1>7, <2>1
  <1>9. f \in Bijection(1..Len(summary), only)
    <2>1. f \in [1..Len(summary) -> only]
      BY <1>5
    <2>2. IsInjective(f)
      BY <1>8 DEF IsInjective
    <2>3. \A n \in only : \E i \in 1..Len(summary) : f[i] = n
      BY <1>6
    <2> QED
      BY <2>1, <2>2, <2>3 DEF Bijection, Injection, Surjection, IsInjective
  <1> QED
    BY <1>1, <1>9, FS_CountingElements DEF ExistsBijection

(* Whatever fails or times out, the summary has an entry with a status for *)
(* every run that is over, in order, and at the end one for every run that *)
(* was asked for (run_matrix.py:147-184).                                  *)
THEOREM SummaryIsComplete == Spec => []SummaryComplete
  <1>1. Init => SummaryInv
    <2> SUFFICES ASSUME Init PROVE SummaryInv
      OBVIOUS
    <2>1. DOMAIN summary = {}
      BY DEF Init
    <2>2. Over = {}
      BY MatrixFacts DEF Init, Over
    <2> QED
      BY <2>1, <2>2 DEF Init, SummaryInv, LoopOk, EntriesHaveStatus, EntriesNameOver,
                        EntriesInOrder, Working, Serving
  <1>2. SummaryInv /\ UNCHANGED vars => SummaryInv'
    BY QuietSummary DEF vars
  <1>3. SummaryInv /\ (\E n \in Names : ServerChanges(n) \/ LateStart(n)) => SummaryInv'
    BY QuietSummary DEF ServerChanges, LateStart
  <1>4. SummaryInv /\ PlacesOk /\ [Next]_vars => SummaryInv'
    BY <1>2, <1>3, RunSummary, NextRunSummary, StopSummary DEF Next, Step, PlacesOk
  <1>5. SummaryInv /\ PlacesOk => SummaryComplete
    BY DoneIsCounted
       DEF SummaryInv, SummaryComplete, EntriesHaveStatus, EntriesNameOver, EntriesInOrder,
           PlacesOk
  <1> QED
    BY <1>1, <1>4, <1>5, PlacesAlways, PTL DEF Spec

=============================================================================
