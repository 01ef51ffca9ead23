------------------------------ MODULE Registry ------------------------------
(***************************************************************************)
(* The model registry (platform/registry/registry.py): a command line tool *)
(* that keeps versions, the active version of each traffic group and the   *)
(* promotion history in one JSON file, and optionally patches the image of *)
(* a Kubernetes deployment.                                                *)
(*                                                                         *)
(* Every invocation is a process of its own: it reads the whole file,      *)
(* computes the new ledger in memory, truncates the file, writes it, and   *)
(* then runs kubectl.  Nothing keeps two invocations apart, and one may    *)
(* die between any two of these steps.                                     *)
(***************************************************************************)
EXTENDS Integers, Sequences, FiniteSets

CONSTANTS
    Operators,     \* who runs the tool, each one invocation at a time
    Versions,      \* version ids that registrations will produce
    Deployments,   \* names given as --k8s-deployment
    DeploymentOf,  \* the k8s_deployment of each version
    NoDeployment,  \* a version registered without one
    NoVersion,     \* no active version, no image set
    Empty,         \* contents of a truncated file
    Garbled,       \* contents of a file that two processes wrote at once
    MaxHistory     \* model bound: entries in the history of a group

Groups == {"stable", "canary"}

Statuses == {"absent", "registered", "active", "canary", "retired", "rolled_back"}

(* An absent version has no entry in "versions". *)
Ledger == [status: [Versions -> Statuses],
           active: [Groups -> Versions \cup {NoVersion}],
           history: [Groups -> Seq([version: Versions, rollback: BOOLEAN])]]

ASSUME RegistryAssumption ==
    /\ DeploymentOf \in [Versions -> Deployments \cup {NoDeployment}]
    /\ NoDeployment \notin Deployments
    /\ NoVersion \notin Versions
    /\ Empty # Garbled
    /\ {Empty, Garbled} \cap Ledger = {}
    /\ MaxHistory \in Nat

VARIABLES
    file,     \* contents of ledger.json
    cli,      \* the running invocation of every operator
    cluster   \* the image of every deployment, named by its version

vars == <<file, cli, cluster>>

EmptyLedger == [status  |-> [v \in Versions |-> "absent"],
                active  |-> [g \in Groups |-> NoVersion],
                history |-> [g \in Groups |-> <<>>]]

Readable == file \notin {Empty, Garbled}

Commands == {"none", "register", "promote", "rollback", "rollback_to"}

(* `read` is the ledger as it was read, `next` as it will be written;      *)
(* `version` is activated for `group`, and applied if `apply` is set.      *)
Invocation == [pc: {"idle", "loaded", "truncated", "saved"},
               command: Commands, group: Groups,
               version: Versions \cup {NoVersion}, apply: BOOLEAN,
               read: Ledger, next: Ledger]

Idle == [pc |-> "idle", command |-> "none", group |-> "stable",
         version |-> NoVersion, apply |-> FALSE,
         read |-> EmptyLedger, next |-> EmptyLedger]

TypeOK ==
    /\ file \in Ledger \cup {Empty, Garbled}
    /\ cli \in [Operators -> Invocation]
    /\ cluster \in [Deployments -> Versions \cup {NoVersion}]

(* A missing file is read as the empty ledger. *)
Init ==
    /\ file = EmptyLedger
    /\ cli = [o \in Operators |-> Idle]
    /\ cluster = [d \in Deployments |-> NoVersion]

-----------------------------------------------------------------------------
(* The ledger that each command computes from the one it has read. *)

Found(L, v) == v \in Versions /\ L.status[v] # "absent"

(* The version that is active for g must be found too, if there is one. *)
ActiveFound(L, g) == L.active[g] = NoVersion \/ Found(L, L.active[g])

Active(L, g, statuses) ==
    {v \in Versions : v = L.active[g] /\ L.status[v] \in statuses}

(* Variant: the version that was active keeps its status. *)
ReplacedNot(L, g, statuses, new) == L

(* The version that was active for g gets its new status. *)
Replaced(L, g, statuses, new) ==
    [L EXCEPT !.status = [v \in Versions |->
        IF v \in Active(L, g, statuses) THEN new ELSE L.status[v]]]

(* Variant: a rollback takes the entry it undoes out of the history. *)
ActivatedPopping(L, v, g, rollback) ==
    [L EXCEPT !.status[v] = IF g = "canary" THEN "canary" ELSE "active",
              !.active[g] = v,
              !.history[g] = IF rollback /\ Len(@) > 1 THEN SubSeq(@, 1, Len(@) - 1)
                             ELSE Append(@, [version |-> v, rollback |-> rollback])]

Activated(L, v, g, rollback) ==
    [L EXCEPT !.status[v] = IF g = "canary" THEN "canary" ELSE "active",
              !.active[g] = v,
              !.history[g] = Append(@, [version |-> v, rollback |-> rollback])]

Registered(L, v) == [L EXCEPT !.status[v] = "registered"]

Promoted(L, v, g) == Activated(Replaced(L, g, {"active"}, "retired"), v, g, FALSE)

(* Variant: the version rolled back to is not entered as active. *)
RolledBackUnlisted(L, v, g) ==
    [Replaced(L, g, {"active", "canary"}, "rolled_back") EXCEPT !.active[g] = v]

RolledBack(L, v, g) ==
    Activated(Replaced(L, g, {"active", "canary"}, "rolled_back"), v, g, TRUE)

Previous(L, g) == L.history[g][Len(L.history[g]) - 1].version

-----------------------------------------------------------------------------
(* An invocation, from the read of the file to kubectl.  One whose command *)
(* is refused (an unreadable file, an unknown version, no earlier version  *)
(* to roll back to) ends without changing anything.                        *)

Loads(o, command, g, v, apply, next) ==
    /\ cli[o].pc = "idle"
    /\ \A h \in Groups : Len(next.history[h]) <= MaxHistory
    /\ cli' = [cli EXCEPT ![o] =
                 [pc |-> "loaded", command |-> command, group |-> g, version |-> v,
                  apply |-> apply, read |-> file, next |-> next]]
    /\ UNCHANGED <<file, cluster>>

(* The time stamp, the hash and the counter in its name keep the new       *)
(* version apart from the ones that were read.                             *)
CmdRegister(o) ==
    /\ Readable
    /\ \E v \in Versions :
          /\ ~Found(file, v)
          /\ Loads(o, "register", "stable", NoVersion, FALSE, Registered(file, v))

CmdPromote(o) ==
    /\ Readable
    /\ \E g \in Groups, v \in Versions, apply \in BOOLEAN :
          /\ Found(file, v)
          /\ ActiveFound(file, g)
          /\ Loads(o, "promote", g, v, apply, Promoted(file, v, g))

CmdRollback(o) ==
    /\ Readable
    /\ \E g \in Groups, apply \in BOOLEAN :
          /\ Len(file.history[g]) >= 2
          /\ LET v == Previous(file, g)
             IN  /\ Found(file, v)
                 /\ ActiveFound(file, g)
                 /\ Loads(o, "rollback", g, v, apply, RolledBack(file, v, g))

(* rollback --to: any registered version, whether it was ever active or not. *)
CmdRollbackTo(o) ==
    /\ Readable
    /\ \E g \in Groups, v \in Versions, apply \in BOOLEAN :
          /\ Found(file, v)
          /\ ActiveFound(file, g)
          /\ Loads(o, "rollback_to", g, v, apply, RolledBack(file, v, g))

(* write_text opens the file for writing, which empties it. *)
Truncate(o) ==
    /\ cli[o].pc = "loaded"
    /\ file' = Empty
    /\ cli' = [cli EXCEPT ![o].pc = "truncated"]
    /\ UNCHANGED cluster

Applies(i) == i.apply /\ DeploymentOf[i.version] # NoDeployment

(* The new contents are written from the start of the file.  What another  *)
(* process wrote meanwhile shows behind them if it is longer.              *)
Write(o) ==
    /\ cli[o].pc = "truncated"
    /\ \/ file' = cli[o].next
       \/ file # Empty /\ file' = Garbled
    /\ cli' = [cli EXCEPT ![o] =
                 IF cli[o].version # NoVersion /\ Applies(cli[o])
                 THEN [@ EXCEPT !.pc = "saved"] ELSE Idle]
    /\ UNCHANGED cluster

(* Variant: kubectl runs while the ledger is still to be written. *)
ApplyK8sEarly(o) ==
    /\ cli[o].pc \in {"loaded", "saved"}
    /\ cli[o].version # NoVersion /\ Applies(cli[o])
    /\ cluster' = [cluster EXCEPT ![DeploymentOf[cli[o].version]] = cli[o].version]
    /\ cli' = [cli EXCEPT ![o] = IF @.pc = "saved" THEN Idle ELSE @]
    /\ UNCHANGED file

(* kubectl set image, which may fail: the ledger is written by then. *)
ApplyK8s(o) ==
    /\ cli[o].pc = "saved"
    /\ \/ cluster' = [cluster EXCEPT ![DeploymentOf[cli[o].version]] = cli[o].version]
       \/ UNCHANGED cluster
    /\ cli' = [cli EXCEPT ![o] = Idle]
    /\ UNCHANGED file

(* The process is killed. *)
Crash(o) ==
    /\ cli[o].pc # "idle"
    /\ cli' = [cli EXCEPT ![o] = Idle]
    /\ UNCHANGED <<file, cluster>>

Next ==
    \E o \in Operators :
        \/ CmdRegister(o) \/ CmdPromote(o) \/ CmdRollback(o) \/ CmdRollbackTo(o)
        \/ Truncate(o) \/ Write(o) \/ ApplyK8s(o) \/ Crash(o)

Spec == Init /\ [][Next]_vars

-----------------------------------------------------------------------------
(* A ledger is coherent: the active version of a group is the last one in  *)
(* its history, and every version that the history names is registered.    *)
ActiveIsLast(L) ==
    \A g \in Groups :
        L.active[g] = IF L.history[g] = <<>> THEN NoVersion
                      ELSE L.history[g][Len(L.history[g])].version

HistoryFound(L) ==
    \A g \in Groups : \A i \in 1..Len(L.history[g]) : Found(L, L.history[g][i].version)

(* No version but the one active for "stable" has the status "active". *)
ActiveIsStable(L) ==
    \A v \in Versions : L.status[v] = "active" => v = L.active["stable"]

(* Whatever the order of commands, interleaved invocations, crashes and    *)
(* failed rollouts, a ledger that can be read is coherent: `active` and    *)
(* `history` agree, and no reference dangles, so that no command is        *)
(* refused for an active version that is not found (registry.py:147-195).  *)
LedgerCoherent == Readable => ActiveIsLast(file) /\ HistoryFound(file)

(* `list` never shows two versions with status "active", nor one that is   *)
(* not the stable group's, although one status field serves both groups    *)
(* and each command corrects the status of one other version at most       *)
(* (registry.py:151-157, 181-187).                                         *)
AtMostOneActive == Readable => ActiveIsStable(file)

(* Every image in the cluster was recorded first: unless the file is       *)
(* unreadable, the version that a deployment runs is in the history of     *)
(* some group (registry.py:163-166, 192-195: the ledger is saved before    *)
(* kubectl runs).                                                          *)
RunningIsRecorded ==
    Readable =>
        \A d \in Deployments :
            cluster[d] # NoVersion =>
                \E g \in Groups : \E i \in 1..Len(file.history[g]) :
                    file.history[g][i].version = cluster[d]

(* The ledger as its users know it: while a process writes the file, it is *)
(* what that process has read.                                             *)
Writing == {o \in Operators : cli[o].pc = "truncated"}

Lost == ~Readable /\ Writing = {}

Known ==
    IF Readable THEN file
    ELSE IF Lost THEN EmptyLedger
    ELSE cli[CHOOSE o \in Writing : TRUE].read

Audited ==
    INSTANCE AuditedLedger WITH
        registered <- {v \in Versions : Known.status[v] # "absent"},
        trail <- [g \in Groups |->
                    [i \in 1..Len(Known.history[g]) |-> Known.history[g][i].version]],
        lost <- Lost

(* The tool implements the audited ledger (registry.py:2-10): each command *)
(* takes effect as a whole, on the newest ledger, and takes nothing away.  *)
LedgerIsAudited == Audited!Spec

(* The ledger that an invocation writes over is not cut: it keeps "every   *)
(* serving configuration that's been registered" (registry.py:2-3), those  *)
(* included that were registered after the invocation had read the file.   *)
VersionsKept ==
    [][\A o \in Operators :
          cli[o].pc = "loaded" /\ cli'[o].pc = "truncated" /\ Readable =>
              \A v \in Versions : Found(file, v) => Found(cli[o].next, v)]_vars

(* Rollback without --to goes to "whatever was active immediately before   *)
(* the bad promotion" (docs/ROLLOUT_STRATEGY.md:67-68), the last promotion *)
(* in the history, also when it is repeated (registry.py:176-178).         *)
LastPromotion(h, p) == ~h[p].rollback /\ \A q \in (p + 1)..Len(h) : h[q].rollback

RollbackUndoesPromotion ==
    [][\A o \in Operators :
          cli[o].pc = "idle" /\ cli'[o].pc = "loaded" /\ cli'[o].command = "rollback" =>
              LET h == file.history[cli'[o].group]
              IN  \A p \in 2..Len(h) :
                      LastPromotion(h, p) => cli'[o].version = h[p - 1].version]_vars

=============================================================================
