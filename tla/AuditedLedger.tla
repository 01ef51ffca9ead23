---------------------------- MODULE AuditedLedger ----------------------------
(***************************************************************************)
(* What the docstring of platform/registry/registry.py promises of its     *)
(* ledger: it holds "every serving configuration that's been registered"   *)
(* and, per traffic group, the trail of versions that were made active,    *)
(* to which each command adds at one end and from which nothing is taken.  *)
(* The one exception is a process that dies inside a write: it may destroy *)
(* the file as a whole, never a part of it.                                *)
(***************************************************************************)
EXTENDS Sequences

CONSTANTS Versions, Groups

VARIABLES
    registered,  \* versions in the ledger
    trail,       \* versions made active, per group, the active one last
    lost         \* the file can no longer be read

vars == <<registered, trail, lost>>

Init ==
    /\ registered = {}
    /\ trail = [g \in Groups |-> <<>>]
    /\ lost = FALSE

Register(v) ==
    /\ ~lost
    /\ registered' = registered \cup {v}
    /\ UNCHANGED <<trail, lost>>

(* Promotion and rollback differ in how v is found, not in the trail. *)
Activate(g, v) ==
    /\ ~lost
    /\ v \in registered
    /\ trail' = [trail EXCEPT ![g] = Append(@, v)]
    /\ UNCHANGED <<registered, lost>>

Lose ==
    /\ lost' = TRUE
    /\ registered' = {}
    /\ trail' = [g \in Groups |-> <<>>]

Next ==
    \/ \E v \in Versions : Register(v) \/ \E g \in Groups : Activate(g, v)
    \/ Lose

Spec == Init /\ [][Next]_vars

=============================================================================
