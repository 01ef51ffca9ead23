--------------------------- MODULE RegistryProofs ---------------------------
(***************************************************************************)
(* Proofs about Registry: its types, and the coherence of every ledger     *)
(* that can be read, for any operators, versions and deployments.          *)
(*                                                                         *)
(* A ledger lives in the file and in the memory of invocations, and a      *)
(* write may bring back one that was computed long ago.  The inductive     *)
(* invariant therefore says of all of them what the theorems say of the    *)
(* file; no step then depends on which ledger is the newest, nor on how    *)
(* invocations interleave.                                                 *)
(***************************************************************************)
EXTENDS Registry, TLAPS

Good(L) == L \in Ledger /\ ActiveIsLast(L) /\ HistoryFound(L) /\ ActiveIsStable(L)

IInv ==
    /\ TypeOK
    /\ Readable => Good(file)
    /\ \A o \in Operators : Good(cli[o].next)

-----------------------------------------------------------------------------
(* The commands keep a ledger good. *)

LEMMA EmptyIsGood == Good(EmptyLedger)
  BY RegistryAssumption DEF Good, EmptyLedger, Ledger, Statuses, ActiveIsLast, HistoryFound,
     ActiveIsStable, Found, Groups, RegistryAssumption

LEMMA RegisteredIsGood ==
    ASSUME NEW L, Good(L), NEW v \in Versions, ~Found(L, v)
    PROVE  Good(Registered(L, v))
  <1> DEFINE M == Registered(L, v)
  <1>1. M \in Ledger
    BY DEF Good, Registered, Ledger, Statuses
  <1>2. M.active = L.active /\ M.history = L.history
    BY DEF Good, Registered, Ledger
  <1>3. \A w \in Versions : M.status[w] = IF w = v THEN "registered" ELSE L.status[w]
    BY DEF Good, Registered, Ledger
  <1>4. \A w : Found(L, w) => Found(M, w)
    BY <1>3 DEF Found
  <1> HIDE DEF M
  <1>5. ActiveIsLast(M)
    BY <1>2 DEF Good, ActiveIsLast
  <1>6. HistoryFound(M)
    BY <1>2, <1>4 DEF Good, HistoryFound
  <1>7. ActiveIsStable(M)
    BY <1>2, <1>3 DEF Good, ActiveIsStable
  <1> QED BY <1>1, <1>5, <1>6, <1>7 DEF Good, M

LEMMA AppendInSeq ==
    ASSUME NEW S, NEW s \in Seq(S), NEW e \in S
    PROVE  Append(s, e) \in Seq(S)
  OBVIOUS

(* What a promotion and a rollback have in common. *)
LEMMA ActivatedIsGood ==
    ASSUME NEW L, Good(L), NEW g \in Groups, NEW v \in Versions, Found(L, v),
           NEW statuses, "active" \in statuses,
           NEW new \in Statuses \ {"absent", "active"}, NEW rollback \in BOOLEAN
    PROVE  Good(Activated(Replaced(L, g, statuses, new), v, g, rollback))
  <1> DEFINE R == Replaced(L, g, statuses, new)
             M == Activated(R, v, g, rollback)
             entry == [version |-> v, rollback |-> rollback]
             H == Seq([version: Versions, rollback: BOOLEAN])
  <1>1. /\ R \in Ledger
        /\ R.active = L.active
        /\ R.history = L.history
        /\ \A w \in Versions :
              R.status[w] = IF w = L.active[g] /\ L.status[w] \in statuses
                            THEN new ELSE L.status[w]
    BY DEF Good, Replaced, Active, Ledger
  <1> HIDE DEF R
  <1>2. /\ M.status = [R.status EXCEPT ![v] = IF g = "canary" THEN "canary" ELSE "active"]
        /\ M.active = [R.active EXCEPT ![g] = v]
        /\ M.history = [R.history EXCEPT ![g] = Append(@, entry)]
    BY <1>1 DEF Activated, Ledger
  <1>3. /\ R.status \in [Versions -> Statuses]
        /\ R.active \in [Groups -> Versions \cup {NoVersion}]
        /\ R.history \in [Groups -> H]
    BY <1>1 DEF Ledger
  <1>4. M \in Ledger
    <2>1. entry \in [version: Versions, rollback: BOOLEAN]
      OBVIOUS
    <2>2. Append(R.history[g], entry) \in H
      BY <2>1, <1>3, AppendInSeq
    <2>3. M.history \in [Groups -> H]
      BY <1>2, <1>3, <2>2
    <2>4. M.status \in [Versions -> Statuses]
      BY <1>2, <1>3 DEF Statuses
    <2>5. M.active \in [Groups -> Versions \cup {NoVersion}]
      BY <1>2, <1>3
    <2> DEFINE st == [R.status EXCEPT ![v] = IF g = "canary" THEN "canary" ELSE "active"]
               ac == [R.active EXCEPT ![g] = v]
               hi == [R.history EXCEPT ![g] = Append(@, entry)]
    <2>6. M = [[[R EXCEPT !.status = st] EXCEPT !.active = ac] EXCEPT !.history = hi]
      BY DEF Activated
    <2>7. st \in [Versions -> Statuses]
          /\ ac \in [Groups -> Versions \cup {NoVersion}]
          /\ hi \in [Groups -> H]
      BY <1>2, <2>3, <2>4, <2>5
    <2> HIDE DEF st, ac, hi, M
    <2> QED BY <1>1, <2>6, <2>7 DEF Ledger
  <1>5. \A w : Found(L, w) => Found(M, w)
    BY <1>1, <1>2, <1>3 DEF Found
  <1>6. \A h \in Groups \ {g} : M.active[h] = L.active[h] /\ M.history[h] = L.history[h]
    BY <1>1, <1>2, <1>3
  <1>7. /\ M.active[g] = v
        /\ L.history[g] \in H
        /\ M.history[g] = Append(L.history[g], entry)
    BY <1>1, <1>2, <1>3
  <1>8. M.status[v] = (IF g = "canary" THEN "canary" ELSE "active")
        /\ \A w \in Versions \ {v} : M.status[w] = R.status[w]
    BY <1>2, <1>3
  <1> HIDE DEF M
  <1>9. ActiveIsLast(M)
    <2> SUFFICES ASSUME NEW h \in Groups
                 PROVE  M.active[h] = IF M.history[h] = <<>> THEN NoVersion
                                      ELSE M.history[h][Len(M.history[h])].version
      BY DEF ActiveIsLast
    <2>1. CASE h = g
      <3>1. /\ M.history[g] # <<>>
            /\ M.history[g][Len(M.history[g])] = entry
        BY <1>7
      <3> QED BY <2>1, <1>7, <3>1
    <2>2. CASE h # g
      BY <2>2, <1>6 DEF Good, ActiveIsLast
    <2> QED BY <2>1, <2>2
  <1>10. HistoryFound(M)
    <2> SUFFICES ASSUME NEW h \in Groups, NEW i \in 1..Len(M.history[h])
                 PROVE  Found(M, M.history[h][i].version)
      BY DEF HistoryFound
    <2>1. CASE h = g /\ i \in 1..Len(L.history[g])
      <3>1. M.history[g][i] = L.history[g][i]
        BY <2>1, <1>7
      <3> QED BY <2>1, <3>1, <1>5 DEF Good, HistoryFound
    <2>2. CASE h = g /\ i \notin 1..Len(L.history[g])
      <3>1. M.history[g][i] = entry
        BY <2>2, <1>7
      <3> QED BY <2>2, <3>1, <1>5
    <2>3. CASE h # g
      BY <2>3, <1>5, <1>6 DEF Good, HistoryFound
    <2> QED BY <2>1, <2>2, <2>3
  <1>11. ActiveIsStable(M)
    <2> SUFFICES ASSUME NEW w \in Versions, M.status[w] = "active"
                 PROVE  w = M.active["stable"]
      BY DEF ActiveIsStable
    <2>1. CASE w = v
      BY <2>1, <1>7, <1>8 DEF Groups
    <2>2. CASE w # v
      <3>1. R.status[w] = "active"
        BY <2>2, <1>8
      <3>2. L.status[w] = "active" /\ w # L.active[g]
        BY <3>1, <1>1
      <3>3. w = L.active["stable"]
        BY <3>2 DEF Good, ActiveIsStable
      <3> QED BY <3>2, <3>3, <1>6 DEF Groups
    <2> QED BY <2>1, <2>2
  <1> QED BY <1>4, <1>9, <1>10, <1>11 DEF Good, M, R

LEMMA PromotedIsGood ==
    ASSUME NEW L, Good(L), NEW g \in Groups, NEW v \in Versions, Found(L, v)
    PROVE  Good(Promoted(L, v, g))
  BY ActivatedIsGood DEF Promoted, Statuses

LEMMA RolledBackIsGood ==
    ASSUME NEW L, Good(L), NEW g \in Groups, NEW v \in Versions, Found(L, v)
    PROVE  Good(RolledBack(L, v, g))
  BY ActivatedIsGood DEF RolledBack, Statuses

-----------------------------------------------------------------------------
(* The steps of an invocation. *)

LEMMA ReadableFile ==
    ASSUME IInv, Readable
    PROVE  file \in Ledger /\ Good(file)
  BY DEF IInv, TypeOK, Readable

LEMMA IdleIsFine == Idle \in Invocation /\ Good(Idle.next)
  BY EmptyIsGood DEF Idle, Invocation, Commands, Groups, Good

LEMMA LoadsKeeps ==
    ASSUME IInv, Readable, NEW o \in Operators, NEW command \in Commands,
           NEW g \in Groups, NEW v \in Versions \cup {NoVersion}, NEW apply \in BOOLEAN,
           NEW next, Good(next), Loads(o, command, g, v, apply, next)
    PROVE  IInv'
  <1> DEFINE inv == [pc |-> "loaded", command |-> command, group |-> g, version |-> v,
                     apply |-> apply, read |-> file, next |-> next]
  <1>1. inv \in Invocation
    BY ReadableFile DEF Invocation, Good
  <1>2. cli' = [cli EXCEPT ![o] = inv] /\ file' = file /\ cluster' = cluster
    BY DEF Loads
  <1>3. inv.next = next
    OBVIOUS
  <1> HIDE DEF inv
  <1>4. TypeOK'
    BY <1>1, <1>2 DEF IInv, TypeOK
  <1>5. \A p \in Operators : cli'[p] = IF p = o THEN inv ELSE cli[p]
    BY <1>2 DEF IInv, TypeOK
  <1>6. \A p \in Operators : Good(cli'[p].next)
    BY <1>3, <1>5 DEF IInv
  <1>7. (Readable => Good(file))'
    BY <1>2 DEF IInv, Readable
  <1> QED BY <1>4, <1>6, <1>7 DEF IInv

LEMMA RegisterKeeps ==
    ASSUME IInv, NEW o \in Operators, CmdRegister(o)
    PROVE  IInv'
  <1>1. Readable /\ Good(file)
    BY ReadableFile DEF CmdRegister
  <1>2. PICK v \in Versions :
            ~Found(file, v)
            /\ Loads(o, "register", "stable", NoVersion, FALSE, Registered(file, v))
    BY DEF CmdRegister
  <1>3. Good(Registered(file, v))
    BY <1>1, <1>2, RegisteredIsGood
  <1> QED BY <1>1, <1>2, <1>3, LoadsKeeps DEF Commands, Groups

LEMMA PromoteKeeps ==
    ASSUME IInv, NEW o \in Operators, CmdPromote(o)
    PROVE  IInv'
  <1>1. Readable /\ Good(file)
    BY ReadableFile DEF CmdPromote
  <1>2. PICK g \in Groups, v \in Versions, apply \in BOOLEAN :
            Found(file, v) /\ Loads(o, "promote", g, v, apply, Promoted(file, v, g))
    BY DEF CmdPromote
  <1>3. Good(Promoted(file, v, g))
    BY <1>1, <1>2, PromotedIsGood
  <1> QED BY <1>1, <1>2, <1>3, LoadsKeeps DEF Commands

LEMMA RollbackKeeps ==
    ASSUME IInv, NEW o \in Operators, CmdRollback(o)
    PROVE  IInv'
  <1>1. Readable /\ Good(file)
    BY ReadableFile DEF CmdRollback
  <1>2. PICK g \in Groups, apply \in BOOLEAN :
            LET v == Previous(file, g)
            IN  Found(file, v) /\ Loads(o, "rollback", g, v, apply, RolledBack(file, v, g))
    BY DEF CmdRollback
  <1>3. PICK v : v = Previous(file, g)
    OBVIOUS
  <1>4. Found(file, v) /\ v \in Versions
        /\ Loads(o, "rollback", g, v, apply, RolledBack(file, v, g))
    BY <1>2, <1>3 DEF Found
  <1>5. Good(RolledBack(file, v, g))
    BY <1>1, <1>4, RolledBackIsGood
  <1> QED BY <1>1, <1>4, <1>5, LoadsKeeps DEF Commands

LEMMA RollbackToKeeps ==
    ASSUME IInv, NEW o \in Operators, CmdRollbackTo(o)
    PROVE  IInv'
  <1>1. Readable /\ Good(file)
    BY ReadableFile DEF CmdRollbackTo
  <1>2. PICK g \in Groups, v \in Versions, apply \in BOOLEAN :
            Found(file, v) /\ Loads(o, "rollback_to", g, v, apply, RolledBack(file, v, g))
    BY DEF CmdRollbackTo
  <1>3. Good(RolledBack(file, v, g))
    BY <1>1, <1>2, RolledBackIsGood
  <1> QED BY <1>1, <1>2, <1>3, LoadsKeeps DEF Commands

LEMMA TruncateKeeps ==
    ASSUME IInv, NEW o \in Operators, Truncate(o)
    PROVE  IInv'
  <1>1. /\ cli' = [cli EXCEPT ![o] = [cli[o] EXCEPT !.pc = "truncated"]]
        /\ file' = Empty
        /\ cluster' = cluster
    BY DEF Truncate, IInv, TypeOK
  <1>2. /\ [cli[o] EXCEPT !.pc = "truncated"] \in Invocation
        /\ [cli[o] EXCEPT !.pc = "truncated"].next = cli[o].next
    BY DEF IInv, TypeOK, Invocation
  <1>3. TypeOK'
    BY <1>1, <1>2 DEF IInv, TypeOK
  <1>4. \A p \in Operators : cli'[p].next = cli[p].next
    BY <1>1, <1>2 DEF IInv, TypeOK
  <1> QED BY <1>1, <1>3, <1>4 DEF IInv, Readable

(* The step that ends an invocation, or leaves it to kubectl, writes a     *)
(* ledger that was good when it was computed.                              *)
LEMMA WriteKeeps ==
    ASSUME IInv, NEW o \in Operators, Write(o)
    PROVE  IInv'
  <1> DEFINE then == IF cli[o].version # NoVersion /\ Applies(cli[o])
                     THEN [cli[o] EXCEPT !.pc = "saved"] ELSE Idle
  <1>1. /\ cli' = [cli EXCEPT ![o] = then]
        /\ cluster' = cluster
        /\ file' = cli[o].next \/ file' = Garbled
    BY DEF Write, IInv, TypeOK
  <1>2. /\ [cli[o] EXCEPT !.pc = "saved"] \in Invocation
        /\ [cli[o] EXCEPT !.pc = "saved"].next = cli[o].next
    BY DEF IInv, TypeOK, Invocation
  <1>3. then \in Invocation /\ Good(then.next)
    BY <1>2, IdleIsFine DEF IInv
  <1> HIDE DEF then
  <1>4. file' \in Ledger \cup {Empty, Garbled}
    BY <1>1 DEF IInv, Good
  <1>5. TypeOK'
    BY <1>1, <1>3, <1>4 DEF IInv, TypeOK
  <1>6. \A p \in Operators : Good(cli'[p].next)
    BY <1>1, <1>3 DEF IInv, TypeOK
  <1>7. (Readable => Good(file))'
    BY <1>1 DEF IInv, Readable
  <1> QED BY <1>5, <1>6, <1>7 DEF IInv

LEMMA EndsKeeps ==
    ASSUME IInv, NEW o \in Operators, cli' = [cli EXCEPT ![o] = Idle],
           file' = file, cluster' \in [Deployments -> Versions \cup {NoVersion}]
    PROVE  IInv'
  <1>1. TypeOK'
    BY IdleIsFine DEF IInv, TypeOK
  <1>2. \A p \in Operators : Good(cli'[p].next)
    BY IdleIsFine DEF IInv, TypeOK
  <1> QED BY <1>1, <1>2 DEF IInv, Readable

LEMMA ApplyK8sKeeps ==
    ASSUME IInv, NEW o \in Operators, ApplyK8s(o)
    PROVE  IInv'
  <1>1. cli[o].version \in Versions \cup {NoVersion}
    BY DEF IInv, TypeOK, Invocation
  <1>2. cluster' \in [Deployments -> Versions \cup {NoVersion}]
    BY <1>1 DEF ApplyK8s, IInv, TypeOK
  <1> QED BY <1>2, EndsKeeps DEF ApplyK8s

LEMMA CrashKeeps ==
    ASSUME IInv, NEW o \in Operators, Crash(o)
    PROVE  IInv'
  BY EndsKeeps DEF Crash, IInv, TypeOK

-----------------------------------------------------------------------------
(* The invariant holds initially and is kept by every step. *)
THEOREM Invariance == Spec => []IInv
  <1>1. Init => IInv
    <2> SUFFICES ASSUME Init PROVE IInv
      OBVIOUS
    <2>1. TypeOK
      BY EmptyIsGood, IdleIsFine DEF Init, TypeOK, Good
    <2>2. \A o \in Operators : Good(cli[o].next)
      BY IdleIsFine DEF Init
    <2> QED BY <2>1, <2>2, EmptyIsGood DEF IInv, Init
  <1>2. IInv /\ [Next]_vars => IInv'
    <2> SUFFICES ASSUME IInv, [Next]_vars PROVE IInv'
      OBVIOUS
    <2>1. CASE UNCHANGED vars
      BY <2>1 DEF vars, IInv, TypeOK, Readable
    <2>2. CASE Next
      BY <2>2, RegisterKeeps, PromoteKeeps, RollbackKeeps, RollbackToKeeps,
         TruncateKeeps, WriteKeeps, ApplyK8sKeeps, CrashKeeps DEF Next
    <2> QED BY <2>1, <2>2
  <1> QED BY <1>1, <1>2, PTL DEF Spec

(* Every variable keeps its type: in particular every ledger that is       *)
(* written can be read back, unless two processes write at once.           *)
THEOREM RegistryTypes == Spec => []TypeOK
  BY Invariance, PTL DEF IInv

(* In a ledger that can be read, `active` and `history` agree and name     *)
(* registered versions only, for any number of concurrent invocations.     *)
THEOREM Coherence == Spec => []LedgerCoherent
  <1>1. IInv => LedgerCoherent
    BY DEF IInv, Good, LedgerCoherent
  <1> QED BY <1>1, Invariance, PTL

(* Only the version that is active for "stable" has the status "active".   *)
THEOREM OneActive == Spec => []AtMostOneActive
  <1>1. IInv => AtMostOneActive
    BY DEF IInv, Good, AtMostOneActive
  <1> QED BY <1>1, Invariance, PTL

-----------------------------------------------------------------------------
(* One invocation at a time.  The tool has nothing that keeps invocations  *)
(* apart, and two that overlap do break what follows (VersionsKept is      *)
(* violated by two operators); a single operator's commands follow one     *)
(* another, and then only crashes and failing rollouts are left to fear.   *)
OneOperator == \A o, p \in Operators : o = p

Ids(L) == {v \in Versions : L.status[v] # "absent"}

TrailOf(h) == [i \in 1..Len(h) |-> h[i].version]

Trail(L) == [g \in Groups |-> TrailOf(L.history[g])]

Recorded(L, v) ==
    \E g \in Groups : \E i \in 1..Len(L.history[g]) : L.history[g][i].version = v

(* M is L after one command that activates v, or after a registration. *)
Follows(L, M, v) ==
    /\ \A w \in Versions : Recorded(L, w) => Recorded(M, w)
    /\ IF v = NoVersion
       THEN \E w \in Versions : Ids(M) = Ids(L) \cup {w} /\ Trail(M) = Trail(L)
       ELSE /\ v \in Ids(L)
            /\ Recorded(M, v)
            /\ Ids(M) = Ids(L)
            /\ \E g \in Groups : Trail(M) = [Trail(L) EXCEPT ![g] = Append(@, v)]

InCluster == {cluster[d] : d \in Deployments} \ {NoVersion}

AllRecorded(L) == \A v \in InCluster : Recorded(L, v)

(* What the invocation of the only operator knows about the file. *)
InvocationOk(i) ==
    /\ i.pc \in {"loaded", "truncated"} =>
          AllRecorded(i.read) /\ Follows(i.read, i.next, i.version)
    /\ i.pc = "loaded" => file = i.read
    /\ i.pc = "truncated" => file = Empty
    /\ i.pc = "saved" => Readable /\ i.version # NoVersion /\ Recorded(file, i.version)

SoleInv ==
    /\ Readable => AllRecorded(file)
    /\ \A o \in Operators : InvocationOk(cli[o])

LEMMA TrailAppended ==
    ASSUME NEW H, NEW h \in Seq(H), NEW e \in H
    PROVE  TrailOf(Append(h, e)) = Append(TrailOf(h), e.version)
  BY DEF TrailOf

LEMMA TrailEmpty == TrailOf(<<>>) = <<>>
  BY DEF TrailOf

LEMMA RegistrationFollows ==
    ASSUME NEW L, Good(L), NEW v \in Versions, ~Found(L, v)
    PROVE  Follows(L, Registered(L, v), NoVersion)
  <1> DEFINE M == Registered(L, v)
  <1>1. M.history = L.history
    BY DEF Good, Registered, Ledger
  <1>2. \A w \in Versions : M.status[w] = IF w = v THEN "registered" ELSE L.status[w]
    BY DEF Good, Registered, Ledger
  <1> HIDE DEF M
  <1>3. Ids(M) = Ids(L) \cup {v}
    BY <1>2 DEF Ids
  <1>4. Trail(M) = Trail(L)
    BY <1>1 DEF Trail
  <1>5. \A w \in Versions : Recorded(L, w) => Recorded(M, w)
    BY <1>1 DEF Recorded
  <1> QED BY <1>3, <1>4, <1>5 DEF Follows, M

LEMMA ActivationFollows ==
    ASSUME NEW L, Good(L), NEW g \in Groups, NEW v \in Versions, Found(L, v),
           NEW statuses, NEW new \in Statuses \ {"absent", "active"},
           "absent" \notin statuses, NEW rollback \in BOOLEAN
    PROVE  Follows(L, Activated(Replaced(L, g, statuses, new), v, g, rollback), v)
  <1> DEFINE R == Replaced(L, g, statuses, new)
             M == Activated(R, v, g, rollback)
             entry == [version |-> v, rollback |-> rollback]
             H == [version: Versions, rollback: BOOLEAN]
  <1>1. /\ R \in Ledger
        /\ R.history = L.history
        /\ \A w \in Versions :
              R.status[w] = IF w = L.active[g] /\ L.status[w] \in statuses
                            THEN new ELSE L.status[w]
    BY DEF Good, Replaced, Active, Ledger
  <1> HIDE DEF R
  <1>2. /\ M.status = [R.status EXCEPT ![v] = IF g = "canary" THEN "canary" ELSE "active"]
        /\ M.history = [R.history EXCEPT ![g] = Append(@, entry)]
    BY <1>1 DEF Activated, Ledger
  <1>3. /\ R.status \in [Versions -> Statuses]
        /\ R.history \in [Groups -> Seq(H)]
        /\ L.history \in [Groups -> Seq(H)]
    BY <1>1 DEF Ledger
  <1>4. /\ \A h \in Groups \ {g} : M.history[h] = L.history[h]
        /\ M.history[g] = Append(L.history[g], entry)
        /\ entry \in H
        /\ entry.version = v
    BY <1>1, <1>2, <1>3
  <1>5. \A w \in Versions : M.status[w] # "absent" <=> L.status[w] # "absent"
    BY <1>1, <1>2, <1>3 DEF Found
  <1> HIDE DEF M, entry, H
  <1>6. Ids(M) = Ids(L) /\ v \in Ids(L)
    BY <1>5 DEF Ids, Found
  <1>7. Trail(M) = [Trail(L) EXCEPT ![g] = Append(@, v)]
    <2>1. TrailOf(M.history[g]) = Append(TrailOf(L.history[g]), v)
      BY <1>3, <1>4, TrailAppended
    <2>2. \A h \in Groups \ {g} : TrailOf(M.history[h]) = TrailOf(L.history[h])
      BY <1>4
    <2> QED BY <2>1, <2>2 DEF Trail
  <1>8. Recorded(M, v)
    <2>1. /\ Len(M.history[g]) \in 1..Len(M.history[g])
          /\ M.history[g][Len(M.history[g])].version = v
      BY <1>3, <1>4
    <2> QED BY <2>1 DEF Recorded
  <1>9. ASSUME NEW w \in Versions, Recorded(L, w) PROVE Recorded(M, w)
    <2>0. PICK h \in Groups : \E i \in 1..Len(L.history[h]) : L.history[h][i].version = w
      BY <1>9 DEF Recorded
    <2>1. PICK i \in 1..Len(L.history[h]) : L.history[h][i].version = w
      BY <2>0
    <2>2. L.history[h] \in Seq(H)
      BY <1>3
    <2>3. i \in 1..Len(M.history[h]) /\ M.history[h][i] = L.history[h][i]
      <3>1. CASE h = g
        BY <3>1, <2>2, <1>4
      <3>2. CASE h # g
        BY <3>2, <1>4
      <3> QED BY <3>1, <3>2
    <2> QED BY <2>1, <2>3 DEF Recorded
  <1>10. v # NoVersion
    BY RegistryAssumption DEF RegistryAssumption
  <1> QED BY <1>6, <1>7, <1>8, <1>9, <1>10 DEF Follows, M, R

(* An invocation begins with what it read and what it will write. *)
LEMMA LoadsFollow ==
    ASSUME IInv, Readable, NEW o \in Operators, NEW command, NEW g,
           NEW v \in Versions \cup {NoVersion}, NEW apply,
           NEW next, Follows(file, next, v), Loads(o, command, g, v, apply, next)
    PROVE  /\ file' = file
           /\ cluster' = cluster
           /\ \A p \in Operators \ {o} : cli'[p] = cli[p]
           /\ cli[o].pc = "idle"
           /\ cli'[o].pc = "loaded"
           /\ cli'[o].read = file
           /\ Follows(file, cli'[o].next, cli'[o].version)
  BY DEF Loads, IInv, TypeOK

CommandStep(o) == CmdRegister(o) \/ CmdPromote(o) \/ CmdRollback(o) \/ CmdRollbackTo(o)

LEMMA CommandFollows ==
    ASSUME IInv, NEW o \in Operators, CommandStep(o)
    PROVE  /\ Readable
           /\ file' = file
           /\ cluster' = cluster
           /\ \A p \in Operators \ {o} : cli'[p] = cli[p]
           /\ cli[o].pc = "idle"
           /\ cli'[o].pc = "loaded"
           /\ cli'[o].read = file
           /\ Follows(file, cli'[o].next, cli'[o].version)
  <1>1. Readable /\ Good(file)
    BY ReadableFile DEF CommandStep, CmdRegister, CmdPromote, CmdRollback, CmdRollbackTo
  <1>2. CASE CmdRegister(o)
    <2>1. PICK v \in Versions :
              ~Found(file, v)
              /\ Loads(o, "register", "stable", NoVersion, FALSE, Registered(file, v))
      BY <1>2 DEF CmdRegister
    <2>2. Follows(file, Registered(file, v), NoVersion)
      BY <1>1, <2>1, RegistrationFollows
    <2> QED BY <1>1, <2>1, <2>2, LoadsFollow
  <1>3. CASE CmdPromote(o)
    <2>1. PICK g \in Groups, v \in Versions, apply \in BOOLEAN :
              Found(file, v) /\ Loads(o, "promote", g, v, apply, Promoted(file, v, g))
      BY <1>3 DEF CmdPromote
    <2>2. Follows(file, Promoted(file, v, g), v)
      BY <1>1, <2>1, ActivationFollows DEF Promoted, Statuses
    <2> QED BY <1>1, <2>1, <2>2, LoadsFollow
  <1>4. CASE CmdRollback(o)
    <2>1. PICK g \in Groups, apply \in BOOLEAN :
              LET v == Previous(file, g)
              IN  Found(file, v) /\ Loads(o, "rollback", g, v, apply, RolledBack(file, v, g))
      BY <1>4 DEF CmdRollback
    <2>2. PICK v : v = Previous(file, g)
      OBVIOUS
    <2>3. Found(file, v) /\ v \in Versions
          /\ Loads(o, "rollback", g, v, apply, RolledBack(file, v, g))
      BY <2>1, <2>2 DEF Found
    <2>4. Follows(file, RolledBack(file, v, g), v)
      BY <1>1, <2>3, ActivationFollows DEF RolledBack, Statuses
    <2> QED BY <1>1, <2>3, <2>4, LoadsFollow
  <1>5. CASE CmdRollbackTo(o)
    <2>1. PICK g \in Groups, v \in Versions, apply \in BOOLEAN :
              Found(file, v) /\ Loads(o, "rollback_to", g, v, apply, RolledBack(file, v, g))
      BY <1>5 DEF CmdRollbackTo
    <2>2. Follows(file, RolledBack(file, v, g), v)
      BY <1>1, <2>1, ActivationFollows DEF RolledBack, Statuses
    <2> QED BY <1>1, <2>1, <2>2, LoadsFollow
  <1> QED BY <1>2, <1>3, <1>4, <1>5 DEF CommandStep

(* The steps after it. *)
LEMMA TruncateFollows ==
    ASSUME IInv, NEW o \in Operators, Truncate(o)
    PROVE  /\ file' = Empty
           /\ cluster' = cluster
           /\ cli[o].pc = "loaded"
           /\ cli'[o].pc = "truncated"
           /\ cli'[o].read = cli[o].read
           /\ cli'[o].next = cli[o].next
           /\ cli'[o].version = cli[o].version
  BY DEF Truncate, IInv, TypeOK, Invocation

LEMMA WriteFollows ==
    ASSUME IInv, NEW o \in Operators, Write(o), file = Empty
    PROVE  /\ file' = cli[o].next
           /\ Readable'
           /\ cluster' = cluster
           /\ cli[o].pc = "truncated"
           /\ \/ cli'[o].pc = "idle"
              \/ /\ cli'[o].pc = "saved"
                 /\ cli'[o].version = cli[o].version
                 /\ cli[o].version # NoVersion
  <1>1. cli[o].next \in Ledger
    BY DEF IInv, TypeOK, Invocation
  <1>2. Readable'
    BY <1>1, RegistryAssumption DEF Write, Readable, RegistryAssumption
  <1>3. CASE cli[o].version # NoVersion /\ Applies(cli[o])
    BY <1>2, <1>3 DEF Write, IInv, TypeOK, Invocation
  <1>4. CASE ~(cli[o].version # NoVersion /\ Applies(cli[o]))
    BY <1>2, <1>4 DEF Write, IInv, TypeOK, Idle
  <1> QED BY <1>3, <1>4

LEMMA ApplyK8sFollows ==
    ASSUME IInv, NEW o \in Operators, ApplyK8s(o)
    PROVE  /\ file' = file
           /\ cli[o].pc = "saved"
           /\ cli'[o].pc = "idle"
           /\ InCluster' \subseteq InCluster \cup {cli[o].version}
  <1>1. file' = file /\ cli[o].pc = "saved" /\ cli'[o].pc = "idle"
    BY DEF ApplyK8s, IInv, TypeOK, Idle
  <1>2. CASE cluster' = [cluster EXCEPT ![DeploymentOf[cli[o].version]] = cli[o].version]
    BY <1>1, <1>2 DEF InCluster, IInv, TypeOK
  <1>3. CASE cluster' = cluster
    BY <1>1, <1>3 DEF InCluster
  <1> QED BY <1>1, <1>2, <1>3 DEF ApplyK8s

LEMMA CrashFollows ==
    ASSUME IInv, NEW o \in Operators, Crash(o)
    PROVE  file' = file /\ cluster' = cluster /\ cli[o].pc # "idle" /\ cli'[o].pc = "idle"
  BY DEF Crash, IInv, TypeOK, Idle

LEMMA SoleStep ==
    ASSUME OneOperator, IInv, SoleInv, Next
    PROVE  SoleInv'
  <1>1. PICK o \in Operators :
            CommandStep(o) \/ Truncate(o) \/ Write(o) \/ ApplyK8s(o) \/ Crash(o)
    BY DEF Next, CommandStep
  <1>2. SUFFICES (Readable => AllRecorded(file))' /\ InvocationOk(cli[o])'
    BY DEF SoleInv, OneOperator
  <1>3. InvocationOk(cli[o]) /\ (Readable => AllRecorded(file))
    BY DEF SoleInv
  <1>4. CASE CommandStep(o)
    <2>1. AllRecorded(file)' /\ InCluster' = InCluster
      BY <1>3, <1>4, CommandFollows DEF AllRecorded, InCluster
    <2>2. AllRecorded(cli[o].read)'
      BY <2>1, <1>4, CommandFollows DEF AllRecorded
    <2> QED BY <2>1, <2>2, <1>4, CommandFollows DEF InvocationOk
  <1>5. CASE Truncate(o)
    <2>1. AllRecorded(cli[o].read)'
      BY <1>3, <1>5, TruncateFollows DEF InvocationOk, AllRecorded, InCluster
    <2> QED BY <2>1, <1>3, <1>5, TruncateFollows DEF InvocationOk, Readable
  <1>6. CASE Write(o)
    <2>1. cli[o].pc = "truncated" /\ file = Empty
      BY <1>3, <1>6 DEF Write, InvocationOk
    <2>2. Follows(cli[o].read, cli[o].next, cli[o].version) /\ AllRecorded(cli[o].read)
      BY <1>3, <2>1 DEF InvocationOk
    <2>3. InCluster \subseteq Versions
      BY DEF InCluster, IInv, TypeOK
    <2>4. \A v \in InCluster : Recorded(cli[o].next, v)
      BY <2>2, <2>3 DEF Follows, AllRecorded
    <2>5. AllRecorded(file)'
      BY <2>1, <2>4, <1>6, WriteFollows DEF AllRecorded, InCluster
    <2> QED BY <2>1, <2>2, <2>5, <1>6, WriteFollows DEF InvocationOk, Follows
  <1>7. CASE ApplyK8s(o)
    <2>1. Readable /\ Recorded(file, cli[o].version) /\ AllRecorded(file)
      BY <1>3, <1>7, ApplyK8sFollows DEF InvocationOk
    <2>2. AllRecorded(file)'
      BY <2>1, <1>7, ApplyK8sFollows DEF AllRecorded
    <2> QED BY <2>2, <1>7, ApplyK8sFollows DEF InvocationOk
  <1>8. CASE Crash(o)
    <2>1. (Readable => AllRecorded(file))'
      BY <1>3, <1>8, CrashFollows DEF Readable, AllRecorded, InCluster
    <2> QED BY <2>1, <1>8, CrashFollows DEF InvocationOk
  <1> QED BY <1>1, <1>4, <1>5, <1>6, <1>7, <1>8

LEMMA SoleInvariance ==
    ASSUME OneOperator
    PROVE  Spec => [](IInv /\ SoleInv)
  <1>1. Init => SoleInv
    <2> SUFFICES ASSUME Init PROVE SoleInv
      OBVIOUS
    <2>1. InCluster = {}
      BY DEF Init, InCluster
    <2>2. \A o \in Operators : InvocationOk(cli[o])
      BY DEF Init, Idle, InvocationOk
    <2> QED BY <2>1, <2>2 DEF SoleInv, AllRecorded
  <1>2. IInv /\ SoleInv /\ [Next]_vars => SoleInv'
    <2>1. ASSUME SoleInv, UNCHANGED vars PROVE SoleInv'
      BY <2>1 DEF vars, SoleInv, InvocationOk, AllRecorded, InCluster, Readable
    <2> QED BY <2>1, SoleStep
  <1> QED BY <1>1, <1>2, Invariance, PTL DEF Spec

(* A single operator's cluster runs recorded versions only, whatever the   *)
(* commands, crashes and failures of kubectl: cmd_promote and cmd_rollback *)
(* save before they apply (registry.py:163-166, 192-195).                  *)
THEOREM ClusterIsRecorded ==
    ASSUME OneOperator
    PROVE  Spec => []RunningIsRecorded
  <1>1. IInv /\ SoleInv => RunningIsRecorded
    <2> SUFFICES ASSUME SoleInv, Readable, NEW d \in Deployments, cluster[d] # NoVersion
                 PROVE  Recorded(file, cluster[d])
      BY DEF RunningIsRecorded, Recorded
    <2> QED BY DEF SoleInv, AllRecorded, InCluster
  <1> QED BY <1>1, SoleInvariance, PTL

(* What concurrent operators lose, one operator keeps: the ledger that a   *)
(* command writes has every version that the file had (registry.py:2-3).   *)
THEOREM SoleOperatorKeepsVersions ==
    ASSUME OneOperator
    PROVE  Spec => VersionsKept
  <1>1. ASSUME IInv, SoleInv, NEW o \in Operators, cli[o].pc = "loaded",
               NEW v \in Versions, Found(file, v)
        PROVE  Found(cli[o].next, v)
    <2>1. file = cli[o].read /\ Follows(file, cli[o].next, cli[o].version)
      BY <1>1 DEF SoleInv, InvocationOk
    <2> QED BY <1>1, <2>1 DEF Follows, Ids, Found
  <1>2. IInv /\ SoleInv => [\A o \in Operators :
            cli[o].pc = "loaded" /\ cli'[o].pc = "truncated" /\ Readable =>
                \A v \in Versions : Found(file, v) => Found(cli[o].next, v)]_vars
    BY <1>1
  <1> QED BY <1>2, SoleInvariance, PTL DEF VersionsKept

-----------------------------------------------------------------------------
(* The refinement of AuditedLedger.  A command takes effect when its write *)
(* does; between the truncation and the write the ledger that users know   *)
(* is the one in the memory of the process that writes.                    *)
LEMMA KnownLedger ==
    ASSUME OneOperator, NEW o \in Operators
    PROVE  /\ Readable => ~Lost /\ Known = file
           /\ ~Readable /\ cli[o].pc = "truncated" => ~Lost /\ Known = cli[o].read
           /\ ~Readable /\ cli[o].pc # "truncated" => Lost /\ Known = EmptyLedger
  BY DEF OneOperator, Lost, Known, Writing

LEMMA AuditedVars ==
    /\ Audited!vars = <<Ids(Known), Trail(Known), Lost>>
    /\ Audited!vars' = <<Ids(Known)', Trail(Known)', Lost'>>
  BY DEF Audited!vars, Ids, Trail, TrailOf

(* How the known ledger moves: not at all, by one command, or to nothing.  *)
LEMMA KnownStep ==
    ASSUME OneOperator, IInv, SoleInv, Next
    PROVE  \/ Known' = Known /\ (Lost' <=> Lost)
           \/ /\ ~Lost /\ ~Lost'
              /\ \E v \in Versions \cup {NoVersion} : Follows(Known, Known', v)
           \/ Lost' /\ Known' = EmptyLedger
  <1>1. PICK o \in Operators :
            CommandStep(o) \/ Truncate(o) \/ Write(o) \/ ApplyK8s(o) \/ Crash(o)
    BY DEF Next, CommandStep
  <1>2. /\ Readable => ~Lost /\ Known = file
        /\ ~Readable /\ cli[o].pc = "truncated" => ~Lost /\ Known = cli[o].read
        /\ ~Readable /\ cli[o].pc # "truncated" => Lost /\ Known = EmptyLedger
    BY KnownLedger
  <1>3. /\ Readable' => ~Lost' /\ Known' = file'
        /\ ~Readable' /\ cli'[o].pc = "truncated" => ~Lost' /\ Known' = cli'[o].read
        /\ ~Readable' /\ cli'[o].pc # "truncated" => Lost' /\ Known' = EmptyLedger
    BY DEF OneOperator, Lost, Known, Writing
  <1>4. InvocationOk(cli[o])
    BY DEF SoleInv
  <1>5. cli[o].read \in Ledger /\ cli[o].version \in Versions \cup {NoVersion}
    BY DEF IInv, TypeOK, Invocation
  <1>6. CASE CommandStep(o)
    BY <1>2, <1>3, <1>6, CommandFollows DEF Readable
  <1>7. CASE Truncate(o)
    <2>1. Readable /\ file = cli[o].read
      BY <1>4, <1>5, <1>7, RegistryAssumption, TruncateFollows
         DEF InvocationOk, Readable, RegistryAssumption
    <2> QED BY <2>1, <1>2, <1>3, <1>7, TruncateFollows DEF Readable
  <1>8. CASE Write(o)
    <2>1. file = Empty /\ cli[o].pc = "truncated"
          /\ Follows(cli[o].read, cli[o].next, cli[o].version)
      BY <1>4, <1>8 DEF Write, InvocationOk
    <2>2. ~Readable
      BY <2>1 DEF Readable
    <2> QED BY <2>1, <2>2, <1>2, <1>3, <1>5, <1>8, WriteFollows
  <1>9. CASE ApplyK8s(o)
    <2>1. Readable
      BY <1>4, <1>9, ApplyK8sFollows DEF InvocationOk
    <2> QED BY <2>1, <1>2, <1>3, <1>9, ApplyK8sFollows DEF Readable
  <1>10. CASE Crash(o)
    BY <1>2, <1>3, <1>10, CrashFollows DEF Readable
  <1> QED BY <1>1, <1>6, <1>7, <1>8, <1>9, <1>10

LEMMA StepIsAudited ==
    ASSUME OneOperator, IInv, SoleInv, [Next]_vars
    PROVE  [Audited!Next]_(Audited!vars)
  <1>1. CASE UNCHANGED vars
    <2>1. Known' = Known /\ Lost' = Lost
      BY <1>1 DEF vars, Known, Lost, Readable, Writing
    <2> QED BY <2>1, AuditedVars DEF Ids, Trail, TrailOf
  <1>2. CASE Next /\ Known' = Known /\ (Lost' <=> Lost)
    <2>1. Lost' = Lost
      BY <1>2 DEF Lost
    <2> QED BY <2>1, <1>2, AuditedVars DEF Ids, Trail, TrailOf
  <1>3. CASE Next /\ ~Lost /\ ~Lost'
             /\ \E v \in Versions \cup {NoVersion} : Follows(Known, Known', v)
    <2>1. PICK v \in Versions \cup {NoVersion} : Follows(Known, Known', v)
      BY <1>3
    <2>2. Ids(Known)' = Ids(Known') /\ Trail(Known)' = Trail(Known')
      BY DEF Ids, Trail, TrailOf
    <2>3. Lost' = Lost /\ Lost = FALSE
      BY <1>3 DEF Lost
    <2>4. CASE v = NoVersion
      <3>1. PICK w \in Versions : Ids(Known') = Ids(Known) \cup {w} /\ Trail(Known') = Trail(Known)
        BY <2>1, <2>4 DEF Follows
      <3>2. Audited!Register(w)
        BY <3>1, <2>2, <2>3 DEF Audited!Register, Ids, Trail, TrailOf
      <3> QED BY <3>2 DEF Audited!Next
    <2>5. CASE v # NoVersion
      <3>1. PICK g \in Groups : Trail(Known') = [Trail(Known) EXCEPT ![g] = Append(@, v)]
        BY <2>1, <2>5 DEF Follows
      <3>2. v \in Ids(Known) /\ Ids(Known') = Ids(Known)
        BY <2>1, <2>5 DEF Follows
      <3>3. Audited!Activate(g, v)
        BY <3>1, <3>2, <2>2, <2>3 DEF Audited!Activate, Ids, Trail, TrailOf
      <3> QED BY <3>3, <2>5 DEF Audited!Next
    <2> QED BY <2>4, <2>5
  <1>4. CASE Lost' /\ Known' = EmptyLedger
    <2>1. Ids(EmptyLedger) = {} /\ Trail(EmptyLedger) = [g \in Groups |-> <<>>]
      BY TrailEmpty DEF Ids, Trail, EmptyLedger
    <2>2. Audited!Lose
      BY <2>1, <1>4 DEF Audited!Lose, Ids, Trail, TrailOf
    <2> QED BY <2>2 DEF Audited!Next
  <1> QED BY <1>1, <1>2, <1>3, <1>4, KnownStep

(* For a single operator the tool implements the audited ledger: every     *)
(* command is one step of it or, cut short, none, and only a crash inside  *)
(* a write loses anything, which is then everything (registry.py:2-10).    *)
THEOREM SoleOperatorIsAudited ==
    ASSUME OneOperator
    PROVE  Spec => LedgerIsAudited
  <1>1. Init => Audited!Init
    <2> SUFFICES ASSUME Init PROVE Audited!Init
      OBVIOUS
    <2>1. Readable
      <3>1. EmptyLedger \in Ledger
        BY EmptyIsGood DEF Good
      <3> QED BY <3>1, RegistryAssumption DEF Init, Readable, RegistryAssumption
    <2>2. Known = EmptyLedger /\ ~Lost
      BY <2>1 DEF Known, Lost, Init
    <2>3. Ids(EmptyLedger) = {} /\ Trail(EmptyLedger) = [g \in Groups |-> <<>>]
      BY TrailEmpty DEF Ids, Trail, EmptyLedger
    <2> QED BY <2>2, <2>3 DEF Audited!Init, Ids, Trail, TrailOf, Lost
  <1> QED BY <1>1, StepIsAudited, SoleInvariance, PTL DEF Spec, Audited!Spec, LedgerIsAudited

=============================================================================
