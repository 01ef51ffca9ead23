------------------------- MODULE FeatureStoreProofs -------------------------
(***************************************************************************)
(* The feature store for any requests, replicas and users: types, complete *)
(* seeding, the order of histories, and which events may be lost.          *)
(***************************************************************************)
EXTENDS FeatureStore, SequenceTheorems, TLAPS

Redis == [seeded: BOOLEAN, history: [Users -> History \cup {Absent}], users: SUBSET Users]

-----------------------------------------------------------------------------
(* Histories. *)

LEMMA AbsentFacts ==
    /\ Absent \notin History
    /\ Synthetic \notin Requests
    /\ <<Synthetic>> \in History /\ <<Synthetic>> # Absent
    /\ <<>> \in History
  <1>1. <<Synthetic>> \in History /\ <<>> \in History
    BY DEF History
  <1> QED
    BY <1>1, FeatureStoreAssumption DEF History

LEMMA EventsFacts ==
    ASSUME NEW h \in History \cup {Absent}
    PROVE  EventsOf(h) \in History
  BY AbsentFacts DEF EventsOf

LEMMA PrependedFacts ==
    ASSUME NEW e \in Requests, NEW h \in History \cup {Absent}
    PROVE  /\ Prepended(e, h) \in History
           /\ Prepended(e, h) # Absent
           /\ Len(Prepended(e, h)) = Len(EventsOf(h)) + 1
           /\ Prepended(e, h)[1] = e
           /\ \A i \in 1..Len(EventsOf(h)) : Prepended(e, h)[i + 1] = EventsOf(h)[i]
           /\ Range(Prepended(e, h)) = {e} \cup Range(EventsOf(h))
  <1> DEFINE s == EventsOf(h)
             t == <<e>> \o s
  <1>1. s \in History /\ s \in Seq(Requests \cup {Synthetic})
    BY EventsFacts DEF History
  <1>2. <<e>> \in Seq(Requests \cup {Synthetic}) /\ Len(<<e>>) = 1 /\ <<e>>[1] = e
    OBVIOUS
  <1> HIDE DEF s
  <1>3. t \in Seq(Requests \cup {Synthetic})
    BY <1>1, <1>2, ConcatProperties
  <1>4. /\ Len(t) = Len(s) + 1 /\ Len(s) \in Nat
        /\ t[1] = e /\ \A i \in 1..Len(s) : t[i + 1] = s[i]
    BY <1>1, <1>2
  <1>5. DOMAIN t = 1..(Len(s) + 1) /\ DOMAIN s = 1..Len(s)
    BY <1>1, <1>3, <1>4
  <1>6. Prepended(e, h) = t
    BY DEF Prepended, s
  <1> HIDE DEF t
  <1>7. Range(t) = {e} \cup Range(s)
    <2>1. \A i \in 1..(Len(s) + 1) : i = 1 \/ (i - 1 \in 1..Len(s) /\ (i - 1) + 1 = i)
      BY <1>4
    <2>2. ASSUME NEW i \in 1..(Len(s) + 1) PROVE t[i] \in {e} \cup Range(s)
      <3>1. CASE i = 1
        BY <3>1, <1>4
      <3>2. CASE i - 1 \in 1..Len(s) /\ (i - 1) + 1 = i
        <4>1. t[(i - 1) + 1] = s[i - 1]
          BY <3>2, <1>4
        <4> QED
          BY <4>1, <3>2, <1>5 DEF Range
      <3> QED
        BY <2>1, <3>1, <3>2
    <2>3. \A i \in 1..Len(s) : s[i] \in Range(t)
      <3>1. \A i \in 1..Len(s) : i + 1 \in 1..(Len(s) + 1)
        BY <1>4
      <3> QED
        BY <3>1, <1>4, <1>5 DEF Range
    <2>4. 1 \in 1..(Len(s) + 1)
      BY <1>4
    <2>5. e \in Range(t)
      BY <2>4, <1>4, <1>5 DEF Range
    <2> QED
      BY <2>2, <2>3, <2>5, <1>5 DEF Range
  <1> QED
    BY <1>1, <1>3, <1>4, <1>6, <1>7, AbsentFacts DEF History, s

-----------------------------------------------------------------------------
(* The handler of one request. *)

LEMMA RequestFields ==
    ASSUME NEW q \in Request
    PROVE  /\ q.pc \in Working \cup {"idle", "done", "dead"}
           /\ q.kind \in {"get", "record", "list"}
           /\ q.user \in Users /\ q.at \in Replicas /\ q.seed \in 1..Len(SeedUsers)
           /\ q.read \in History /\ q.answer \in SUBSET Users
           /\ q.before \in SUBSET Requests /\ q.wrote \in SUBSET Users
           /\ Len(SeedUsers) \in Nat /\ Seeded \subseteq Users
           /\ \A i \in 1..Len(SeedUsers) : SeedUsers[i] \in Seeded
           /\ \A u \in Seeded : \E i \in 1..Len(SeedUsers) : u = SeedUsers[i]
  <1>1. SeedUsers \in Seq(Users) /\ DOMAIN SeedUsers = 1..Len(SeedUsers)
    BY FeatureStoreAssumption
  <1> QED
    BY <1>1 DEF Request, Seeded, Range

(* The handler of r goes one command further: from `pc` to `next`, with    *)
(* its place in the loop, what it has read, its answer and what it has set *)
(* as in q, and with `store` in Redis.                                     *)
StepOf(r, pc, q, next, store) ==
    /\ req[r].pc = pc
    /\ req' \in [Requests -> Request]
    /\ req'[r].pc = next
    /\ req'[r].kind = req[r].kind /\ req'[r].user = req[r].user
    /\ req'[r].at = req[r].at /\ req'[r].before = req[r].before
    /\ req'[r].seed = q.seed /\ req'[r].read = q.read
    /\ req'[r].answer = q.answer /\ req'[r].wrote = q.wrote
    /\ \A s \in Requests : s # r => req'[s] = req[s]
    /\ store \in Redis /\ redis' = store
    /\ backend' = backend /\ memory' = memory

LEMMA DoesIsStep ==
    ASSUME TypeOK, NEW r \in Requests, NEW pc, NEW q \in Request,
           NEW next \in Working \cup {"done"}, NEW store \in Redis,
           q.kind = req[r].kind, q.user = req[r].user, q.at = req[r].at,
           q.before = req[r].before,
           Does(r, pc, q, next, store)
    PROVE  StepOf(r, pc, q, next, store)
  <1> DEFINE x == [q EXCEPT !.pc = next]
  <1>1. /\ x \in Request /\ x.pc = next
        /\ x.kind = q.kind /\ x.user = q.user /\ x.at = q.at /\ x.seed = q.seed
        /\ x.read = q.read /\ x.answer = q.answer
        /\ x.before = q.before /\ x.wrote = q.wrote
    BY DEF Request
  <1>2. /\ req[r].pc = pc
        /\ req' = [req EXCEPT ![r] = x]
        /\ redis' = store /\ backend' = backend /\ memory' = memory
    BY DEF Does
  <1>3. req \in [Requests -> Request]
    BY DEF TypeOK
  <1> HIDE DEF x
  <1>4. req' \in [Requests -> Request] /\ req'[r] = x
        /\ \A s \in Requests : s # r => req'[s] = req[s]
    BY <1>1, <1>2, <1>3
  <1> QED
    BY <1>1, <1>2, <1>4 DEF StepOf

(* What SET, SADD and the flag leave in Redis. *)
LEMMA StoreFacts ==
    ASSUME TypeOK, NEW u \in Users, NEW h \in History
    PROVE  /\ redis \in Redis /\ SetHistory(u, h) \in Redis /\ AddUser(u) \in Redis
           /\ SetHistory(u, h).seeded = redis.seeded
           /\ SetHistory(u, h).users = redis.users
           /\ SetHistory(u, h).history[u] = h
           /\ \A v \in Users : v # u => SetHistory(u, h).history[v] = redis.history[v]
           /\ AddUser(u).seeded = redis.seeded
           /\ AddUser(u).users = redis.users \cup {u}
           /\ AddUser(u).history = redis.history
  BY DEF TypeOK, Redis, SetHistory, AddUser

LEMMA FlagFacts ==
    ASSUME TypeOK
    PROVE  LET s == [redis EXCEPT !.seeded = TRUE]
           IN  /\ s \in Redis /\ s.seeded
               /\ s.users = redis.users /\ s.history = redis.history
  BY DEF TypeOK, Redis

(* The commands on Redis, each as a step of its handler. *)
LEMMA SeedingSteps ==
    ASSUME TypeOK, NEW r \in Requests
    PROVE  /\ CheckSeeded(r) =>
                IF redis.seeded
                THEN StepOf(r, "check", req[r], Command(req[r].kind), redis) /\ Knows(r)
                ELSE StepOf(r, "check", req[r], "seed_set", redis) /\ UNCHANGED known
           /\ SeedHistory(r) =>
                LET u == SeedUsers[req[r].seed]
                IN  /\ StepOf(r, "seed_set", [req[r] EXCEPT !.wrote = @ \cup {u}],
                              "seed_add", SetHistory(u, <<Synthetic>>))
                    /\ UNCHANGED known
           /\ SeedUser(r) =>
                /\ IF req[r].seed = Len(SeedUsers)
                   THEN StepOf(r, "seed_add", req[r], "seed_flag",
                               AddUser(SeedUsers[req[r].seed]))
                   ELSE StepOf(r, "seed_add", [req[r] EXCEPT !.seed = @ + 1], "seed_set",
                               AddUser(SeedUsers[req[r].seed]))
                /\ UNCHANGED known
           /\ SeedFlag(r) =>
                /\ StepOf(r, "seed_flag", req[r], Command(req[r].kind),
                          [redis EXCEPT !.seeded = TRUE])
                /\ Knows(r)
  <1> DEFINE u == SeedUsers[req[r].seed]
             q == [req[r] EXCEPT !.wrote = @ \cup {u}]
             n == [req[r] EXCEPT !.seed = @ + 1]
  <1>1. req[r] \in Request
    BY DEF TypeOK
  <1>2. Command(req[r].kind) \in Working
    BY DEF Command, Working
  <1>3. u \in Users /\ Seeded \subseteq Users
    BY <1>1, RequestFields
  <1>4. redis \in Redis /\ SetHistory(u, <<Synthetic>>) \in Redis /\ AddUser(u) \in Redis
        /\ [redis EXCEPT !.seeded = TRUE] \in Redis
    <2>1. <<Synthetic>> \in History
      BY AbsentFacts
    <2> HIDE DEF u
    <2> QED
      BY <2>1, <1>3, StoreFacts, FlagFacts
  <1>5. q \in Request /\ q.kind = req[r].kind /\ q.user = req[r].user
        /\ q.at = req[r].at /\ q.before = req[r].before
    <2> HIDE DEF u
    <2> QED
      BY <1>1, <1>3 DEF Request
  <1>6. ASSUME req[r].seed # Len(SeedUsers)
        PROVE  n \in Request /\ n.kind = req[r].kind /\ n.user = req[r].user
               /\ n.at = req[r].at /\ n.before = req[r].before
    <2>1. req[r].seed + 1 \in 1..Len(SeedUsers)
      BY <1>1, <1>6, RequestFields
    <2> QED
      BY <2>1, <1>1 DEF Request
  <1>7. {"seed_set", "seed_add", "seed_flag"} \subseteq Working
    BY DEF Working, Seeding
  <1>8. ASSUME CheckSeeded(r)
        PROVE  IF redis.seeded
               THEN StepOf(r, "check", req[r], Command(req[r].kind), redis) /\ Knows(r)
               ELSE StepOf(r, "check", req[r], "seed_set", redis) /\ UNCHANGED known
    BY <1>1, <1>2, <1>4, <1>7, <1>8, DoesIsStep DEF CheckSeeded
  <1>9. ASSUME SeedHistory(r)
        PROVE  StepOf(r, "seed_set", q, "seed_add", SetHistory(u, <<Synthetic>>))
               /\ UNCHANGED known
    <2>1. Does(r, "seed_set", q, "seed_add", SetHistory(u, <<Synthetic>>)) /\ UNCHANGED known
      BY <1>9 DEF SeedHistory
    <2> HIDE DEF u, q
    <2> QED
      BY <2>1, <1>4, <1>5, <1>7, DoesIsStep
  <1>10. ASSUME SeedUser(r)
         PROVE  /\ IF req[r].seed = Len(SeedUsers)
                   THEN StepOf(r, "seed_add", req[r], "seed_flag", AddUser(u))
                   ELSE StepOf(r, "seed_add", n, "seed_set", AddUser(u))
                /\ UNCHANGED known
    <2>1. UNCHANGED known
          /\ IF req[r].seed = Len(SeedUsers)
             THEN Does(r, "seed_add", req[r], "seed_flag", AddUser(u))
             ELSE Does(r, "seed_add", n, "seed_set", AddUser(u))
      BY <1>10 DEF SeedUser
    <2> HIDE DEF u, n
    <2> QED
      BY <2>1, <1>1, <1>4, <1>6, <1>7, DoesIsStep
  <1>11. ASSUME SeedFlag(r)
         PROVE  /\ StepOf(r, "seed_flag", req[r], Command(req[r].kind),
                          [redis EXCEPT !.seeded = TRUE])
                /\ Knows(r)
    BY <1>1, <1>2, <1>4, <1>7, <1>11, DoesIsStep DEF SeedFlag
  <1> QED
    BY <1>8, <1>9, <1>10, <1>11

LEMMA HistorySteps ==
    ASSUME TypeOK, NEW r \in Requests
    PROVE  LET u == req[r].user
               q == [req[r] EXCEPT !.wrote = @ \cup {u}]
           IN  /\ GetHistory(r) =>
                    /\ req[r].kind = "get" /\ UNCHANGED known
                    /\ IF redis.history[u] = Absent
                       THEN StepOf(r, "read", req[r], "create", redis)
                       ELSE StepOf(r, "read", req[r], "done", redis)
               /\ CreateHistory(r) =>
                    /\ StepOf(r, "create", q, "create_add", SetHistory(u, <<Synthetic>>))
                    /\ UNCHANGED known
               /\ CreateUser(r) =>
                    StepOf(r, "create_add", req[r], "done", AddUser(u)) /\ UNCHANGED known
               /\ ReadHistory(r) =>
                    /\ req[r].kind = "record" /\ UNCHANGED known
                    /\ StepOf(r, "read", [req[r] EXCEPT !.read = EventsOf(redis.history[u])],
                              "write", redis)
               /\ WriteHistory(r) =>
                    /\ StepOf(r, "write", q, "done", SetHistory(u, Prepended(r, req[r].read)))
                    /\ UNCHANGED known
               /\ ListUsers(r) =>
                    /\ StepOf(r, "list", [req[r] EXCEPT !.answer = redis.users], "done", redis)
                    /\ UNCHANGED known
  <1> DEFINE u == req[r].user
             q == [req[r] EXCEPT !.wrote = @ \cup {u}]
             e == EventsOf(redis.history[u])
             n == [req[r] EXCEPT !.read = e]
             l == [req[r] EXCEPT !.answer = redis.users]
             h == Prepended(r, req[r].read)
  <1>1. req[r] \in Request /\ u \in Users /\ req[r].read \in History
    BY RequestFields DEF TypeOK
  <1>2. redis.history[u] \in History \cup {Absent} /\ redis.users \in SUBSET Users
    BY <1>1 DEF TypeOK
  <1>3. e \in History /\ h \in History /\ <<Synthetic>> \in History
    BY <1>1, <1>2, EventsFacts, PrependedFacts, AbsentFacts
  <1>4. redis \in Redis /\ SetHistory(u, <<Synthetic>>) \in Redis
        /\ SetHistory(u, h) \in Redis /\ AddUser(u) \in Redis
    <2> HIDE DEF u, h
    <2> QED
      BY <1>1, <1>3, StoreFacts
  <1>5. q \in Request /\ q.kind = req[r].kind /\ q.user = req[r].user
        /\ q.at = req[r].at /\ q.before = req[r].before
    BY <1>1 DEF Request
  <1>6. n \in Request /\ n.kind = req[r].kind /\ n.user = req[r].user
        /\ n.at = req[r].at /\ n.before = req[r].before
    <2> HIDE DEF e
    <2> QED
      BY <1>1, <1>3 DEF Request
  <1>7. l \in Request /\ l.kind = req[r].kind /\ l.user = req[r].user
        /\ l.at = req[r].at /\ l.before = req[r].before
    BY <1>1, <1>2 DEF Request
  <1>8. {"create", "create_add", "write", "done"} \subseteq Working \cup {"done"}
    BY DEF Working
  <1>9. GetHistory(r) =>
          /\ req[r].kind = "get" /\ UNCHANGED known
          /\ IF redis.history[u] = Absent
             THEN StepOf(r, "read", req[r], "create", redis)
             ELSE StepOf(r, "read", req[r], "done", redis)
    BY <1>1, <1>4, <1>8, DoesIsStep DEF GetHistory
  <1>10. CreateHistory(r) =>
          /\ StepOf(r, "create", q, "create_add", SetHistory(u, <<Synthetic>>))
          /\ UNCHANGED known
    <2>1. CreateHistory(r) => /\ UNCHANGED known
               /\ Does(r, "create", q, "create_add", SetHistory(u, <<Synthetic>>))
      BY DEF CreateHistory
    <2> HIDE DEF q, u
    <2> QED
      BY <2>1, <1>4, <1>5, <1>8, DoesIsStep
  <1>11. CreateUser(r) =>
           StepOf(r, "create_add", req[r], "done", AddUser(u)) /\ UNCHANGED known
    BY <1>1, <1>4, <1>8, DoesIsStep DEF CreateUser
  <1>12. ReadHistory(r) =>
           req[r].kind = "record" /\ UNCHANGED known /\ StepOf(r, "read", n, "write", redis)
    <2>1. ReadHistory(r) =>
            req[r].kind = "record" /\ UNCHANGED known /\ Does(r, "read", n, "write", redis)
      BY DEF ReadHistory
    <2> HIDE DEF n
    <2> QED
      BY <2>1, <1>4, <1>6, <1>8, DoesIsStep
  <1>13. WriteHistory(r) =>
           StepOf(r, "write", q, "done", SetHistory(u, h)) /\ UNCHANGED known
    <2>1. WriteHistory(r) =>
            Does(r, "write", q, "done", SetHistory(u, h)) /\ UNCHANGED known
      BY DEF WriteHistory
    <2> HIDE DEF q, u, h
    <2> QED
      BY <2>1, <1>4, <1>5, <1>8, DoesIsStep
  <1>14. ListUsers(r) => StepOf(r, "list", l, "done", redis) /\ UNCHANGED known
    <2>1. ListUsers(r) => Does(r, "list", l, "done", redis) /\ UNCHANGED known
      BY DEF ListUsers
    <2> HIDE DEF l
    <2> QED
      BY <2>1, <1>4, <1>7, <1>8, DoesIsStep
  <1> QED
    BY <1>9, <1>10, <1>11, <1>12, <1>13, <1>14

(* A handler begins. *)
BeginOf(r, kind, u, p, pc) ==
    /\ req[r].pc = "idle"
    /\ req' \in [Requests -> Request]
    /\ req'[r].pc = pc /\ req'[r].kind = kind
    /\ req'[r].user = u /\ req'[r].at = p /\ req'[r].before = Ended
    /\ req'[r].seed = req[r].seed /\ req'[r].read = req[r].read
    /\ \A s \in Requests : s # r => req'[s] = req[s]
    /\ backend' = backend /\ redis' = redis /\ known' = known

LEMMA BegunFacts ==
    ASSUME TypeOK, NEW r \in Requests, NEW kind \in {"get", "record", "list"},
           NEW u \in Users, NEW p \in Replicas,
           NEW pc \in Working \cup {"idle", "done", "dead"}
    PROVE  LET b == Begun(r, kind, u, p, pc)
           IN  /\ b \in Request
               /\ b.pc = pc /\ b.kind = kind /\ b.user = u /\ b.at = p
               /\ b.before = Ended /\ b.seed = req[r].seed /\ b.read = req[r].read
               /\ b.answer = req[r].answer /\ b.wrote = req[r].wrote
  <1>1. req[r] \in Request /\ Ended \in SUBSET Requests
    BY DEF TypeOK, Ended
  <1> QED
    BY <1>1 DEF Begun, Request

LEMMA BeginStep ==
    ASSUME TypeOK, NEW r \in Requests, Begin(r)
    PROVE  /\ backend = "redis"
           /\ \E kind \in {"get", "record", "list"}, u \in Users, p \in Replicas :
                 /\ BeginOf(r, kind, u, p, IF known[p] THEN Command(kind) ELSE "check")
                 /\ req'[r].answer = req[r].answer /\ req'[r].wrote = req[r].wrote
                 /\ memory' = memory
  <1>1. PICK kind \in {"get", "record", "list"}, u \in Users, p \in Replicas :
           req' = [req EXCEPT ![r] =
                    Begun(r, kind, u, p, IF known[p] THEN Command(kind) ELSE "check")]
    BY DEF Begin
  <1> DEFINE pc == IF known[p] THEN Command(kind) ELSE "check"
  <1>2. pc \in Working \cup {"idle", "done", "dead"}
    BY DEF Command, Working, Seeding
  <1>3. req \in [Requests -> Request]
    BY DEF TypeOK
  <1>4. /\ backend = "redis" /\ req[r].pc = "idle"
        /\ backend' = backend /\ redis' = redis /\ known' = known /\ memory' = memory
    BY DEF Begin
  <1> HIDE DEF pc
  <1>5. BeginOf(r, kind, u, p, pc) /\ req'[r].answer = req[r].answer
        /\ req'[r].wrote = req[r].wrote
    BY <1>1, <1>2, <1>3, <1>4, BegunFacts DEF BeginOf, pc
  <1> QED
    BY <1>4, <1>5 DEF pc

(* The three handlers of the in-memory adapter. *)
ServeGet(r, u, p) ==
    /\ memory' = [memory EXCEPT ![p][u] =
                    IF memory[p][u] = Absent THEN <<Synthetic>> ELSE memory[p][u]]
    /\ BeginOf(r, "get", u, p, "done")
    /\ req'[r].answer = req[r].answer /\ req'[r].wrote = req[r].wrote

ServeRecord(r, u, p) ==
    /\ memory' = [memory EXCEPT ![p][u] = Prepended(r, memory[p][u])]
    /\ BeginOf(r, "record", u, p, "done")
    /\ req'[r].answer = req[r].answer /\ req'[r].wrote = {u}

ServeList(r, u, p) ==
    /\ memory' = memory
    /\ BeginOf(r, "list", u, p, "done")
    /\ req'[r].answer = {v \in Users : memory[p][v] # Absent}
    /\ req'[r].wrote = req[r].wrote

LEMMA ServeStep ==
    ASSUME TypeOK, NEW r \in Requests, Serve(r)
    PROVE  /\ backend = "memory"
           /\ \E u \in Users, p \in Replicas :
                 ServeGet(r, u, p) \/ ServeRecord(r, u, p) \/ ServeList(r, u, p)
  <1>1. /\ backend = "memory" /\ req[r].pc = "idle"
        /\ backend' = backend /\ redis' = redis /\ known' = known
    BY DEF Serve
  <1>2. PICK u \in Users, p \in Replicas :
          LET h == memory[p][u] IN
          \/ /\ memory' = [memory EXCEPT ![p][u] = IF h = Absent THEN <<Synthetic>> ELSE h]
             /\ req' = [req EXCEPT ![r] = Begun(r, "get", u, p, "done")]
          \/ /\ memory' = [memory EXCEPT ![p][u] = Prepended(r, h)]
             /\ req' = [req EXCEPT ![r] =
                          [Begun(r, "record", u, p, "done") EXCEPT !.wrote = {u}]]
          \/ /\ req' = [req EXCEPT ![r] =
                          [Begun(r, "list", u, p, "done")
                             EXCEPT !.answer = {v \in Users : memory[p][v] # Absent}]]
             /\ UNCHANGED memory
    BY DEF Serve
  <1>3. req \in [Requests -> Request]
    BY DEF TypeOK
  <1> DEFINE g == Begun(r, "get", u, p, "done")
             b == Begun(r, "record", u, p, "done")
             c == [b EXCEPT !.wrote = {u}]
             l == Begun(r, "list", u, p, "done")
             a == {v \in Users : memory[p][v] # Absent}
             m == [l EXCEPT !.answer = a]
  <1>4. CASE /\ memory' = [memory EXCEPT ![p][u] = IF memory[p][u] = Absent
                                                   THEN <<Synthetic>> ELSE memory[p][u]]
             /\ req' = [req EXCEPT ![r] = g]
    <2>1. BeginOf(r, "get", u, p, "done") /\ req'[r].answer = req[r].answer
          /\ req'[r].wrote = req[r].wrote
      BY <1>1, <1>3, <1>4, BegunFacts DEF BeginOf
    <2> QED
      BY <1>1, <1>4, <2>1 DEF ServeGet
  <1>5. CASE /\ memory' = [memory EXCEPT ![p][u] = Prepended(r, memory[p][u])]
             /\ req' = [req EXCEPT ![r] = c]
    <2>1. /\ b \in Request
          /\ b.pc = "done" /\ b.kind = "record" /\ b.user = u /\ b.at = p
          /\ b.before = Ended /\ b.seed = req[r].seed /\ b.read = req[r].read
          /\ b.answer = req[r].answer
      BY BegunFacts
    <2> HIDE DEF b
    <2>2. /\ c \in Request
          /\ c.pc = "done" /\ c.kind = "record" /\ c.user = u /\ c.at = p
          /\ c.before = Ended /\ c.seed = req[r].seed /\ c.read = req[r].read
          /\ c.answer = req[r].answer /\ c.wrote = {u}
      BY <2>1 DEF Request
    <2> HIDE DEF c
    <2>3. BeginOf(r, "record", u, p, "done") /\ req'[r].answer = req[r].answer
          /\ req'[r].wrote = {u}
      BY <1>1, <1>3, <1>5, <2>2 DEF BeginOf
    <2> QED
      BY <1>1, <1>5, <2>3 DEF ServeRecord
  <1>6. CASE memory' = memory /\ req' = [req EXCEPT ![r] = m]
    <2>1. /\ l \in Request
          /\ l.pc = "done" /\ l.kind = "list" /\ l.user = u /\ l.at = p
          /\ l.before = Ended /\ l.seed = req[r].seed /\ l.read = req[r].read
          /\ l.wrote = req[r].wrote
      BY BegunFacts
    <2>2. a \in SUBSET Users
      OBVIOUS
    <2> HIDE DEF l, a
    <2>3. /\ m \in Request
          /\ m.pc = "done" /\ m.kind = "list" /\ m.user = u /\ m.at = p
          /\ m.before = Ended /\ m.seed = req[r].seed /\ m.read = req[r].read
          /\ m.answer = a /\ m.wrote = req[r].wrote
      BY <2>1, <2>2 DEF Request
    <2> HIDE DEF m
    <2>4. BeginOf(r, "list", u, p, "done") /\ req'[r].answer = a
          /\ req'[r].wrote = req[r].wrote
      BY <1>1, <1>3, <1>6, <2>3 DEF BeginOf
    <2> QED
      BY <1>1, <1>6, <2>4 DEF ServeList, a
  <1> HIDE DEF g, c, m
  <1>7. \/ /\ memory' = [memory EXCEPT ![p][u] = IF memory[p][u] = Absent
                                                 THEN <<Synthetic>> ELSE memory[p][u]]
           /\ req' = [req EXCEPT ![r] = g]
        \/ /\ memory' = [memory EXCEPT ![p][u] = Prepended(r, memory[p][u])]
           /\ req' = [req EXCEPT ![r] = c]
        \/ memory' = memory /\ req' = [req EXCEPT ![r] = m]
    BY <1>2 DEF g, c, m, b, l, a
  <1> QED
    BY <1>1, <1>4, <1>5, <1>6, <1>7

(* A handler fails, or a replica dies with all of its handlers. *)
Abort == \/ \E r \in Requests : CommandFails(r)
         \/ \E p \in Replicas : Restart(p)

LEMMA AbortStep ==
    ASSUME TypeOK, Abort
    PROVE  /\ backend = "redis" /\ backend' = backend
           /\ redis' = redis /\ memory' = memory
           /\ req' \in [Requests -> Request]
           /\ \A r \in Requests :
                 /\ req'[r].kind = req[r].kind /\ req'[r].user = req[r].user
                 /\ req'[r].at = req[r].at /\ req'[r].before = req[r].before
                 /\ req'[r].answer = req[r].answer /\ req'[r].wrote = req[r].wrote
                 /\ \/ req'[r] = req[r]
                    \/ /\ req[r].pc \in Working /\ req'[r].pc = "dead"
                       /\ req'[r].seed = 1 /\ req'[r].read = <<>>
           /\ known' \in [Replicas -> BOOLEAN]
           /\ \A x \in Replicas : known'[x] => known[x]
  <1>1. ASSUME NEW r \in Requests
        PROVE  LET d == Cut(req[r])
               IN  /\ req[r] \in Request /\ d \in Request /\ d.pc = "dead"
                   /\ d.kind = req[r].kind /\ d.user = req[r].user
                   /\ d.at = req[r].at /\ d.before = req[r].before
                   /\ d.seed = 1 /\ d.read = <<>>
                   /\ d.answer = req[r].answer /\ d.wrote = req[r].wrote
    <2>1. req[r] \in Request
      BY DEF TypeOK
    <2>2. 1 \in 1..Len(SeedUsers) /\ <<>> \in History
      BY FeatureStoreAssumption, AbsentFacts
    <2> QED
      BY <2>1, <2>2 DEF Request, Cut
  <1>2. \E S \in SUBSET {r \in Requests : req[r].pc \in Working} :
           req' = [r \in Requests |->
                     IF r \in S THEN Cut(req[r]) ELSE req[r]]
    <2>1. ASSUME NEW p \in Replicas, Restart(p)
          PROVE  LET S == {r \in Requests : req[r].pc \in Working /\ req[r].at = p}
                 IN  req' = [r \in Requests |->
                               IF r \in S THEN Cut(req[r]) ELSE req[r]]
      BY <2>1 DEF Restart
    <2>2. ASSUME NEW q \in Requests, CommandFails(q)
          PROVE  /\ req[q].pc \in Working
                 /\ req' = [r \in Requests |->
                              IF r \in {q} THEN Cut(req[r]) ELSE req[r]]
      BY <2>2 DEF CommandFails, TypeOK
    <2> QED
      BY <2>1, <2>2 DEF Abort
  <1>3. /\ known' \in [Replicas -> BOOLEAN]
        /\ \A x \in Replicas : known'[x] => known[x]
    BY DEF TypeOK, Abort, Restart, CommandFails
  <1>4. backend = "redis" /\ backend' = backend /\ redis' = redis /\ memory' = memory
    BY DEF Abort, Restart, CommandFails
  <1> QED
    BY <1>1, <1>2, <1>3, <1>4

-----------------------------------------------------------------------------
(* Types, and what the place of a handler says of its request. *)

ShapeOf(r) ==
    /\ req[r].before \subseteq Ended
    /\ req[r].pc \in {"idle", "check"} => req[r].seed = 1
    /\ req[r].pc = "idle" => req[r].wrote = {} /\ req[r].before = {}
    /\ req[r].pc \in {"create", "create_add"} => req[r].kind = "get"
    /\ req[r].pc = "write" => req[r].kind = "record"
    /\ req[r].pc = "list" => req[r].kind = "list"
    /\ backend = "memory" => req[r].pc \in {"idle", "done"}

Shape == \A r \in Requests : ShapeOf(r)

(* What no step takes back. *)
Steady ==
    /\ backend' = backend
    /\ Ended \subseteq Ended'
    /\ \A r \in Requests :
          /\ req[r].wrote \subseteq req'[r].wrote
          /\ req[r].pc \in {"done", "dead"} => req'[r].pc = req[r].pc
          /\ req[r].pc # "idle" =>
                /\ req'[r].pc # "idle"
                /\ req'[r].kind = req[r].kind /\ req'[r].user = req[r].user
                /\ req'[r].at = req[r].at /\ req'[r].before = req[r].before

(* A step of the handler of r, seen from outside. *)
MovesOnly(r) ==
    /\ req[r].pc \notin {"done", "dead"}
    /\ backend' = backend
    /\ req[r].wrote \subseteq req'[r].wrote
    /\ req[r].pc # "idle" =>
          /\ req'[r].pc # "idle"
          /\ req'[r].kind = req[r].kind /\ req'[r].user = req[r].user
          /\ req'[r].at = req[r].at /\ req'[r].before = req[r].before
    /\ \A s \in Requests : s # r => req'[s] = req[s]

LEMMA MoveIsSteady ==
    ASSUME NEW r \in Requests, MovesOnly(r)
    PROVE  Steady
  BY DEF MovesOnly, Steady, Ended

LEMMA StepMoves ==
    ASSUME NEW r \in Requests, NEW pc, NEW q, NEW next, NEW store,
           pc \notin {"idle", "done", "dead"}, next # "idle",
           req[r].wrote \subseteq q.wrote, StepOf(r, pc, q, next, store)
    PROVE  MovesOnly(r)
  BY DEF StepOf, MovesOnly

LEMMA WorkingNames ==
    \A pc \in Working : pc \notin {"idle", "done", "dead"}
  BY DEF Working, Seeding

LEMMA CommandFacts ==
    ASSUME NEW kind \in {"get", "record", "list"}
    PROVE  /\ Command(kind) \in {"list", "read"}
           /\ Command(kind) = "list" <=> kind = "list"
  BY DEF Command

(* What a handler sets, it has set. *)
LEMMA WroteFacts ==
    ASSUME TypeOK, NEW r \in Requests, NEW u \in Users
    PROVE  LET q == [req[r] EXCEPT !.wrote = @ \cup {u}]
           IN  /\ q.wrote = req[r].wrote \cup {u} /\ q.seed = req[r].seed
               /\ q.read = req[r].read /\ q.answer = req[r].answer
  <1>1. req[r] \in Request
    BY DEF TypeOK
  <1> QED
    BY <1>1 DEF Request

LEMMA OtherFacts ==
    ASSUME TypeOK, NEW r \in Requests, NEW h, NEW a, NEW n
    PROVE  /\ [req[r] EXCEPT !.read = h].wrote = req[r].wrote
           /\ [req[r] EXCEPT !.read = h].seed = req[r].seed
           /\ [req[r] EXCEPT !.read = h].answer = req[r].answer
           /\ [req[r] EXCEPT !.read = h].read = h
           /\ [req[r] EXCEPT !.answer = a].wrote = req[r].wrote
           /\ [req[r] EXCEPT !.answer = a].seed = req[r].seed
           /\ [req[r] EXCEPT !.answer = a].read = req[r].read
           /\ [req[r] EXCEPT !.answer = a].answer = a
           /\ [req[r] EXCEPT !.seed = n].wrote = req[r].wrote
           /\ [req[r] EXCEPT !.seed = n].seed = n
           /\ [req[r] EXCEPT !.seed = n].read = req[r].read
           /\ [req[r] EXCEPT !.seed = n].answer = req[r].answer
  <1>1. req[r] \in Request
    BY DEF TypeOK
  <1> QED
    BY <1>1 DEF Request

LEMMA SeedingMoves ==
    ASSUME TypeOK, NEW r \in Requests,
           CheckSeeded(r) \/ SeedHistory(r) \/ SeedUser(r) \/ SeedFlag(r)
    PROVE  MovesOnly(r)
  <1> DEFINE u == SeedUsers[req[r].seed]
             q == [req[r] EXCEPT !.wrote = @ \cup {u}]
             n == [req[r] EXCEPT !.seed = @ + 1]
             c == Command(req[r].kind)
             f == [redis EXCEPT !.seeded = TRUE]
             h == SetHistory(u, <<Synthetic>>)
             a == AddUser(u)
  <1>1. req[r].kind \in {"get", "record", "list"} /\ u \in Users
    <2>1. req[r] \in Request
      BY DEF TypeOK
    <2> QED
      BY <2>1, RequestFields
  <1>2. c # "idle" /\ req[r].wrote \subseteq q.wrote /\ n.wrote = req[r].wrote
    BY <1>1, CommandFacts, WroteFacts, OtherFacts
  <1>3. \/ StepOf(r, "check", req[r], c, redis)
        \/ StepOf(r, "check", req[r], "seed_set", redis)
        \/ StepOf(r, "seed_set", q, "seed_add", h)
        \/ StepOf(r, "seed_add", req[r], "seed_flag", a)
        \/ StepOf(r, "seed_add", n, "seed_set", a)
        \/ StepOf(r, "seed_flag", req[r], c, f)
    BY SeedingSteps
  <1> HIDE DEF q, n, c, f, h, a
  <1> QED
    BY <1>2, <1>3, StepMoves

LEMMA HistoryMoves ==
    ASSUME TypeOK, NEW r \in Requests,
           \/ GetHistory(r) \/ CreateHistory(r) \/ CreateUser(r)
           \/ ReadHistory(r) \/ WriteHistory(r) \/ ListUsers(r)
    PROVE  MovesOnly(r)
  <1> DEFINE u == req[r].user
             q == [req[r] EXCEPT !.wrote = @ \cup {u}]
             n == [req[r] EXCEPT !.read = EventsOf(redis.history[u])]
             l == [req[r] EXCEPT !.answer = redis.users]
             h == SetHistory(u, <<Synthetic>>)
             w == SetHistory(u, Prepended(r, req[r].read))
             a == AddUser(u)
  <1>1. u \in Users
    <2>1. req[r] \in Request
      BY DEF TypeOK
    <2> QED
      BY <2>1, RequestFields
  <1>2. /\ req[r].wrote \subseteq q.wrote
        /\ n.wrote = req[r].wrote /\ l.wrote = req[r].wrote
    BY <1>1, WroteFacts, OtherFacts
  <1>3. \/ StepOf(r, "read", req[r], "create", redis)
        \/ StepOf(r, "read", req[r], "done", redis)
        \/ StepOf(r, "create", q, "create_add", h)
        \/ StepOf(r, "create_add", req[r], "done", a)
        \/ StepOf(r, "read", n, "write", redis)
        \/ StepOf(r, "write", q, "done", w)
        \/ StepOf(r, "list", l, "done", redis)
    BY HistorySteps
  <1> HIDE DEF u, q, n, l, h, w, a
  <1> QED
    BY <1>2, <1>3, StepMoves

LEMMA BeginMoves ==
    ASSUME TypeOK, Shape, NEW r \in Requests, Serve(r) \/ Begin(r)
    PROVE  MovesOnly(r)
  <1>1. ShapeOf(r)
    BY DEF Shape
  <1>2. CASE Begin(r)
    BY <1>2, BeginStep DEF BeginOf, MovesOnly
  <1>3. CASE Serve(r)
    <2>1. PICK u \in Users, p \in Replicas :
             ServeGet(r, u, p) \/ ServeRecord(r, u, p) \/ ServeList(r, u, p)
      BY <1>3, ServeStep
    <2>2. req[r].wrote \subseteq req'[r].wrote
      BY <1>1, <2>1 DEF ShapeOf, ServeGet, ServeRecord, ServeList, BeginOf
    <2> QED
      BY <2>1, <2>2 DEF ServeGet, ServeRecord, ServeList, BeginOf, MovesOnly
  <1> QED
    BY <1>2, <1>3

LEMMA NextIsSteady ==
    ASSUME TypeOK, Shape, Next
    PROVE  Steady
  <1>1. CASE \E r \in Requests : Serve(r) \/ Begin(r)
    BY <1>1, BeginMoves, MoveIsSteady
  <1>2. CASE \E r \in Requests :
               CheckSeeded(r) \/ SeedHistory(r) \/ SeedUser(r) \/ SeedFlag(r)
    BY <1>2, SeedingMoves, MoveIsSteady
  <1>3. CASE \E r \in Requests :
               \/ GetHistory(r) \/ CreateHistory(r) \/ CreateUser(r)
               \/ ReadHistory(r) \/ WriteHistory(r) \/ ListUsers(r)
    BY <1>3, HistoryMoves, MoveIsSteady
  <1>4. CASE Abort
    BY <1>4, AbortStep, WorkingNames DEF Steady, Ended
  <1> QED
    BY <1>1, <1>2, <1>3, <1>4 DEF Next, Abort

LEMMA KnowsFacts ==
    ASSUME TypeOK, NEW r \in Requests, Knows(r)
    PROVE  /\ known' \in [Replicas -> BOOLEAN]
           /\ \A p \in Replicas : known'[p] => known[p] \/ p = req[r].at
  BY DEF TypeOK, Knows

LEMMA StepKeepsShape ==
    ASSUME TypeOK, Shape, NEW r \in Requests, NEW pc, NEW q, NEW next, NEW store,
           StepOf(r, pc, q, next, store), MovesOnly(r),
           pc \notin {"idle", "done", "dead"}, next \notin {"idle", "check"},
           next \in {"create", "create_add"} => req[r].kind = "get",
           next = "write" => req[r].kind = "record",
           next = "list" => req[r].kind = "list",
           known' \in [Replicas -> BOOLEAN]
    PROVE  TypeOK' /\ Shape'
  <1>1. TypeOK'
    BY DEF TypeOK, StepOf, Redis
  <1>2. Steady
    BY MoveIsSteady
  <1>3. ASSUME NEW s \in Requests PROVE ShapeOf(s)'
    <2>1. ShapeOf(s) /\ ShapeOf(r)
      BY DEF Shape
    <2>2. CASE s = r
      BY <1>2, <2>1, <2>2 DEF ShapeOf, StepOf, Steady
    <2>3. CASE s # r
      BY <1>2, <2>1, <2>3 DEF ShapeOf, StepOf, Steady
    <2> QED
      BY <2>2, <2>3
  <1> QED
    BY <1>1, <1>3 DEF Shape

LEMMA SeedingKeepsShape ==
    ASSUME TypeOK, Shape, NEW r \in Requests,
           CheckSeeded(r) \/ SeedHistory(r) \/ SeedUser(r) \/ SeedFlag(r)
    PROVE  TypeOK' /\ Shape'
  <1> DEFINE u == SeedUsers[req[r].seed]
             q == [req[r] EXCEPT !.wrote = @ \cup {u}]
             n == [req[r] EXCEPT !.seed = @ + 1]
             c == Command(req[r].kind)
             f == [redis EXCEPT !.seeded = TRUE]
             h == SetHistory(u, <<Synthetic>>)
             a == AddUser(u)
  <1>1. /\ c \notin {"idle", "check", "create", "create_add", "write"}
        /\ c = "list" => req[r].kind = "list"
    <2>1. req[r] \in Request
      BY DEF TypeOK
    <2> QED
      BY <2>1, RequestFields, CommandFacts
  <1>2. \/ StepOf(r, "check", req[r], c, redis)
        \/ StepOf(r, "check", req[r], "seed_set", redis)
        \/ StepOf(r, "seed_set", q, "seed_add", h)
        \/ StepOf(r, "seed_add", req[r], "seed_flag", a)
        \/ StepOf(r, "seed_add", n, "seed_set", a)
        \/ StepOf(r, "seed_flag", req[r], c, f)
    BY SeedingSteps
  <1>3. known' \in [Replicas -> BOOLEAN]
    <2>1. Knows(r) \/ known' = known
      BY SeedingSteps
    <2> QED
      BY <2>1, KnowsFacts DEF TypeOK
  <1>4. MovesOnly(r)
    BY SeedingMoves
  <1> HIDE DEF q, n, c, f, h, a
  <1> QED
    BY <1>1, <1>2, <1>3, <1>4, StepKeepsShape

LEMMA HistoryKeepsShape ==
    ASSUME TypeOK, Shape, NEW r \in Requests,
           \/ GetHistory(r) \/ CreateHistory(r) \/ CreateUser(r)
           \/ ReadHistory(r) \/ WriteHistory(r) \/ ListUsers(r)
    PROVE  TypeOK' /\ Shape'
  <1> DEFINE u == req[r].user
             q == [req[r] EXCEPT !.wrote = @ \cup {u}]
             n == [req[r] EXCEPT !.read = EventsOf(redis.history[u])]
             l == [req[r] EXCEPT !.answer = redis.users]
             h == SetHistory(u, <<Synthetic>>)
             w == SetHistory(u, Prepended(r, req[r].read))
             a == AddUser(u)
  <1>1. \/ StepOf(r, "read", req[r], "create", redis) /\ req[r].kind = "get"
        \/ StepOf(r, "read", req[r], "done", redis)
        \/ StepOf(r, "create", q, "create_add", h)
        \/ StepOf(r, "create_add", req[r], "done", a)
        \/ StepOf(r, "read", n, "write", redis) /\ req[r].kind = "record"
        \/ StepOf(r, "write", q, "done", w)
        \/ StepOf(r, "list", l, "done", redis)
    BY HistorySteps
  <1>2. known' \in [Replicas -> BOOLEAN]
    <2>1. known' = known
      BY HistorySteps
    <2> QED
      BY <2>1 DEF TypeOK
  <1>3. MovesOnly(r)
    BY HistoryMoves
  <1> HIDE DEF u, q, n, l, h, w, a
  <1>4. req[r].pc = "create" => req[r].kind = "get"
    BY DEF Shape, ShapeOf
  <1>5. StepOf(r, "create", q, "create_add", h) => req[r].pc = "create"
    BY DEF StepOf
  <1> QED
    BY <1>1, <1>2, <1>3, <1>4, <1>5, StepKeepsShape

(* One history of one replica is set in memory. *)
LEMMA MemoryFacts ==
    ASSUME TypeOK, NEW u \in Users, NEW p \in Replicas, NEW h \in History \cup {Absent},
           memory' = [memory EXCEPT ![p][u] = h]
    PROVE  /\ memory' \in [Replicas -> [Users -> History \cup {Absent}]]
           /\ memory'[p][u] = h
           /\ \A x \in Replicas, v \in Users :
                 x # p \/ v # u => memory'[x][v] = memory[x][v]
  BY DEF TypeOK

LEMMA BeginKeepsShape ==
    ASSUME TypeOK, Shape, NEW r \in Requests, Serve(r) \/ Begin(r)
    PROVE  TypeOK' /\ Shape'
  <1>1. Steady
    BY BeginMoves, MoveIsSteady
  <1>2. PICK kind \in {"get", "record", "list"}, u \in Users, p \in Replicas,
             pc \in {"check", "read", "list", "done"} :
           /\ BeginOf(r, kind, u, p, pc)
           /\ pc = "list" => kind = "list"
           /\ backend = "memory" => pc = "done"
    <2>1. CASE Serve(r)
      BY <2>1, ServeStep DEF ServeGet, ServeRecord, ServeList
    <2>2. CASE Begin(r)
      <3>1. PICK kind \in {"get", "record", "list"}, u \in Users, p \in Replicas :
              BeginOf(r, kind, u, p, IF known[p] THEN Command(kind) ELSE "check")
        BY <2>2, BeginStep
      <3> DEFINE pc == IF known[p] THEN Command(kind) ELSE "check"
      <3>2. pc \in {"check", "read", "list"} /\ (pc = "list" => kind = "list")
        BY CommandFacts
      <3>3. backend = "redis"
        BY <2>2, BeginStep
      <3> HIDE DEF pc
      <3>4. BeginOf(r, kind, u, p, pc)
        BY <3>1 DEF pc
      <3> QED
        BY <3>2, <3>3, <3>4
    <2> QED
      BY <2>1, <2>2
  <1>3. memory' \in [Replicas -> [Users -> History \cup {Absent}]]
    <2>1. CASE Begin(r)
      BY <2>1, BeginStep DEF TypeOK
    <2>2. CASE Serve(r)
      <3>1. PICK v \in Users, x \in Replicas :
               ServeGet(r, v, x) \/ ServeRecord(r, v, x) \/ ServeList(r, v, x)
        BY <2>2, ServeStep
      <3>2. memory[x][v] \in History \cup {Absent}
        BY DEF TypeOK
      <3> DEFINE g == IF memory[x][v] = Absent THEN <<Synthetic>> ELSE memory[x][v]
                 h == Prepended(r, memory[x][v])
      <3>3. g \in History \cup {Absent} /\ h \in History \cup {Absent}
        BY <3>2, PrependedFacts, AbsentFacts
      <3>4. \/ memory' = [memory EXCEPT ![x][v] = g]
            \/ memory' = [memory EXCEPT ![x][v] = h]
            \/ memory' = memory
        BY <3>1 DEF ServeGet, ServeRecord, ServeList
      <3> HIDE DEF g, h
      <3> QED
        BY <3>3, <3>4, MemoryFacts DEF TypeOK
    <2> QED
      BY <2>1, <2>2
  <1>4. TypeOK'
    BY <1>2, <1>3 DEF TypeOK, BeginOf
  <1>5. ASSUME NEW s \in Requests PROVE ShapeOf(s)'
    <2>1. ShapeOf(s) /\ ShapeOf(r)
      BY DEF Shape
    <2>2. CASE s = r
      BY <1>1, <1>2, <2>1, <2>2 DEF ShapeOf, BeginOf, Steady
    <2>3. CASE s # r
      BY <1>1, <1>2, <2>1, <2>3 DEF ShapeOf, BeginOf, Steady
    <2> QED
      BY <2>2, <2>3
  <1> QED
    BY <1>4, <1>5 DEF Shape

LEMMA AbortKeepsShape ==
    ASSUME TypeOK, Shape, Abort
    PROVE  TypeOK' /\ Shape'
  <1>1. Steady
    BY NextIsSteady DEF Next, Abort
  <1>2. TypeOK'
    BY AbortStep DEF TypeOK
  <1>3. ASSUME NEW s \in Requests PROVE ShapeOf(s)'
    <2>1. ShapeOf(s)
      BY DEF Shape
    <2>2. /\ req'[s].kind = req[s].kind /\ req'[s].before = req[s].before
          /\ req'[s].wrote = req[s].wrote
          /\ \/ req'[s].pc = req[s].pc /\ req'[s].seed = req[s].seed
             \/ req[s].pc \in Working /\ req'[s].pc = "dead"
          /\ backend = "redis" /\ backend' = "redis"
      BY AbortStep
    <2> QED
      BY <1>1, <2>1, <2>2 DEF ShapeOf, Steady
  <1> QED
    BY <1>2, <1>3 DEF Shape

LEMMA InitShape ==
    ASSUME Init
    PROVE  TypeOK /\ Shape
  <1>1. Len(SeedUsers) \in Nat \ {0} /\ SeedUsers[1] \in Users /\ 1 \in 1..Len(SeedUsers)
    BY FeatureStoreAssumption
  <1>2. PICK p \in Replicas :
          req = [r \in Requests |->
                   [pc |-> "idle", kind |-> "list", user |-> SeedUsers[1], at |-> p,
                    seed |-> 1, read |-> <<>>, answer |-> {}, before |-> {}, wrote |-> {}]]
    BY DEF Init
  <1>3. req \in [Requests -> Request]
    BY <1>1, <1>2, AbsentFacts DEF Request
  <1>4. NewMemory \in [Users -> History \cup {Absent}]
    BY AbsentFacts DEF NewMemory
  <1>5. TypeOK
    BY <1>3, <1>4 DEF Init, TypeOK
  <1> QED
    BY <1>2, <1>5 DEF Shape, ShapeOf

LEMMA NextKeepsShape ==
    ASSUME TypeOK, Shape, Next
    PROVE  TypeOK' /\ Shape'
  <1>1. CASE \E r \in Requests : Serve(r) \/ Begin(r)
    BY <1>1, BeginKeepsShape
  <1>2. CASE \E r \in Requests :
               CheckSeeded(r) \/ SeedHistory(r) \/ SeedUser(r) \/ SeedFlag(r)
    BY <1>2, SeedingKeepsShape
  <1>3. CASE \E r \in Requests :
               \/ GetHistory(r) \/ CreateHistory(r) \/ CreateUser(r)
               \/ ReadHistory(r) \/ WriteHistory(r) \/ ListUsers(r)
    BY <1>3, HistoryKeepsShape
  <1>4. CASE Abort
    BY <1>4, AbortKeepsShape
  <1> QED
    BY <1>1, <1>2, <1>3, <1>4 DEF Next, Abort

LEMMA StutterKeepsShape ==
    ASSUME TypeOK, Shape, UNCHANGED vars
    PROVE  TypeOK' /\ Shape'
  BY DEF vars, TypeOK, Shape, ShapeOf, Ended

LEMMA ShapeInvariant == Spec => [](TypeOK /\ Shape)
  <1>1. TypeOK /\ Shape /\ [Next]_vars => (TypeOK /\ Shape)'
    BY NextKeepsShape, StutterKeepsShape
  <1> QED
    BY <1>1, InitShape, PTL DEF Spec

(* Every value keeps its type, whichever replica dies at whichever command *)
(* (adapter.py:85-163).                                                    *)
THEOREM TypesKept == Spec => []TypeOK
  BY ShapeInvariant, PTL

-----------------------------------------------------------------------------
(* Seeding.                                                                *)

(* What is in Redis by the time a handler has come to its place. *)
SeedOf(r) ==
    /\ backend = "redis" =>
          (req[r].pc \in {"read", "create", "create_add", "write", "list", "done"}
             => redis.seeded)
    /\ req[r].pc \in {"seed_set", "seed_add"} =>
          \A i \in 1..(req[r].seed - 1) : SeedUsers[i] \in redis.users
    /\ req[r].pc = "seed_add" => redis.history[SeedUsers[req[r].seed]] # Absent
    /\ req[r].pc = "seed_flag" => Seeded \subseteq redis.users
    /\ req[r].pc = "create_add" => redis.history[req[r].user] # Absent

SeedInv ==
    /\ StoreCoherent
    /\ \A p \in Replicas : known[p] => redis.seeded
    /\ backend = "memory" => \A p \in Replicas, u \in Seeded : memory[p][u] # Absent
    /\ \A r \in Requests : SeedOf(r)

(* Nothing in Redis is taken back. *)
Grows ==
    /\ redis.seeded => redis'.seeded
    /\ redis.users \subseteq redis'.users
    /\ \A u \in Users : redis.history[u] # Absent => redis'.history[u] # Absent

LEMMA SameGrows ==
    ASSUME redis' = redis
    PROVE  Grows
  BY DEF Grows

LEMMA StoreGrows ==
    ASSUME TypeOK, NEW u \in Users, NEW h \in History,
           redis' = SetHistory(u, h) \/ redis' = AddUser(u)
    PROVE  Grows
  BY StoreFacts, AbsentFacts DEF Grows

LEMMA FlagGrows ==
    ASSUME TypeOK, redis' = [redis EXCEPT !.seeded = TRUE]
    PROVE  Grows
  BY FlagFacts DEF Grows

(* The other handlers lose nothing by a step that only adds to Redis. *)
LEMMA OthersKeepSeed ==
    ASSUME TypeOK, SeedInv, Grows, NEW s \in Requests, req'[s] = req[s], backend' = backend
    PROVE  SeedOf(s)'
  <1>1. SeedOf(s) /\ req[s] \in Request
    BY DEF SeedInv, TypeOK
  <1>2. req[s].user \in Users /\ SeedUsers[req[s].seed] \in Users
    BY <1>1, RequestFields
  <1> QED
    BY <1>1, <1>2 DEF SeedOf, Grows

(* A step of the handler of r keeps the invariant if r itself is where it  *)
(* should be, and the store is coherent.                                   *)
LEMMA StepKeepsSeed ==
    ASSUME TypeOK, SeedInv, NEW r \in Requests, Grows, MovesOnly(r),
           memory' = memory, SeedOf(r)',
           \A p \in Replicas : known'[p] => known[p] \/ redis'.seeded,
           redis'.seeded => Seeded \subseteq redis'.users,
           \A u \in redis'.users : redis'.history[u] # Absent,
           req'[r].kind = "list" /\ req'[r].pc = "done" => Seeded \subseteq req'[r].answer
    PROVE  SeedInv'
  <1>1. \A s \in Requests : s # r => req'[s] = req[s]
    BY DEF MovesOnly
  <1>2. backend' = backend
    BY DEF MovesOnly
  <1>3. \A s \in Requests : SeedOf(s)'
    <2>1. ASSUME NEW s \in Requests, s # r PROVE SeedOf(s)'
      BY <1>1, <1>2, <2>1, OthersKeepSeed
    <2> QED
      BY <2>1
  <1>4. StoreCoherent'
    BY <1>1 DEF SeedInv, StoreCoherent
  <1>5. \A p \in Replicas : known'[p] => redis'.seeded
    BY DEF SeedInv, Grows
  <1> QED
    BY <1>2, <1>3, <1>4, <1>5 DEF SeedInv

LEMMA SeedingKeepsSeed ==
    ASSUME TypeOK, Shape, SeedInv, NEW r \in Requests,
           CheckSeeded(r) \/ SeedHistory(r) \/ SeedUser(r) \/ SeedFlag(r)
    PROVE  SeedInv'
  <1> DEFINE u == SeedUsers[req[r].seed]
             q == [req[r] EXCEPT !.wrote = @ \cup {u}]
             n == [req[r] EXCEPT !.seed = @ + 1]
             c == Command(req[r].kind)
             f == [redis EXCEPT !.seeded = TRUE]
             h == SetHistory(u, <<Synthetic>>)
             a == AddUser(u)
  <1>1. /\ req[r] \in Request /\ u \in Users /\ req[r].seed \in 1..Len(SeedUsers)
        /\ Len(SeedUsers) \in Nat
        /\ \A v \in Seeded : \E i \in 1..Len(SeedUsers) : v = SeedUsers[i]
    <2>1. req[r] \in Request
      BY DEF TypeOK
    <2> QED
      BY <2>1, RequestFields
  <1>2. c \in {"list", "read"}
    BY <1>1, RequestFields, CommandFacts
  <1>3. MovesOnly(r)
    BY SeedingMoves
  <1>4. SeedOf(r) /\ ShapeOf(r) /\ StoreCoherent
    BY DEF SeedInv, Shape
  <1>5. <<Synthetic>> \in History /\ <<Synthetic>> # Absent
    BY AbsentFacts
  <1>6. CASE CheckSeeded(r) /\ redis.seeded
    <2>1. StepOf(r, "check", req[r], c, redis) /\ Knows(r)
      BY <1>6, SeedingSteps
    <2>2. Grows
      BY <2>1, SameGrows DEF StepOf
    <2>3. SeedOf(r)'
      BY <1>2, <1>6, <2>1 DEF SeedOf, StepOf
    <2>4. /\ memory' = memory /\ redis' = redis /\ req'[r].pc # "done"
      BY <1>2, <2>1 DEF StepOf
    <2> QED
      BY <1>3, <1>4, <1>6, <2>2, <2>3, <2>4, StepKeepsSeed DEF StoreCoherent
  <1>7. CASE CheckSeeded(r) /\ ~redis.seeded
    <2>1. StepOf(r, "check", req[r], "seed_set", redis) /\ known' = known
      BY <1>7, SeedingSteps
    <2>2. Grows
      BY <2>1, SameGrows DEF StepOf
    <2>3. SeedOf(r)'
      <3>1. req'[r].pc = "seed_set" /\ req'[r].seed = 1
        BY <1>4, <2>1 DEF StepOf, ShapeOf
      <3>2. 1..(req'[r].seed - 1) = {}
        BY <3>1
      <3> QED
        BY <3>1, <3>2 DEF SeedOf
    <2>4. memory' = memory /\ redis' = redis /\ req'[r].pc # "done"
      BY <2>1 DEF StepOf
    <2> QED
      BY <1>3, <1>4, <2>1, <2>2, <2>3, <2>4, StepKeepsSeed DEF StoreCoherent
  <1>8. CASE SeedHistory(r)
    <2>1. StepOf(r, "seed_set", q, "seed_add", h) /\ known' = known
      BY <1>8, SeedingSteps
    <2>2. q.seed = req[r].seed
      BY <1>1, WroteFacts
    <2>3. redis' = h
      BY <2>1 DEF StepOf
    <2>4. /\ h.seeded = redis.seeded /\ h.users = redis.users
          /\ h.history[u] # Absent
          /\ \A v \in Users : v # u => h.history[v] = redis.history[v]
      <3> HIDE DEF u
      <3> QED
        BY <1>1, <1>5, StoreFacts
    <2>5. Grows
      <3> HIDE DEF u
      <3> QED
        BY <1>1, <1>5, <2>3, StoreGrows
    <2> HIDE DEF q, h
    <2>6. SeedOf(r)'
      BY <1>4, <2>1, <2>2, <2>3, <2>4 DEF SeedOf, StepOf
    <2>7. memory' = memory /\ req'[r].pc # "done"
      BY <2>1 DEF StepOf
    <2>8. redis.users \subseteq Users
      BY DEF TypeOK
    <2>9. /\ redis'.seeded => Seeded \subseteq redis'.users
          /\ \A v \in redis'.users : redis'.history[v] # Absent
      BY <1>4, <2>3, <2>4, <2>8 DEF StoreCoherent
    <2> QED
      BY <1>3, <2>1, <2>5, <2>6, <2>7, <2>9, StepKeepsSeed
  <1>9. CASE SeedUser(r)
    <2>1. /\ \/ StepOf(r, "seed_add", req[r], "seed_flag", a) /\ req[r].seed = Len(SeedUsers)
             \/ StepOf(r, "seed_add", n, "seed_set", a)
          /\ known' = known
      BY <1>9, SeedingSteps
    <2>2. n.seed = req[r].seed + 1
      BY OtherFacts
    <2>3. /\ a.seeded = redis.seeded /\ a.users = redis.users \cup {u}
          /\ a.history = redis.history
      <3> HIDE DEF u
      <3> QED
        BY <1>1, <1>5, StoreFacts
    <2>4. Grows
      <3>1. redis' = a
        BY <2>1 DEF StepOf
      <3> HIDE DEF u
      <3> QED
        BY <1>1, <1>5, <3>1, StoreGrows
    <2> HIDE DEF n, a
    <2>5. req[r].pc = "seed_add" /\ redis' = a /\ memory' = memory /\ req'[r].pc # "done"
      BY <2>1 DEF StepOf
    <2>6. \A i \in 1..req[r].seed : SeedUsers[i] \in redis'.users
      <3>1. ASSUME NEW i \in 1..req[r].seed PROVE SeedUsers[i] \in redis'.users
        <4>1. i \in 1..(req[r].seed - 1) \/ i = req[r].seed
          BY <1>1, <3>1
        <4> QED
          BY <1>4, <2>3, <2>5, <4>1 DEF SeedOf
      <3> QED
        BY <3>1
    <2>7. SeedOf(r)'
      <3>1. CASE StepOf(r, "seed_add", n, "seed_set", a)
        <4>1. req'[r].pc = "seed_set" /\ req'[r].seed = req[r].seed + 1
          BY <2>2, <3>1 DEF StepOf
        <4>2. (req[r].seed + 1) - 1 = req[r].seed
          BY <1>1
        <4> QED
          BY <2>6, <4>1, <4>2 DEF SeedOf
      <3>2. CASE StepOf(r, "seed_add", req[r], "seed_flag", a)
                   /\ req[r].seed = Len(SeedUsers)
        <4>1. Seeded \subseteq redis'.users
          BY <1>1, <2>6, <3>2
        <4> QED
          BY <3>2, <4>1 DEF SeedOf, StepOf
      <3> QED
        BY <2>1, <3>1, <3>2
    <2>8. /\ redis'.seeded => Seeded \subseteq redis'.users
          /\ \A v \in redis'.users : redis'.history[v] # Absent
      BY <1>4, <2>3, <2>5 DEF StoreCoherent, SeedOf
    <2> QED
      BY <1>3, <2>1, <2>4, <2>5, <2>7, <2>8, StepKeepsSeed
  <1>10. CASE SeedFlag(r)
    <2>1. StepOf(r, "seed_flag", req[r], c, f) /\ Knows(r)
      BY <1>10, SeedingSteps
    <2>2. f.seeded /\ f.users = redis.users /\ f.history = redis.history
      BY FlagFacts
    <2>3. Grows
      BY <2>1, FlagGrows DEF StepOf
    <2> HIDE DEF f
    <2>4. req[r].pc = "seed_flag" /\ redis' = f /\ memory' = memory /\ req'[r].pc # "done"
      BY <1>2, <2>1 DEF StepOf
    <2>5. SeedOf(r)'
      BY <1>2, <2>1, <2>2 DEF SeedOf, StepOf
    <2>6. /\ redis'.seeded /\ Seeded \subseteq redis'.users
          /\ \A v \in redis'.users : redis'.history[v] # Absent
      BY <1>4, <2>2, <2>4 DEF StoreCoherent, SeedOf
    <2> QED
      BY <1>3, <2>3, <2>4, <2>5, <2>6, StepKeepsSeed
  <1> QED
    BY <1>6, <1>7, <1>8, <1>9, <1>10

LEMMA HistoryKeepsSeed ==
    ASSUME TypeOK, Shape, SeedInv, NEW r \in Requests,
           \/ GetHistory(r) \/ CreateHistory(r) \/ CreateUser(r)
           \/ ReadHistory(r) \/ WriteHistory(r) \/ ListUsers(r)
    PROVE  SeedInv'
  <1> DEFINE u == req[r].user
             q == [req[r] EXCEPT !.wrote = @ \cup {u}]
             n == [req[r] EXCEPT !.read = EventsOf(redis.history[u])]
             l == [req[r] EXCEPT !.answer = redis.users]
             h == SetHistory(u, <<Synthetic>>)
             w == SetHistory(u, Prepended(r, req[r].read))
             a == AddUser(u)
  <1>1. req[r] \in Request /\ u \in Users /\ req[r].read \in History
    <2>1. req[r] \in Request
      BY DEF TypeOK
    <2> QED
      BY <2>1, RequestFields
  <1>2. MovesOnly(r)
    BY HistoryMoves
  <1>3. SeedOf(r) /\ ShapeOf(r) /\ StoreCoherent
    BY DEF SeedInv, Shape
  <1>4. /\ <<Synthetic>> \in History /\ <<Synthetic>> # Absent
        /\ Prepended(r, req[r].read) \in History /\ Prepended(r, req[r].read) # Absent
    BY <1>1, AbsentFacts, PrependedFacts
  <1>5. known' = known /\ memory' = memory /\ backend' = backend
    <2>1. known' = known
      BY HistorySteps
    <2>2. memory' = memory /\ backend' = backend
      BY HistorySteps DEF StepOf
    <2> QED
      BY <2>1, <2>2
  <1>6. redis.users \subseteq Users
    BY DEF TypeOK
  <1>7. CASE GetHistory(r) \/ ReadHistory(r)
    <2>1. /\ \/ StepOf(r, "read", req[r], "create", redis)
             \/ StepOf(r, "read", req[r], "done", redis)
             \/ StepOf(r, "read", n, "write", redis)
          /\ req[r].kind # "list"
      BY <1>7, HistorySteps
    <2> HIDE DEF n
    <2>2. redis' = redis /\ req[r].pc = "read" /\ req'[r].kind # "list"
          /\ req'[r].pc \in {"create", "done", "write"}
      BY <2>1 DEF StepOf
    <2>3. Grows
      BY <2>2, SameGrows
    <2>4. SeedOf(r)'
      BY <1>3, <1>5, <2>2 DEF SeedOf
    <2> QED
      BY <1>2, <1>3, <1>5, <2>2, <2>3, <2>4, StepKeepsSeed DEF StoreCoherent
  <1>8. CASE CreateHistory(r) \/ WriteHistory(r)
    <2> DEFINE x == IF CreateHistory(r) THEN <<Synthetic>> ELSE Prepended(r, req[r].read)
               y == IF CreateHistory(r) THEN "create" ELSE "write"
               z == IF CreateHistory(r) THEN "create_add" ELSE "done"
               st == SetHistory(u, x)
    <2>1. StepOf(r, y, q, z, st)
      BY <1>8, HistorySteps
    <2>2. x \in History /\ x # Absent
      BY <1>4
    <2>3. /\ y \in {"create", "write"} /\ z \in {"create_add", "done"}
          /\ y = "create" => req[r].kind = "get" 
          /\ y = "write" => req[r].kind = "record"
      <3>1. req[r].pc = y
        BY <2>1 DEF StepOf
      <3> QED
        BY <1>3, <3>1 DEF ShapeOf
    <2> HIDE DEF x, y, z
    <2>4. /\ st.seeded = redis.seeded /\ st.users = redis.users
          /\ st.history[u] = x
          /\ \A v \in Users : v # u => st.history[v] = redis.history[v]
      <3> HIDE DEF u
      <3> QED
        BY <1>1, <2>2, StoreFacts
    <2>5. Grows
      <3>1. redis' = SetHistory(u, x)
        BY <2>1 DEF StepOf
      <3> HIDE DEF u, st
      <3> QED
        BY <1>1, <2>2, <3>1, StoreGrows
    <2> HIDE DEF st, q
    <2>6. redis' = st /\ req[r].pc = y /\ req'[r].pc = z /\ req'[r].kind = req[r].kind
          /\ req'[r].user = u
      BY <2>1 DEF StepOf
    <2>7. SeedOf(r)'
      BY <1>3, <1>5, <2>2, <2>3, <2>4, <2>6 DEF SeedOf
    <2>8. /\ redis'.seeded => Seeded \subseteq redis'.users
          /\ \A v \in redis'.users : redis'.history[v] # Absent
      BY <1>3, <1>6, <2>2, <2>4, <2>6 DEF StoreCoherent
    <2>9. req'[r].kind # "list"
      BY <2>3, <2>6
    <2> QED
      BY <1>2, <1>5, <2>5, <2>7, <2>8, <2>9, StepKeepsSeed
  <1>9. CASE CreateUser(r)
    <2>1. StepOf(r, "create_add", req[r], "done", a)
      BY <1>9, HistorySteps
    <2>2. a.seeded = redis.seeded /\ a.users = redis.users \cup {u}
          /\ a.history = redis.history
      <3> HIDE DEF u
      <3> QED
        BY <1>1, <1>4, StoreFacts
    <2>3. redis' = a /\ req[r].pc = "create_add" /\ req'[r].pc = "done"
          /\ req'[r].kind = req[r].kind
      BY <2>1 DEF StepOf
    <2>4. Grows
      <3> HIDE DEF u
      <3> QED
        BY <1>1, <1>4, <2>3, StoreGrows
    <2> HIDE DEF a
    <2>5. req[r].kind = "get"
      BY <1>3, <2>3 DEF ShapeOf
    <2>6. SeedOf(r)'
      BY <1>3, <1>5, <2>2, <2>3 DEF SeedOf
    <2>7. /\ redis'.seeded => Seeded \subseteq redis'.users
          /\ \A v \in redis'.users : redis'.history[v] # Absent
      BY <1>3, <2>2, <2>3 DEF StoreCoherent, SeedOf
    <2> QED
      BY <1>2, <1>5, <2>3, <2>4, <2>5, <2>6, <2>7, StepKeepsSeed
  <1>10. CASE ListUsers(r)
    <2>1. StepOf(r, "list", l, "done", redis)
      BY <1>10, HistorySteps
    <2>2. l.answer = redis.users
      BY OtherFacts
    <2> HIDE DEF l
    <2>3. redis' = redis /\ req[r].pc = "list" /\ req'[r].pc = "done"
          /\ req'[r].answer = redis.users
      BY <2>1, <2>2 DEF StepOf
    <2>4. Grows
      BY <2>3, SameGrows
    <2>5. SeedOf(r)'
      BY <1>3, <1>5, <2>3 DEF SeedOf
    <2>6. redis.seeded
      <3>1. backend = "redis"
        <4>1. backend # "memory"
          BY <1>3, <2>3 DEF ShapeOf
        <4> QED
          BY <4>1, FeatureStoreAssumption DEF TypeOK
      <3> QED
        BY <1>3, <2>3, <3>1 DEF SeedOf
    <2> QED
      BY <1>2, <1>3, <1>5, <2>3, <2>4, <2>5, <2>6, StepKeepsSeed DEF StoreCoherent
  <1> QED
    BY <1>7, <1>8, <1>9, <1>10

LEMMA BeginKeepsSeed ==
    ASSUME TypeOK, Shape, SeedInv, NEW r \in Requests, Serve(r) \/ Begin(r)
    PROVE  SeedInv'
  <1>1. SeedOf(r) /\ ShapeOf(r) /\ StoreCoherent
    BY DEF SeedInv, Shape
  <1>2. MovesOnly(r)
    BY BeginMoves
  <1>3. redis' = redis /\ known' = known /\ backend' = backend
    BY BeginStep, ServeStep DEF BeginOf, ServeGet, ServeRecord, ServeList
  <1>4. Grows
    BY <1>3, SameGrows
  <1>5. \A s \in Requests : s # r => SeedOf(s)'
    BY <1>2, <1>3, <1>4, OthersKeepSeed DEF MovesOnly
  <1>6. CASE Begin(r)
    <2>1. PICK kind \in {"get", "record", "list"}, u \in Users, p \in Replicas :
            /\ BeginOf(r, kind, u, p, IF known[p] THEN Command(kind) ELSE "check")
            /\ memory' = memory
      BY <1>6, BeginStep
    <2> DEFINE pc == IF known[p] THEN Command(kind) ELSE "check"
    <2>2. pc \in {"check", "read", "list"} /\ (pc # "check" => known[p])
      BY CommandFacts
    <2> HIDE DEF pc
    <2>3. BeginOf(r, kind, u, p, pc)
      BY <2>1 DEF pc
    <2>4. req'[r].pc = pc /\ \A s \in Requests : s # r => req'[s] = req[s]
      BY <2>3 DEF BeginOf
    <2>5. SeedOf(r)'
      BY <1>3, <2>2, <2>4 DEF SeedOf, SeedInv
    <2>6. StoreCoherent'
      BY <1>1, <1>3, <2>2, <2>4 DEF StoreCoherent
    <2> QED
      BY <1>3, <1>5, <2>1, <2>5, <2>6 DEF SeedInv
  <1>7. CASE Serve(r)
    <2>1. PICK u \in Users, p \in Replicas :
             ServeGet(r, u, p) \/ ServeRecord(r, u, p) \/ ServeList(r, u, p)
      BY <1>7, ServeStep
    <2>2. backend = "memory"
      BY <1>7, ServeStep
    <2>3. req'[r].pc = "done" /\ \A s \in Requests : s # r => req'[s] = req[s]
      BY <2>1 DEF ServeGet, ServeRecord, ServeList, BeginOf
    <2>4. SeedOf(r)'
      BY <1>3, <2>2, <2>3 DEF SeedOf
    <2>5. req'[r].kind = "list" => Seeded \subseteq req'[r].answer
      <3>1. req'[r].kind = "list" =>
              req'[r].answer = {v \in Users : memory[p][v] # Absent}
        BY <2>1 DEF ServeGet, ServeRecord, ServeList, BeginOf
      <3>2. Seeded \subseteq Users
        <4>1. req[r] \in Request
          BY DEF TypeOK
        <4> QED
          BY <4>1, RequestFields
      <3> QED
        BY <2>2, <3>1, <3>2 DEF SeedInv
    <2>6. StoreCoherent'
      BY <1>1, <1>3, <2>3, <2>5 DEF StoreCoherent
    <2>7. \A x \in Replicas, v \in Seeded : memory'[x][v] # Absent
      <3> DEFINE g == IF memory[p][u] = Absent THEN <<Synthetic>> ELSE memory[p][u]
                 h == Prepended(r, memory[p][u])
      <3>1. memory[p][u] \in History \cup {Absent}
        BY DEF TypeOK
      <3>2. g \in History /\ h \in History /\ g # Absent /\ h # Absent
        BY <3>1, AbsentFacts, PrependedFacts
      <3>3. \/ memory' = [memory EXCEPT ![p][u] = g]
            \/ memory' = [memory EXCEPT ![p][u] = h]
            \/ memory' = memory
        BY <2>1 DEF ServeGet, ServeRecord, ServeList
      <3>4. Seeded \subseteq Users
        <4>1. req[r] \in Request
          BY DEF TypeOK
        <4> QED
          BY <4>1, RequestFields
      <3> HIDE DEF g, h
      <3> QED
        BY <2>2, <3>2, <3>3, <3>4, MemoryFacts DEF SeedInv
    <2> QED
      BY <1>3, <1>5, <2>4, <2>6, <2>7 DEF SeedInv
  <1> QED
    BY <1>6, <1>7

LEMMA AbortKeepsSeed ==
    ASSUME TypeOK, Shape, SeedInv, Abort
    PROVE  SeedInv'
  <1>1. backend' = backend /\ redis' = redis /\ memory' = memory
        /\ \A x \in Replicas : known'[x] => known[x]
    BY AbortStep
  <1>2. ASSUME NEW s \in Requests PROVE SeedOf(s)'
    <2>1. SeedOf(s)
      BY DEF SeedInv
    <2>2. req'[s] = req[s] \/ req'[s].pc = "dead"
      BY AbortStep
    <2> QED
      BY <1>1, <2>1, <2>2 DEF SeedOf
  <1>3. \A s \in Requests : req'[s].pc = "done" => req'[s] = req[s]
    BY AbortStep
  <1>4. StoreCoherent'
    BY <1>1, <1>3 DEF SeedInv, StoreCoherent
  <1> QED
    BY <1>1, <1>2, <1>4 DEF SeedInv

LEMMA InitSeed ==
    ASSUME Init
    PROVE  SeedInv
  <1>1. \A u \in Seeded : NewMemory[u] # Absent
    <2>1. Seeded \subseteq Users
      BY FeatureStoreAssumption DEF Seeded, Range
    <2> QED
      BY <2>1, AbsentFacts DEF NewMemory
  <1>2. PICK p \in Replicas :
          req = [r \in Requests |->
                   [pc |-> "idle", kind |-> "list", user |-> SeedUsers[1], at |-> p,
                    seed |-> 1, read |-> <<>>, answer |-> {}, before |-> {}, wrote |-> {}]]
    BY DEF Init
  <1>3. /\ redis = [seeded |-> FALSE, history |-> [u \in Users |-> Absent], users |-> {}]
        /\ memory = [x \in Replicas |-> NewMemory]
        /\ known = [x \in Replicas |-> FALSE]
    BY DEF Init
  <1>4. \A r \in Requests : SeedOf(r) /\ req[r].pc = "idle"
    BY <1>2 DEF SeedOf
  <1>5. StoreCoherent
    BY <1>3, <1>4 DEF StoreCoherent
  <1> QED
    BY <1>1, <1>3, <1>4, <1>5 DEF SeedInv

LEMMA NextKeepsSeed ==
    ASSUME TypeOK, Shape, SeedInv, Next
    PROVE  SeedInv'
  <1>1. CASE \E r \in Requests : Serve(r) \/ Begin(r)
    BY <1>1, BeginKeepsSeed
  <1>2. CASE \E r \in Requests :
               CheckSeeded(r) \/ SeedHistory(r) \/ SeedUser(r) \/ SeedFlag(r)
    BY <1>2, SeedingKeepsSeed
  <1>3. CASE \E r \in Requests :
               \/ GetHistory(r) \/ CreateHistory(r) \/ CreateUser(r)
               \/ ReadHistory(r) \/ WriteHistory(r) \/ ListUsers(r)
    BY <1>3, HistoryKeepsSeed
  <1>4. CASE Abort
    BY <1>4, AbortKeepsSeed
  <1> QED
    BY <1>1, <1>2, <1>3, <1>4 DEF Next, Abort

LEMMA StutterKeepsSeed ==
    ASSUME SeedInv, UNCHANGED vars
    PROVE  SeedInv'
  BY DEF vars, SeedInv, SeedOf, StoreCoherent

LEMMA SeedInvariant == Spec => []SeedInv
  <1>1. TypeOK /\ Shape /\ SeedInv /\ [Next]_vars => SeedInv'
    BY NextKeepsSeed, StutterKeepsSeed
  <1> QED
    BY <1>1, InitSeed, ShapeInvariant, PTL DEF Spec

(* Once the flag is set the seeding is complete, a listed user has a       *)
(* history, and every list holds the seeded users, however seedings        *)
(* overlap and wherever one is cut short (adapter.py:125-137, 142-145,     *)
(* 161-163).                                                               *)
THEOREM StoreIsCoherent == Spec => []StoreCoherent
  <1>1. SeedInv => StoreCoherent
    BY DEF SeedInv
  <1> QED
    BY <1>1, SeedInvariant, PTL

-----------------------------------------------------------------------------
(* The order of histories. *)

(* h is newest first, and its events have begun, if the requests are R. *)
OrderIn(h, R) ==
    /\ \A i \in DOMAIN h : h[i] # Synthetic => R[h[i]].pc # "idle"
    /\ \A i, j \in DOMAIN h : i < j =>
          /\ h[i] # Synthetic
          /\ h[j] # Synthetic => h[i] \notin R[h[j]].before

OrderInv ==
    /\ \A p \in Replicas, u \in Users : OrderIn(EventsOf(memory[p][u]), req)
    /\ \A u \in Users : OrderIn(EventsOf(redis.history[u]), req)
    /\ \A r \in Requests : OrderIn(req[r].read, req)

LEMMA OrderOfFew ==
    ASSUME NEW R
    PROVE  OrderIn(<<>>, R) /\ OrderIn(<<Synthetic>>, R)
  <1>1. DOMAIN <<Synthetic>> = {1} /\ <<Synthetic>>[1] = Synthetic
    OBVIOUS
  <1>2. OrderIn(<<>>, R)
    BY DEF OrderIn
  <1>3. OrderIn(<<Synthetic>>, R)
    BY <1>1 DEF OrderIn
  <1> QED
    BY <1>2, <1>3

LEMMA OrderStays ==
    ASSUME Steady, NEW h \in History, OrderIn(h, req)
    PROVE  OrderIn(h, req')
  <1>1. \A i \in DOMAIN h : h[i] # Synthetic => h[i] \in Requests
    BY DEF History
  <1> QED
    BY <1>1 DEF OrderIn, Steady

LEMMA PrependedOrder ==
    ASSUME NEW R, NEW e \in Requests, NEW h \in History \cup {Absent},
           OrderIn(EventsOf(h), R), R[e].pc # "idle",
           \A s \in Requests : e \notin R[s].before
    PROVE  OrderIn(Prepended(e, h), R)
  <1> DEFINE s == EventsOf(h)
             t == Prepended(e, h)
  <1>1. s \in Seq(Requests \cup {Synthetic}) /\ t \in Seq(Requests \cup {Synthetic})
    BY EventsFacts, PrependedFacts DEF History
  <1>2. /\ Len(t) = Len(s) + 1 /\ Len(s) \in Nat
        /\ t[1] = e /\ \A i \in 1..Len(s) : t[i + 1] = s[i]
    BY <1>1, PrependedFacts
  <1>3. DOMAIN t = 1..(Len(s) + 1) /\ DOMAIN s = 1..Len(s)
    BY <1>1, <1>2
  <1>4. \A i \in DOMAIN s : s[i] # Synthetic => s[i] \in Requests
    BY <1>1
  <1>5. e # Synthetic
    BY AbsentFacts
  <1> HIDE DEF s, t
  <1>6. OrderIn(s, R)
    BY DEF s
  <1>7. ASSUME NEW i \in DOMAIN t
        PROVE  i = 1 \/ (i - 1 \in DOMAIN s /\ t[i] = s[i - 1])
    <2>1. i = 1 \/ (i - 1 \in 1..Len(s) /\ (i - 1) + 1 = i)
      BY <1>2, <1>3
    <2> QED
      BY <2>1, <1>2, <1>3
  <1>8. ASSUME NEW i \in DOMAIN t, t[i] # Synthetic PROVE R[t[i]].pc # "idle"
    BY <1>2, <1>6, <1>7, <1>8 DEF OrderIn
  <1>9. ASSUME NEW i \in DOMAIN t, NEW j \in DOMAIN t, i < j
        PROVE  /\ t[i] # Synthetic
               /\ t[j] # Synthetic => t[i] \notin R[t[j]].before
    <2>1. i \in Int /\ j \in Int /\ i >= 1
      BY <1>2, <1>3
    <2>2. j - 1 \in DOMAIN s /\ t[j] = s[j - 1]
      BY <2>1, <1>7, <1>9
    <2>3. CASE i = 1
      BY <2>2, <2>3, <1>2, <1>4, <1>5
    <2>4. CASE i # 1
      <3>1. i - 1 \in DOMAIN s /\ t[i] = s[i - 1]
        BY <1>7, <2>4
      <3>2. i - 1 < j - 1
        BY <2>1, <1>9
      <3> QED
        BY <2>2, <3>1, <3>2, <1>6 DEF OrderIn
    <2> QED
      BY <2>3, <2>4
  <1>10. OrderIn(t, R)
    BY <1>8, <1>9 DEF OrderIn
  <1> QED
    BY <1>10 DEF t

(* What a step leaves is ordered still; what it sets must be. *)
LEMMA StepKeepsOrder ==
    ASSUME TypeOK, OrderInv, Steady,
           \A p \in Replicas, u \in Users :
              memory'[p][u] = memory[p][u] \/ OrderIn(EventsOf(memory'[p][u]), req'),
           \A u \in Users : \/ redis'.history[u] = redis.history[u]
                            \/ OrderIn(EventsOf(redis'.history[u]), req'),
           \A r \in Requests : req'[r].read = req[r].read \/ OrderIn(req'[r].read, req')
    PROVE  OrderInv'
  <1>1. \A p \in Replicas, u \in Users : OrderIn(EventsOf(memory'[p][u]), req')
    <2>1. ASSUME NEW p \in Replicas, NEW u \in Users
          PROVE  OrderIn(EventsOf(memory'[p][u]), req')
      <3>1. EventsOf(memory[p][u]) \in History /\ OrderIn(EventsOf(memory[p][u]), req)
        BY EventsFacts DEF TypeOK, OrderInv
      <3>2. OrderIn(EventsOf(memory[p][u]), req')
        BY <3>1, OrderStays
      <3> QED
        BY <3>2
    <2> QED
      BY <2>1
  <1>2. \A u \in Users : OrderIn(EventsOf(redis'.history[u]), req')
    <2>1. ASSUME NEW u \in Users PROVE OrderIn(EventsOf(redis'.history[u]), req')
      <3>1. EventsOf(redis.history[u]) \in History /\ OrderIn(EventsOf(redis.history[u]), req)
        BY EventsFacts DEF TypeOK, OrderInv
      <3>2. OrderIn(EventsOf(redis.history[u]), req')
        BY <3>1, OrderStays
      <3> QED
        BY <3>2
    <2> QED
      BY <2>1
  <1>3. \A r \in Requests : OrderIn(req'[r].read, req')
    <2>1. ASSUME NEW r \in Requests PROVE OrderIn(req'[r].read, req')
      <3>1. req[r] \in Request
        BY DEF TypeOK
      <3>2. req[r].read \in History /\ OrderIn(req[r].read, req)
        BY <3>1, RequestFields DEF OrderInv
      <3>3. OrderIn(req[r].read, req')
        BY <3>2, OrderStays
      <3> QED
        BY <3>3
    <2> QED
      BY <2>1
  <1> QED
    BY <1>1, <1>2, <1>3 DEF OrderInv

LEMMA NobodyBefore ==
    ASSUME Shape, NEW r \in Requests, req[r].pc \notin {"done", "dead"}
    PROVE  \A s \in Requests : r \notin req[s].before
  BY DEF Shape, ShapeOf, Ended

LEMMA SeedingKeepsOrder ==
    ASSUME TypeOK, Shape, OrderInv, NEW r \in Requests,
           CheckSeeded(r) \/ SeedHistory(r) \/ SeedUser(r) \/ SeedFlag(r)
    PROVE  OrderInv'
  <1> DEFINE u == SeedUsers[req[r].seed]
             q == [req[r] EXCEPT !.wrote = @ \cup {u}]
             n == [req[r] EXCEPT !.seed = @ + 1]
             c == Command(req[r].kind)
             f == [redis EXCEPT !.seeded = TRUE]
             h == SetHistory(u, <<Synthetic>>)
             a == AddUser(u)
  <1>1. u \in Users
    <2>1. req[r] \in Request
      BY DEF TypeOK
    <2> QED
      BY <2>1, RequestFields
  <1>2. q.read = req[r].read /\ n.read = req[r].read
    BY <1>1, WroteFacts, OtherFacts
  <1>3. \/ StepOf(r, "check", req[r], c, redis)
        \/ StepOf(r, "check", req[r], "seed_set", redis)
        \/ StepOf(r, "seed_set", q, "seed_add", h)
        \/ StepOf(r, "seed_add", req[r], "seed_flag", a)
        \/ StepOf(r, "seed_add", n, "seed_set", a)
        \/ StepOf(r, "seed_flag", req[r], c, f)
    BY SeedingSteps
  <1>4. Steady
    BY SeedingMoves, MoveIsSteady
  <1>5. <<Synthetic>> \in History /\ EventsOf(<<Synthetic>>) = <<Synthetic>>
    BY AbsentFacts DEF EventsOf
  <1>6. /\ f.history = redis.history /\ a.history = redis.history
        /\ h.history[u] = <<Synthetic>>
        /\ \A v \in Users : v # u => h.history[v] = redis.history[v]
    <2>1. f.history = redis.history
      BY FlagFacts
    <2> HIDE DEF u, f
    <2> QED
      BY <1>1, <1>5, <2>1, StoreFacts
  <1> HIDE DEF u, q, n, c, f, h, a
  <1>7. memory' = memory /\ \A s \in Requests : req'[s].read = req[s].read
    BY <1>2, <1>3 DEF StepOf
  <1>8. redis' \in {redis, h, a, f}
    BY <1>3 DEF StepOf
  <1>9. \A v \in Users : \/ redis'.history[v] = redis.history[v]
                         \/ redis'.history[v] = <<Synthetic>>
    BY <1>6, <1>8
  <1>10. OrderIn(<<Synthetic>>, req')
    BY OrderOfFew
  <1> QED
    BY <1>4, <1>5, <1>7, <1>9, <1>10, StepKeepsOrder

LEMMA HistoryKeepsOrder ==
    ASSUME TypeOK, Shape, OrderInv, NEW r \in Requests,
           \/ GetHistory(r) \/ CreateHistory(r) \/ CreateUser(r)
           \/ ReadHistory(r) \/ WriteHistory(r) \/ ListUsers(r)
    PROVE  OrderInv'
  <1> DEFINE u == req[r].user
             e == EventsOf(redis.history[u])
             b == Prepended(r, req[r].read)
             q == [req[r] EXCEPT !.wrote = @ \cup {u}]
             n == [req[r] EXCEPT !.read = e]
             l == [req[r] EXCEPT !.answer = redis.users]
             h == SetHistory(u, <<Synthetic>>)
             w == SetHistory(u, b)
             a == AddUser(u)
  <1>1. u \in Users /\ req[r].read \in History
    <2>1. req[r] \in Request
      BY DEF TypeOK
    <2> QED
      BY <2>1, RequestFields
  <1>2. q.read = req[r].read /\ n.read = e /\ l.read = req[r].read
    BY <1>1, WroteFacts, OtherFacts
  <1>3. \/ StepOf(r, "read", req[r], "create", redis)
        \/ StepOf(r, "read", req[r], "done", redis)
        \/ StepOf(r, "create", q, "create_add", h)
        \/ StepOf(r, "create_add", req[r], "done", a)
        \/ StepOf(r, "read", n, "write", redis)
        \/ StepOf(r, "write", q, "done", w)
        \/ StepOf(r, "list", l, "done", redis)
    BY HistorySteps
  <1>4. MovesOnly(r) /\ Steady
    BY HistoryMoves, MoveIsSteady
  <1>5. /\ <<Synthetic>> \in History /\ EventsOf(<<Synthetic>>) = <<Synthetic>>
        /\ b \in History /\ EventsOf(b) = b /\ e \in History
        /\ EventsOf(req[r].read) = req[r].read
    <2>1. redis.history[u] \in History \cup {Absent}
      BY <1>1 DEF TypeOK
    <2> QED
      BY <1>1, <2>1, AbsentFacts, PrependedFacts, EventsFacts DEF EventsOf
  <1>6. /\ a.history = redis.history
        /\ h.history[u] = <<Synthetic>> /\ w.history[u] = b
        /\ \A v \in Users : v # u => /\ h.history[v] = redis.history[v]
                                     /\ w.history[v] = redis.history[v]
    <2> HIDE DEF u, b
    <2> QED
      BY <1>1, <1>5, StoreFacts
  <1>7. OrderIn(e, req) /\ OrderIn(req[r].read, req)
    BY <1>1 DEF OrderInv
  <1>8. OrderIn(e, req') /\ OrderIn(req[r].read, req') /\ OrderIn(<<Synthetic>>, req')
    BY <1>1, <1>4, <1>5, <1>7, OrderStays, OrderOfFew
  <1>9. req'[r].pc # "idle" /\ \A s \in Requests : r \notin req'[s].before
    <2>1. req[r].pc # "idle" /\ req[r].pc \notin {"done", "dead"}
      BY <1>3, <1>4 DEF StepOf
    <2>2. req'[r].pc # "idle" /\ \A s \in Requests : req'[s].before = req[s].before
      BY <1>4, <2>1 DEF MovesOnly
    <2> QED
      BY <2>1, <2>2, NobodyBefore
  <1>10. OrderIn(b, req')
    BY <1>1, <1>5, <1>8, <1>9, PrependedOrder
  <1> HIDE DEF u, e, b, q, n, l, h, w, a
  <1>11. /\ memory' = memory
         /\ \A s \in Requests : req'[s].read = req[s].read \/ req'[s].read = e
    BY <1>2, <1>3 DEF StepOf
  <1>12. redis' \in {redis, h, w, a}
    BY <1>3 DEF StepOf
  <1>13. \A v \in Users : redis'.history[v] \in {redis.history[v], <<Synthetic>>, b}
    BY <1>6, <1>12
  <1> QED
    BY <1>4, <1>5, <1>8, <1>10, <1>11, <1>13, StepKeepsOrder

LEMMA BeginKeepsOrder ==
    ASSUME TypeOK, Shape, OrderInv, NEW r \in Requests, Serve(r) \/ Begin(r)
    PROVE  OrderInv'
  <1>1. Steady
    BY BeginMoves, MoveIsSteady
  <1>2. CASE Begin(r)
    BY <1>1, <1>2, BeginStep, StepKeepsOrder DEF BeginOf
  <1>3. CASE Serve(r)
    <2>1. PICK u \in Users, p \in Replicas :
             ServeGet(r, u, p) \/ ServeRecord(r, u, p) \/ ServeList(r, u, p)
      BY <1>3, ServeStep
    <2> DEFINE m == memory[p][u]
               g == IF m = Absent THEN <<Synthetic>> ELSE m
               h == Prepended(r, m)
    <2>2. m \in History \cup {Absent} /\ EventsOf(m) \in History
      BY EventsFacts DEF TypeOK
    <2>3. g \in History /\ h \in History /\ EventsOf(h) = h
      BY <2>2, AbsentFacts, PrependedFacts DEF EventsOf
    <2>4. /\ req[r].pc = "idle" /\ req'[r].pc = "done" /\ req'[r].before = Ended
          /\ redis' = redis
          /\ \A s \in Requests : s # r => req'[s] = req[s]
          /\ \A s \in Requests : req'[s].read = req[s].read
      BY <2>1 DEF ServeGet, ServeRecord, ServeList, BeginOf
    <2>5. \A s \in Requests : r \notin req'[s].before
      BY <2>4, NobodyBefore DEF Ended
    <2>6. OrderIn(EventsOf(m), req')
      BY <1>1, <2>2, OrderStays DEF OrderInv
    <2>7. OrderIn(h, req')
      BY <2>2, <2>4, <2>5, <2>6, PrependedOrder
    <2>8. OrderIn(EventsOf(g), req')
      <3>1. CASE m = Absent
        BY <3>1, AbsentFacts, OrderOfFew DEF EventsOf
      <3>2. CASE m # Absent
        BY <2>6, <3>2
      <3> QED
        BY <3>1, <3>2
    <2>9. \/ memory' = [memory EXCEPT ![p][u] = g]
          \/ memory' = [memory EXCEPT ![p][u] = h]
          \/ memory' = memory
      BY <2>1 DEF ServeGet, ServeRecord, ServeList
    <2> HIDE DEF g, h
    <2>10. \A x \in Replicas, v \in Users :
              \/ memory'[x][v] = memory[x][v]
              \/ OrderIn(EventsOf(memory'[x][v]), req')
      BY <2>3, <2>7, <2>8, <2>9, MemoryFacts
    <2> QED
      BY <1>1, <2>4, <2>10, StepKeepsOrder
  <1> QED
    BY <1>2, <1>3

LEMMA AbortKeepsOrder ==
    ASSUME TypeOK, Shape, OrderInv, Abort
    PROVE  OrderInv'
  <1>1. Steady
    BY NextIsSteady DEF Next, Abort
  <1>2. /\ redis' = redis /\ memory' = memory
        /\ \A r \in Requests : req'[r].read = req[r].read \/ req'[r].read = <<>>
    BY AbortStep
  <1>3. OrderIn(<<>>, req')
    BY OrderOfFew
  <1> QED
    BY <1>1, <1>2, <1>3, StepKeepsOrder

LEMMA InitOrder ==
    ASSUME Init
    PROVE  OrderInv
  <1>1. PICK p \in Replicas :
          req = [r \in Requests |->
                   [pc |-> "idle", kind |-> "list", user |-> SeedUsers[1], at |-> p,
                    seed |-> 1, read |-> <<>>, answer |-> {}, before |-> {}, wrote |-> {}]]
    BY DEF Init
  <1>2. \A r \in Requests : req[r].read = <<>>
    BY <1>1
  <1>3. /\ redis = [seeded |-> FALSE, history |-> [u \in Users |-> Absent], users |-> {}]
        /\ memory = [x \in Replicas |-> NewMemory]
    BY DEF Init
  <1>4. \A u \in Users : EventsOf(redis.history[u]) = <<>>
    BY <1>3 DEF EventsOf
  <1>5. \A x \in Replicas, u \in Users : EventsOf(memory[x][u]) \in {<<>>, <<Synthetic>>}
    BY <1>3, AbsentFacts DEF EventsOf, NewMemory
  <1>6. OrderIn(<<>>, req) /\ OrderIn(<<Synthetic>>, req)
    BY OrderOfFew
  <1> QED
    BY <1>2, <1>4, <1>5, <1>6 DEF OrderInv

LEMMA NextKeepsOrder ==
    ASSUME TypeOK, Shape, OrderInv, Next
    PROVE  OrderInv'
  <1>1. CASE \E r \in Requests : Serve(r) \/ Begin(r)
    BY <1>1, BeginKeepsOrder
  <1>2. CASE \E r \in Requests :
               CheckSeeded(r) \/ SeedHistory(r) \/ SeedUser(r) \/ SeedFlag(r)
    BY <1>2, SeedingKeepsOrder
  <1>3. CASE \E r \in Requests :
               \/ GetHistory(r) \/ CreateHistory(r) \/ CreateUser(r)
               \/ ReadHistory(r) \/ WriteHistory(r) \/ ListUsers(r)
    BY <1>3, HistoryKeepsOrder
  <1>4. CASE Abort
    BY <1>4, AbortKeepsOrder
  <1> QED
    BY <1>1, <1>2, <1>3, <1>4 DEF Next, Abort

LEMMA OrderInvariant == Spec => []OrderInv
  <1>1. OrderInv /\ UNCHANGED vars => OrderInv'
    BY DEF vars, OrderInv
  <1>2. TypeOK /\ Shape /\ OrderInv /\ [Next]_vars => OrderInv'
    BY <1>1, NextKeepsOrder
  <1> QED
    BY <1>2, InitOrder, ShapeInvariant, PTL DEF Spec

(* Every history is newest first, whatever stale copies are written over   *)
(* it: no copy holds a request that begins later, and an event goes in     *)
(* front of what had been recorded before it came (adapter.py:101-103,     *)
(* 154-159).                                                               *)
THEOREM HistoriesAreNewestFirst == Spec => []NewestFirst
  <1>1. ASSUME OrderInv PROVE NewestFirst
    <2>1. ASSUME NEW u \in Users, NEW p \in Replicas
          PROVE  OrderIn(Stored(u, p), req)
      BY <1>1 DEF OrderInv, Stored
    <2> QED
      BY <2>1 DEF NewestFirst, OrderIn
  <1> QED
    BY <1>1, OrderInvariant, PTL

-----------------------------------------------------------------------------
(* Which events are kept.                                                  *)

Excused(r) == \E q \in Requests : Overlap(q, r) /\ req[r].user \in req[q].wrote

Kept(r) == r \in Range(Stored(req[r].user, req[r].at)) \/ Excused(r)

(* What the handler of q must not undo: the events that had been recorded  *)
(* when it began.                                                          *)
KeepOf(q) ==
    \A r \in Recorded : r \in req[q].before =>
        /\ req[q].pc \notin {"seed_set", "seed_add"}
        /\ req[r].user = req[q].user =>
              /\ req[q].pc = "write" => r \in Range(req[q].read) \/ Excused(r)
              /\ req[q].pc = "create" => Excused(r)

KeepInv == (\A r \in Recorded : Kept(r)) /\ (\A q \in Requests : KeepOf(q))

LEMMA RecordedStays ==
    ASSUME Steady, NEW r \in Recorded
    PROVE  r \in Recorded' /\ req'[r].user = req[r].user /\ req'[r].at = req[r].at
  BY DEF Recorded, Steady

LEMMA RecordedBefore ==
    ASSUME Shape, Steady, NEW r \in Recorded', NEW q \in Requests, r \in req[q].before
    PROVE  r \in Recorded
  <1>1. r \in Ended
    BY DEF Shape, ShapeOf
  <1> QED
    BY <1>1 DEF Ended, Recorded, Steady

LEMMA ExcusedStays ==
    ASSUME Shape, Steady, NEW r \in Recorded, Excused(r)
    PROVE  Excused(r)'
  <1>1. PICK q \in Requests : Overlap(q, r) /\ req[r].user \in req[q].wrote
    BY DEF Excused
  <1>2. req[q].pc # "idle" /\ req[r].pc # "idle"
    BY <1>1 DEF Shape, ShapeOf, Recorded
  <1>3. /\ req'[q].before = req[q].before /\ req'[r].before = req[r].before
        /\ req'[r].user = req[r].user /\ req'[r].user \in req'[q].wrote
    BY <1>1, <1>2 DEF Steady, Recorded
  <1> QED
    BY <1>1, <1>3 DEF Excused, Overlap

(* A handler that does not move, or that dies. *)
LEMMA KeepOfStays ==
    ASSUME Shape, Steady, NEW q \in Requests, KeepOf(q),
           req'[q].before = req[q].before, req'[q].user = req[q].user,
           \/ req'[q].pc = req[q].pc /\ req'[q].read = req[q].read
           \/ req'[q].pc \notin {"seed_set", "seed_add", "write", "create"}
    PROVE  KeepOf(q)'
  <1>1. ASSUME NEW r \in Recorded', r \in req'[q].before
        PROVE  /\ req'[q].pc \notin {"seed_set", "seed_add"}
               /\ req'[r].user = req'[q].user =>
                     /\ req'[q].pc = "write" => r \in Range(req'[q].read) \/ Excused(r)'
                     /\ req'[q].pc = "create" => Excused(r)'
    <2>1. r \in Recorded /\ r \in req[q].before
      BY <1>1, RecordedBefore
    <2>2. req'[r].user = req[r].user
      BY <2>1, RecordedStays
    <2>3. Excused(r) => Excused(r)'
      BY <2>1, ExcusedStays
    <2> QED
      BY <2>1, <2>2, <2>3 DEF KeepOf
  <1> QED
    BY <1>1 DEF KeepOf

LEMMA KeptStays ==
    ASSUME Shape, Steady, NEW r \in Recorded, Kept(r),
           Stored(req[r].user, req[r].at)' = Stored(req[r].user, req[r].at)
    PROVE  Kept(r)'
  <1>1. Excused(r) => Excused(r)'
    BY ExcusedStays
  <1> QED
    BY <1>1 DEF Kept

(* A step of the handler of r keeps the invariant if it does r's part. *)
LEMMA StepKeepsKeep ==
    ASSUME TypeOK, Shape, KeepInv, NEW r \in Requests, MovesOnly(r), KeepOf(r)',
           \A x \in Recorded' : Kept(x)'
    PROVE  KeepInv'
  <1>1. Steady
    BY MoveIsSteady
  <1>2. ASSUME NEW q \in Requests PROVE KeepOf(q)'
    <2>1. CASE q = r
      BY <2>1
    <2>2. CASE q # r
      <3>1. req'[q] = req[q] /\ KeepOf(q)
        BY <2>2 DEF MovesOnly, KeepInv
      <3> QED
        BY <1>1, <3>1, KeepOfStays
    <2> QED
      BY <2>1, <2>2
  <1> QED
    BY <1>2 DEF KeepInv

(* A step that sets no history and records nothing. *)
LEMMA NothingSet ==
    ASSUME TypeOK, Shape, KeepInv, Steady, backend' = backend, memory' = memory,
           redis'.history = redis.history, Recorded' \subseteq Recorded
    PROVE  \A x \in Recorded' : Kept(x)'
  <1>1. ASSUME NEW x \in Recorded' PROVE Kept(x)'
    <2>1. x \in Recorded /\ Kept(x)
      BY DEF KeepInv
    <2>2. req'[x].user = req[x].user /\ req'[x].at = req[x].at
      BY <2>1, RecordedStays
    <2>3. Stored(req[x].user, req[x].at)' = Stored(req[x].user, req[x].at)
      BY <2>2 DEF Stored
    <2> QED
      BY <2>1, <2>3, KeptStays
  <1> QED
    BY <1>1

(* A step that sets the history of u to h. *)
LEMMA OneSet ==
    ASSUME TypeOK, Shape, KeepInv, NEW r \in Requests, MovesOnly(r), req[r].pc # "idle",
           backend = "redis", NEW u \in Users, NEW h, EventsOf(h) = h,
           redis'.history[u] = h, u \in req'[r].wrote,
           \A v \in Users : v # u => redis'.history[v] = redis.history[v],
           \A x \in Recorded : x \in req[r].before /\ req[x].user = u =>
              x \in Range(h) \/ Excused(x),
           r \in Recorded' => r \in Range(h) /\ req'[r].user = u
    PROVE  \A x \in Recorded' : Kept(x)'
  <1>1. Steady /\ backend' = "redis"
    BY MoveIsSteady DEF MovesOnly
  <1>2. ASSUME NEW v \in Users, NEW p PROVE Stored(v, p)' = EventsOf(redis'.history[v])
    BY <1>1 DEF Stored
  <1>3. ASSUME NEW x \in Recorded' PROVE Kept(x)'
    <2>1. x \in Requests /\ req[x] \in Request
      BY DEF Recorded, TypeOK
    <2>2. CASE x = r
      <3>1. x \in Range(h) /\ req'[x].user = u
        BY <2>2
      <3>2. Stored(req[x].user, req[x].at)' = h
        BY <1>2, <3>1 DEF Stored
      <3> QED
        BY <3>1, <3>2 DEF Kept
    <2>3. CASE x # r
      <3>1. x \in Recorded /\ req'[x] = req[x]
        BY <2>1, <2>3 DEF Recorded, MovesOnly
      <3>2. Kept(x) /\ req[x].user \in Users
        BY <2>1, <3>1, RequestFields DEF KeepInv
      <3>3. CASE req[x].user # u
        <4>1. Stored(req[x].user, req[x].at)' = Stored(req[x].user, req[x].at)
          BY <1>1, <3>1, <3>2, <3>3 DEF Stored
        <4> QED
          BY <1>1, <3>1, <3>2, <4>1, KeptStays
      <3>4. CASE req[x].user = u /\ x \in req[r].before
        <4>1. x \in Range(h) \/ Excused(x)
          BY <3>1, <3>4
        <4>2. CASE Excused(x)
          BY <1>1, <3>1, <4>2, ExcusedStays DEF Kept
        <4>3. CASE x \in Range(h)
          <5>1. Stored(req[x].user, req[x].at)' = h
            BY <1>1, <3>1, <3>4 DEF Stored
          <5> QED
            BY <4>3, <5>1 DEF Kept
        <4> QED
          BY <4>1, <4>2, <4>3
      <3>5. CASE req[x].user = u /\ x \notin req[r].before
        <4>1. r \notin req[x].before
          BY <2>1, NobodyBefore DEF MovesOnly
        <4>2. Overlap(r, x)' /\ (req[x].user)' \in (req[r].wrote)'
          BY <2>3, <3>1, <3>5, <4>1 DEF Overlap, MovesOnly
        <4> QED
          BY <4>2 DEF Kept, Excused
      <3> QED
        BY <3>3, <3>4, <3>5
    <2> QED
      BY <2>2, <2>3
  <1> QED
    BY <1>3

LEMMA SyntheticRange == Range(<<>>) = {}
  BY DEF Range

LEMMA SeedingKeepsKeep ==
    ASSUME TypeOK, Shape, SeedInv, KeepInv, NEW r \in Requests,
           CheckSeeded(r) \/ SeedHistory(r) \/ SeedUser(r) \/ SeedFlag(r)
    PROVE  KeepInv'
  <1> DEFINE u == SeedUsers[req[r].seed]
             q == [req[r] EXCEPT !.wrote = @ \cup {u}]
             n == [req[r] EXCEPT !.seed = @ + 1]
             c == Command(req[r].kind)
             f == [redis EXCEPT !.seeded = TRUE]
             h == SetHistory(u, <<Synthetic>>)
             a == AddUser(u)
  <1>1. req[r] \in Request /\ u \in Users
    <2>1. req[r] \in Request
      BY DEF TypeOK
    <2> QED
      BY <2>1, RequestFields
  <1>2. c \in {"list", "read"}
    BY <1>1, RequestFields, CommandFacts
  <1>3. MovesOnly(r) /\ Steady
    BY SeedingMoves, MoveIsSteady
  <1>4. <<Synthetic>> \in History /\ EventsOf(<<Synthetic>>) = <<Synthetic>>
    BY AbsentFacts DEF EventsOf
  <1>5. /\ f.history = redis.history /\ a.history = redis.history
        /\ h.history[u] = <<Synthetic>> /\ u \in q.wrote
        /\ \A v \in Users : v # u => h.history[v] = redis.history[v]
    <2>1. f.history = redis.history
      BY FlagFacts
    <2>2. u \in q.wrote
      BY <1>1, WroteFacts
    <2> HIDE DEF u, f, q
    <2> QED
      BY <1>1, <1>4, <2>1, <2>2, StoreFacts
  <1>6. \/ /\ redis.seeded /\ StepOf(r, "check", req[r], c, redis)
        \/ /\ ~redis.seeded /\ StepOf(r, "check", req[r], "seed_set", redis)
        \/ StepOf(r, "seed_set", q, "seed_add", h)
        \/ StepOf(r, "seed_add", req[r], "seed_flag", a)
        \/ StepOf(r, "seed_add", n, "seed_set", a)
        \/ StepOf(r, "seed_flag", req[r], c, f)
    BY SeedingSteps
  <1>7. /\ req[r].pc \notin {"idle", "done", "dead"} /\ backend' = backend
        /\ memory' = memory
        /\ req'[r].pc \notin {"write", "create", "done"}
        /\ req'[r].before = req[r].before
        /\ req'[r].pc \in {"seed_set", "seed_add"} =>
              req[r].pc \in {"seed_set", "seed_add"} \/ ~redis.seeded
        /\ \/ redis'.history = redis.history
           \/ redis' = h /\ u \in req'[r].wrote /\ req[r].pc = "seed_set"
    <2> HIDE DEF u, q, n, c, f, h, a
    <2> QED
      BY <1>2, <1>5, <1>6 DEF StepOf
  <1>8. backend = "redis"
    <2>1. backend # "memory"
      BY <1>7 DEF Shape, ShapeOf
    <2> QED
      BY <2>1, FeatureStoreAssumption DEF TypeOK
  <1>9. KeepOf(r) /\ \A x \in Recorded : SeedOf(x)
    BY DEF KeepInv, SeedInv, Recorded
  <1>10. \A x \in Recorded' : x # r /\ x \in Recorded
    BY <1>3, <1>7 DEF Recorded, MovesOnly
  <1>11. KeepOf(r)'
    <2>1. ASSUME NEW x \in Recorded', x \in req'[r].before
          PROVE  req'[r].pc \notin {"seed_set", "seed_add"}
      <3>1. x \in Recorded /\ x \in req[r].before
        BY <1>7, <1>10, <2>1
      <3>2. redis.seeded
        BY <1>8, <1>9, <3>1 DEF SeedOf, Recorded
      <3> QED
        BY <1>7, <1>9, <3>1, <3>2 DEF KeepOf
    <2> QED
      BY <1>7, <2>1 DEF KeepOf
  <1>12. \A x \in Recorded' : Kept(x)'
    <2>1. CASE redis'.history = redis.history
      BY <1>3, <1>7, <1>10, <2>1, NothingSet
    <2>2. CASE redis' = h /\ u \in req'[r].wrote /\ req[r].pc = "seed_set"
      <3>1. \A x \in Recorded : x \notin req[r].before
        BY <1>9, <2>2 DEF KeepOf
      <3>2. r \notin Recorded'
        BY <1>10
      <3> DEFINE y == <<Synthetic>>
      <3>3. EventsOf(y) = y /\ redis'.history[u] = y
        BY <1>4, <1>5, <2>2
      <3>4. \A v \in Users : v # u => redis'.history[v] = redis.history[v]
        BY <1>5, <2>2
      <3> HIDE DEF u, h, y
      <3> QED
        BY <1>1, <1>3, <1>7, <1>8, <2>2, <3>1, <3>2, <3>3, <3>4, OneSet
    <2> QED
      BY <1>7, <2>1, <2>2
  <1> QED
    BY <1>3, <1>11, <1>12, StepKeepsKeep

LEMMA HistoryKeepsKeep ==
    ASSUME TypeOK, Shape, KeepInv, NEW r \in Requests,
           \/ GetHistory(r) \/ CreateHistory(r) \/ CreateUser(r)
           \/ ReadHistory(r) \/ WriteHistory(r) \/ ListUsers(r)
    PROVE  KeepInv'
  <1> DEFINE u == req[r].user
             e == EventsOf(redis.history[u])
             b == Prepended(r, req[r].read)
             q == [req[r] EXCEPT !.wrote = @ \cup {u}]
             n == [req[r] EXCEPT !.read = e]
             l == [req[r] EXCEPT !.answer = redis.users]
             h == SetHistory(u, <<Synthetic>>)
             w == SetHistory(u, b)
             a == AddUser(u)
  <1>1. req[r] \in Request /\ u \in Users /\ req[r].read \in History
    <2>1. req[r] \in Request
      BY DEF TypeOK
    <2> QED
      BY <2>1, RequestFields
  <1>2. MovesOnly(r) /\ Steady
    BY HistoryMoves, MoveIsSteady
  <1>3. /\ <<Synthetic>> \in History /\ EventsOf(<<Synthetic>>) = <<Synthetic>>
        /\ b \in History /\ EventsOf(b) = b /\ Range(b) = {r} \cup Range(req[r].read)
    BY <1>1, AbsentFacts, PrependedFacts DEF EventsOf
  <1>4. /\ a.history = redis.history
        /\ h.history[u] = <<Synthetic>> /\ w.history[u] = b
        /\ \A v \in Users : v # u => /\ h.history[v] = redis.history[v]
                                     /\ w.history[v] = redis.history[v]
    <2> HIDE DEF u, b
    <2> QED
      BY <1>1, <1>3, StoreFacts
  <1>5. u \in q.wrote /\ n.read = e
    BY <1>1, WroteFacts, OtherFacts
  <1>6. KeepOf(r) /\ ShapeOf(r) /\ \A x \in Recorded : Kept(x)
    BY DEF KeepInv, Shape
  <1>7. \/ /\ redis.history[u] = Absent /\ req[r].kind = "get"
           /\ StepOf(r, "read", req[r], "create", redis)
        \/ StepOf(r, "read", req[r], "done", redis) /\ req[r].kind = "get"
        \/ StepOf(r, "create", q, "create_add", h)
        \/ StepOf(r, "create_add", req[r], "done", a)
        \/ StepOf(r, "read", n, "write", redis)
        \/ StepOf(r, "write", q, "done", w)
        \/ StepOf(r, "list", l, "done", redis)
    BY HistorySteps
  <1>8. /\ req[r].pc \notin {"idle", "done", "dead"} /\ backend' = backend
        /\ memory' = memory /\ req'[r].before = req[r].before
        /\ req'[r].user = u /\ req'[r].kind = req[r].kind
    <2> HIDE DEF u, e, b, q, n, l, h, w, a
    <2>1. req'[r].user = req[r].user
      BY <1>7 DEF StepOf
    <2> QED
      BY <1>7, <2>1 DEF StepOf, u
  <1>9. backend = "redis"
    <2>1. backend # "memory"
      BY <1>6, <1>8 DEF ShapeOf
    <2> QED
      BY <2>1, FeatureStoreAssumption DEF TypeOK
  <1>10. ASSUME NEW x \in Recorded, req[x].user = u PROVE x \in Range(e) \/ Excused(x)
    BY <1>6, <1>9, <1>10 DEF Kept, Stored
  <1>11. ASSUME NEW x \in Recorded', x \in req[r].before PROVE x \in Recorded
    BY <1>2, <1>11, RecordedBefore
  <1>12. \A x \in Recorded' : x # r => x \in Recorded
    BY <1>2 DEF Recorded, MovesOnly
  <1>13. \A x \in Recorded : req'[x].user = req[x].user /\ (Excused(x) => Excused(x)')
    BY <1>2, RecordedStays, ExcusedStays
  <1> HIDE DEF e, b, q, n, l, h, w, a
  <1>14. CASE redis.history[u] = Absent /\ StepOf(r, "read", req[r], "create", redis)
    <2>1. e = <<>>
      BY <1>14 DEF e, EventsOf
    <2>2. req'[r].pc = "create" /\ redis' = redis
      BY <1>14 DEF StepOf
    <2>3. ASSUME NEW x \in Recorded', x \in req'[r].before, req'[x].user = req'[r].user
          PROVE  Excused(x)'
      <3>1. x \in Recorded
        BY <1>8, <1>11, <2>3
      <3> QED
        BY <1>8, <1>10, <1>13, <2>1, <2>3, <3>1, SyntheticRange
    <2>4. KeepOf(r)'
      BY <2>2, <2>3 DEF KeepOf
    <2>5. Recorded' \subseteq Recorded
      BY <1>12, <2>2 DEF Recorded
    <2> QED
      BY <1>2, <1>8, <2>2, <2>4, <2>5, NothingSet, StepKeepsKeep
  <1>15. CASE \/ StepOf(r, "read", req[r], "done", redis) /\ req[r].kind = "get"
              \/ StepOf(r, "create_add", req[r], "done", a)
              \/ StepOf(r, "list", l, "done", redis)
    <2>1. req'[r].pc = "done" /\ redis'.history = redis.history
      BY <1>4, <1>15 DEF StepOf
    <2>2. req[r].kind # "record"
      BY <1>6, <1>15 DEF StepOf, ShapeOf
    <2>3. KeepOf(r)'
      BY <2>1 DEF KeepOf
    <2>4. Recorded' \subseteq Recorded
      BY <1>8, <1>12, <2>2 DEF Recorded
    <2> QED
      BY <1>2, <1>8, <2>1, <2>3, <2>4, NothingSet, StepKeepsKeep
  <1>16. CASE StepOf(r, "read", n, "write", redis)
    <2>1. req'[r].pc = "write" /\ redis' = redis /\ req'[r].read = e
      BY <1>5, <1>16 DEF StepOf
    <2>2. ASSUME NEW x \in Recorded', x \in req'[r].before, req'[x].user = req'[r].user
          PROVE  x \in Range(req'[r].read) \/ Excused(x)'
      <3>1. x \in Recorded
        BY <1>8, <1>11, <2>2
      <3> QED
        BY <1>8, <1>10, <1>13, <2>1, <2>2, <3>1
    <2>3. KeepOf(r)'
      BY <2>1, <2>2 DEF KeepOf
    <2>4. Recorded' \subseteq Recorded
      BY <1>12, <2>1 DEF Recorded
    <2> QED
      BY <1>2, <1>8, <2>1, <2>3, <2>4, NothingSet, StepKeepsKeep
  <1>17. CASE StepOf(r, "create", q, "create_add", h)
    <2>1. /\ req[r].pc = "create" /\ req'[r].pc = "create_add" /\ redis' = h
          /\ u \in req'[r].wrote
      BY <1>5, <1>17 DEF StepOf
    <2>2. KeepOf(r)'
      BY <2>1 DEF KeepOf
    <2>3. r \notin Recorded'
      BY <2>1 DEF Recorded
    <2>4. \A x \in Recorded : x \in req[r].before /\ req[x].user = u => Excused(x)
      BY <1>6, <2>1 DEF KeepOf
    <2> DEFINE y == <<Synthetic>>
    <2>5. EventsOf(y) = y /\ redis'.history[u] = y
      BY <1>3, <1>4, <2>1
    <2>6. \A v \in Users : v # u => redis'.history[v] = redis.history[v]
      BY <1>4, <2>1
    <2> HIDE DEF u, y
    <2>7. \A x \in Recorded' : Kept(x)'
      BY <1>1, <1>2, <1>8, <1>9, <2>1, <2>3, <2>4, <2>5, <2>6, OneSet
    <2> QED
      BY <1>2, <2>2, <2>7, StepKeepsKeep
  <1>18. CASE StepOf(r, "write", q, "done", w)
    <2>1. /\ req[r].pc = "write" /\ req'[r].pc = "done" /\ redis' = w
          /\ u \in req'[r].wrote
      BY <1>5, <1>18 DEF StepOf
    <2>2. KeepOf(r)'
      BY <2>1 DEF KeepOf
    <2>3. r \in Range(b)
      BY <1>3
    <2>4. \A x \in Recorded : x \in req[r].before /\ req[x].user = u =>
             x \in Range(b) \/ Excused(x)
      BY <1>3, <1>6, <2>1 DEF KeepOf
    <2>5. EventsOf(b) = b /\ redis'.history[u] = b
      BY <1>3, <1>4, <2>1
    <2>6. \A v \in Users : v # u => redis'.history[v] = redis.history[v]
      BY <1>4, <2>1
    <2> HIDE DEF u
    <2>7. \A x \in Recorded' : Kept(x)'
      BY <1>1, <1>2, <1>8, <1>9, <2>1, <2>3, <2>4, <2>5, <2>6, OneSet
    <2> QED
      BY <1>2, <2>2, <2>7, StepKeepsKeep
  <1> QED
    BY <1>7, <1>14, <1>15, <1>16, <1>17, <1>18

LEMMA BeginKeepsKeep ==
    ASSUME TypeOK, Shape, KeepInv, NEW r \in Requests, Serve(r) \/ Begin(r)
    PROVE  KeepInv'
  <1>1. MovesOnly(r) /\ Steady
    BY BeginMoves, MoveIsSteady
  <1>2. CASE Begin(r)
    <2>1. PICK kind \in {"get", "record", "list"}, u \in Users, p \in Replicas :
            /\ BeginOf(r, kind, u, p, IF known[p] THEN Command(kind) ELSE "check")
            /\ memory' = memory
      BY <1>2, BeginStep
    <2>2. /\ redis' = redis /\ backend' = backend /\ memory' = memory
          /\ req'[r].pc \in {"check", "list", "read"}
      BY <2>1, CommandFacts DEF BeginOf
    <2>3. KeepOf(r)'
      BY <2>2 DEF KeepOf
    <2>4. Recorded' \subseteq Recorded
      BY <1>1, <2>2 DEF Recorded, MovesOnly
    <2> QED
      BY <1>1, <2>2, <2>3, <2>4, NothingSet, StepKeepsKeep
  <1>3. CASE Serve(r)
    <2>1. PICK u \in Users, p \in Replicas :
             ServeGet(r, u, p) \/ ServeRecord(r, u, p) \/ ServeList(r, u, p)
      BY <1>3, ServeStep
    <2> DEFINE m == memory[p][u]
               g == IF m = Absent THEN <<Synthetic>> ELSE m
               h == Prepended(r, m)
    <2>2. m \in History \cup {Absent}
      BY DEF TypeOK
    <2>3. /\ g \in History /\ h \in History
          /\ Range(EventsOf(m)) \subseteq Range(EventsOf(g))
          /\ Range(EventsOf(m)) \subseteq Range(EventsOf(h))
          /\ r \in Range(EventsOf(h))
      <3>1. h \in History /\ EventsOf(h) = h /\ Range(h) = {r} \cup Range(EventsOf(m))
        BY <2>2, AbsentFacts, PrependedFacts DEF EventsOf
      <3>2. g \in History /\ Range(EventsOf(m)) \subseteq Range(EventsOf(g))
        <4>1. CASE m = Absent
          BY <4>1, AbsentFacts, SyntheticRange DEF EventsOf
        <4>2. CASE m # Absent
          BY <2>2, <4>2
        <4> QED
          BY <4>1, <4>2
      <3> HIDE DEF g, h
      <3> QED
        BY <3>1, <3>2
    <2>4. /\ backend = "memory" /\ backend' = "memory" /\ req'[r].pc = "done"
          /\ req'[r].user = u /\ req'[r].at = p
      BY <1>1, <1>3, <2>1, ServeStep DEF ServeGet, ServeRecord, ServeList, BeginOf, MovesOnly
    <2>5. \/ memory' = [memory EXCEPT ![p][u] = g] /\ req'[r].kind # "record"
          \/ memory' = [memory EXCEPT ![p][u] = h]
          \/ memory' = memory /\ req'[r].kind # "record"
      BY <2>1 DEF ServeGet, ServeRecord, ServeList, BeginOf
    <2> HIDE DEF m, g, h
    <2>6. \A x \in Replicas, v \in Users :
             Range(EventsOf(memory[x][v])) \subseteq Range(EventsOf(memory'[x][v]))
      <3>1. ASSUME NEW x \in Replicas, NEW v \in Users
            PROVE  Range(EventsOf(memory[x][v])) \subseteq Range(EventsOf(memory'[x][v]))
        <4>1. CASE x = p /\ v = u
          BY <2>3, <2>5, <4>1, MemoryFacts DEF m
        <4>2. CASE ~(x = p /\ v = u)
          <5>1. memory'[x][v] = memory[x][v]
            BY <2>3, <2>5, <4>2, MemoryFacts
          <5> QED
            BY <5>1
        <4> QED
          BY <4>1, <4>2
      <3> QED
        BY <3>1
    <2>7. ASSUME NEW x \in Recorded' PROVE Kept(x)'
      <3>1. CASE x = r
        <4>1. memory' = [memory EXCEPT ![p][u] = h]
          BY <2>5, <3>1 DEF Recorded
        <4>2. memory'[p][u] = h
          BY <2>3, <4>1, MemoryFacts
        <4>3. Stored(req[x].user, req[x].at)' = EventsOf(h)
          BY <2>4, <3>1, <4>2 DEF Stored
        <4> QED
          BY <2>3, <3>1, <4>3 DEF Kept
      <3>2. CASE x # r
        <4>1. x \in Recorded /\ req'[x] = req[x] /\ req[x] \in Request
          BY <1>1, <3>2 DEF Recorded, MovesOnly, TypeOK
        <4>2. req[x].user \in Users /\ req[x].at \in Replicas
          BY <4>1, RequestFields
        <4>3. Kept(x)
          BY <4>1 DEF KeepInv
        <4>4. CASE Excused(x)
          BY <1>1, <4>1, <4>4, ExcusedStays DEF Kept
        <4>5. CASE x \in Range(Stored(req[x].user, req[x].at))
          <5>1. x \in Range(EventsOf(memory[req[x].at][req[x].user]))
            BY <2>4, <4>5 DEF Stored
          <5>2. x \in Range(EventsOf(memory'[req[x].at][req[x].user]))
            BY <2>6, <4>2, <5>1
          <5> QED
            BY <2>4, <4>1, <5>2 DEF Kept, Stored
        <4> QED
          BY <4>3, <4>4, <4>5 DEF Kept
      <3> QED
        BY <3>1, <3>2
    <2>8. KeepOf(r)'
      BY <2>4 DEF KeepOf
    <2> QED
      BY <1>1, <2>7, <2>8, StepKeepsKeep
  <1> QED
    BY <1>2, <1>3

LEMMA AbortKeepsKeep ==
    ASSUME TypeOK, Shape, KeepInv, Abort
    PROVE  KeepInv'
  <1>1. Steady
    BY NextIsSteady DEF Next, Abort
  <1>2. ASSUME NEW q \in Requests PROVE KeepOf(q)'
    <2>1. /\ req'[q].before = req[q].before /\ req'[q].user = req[q].user
          /\ KeepOf(q)
          /\ \/ req'[q].pc = req[q].pc /\ req'[q].read = req[q].read
             \/ req'[q].pc = "dead"
      BY AbortStep DEF KeepInv
    <2> QED
      BY <1>1, <2>1, KeepOfStays
  <1>3. backend' = backend /\ memory' = memory /\ redis' = redis
    BY AbortStep
  <1>4. Recorded' \subseteq Recorded
    BY AbortStep DEF Recorded
  <1>5. \A x \in Recorded' : Kept(x)'
    BY <1>1, <1>3, <1>4, NothingSet
  <1> QED
    BY <1>2, <1>5 DEF KeepInv

LEMMA InitKeep ==
    ASSUME Init
    PROVE  KeepInv
  <1>1. \A r \in Requests : req[r].pc = "idle"
    BY DEF Init
  <1> QED
    BY <1>1 DEF KeepInv, KeepOf, Recorded

LEMMA NextKeepsKeep ==
    ASSUME TypeOK, Shape, SeedInv, KeepInv, Next
    PROVE  KeepInv'
  <1>1. CASE \E r \in Requests : Serve(r) \/ Begin(r)
    BY <1>1, BeginKeepsKeep
  <1>2. CASE \E r \in Requests :
               CheckSeeded(r) \/ SeedHistory(r) \/ SeedUser(r) \/ SeedFlag(r)
    BY <1>2, SeedingKeepsKeep
  <1>3. CASE \E r \in Requests :
               \/ GetHistory(r) \/ CreateHistory(r) \/ CreateUser(r)
               \/ ReadHistory(r) \/ WriteHistory(r) \/ ListUsers(r)
    BY <1>3, HistoryKeepsKeep
  <1>4. CASE Abort
    BY <1>4, AbortKeepsKeep
  <1> QED
    BY <1>1, <1>2, <1>3, <1>4 DEF Next, Abort

LEMMA KeepInvariant == Spec => []KeepInv
  <1>1. KeepInv /\ UNCHANGED vars => KeepInv'
    BY DEF vars, KeepInv, KeepOf, Kept, Excused, Overlap, Stored, Recorded
  <1>2. TypeOK /\ Shape /\ SeedInv /\ KeepInv /\ [Next]_vars => KeepInv'
    BY <1>1, NextKeepsKeep
  <1> QED
    BY <1>2, InitKeep, ShapeInvariant, SeedInvariant, PTL DEF Spec

(* An event that was answered "recorded" is lost only to a request that    *)
(* was under way at the same time: what had been recorded when a handler   *)
(* began is in the copy it writes, keeps it from creating the history, and *)
(* keeps it from seeding (adapter.py:101-103, 125-137, 139-159).           *)
THEOREM RecordedEventsAreKept == Spec => []EventKept
  <1>1. KeepInv => EventKept
    BY DEF KeepInv, Kept, Excused, EventKept
  <1> QED
    BY <1>1, KeepInvariant, PTL
-----------------------------------------------------------------------------
(* Who is listed.                                                          *)

Synthetics(h) == Synthetic \in Range(EventsOf(h))

(* The handler q has set a synthetic history of u, and has the user still  *)
(* to add to the set, or will never come to it.                            *)
Owes(q, u) ==
    /\ u \in req[q].wrote
    /\ \/ req[q].pc = "seed_add" /\ u = SeedUsers[req[q].seed]
       \/ req[q].pc = "create_add" /\ u = req[q].user
       \/ req[q].pc = "dead"

Accounted(u) == u \in redis.users \/ \E q \in Requests : Owes(q, u)

(* A copy with synthetic events may be written back long after.            *)
ListInv ==
    /\ \A u \in Users : Synthetics(redis.history[u]) => Accounted(u)
    /\ \A r \in Requests :
          req[r].pc = "write" /\ Synthetics(req[r].read) => Accounted(req[r].user)

LEMMA SyntheticFacts ==
    /\ ~Synthetics(Absent) /\ ~Synthetics(<<>>)
    /\ \A h \in History \cup {Absent} : Synthetics(EventsOf(h)) <=> Synthetics(h)
    /\ \A e \in Requests, h \in History \cup {Absent} :
          Synthetics(Prepended(e, h)) <=> Synthetics(h)
  <1>1. ~Synthetics(Absent) /\ ~Synthetics(<<>>)
    BY SyntheticRange, AbsentFacts DEF Synthetics, EventsOf
  <1>2. ASSUME NEW h \in History \cup {Absent}
        PROVE  EventsOf(EventsOf(h)) = EventsOf(h)
    BY AbsentFacts DEF EventsOf
  <1>3. ASSUME NEW e \in Requests, NEW h \in History \cup {Absent}
        PROVE  Synthetics(Prepended(e, h)) <=> Synthetics(h)
    <2>1. EventsOf(Prepended(e, h)) = Prepended(e, h)
      BY PrependedFacts DEF EventsOf
    <2> QED
      BY <2>1, PrependedFacts, AbsentFacts DEF Synthetics
  <1> QED
    BY <1>1, <1>2, <1>3 DEF Synthetics

LEMMA AccountedStays ==
    ASSUME redis.users \subseteq redis'.users,
           \A s \in Requests, u \in Users : Owes(s, u) => Owes(s, u)' \/ u \in redis'.users,
           NEW u \in Users, Accounted(u)
    PROVE  Accounted(u)'
  BY DEF Accounted

(* What a step of the handler of r must see to.                            *)
LEMMA StepKeepsList ==
    ASSUME TypeOK', ListInv, NEW r \in Requests, MovesOnly(r), Grows,
           \A u \in Users : Owes(r, u) => Owes(r, u)' \/ u \in redis'.users,
           \A u \in Users :
              Synthetics(redis'.history[u]) => Synthetics(redis.history[u]) \/ Accounted(u)',
           \A u \in Users :
              req'[r].pc = "write" /\ Synthetics(req'[r].read) /\ u = req'[r].user
                => Accounted(u)'
    PROVE  ListInv'
  <1>1. \A s \in Requests : s # r => req'[s] = req[s]
    BY DEF MovesOnly
  <1>2. \A s \in Requests, u \in Users : Owes(s, u) => Owes(s, u)' \/ u \in redis'.users
    BY <1>1 DEF Owes
  <1>3. \A u \in Users : Accounted(u) => Accounted(u)'
    BY <1>2, AccountedStays DEF Grows
  <1>4. \A u \in Users : Synthetics(redis'.history[u]) => Accounted(u)'
    BY <1>3 DEF ListInv
  <1>5. ASSUME NEW s \in Requests, req'[s].pc = "write", Synthetics(req'[s].read),
               NEW u \in Users, u = req'[s].user
        PROVE  Accounted(u)'
    <2>1. CASE s = r
      BY <1>5, <2>1
    <2>2. CASE s # r
      <3>1. req'[s] = req[s]
        BY <1>1, <2>2
      <3>2. Accounted(u)
        BY <1>5, <3>1 DEF ListInv
      <3> QED
        BY <1>3, <3>2
    <2> QED
      BY <2>1, <2>2
  <1>6. (\A u \in Users : Synthetics(redis.history[u]) => Accounted(u))'
    BY <1>4 DEF Synthetics, EventsOf
  <1>7. ASSUME NEW s \in Requests
        PROVE  (req[s].pc = "write" /\ Synthetics(req[s].read) => Accounted(req[s].user))'
    <2>1. req'[s].user \in Users
      <3>1. req'[s] \in Request
        BY DEF TypeOK
      <3> QED
        BY <3>1, RequestFields
    <2>2. PICK u \in Users : u = req'[s].user
      BY <2>1
    <2>3. req'[s].pc = "write" /\ Synthetics(req'[s].read) => Accounted(u)'
      BY <1>5, <2>2
    <2> QED
      BY <2>2, <2>3 DEF Synthetics, EventsOf, Accounted, Owes
  <1> QED
    BY <1>6, <1>7 DEF ListInv

LEMMA SeedingKeepsList ==
    ASSUME TypeOK, Shape, ListInv, NEW r \in Requests,
           CheckSeeded(r) \/ SeedHistory(r) \/ SeedUser(r) \/ SeedFlag(r)
    PROVE  ListInv'
  <1> DEFINE u == SeedUsers[req[r].seed]
             q == [req[r] EXCEPT !.wrote = @ \cup {u}]
             n == [req[r] EXCEPT !.seed = @ + 1]
             c == Command(req[r].kind)
             f == [redis EXCEPT !.seeded = TRUE]
             h == SetHistory(u, <<Synthetic>>)
             a == AddUser(u)
  <1>1. req[r] \in Request /\ u \in Users /\ req[r].kind \in {"get", "record", "list"}
    <2>1. req[r] \in Request
      BY DEF TypeOK
    <2> QED
      BY <2>1, RequestFields
  <1>2. c \in {"list", "read"} /\ q.wrote = req[r].wrote \cup {u} /\ q.seed = req[r].seed
    BY <1>1, CommandFacts, WroteFacts
  <1>3. \/ StepOf(r, "check", req[r], c, redis)
        \/ StepOf(r, "check", req[r], "seed_set", redis)
        \/ StepOf(r, "seed_set", q, "seed_add", h)
        \/ StepOf(r, "seed_add", req[r], "seed_flag", a)
        \/ StepOf(r, "seed_add", n, "seed_set", a)
        \/ StepOf(r, "seed_flag", req[r], c, f)
    BY SeedingSteps
  <1>4. MovesOnly(r)
    BY SeedingMoves
  <1>5. /\ f.history = redis.history
        /\ a.history = redis.history /\ a.users = redis.users \cup {u}
        /\ \A v \in Users : v # u => h.history[v] = redis.history[v]
    BY <1>1, StoreFacts, FlagFacts, AbsentFacts
  <1>6. Grows
    <2>1. \/ redis' = redis \/ redis' = f
          \/ redis' = SetHistory(u, <<Synthetic>>) \/ redis' = AddUser(u)
      BY <1>3 DEF StepOf
    <2> HIDE DEF u
    <2> QED
      BY <1>1, <2>1, SameGrows, FlagGrows, StoreGrows, AbsentFacts
  <1>7. /\ req'[r].pc # "write"
        /\ \/ req[r].pc \in {"check", "seed_set", "seed_flag"}
           \/ req[r].pc = "seed_add" /\ redis' = a
    <2> HIDE DEF u, q, n, c, f, h, a
    <2> QED
      BY <1>2, <1>3 DEF StepOf
  <1>8. \A v \in Users : Owes(r, v) => v \in redis'.users
    BY <1>5, <1>7 DEF Owes
  <1>9. ASSUME NEW v \in Users, Synthetics(redis'.history[v])
        PROVE  Synthetics(redis.history[v]) \/ Accounted(v)'
    <2>1. CASE v = u /\ StepOf(r, "seed_set", q, "seed_add", h)
      <3>1. /\ req'[r].pc = "seed_add" /\ req'[r].seed = req[r].seed
            /\ v \in req'[r].wrote
        BY <1>2, <2>1 DEF StepOf
      <3>2. v = SeedUsers[req'[r].seed]
        BY <2>1, <3>1
      <3>3. Owes(r, v)'
        BY <3>1, <3>2 DEF Owes
      <3> QED
        BY <3>3 DEF Accounted
    <2>2. CASE ~(v = u /\ StepOf(r, "seed_set", q, "seed_add", h))
      <3> HIDE DEF u, q, n, c, f, h, a
      <3>1. redis'.history[v] = redis.history[v]
        BY <1>3, <1>5, <2>2 DEF StepOf
      <3> QED
        BY <3>1, <1>9
    <2> QED
      BY <2>1, <2>2
  <1> HIDE DEF u, q, n, c, f, h, a
  <1>10. TypeOK'
    BY SeedingKeepsShape
  <1> QED
    BY <1>4, <1>6, <1>7, <1>8, <1>9, <1>10, StepKeepsList

LEMMA HistoryKeepsList ==
    ASSUME TypeOK, Shape, ListInv, NEW r \in Requests,
           \/ GetHistory(r) \/ CreateHistory(r) \/ CreateUser(r)
           \/ ReadHistory(r) \/ WriteHistory(r) \/ ListUsers(r)
    PROVE  ListInv'
  <1> DEFINE u == req[r].user
             e == EventsOf(redis.history[u])
             b == Prepended(r, req[r].read)
             q == [req[r] EXCEPT !.wrote = @ \cup {u}]
             n == [req[r] EXCEPT !.read = e]
             l == [req[r] EXCEPT !.answer = redis.users]
             h == SetHistory(u, <<Synthetic>>)
             w == SetHistory(u, b)
             a == AddUser(u)
  <1>1. u \in Users /\ req[r].read \in History
    <2>1. req[r] \in Request
      BY DEF TypeOK
    <2> QED
      BY <2>1, RequestFields
  <1>2. q.wrote = req[r].wrote \cup {u} /\ n.read = e
    BY <1>1, WroteFacts, OtherFacts
  <1>3. \/ StepOf(r, "read", req[r], "create", redis)
        \/ StepOf(r, "read", req[r], "done", redis)
        \/ StepOf(r, "create", q, "create_add", h)
        \/ StepOf(r, "create_add", req[r], "done", a)
        \/ StepOf(r, "read", n, "write", redis)
        \/ StepOf(r, "write", q, "done", w)
        \/ StepOf(r, "list", l, "done", redis)
    BY HistorySteps
  <1>4. MovesOnly(r) /\ TypeOK'
    BY HistoryMoves, HistoryKeepsShape
  <1>5. redis.history[u] \in History \cup {Absent} /\ <<Synthetic>> \in History /\ b \in History
    BY <1>1, AbsentFacts, PrependedFacts DEF TypeOK
  <1>6. /\ Synthetics(b) <=> Synthetics(req[r].read)
        /\ Synthetics(e) <=> Synthetics(redis.history[u])
    BY <1>1, <1>5, SyntheticFacts
  <1>7. /\ a.history = redis.history /\ a.users = redis.users \cup {u}
        /\ w.history[u] = b
        /\ \A v \in Users : v # u => /\ h.history[v] = redis.history[v]
                                     /\ w.history[v] = redis.history[v]
    <2> HIDE DEF u, b
    <2> QED
      BY <1>1, <1>5, StoreFacts
  <1>8. Grows
    <2>1. redis' = redis \/ redis' = SetHistory(u, <<Synthetic>>)
          \/ redis' = SetHistory(u, b) \/ redis' = AddUser(u)
      BY <1>3 DEF StepOf
    <2> HIDE DEF u, b
    <2> QED
      BY <1>1, <1>5, <2>1, SameGrows, StoreGrows
  <1>9. \/ req[r].pc \in {"read", "create", "write", "list"}
        \/ req[r].pc = "create_add" /\ redis' = a
    <2> HIDE DEF u, e, b, q, n, l, h, w, a
    <2> QED
      BY <1>3 DEF StepOf
  <1>10. \A v \in Users : Owes(r, v) => v \in redis'.users
    BY <1>7, <1>9 DEF Owes
  <1>11. req[r].pc = "write" /\ Synthetics(req[r].read) => Accounted(u)
    BY DEF ListInv
  <1>12. ASSUME NEW v \in Users, Accounted(v) PROVE Accounted(v)'
    <2>1. \A s \in Requests, x \in Users : Owes(s, x) => Owes(s, x)' \/ x \in redis'.users
      <3>1. \A s \in Requests : s # r => req'[s] = req[s]
        BY <1>4 DEF MovesOnly
      <3> QED
        BY <1>10, <3>1 DEF Owes
    <2> QED
      BY <1>8, <1>12, <2>1, AccountedStays DEF Grows
  <1>13. ASSUME NEW v \in Users, Synthetics(redis'.history[v])
         PROVE  Synthetics(redis.history[v]) \/ Accounted(v)'
    <2>1. CASE v = u /\ StepOf(r, "create", q, "create_add", h)
      <3>1. /\ req'[r].pc = "create_add" /\ req'[r].user = req[r].user
            /\ v \in req'[r].wrote
        BY <1>2, <2>1 DEF StepOf
      <3>2. v = req'[r].user
        BY <2>1, <3>1
      <3>3. Owes(r, v)'
        BY <3>1, <3>2 DEF Owes
      <3> QED
        BY <3>3 DEF Accounted
    <2>2. CASE v = u /\ StepOf(r, "write", q, "done", w)
      <3> HIDE DEF u, b, q, w
      <3>1. redis'.history[v] = b /\ req[r].pc = "write"
        BY <1>7, <2>2 DEF StepOf
      <3>2. Accounted(v)
        BY <1>6, <1>11, <1>13, <2>2, <3>1
      <3> QED
        BY <3>2, <1>12
    <2>3. CASE /\ ~(v = u /\ StepOf(r, "create", q, "create_add", h))
               /\ ~(v = u /\ StepOf(r, "write", q, "done", w))
      <3> HIDE DEF u, e, b, q, n, l, h, w, a
      <3>1. redis'.history[v] = redis.history[v]
        BY <1>3, <1>7, <2>3 DEF StepOf
      <3> QED
        BY <3>1, <1>13
    <2> QED
      BY <2>1, <2>2, <2>3
  <1>14. ASSUME NEW v \in Users, req'[r].pc = "write", Synthetics(req'[r].read),
                v = req'[r].user
         PROVE  Accounted(v)'
    <2>1. req'[r].read = e /\ redis' = redis /\ v = u /\ req[r].pc = "read"
      <3>1. req'[r].user = u
        BY <1>3 DEF StepOf
      <3> HIDE DEF u, e, b, q, n, l, h, w, a
      <3> QED
        BY <1>2, <1>3, <1>14, <3>1 DEF StepOf
    <2>2. Accounted(v)
      BY <1>1, <1>6, <1>14, <2>1 DEF ListInv
    <2> QED
      BY <1>12, <2>2
  <1> HIDE DEF u, e, b, q, n, l, h, w, a
  <1> QED
    BY <1>4, <1>8, <1>10, <1>13, <1>14, StepKeepsList

LEMMA BeginKeepsList ==
    ASSUME TypeOK, Shape, ListInv, NEW r \in Requests, Serve(r) \/ Begin(r)
    PROVE  ListInv'
  <1>1. redis' = redis /\ req[r].pc = "idle" /\ req'[r].pc # "write"
    <2>1. CASE Serve(r)
      BY <2>1, ServeStep DEF ServeGet, ServeRecord, ServeList, BeginOf
    <2>2. CASE Begin(r)
      BY <2>2, BeginStep, CommandFacts DEF BeginOf
    <2> QED
      BY <2>1, <2>2
  <1>2. MovesOnly(r) /\ TypeOK' /\ Grows
    BY <1>1, BeginMoves, BeginKeepsShape, SameGrows
  <1>3. \A u \in Users : ~Owes(r, u)
    BY <1>1 DEF Owes
  <1> QED
    BY <1>1, <1>2, <1>3, StepKeepsList

LEMMA AbortKeepsList ==
    ASSUME TypeOK, Shape, ListInv, Abort
    PROVE  ListInv'
  <1>1. redis' = redis
        /\ \A s \in Requests :
              /\ req'[s].user = req[s].user /\ req'[s].wrote = req[s].wrote
              /\ \/ /\ req'[s].pc = req[s].pc
                    /\ req'[s].read = req[s].read /\ req'[s].seed = req[s].seed
                 \/ req'[s].pc = "dead"
    BY AbortStep
  <1>2. \A s \in Requests, u \in Users : Owes(s, u) => Owes(s, u)'
    BY <1>1 DEF Owes
  <1>3. \A u \in Users : Accounted(u) => Accounted(u)'
    BY <1>1, <1>2 DEF Accounted
  <1>4. (\A u \in Users : Synthetics(redis.history[u]) => Accounted(u))'
    BY <1>1, <1>3 DEF ListInv, Synthetics, EventsOf
  <1>5. ASSUME NEW s \in Requests
        PROVE  (req[s].pc = "write" /\ Synthetics(req[s].read) => Accounted(req[s].user))'
    <2>1. req[s] \in Request
      BY DEF TypeOK
    <2>2. PICK u \in Users : u = req[s].user
      BY <2>1, RequestFields
    <2>3. req'[s].pc = "write" /\ Synthetics(req'[s].read) => Accounted(u)'
      BY <1>1, <1>3, <2>2 DEF ListInv
    <2>4. u = req'[s].user
      BY <1>1, <2>2
    <2> QED
      BY <2>3, <2>4 DEF Synthetics, EventsOf, Accounted, Owes
  <1> QED
    BY <1>4, <1>5 DEF ListInv

LEMMA InitList ==
    ASSUME Init
    PROVE  ListInv
  <1>1. \A u \in Users : ~Synthetics(redis.history[u])
    BY SyntheticFacts DEF Init
  <1>2. \A s \in Requests : req[s].pc = "idle"
    BY DEF Init
  <1> QED
    BY <1>1, <1>2 DEF ListInv

LEMMA NextKeepsList ==
    ASSUME TypeOK, Shape, ListInv, Next
    PROVE  ListInv'
  <1>1. CASE \E r \in Requests : Serve(r) \/ Begin(r)
    BY <1>1, BeginKeepsList
  <1>2. CASE \E r \in Requests :
               CheckSeeded(r) \/ SeedHistory(r) \/ SeedUser(r) \/ SeedFlag(r)
    BY <1>2, SeedingKeepsList
  <1>3. CASE \E r \in Requests :
               \/ GetHistory(r) \/ CreateHistory(r) \/ CreateUser(r)
               \/ ReadHistory(r) \/ WriteHistory(r) \/ ListUsers(r)
    BY <1>3, HistoryKeepsList
  <1>4. CASE Abort
    BY <1>4, AbortKeepsList
  <1> QED
    BY <1>1, <1>2, <1>3, <1>4 DEF Next, Abort

LEMMA ListInvariant == Spec => []ListInv
  <1>1. ListInv /\ UNCHANGED vars => ListInv'
    BY DEF vars, ListInv, Synthetics, EventsOf, Accounted, Owes
  <1>2. TypeOK /\ Shape /\ ListInv /\ [Next]_vars => ListInv'
    BY <1>1, NextKeepsList
  <1> QED
    BY <1>2, InitList, ShapeInvariant, PTL DEF Spec

(* Whoever has synthetic events is listed or about to be; if no request    *)
(* was killed, the list therefore misses only users that record_event has  *)
(* brought, whatever stale copies were written back (adapter.py:131-133,   *)
(* 142-163).                                                               *)
THEOREM OnlyRecordedAreMissing == Spec => []ListMissesOnlyRecorded
  <1>1. ASSUME ListInv PROVE ListMissesOnlyRecorded
    BY <1>1 DEF ListInv, ListMissesOnlyRecorded, Accounted, Owes, Synthetics
  <1> QED
    BY <1>1, ListInvariant, PTL

=============================================================================
