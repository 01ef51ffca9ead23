---------------------------- MODULE FeatureStore ----------------------------
(***************************************************************************)
(* The feature store (platform/feature_store): replicas of one HTTP        *)
(* service, each with an adapter that keeps the histories of users either  *)
(* in its own memory or in a Redis that all replicas share (adapter.py).   *)
(*                                                                         *)
(* A handler on the in-memory adapter runs without suspending.  On Redis   *)
(* every command is awaited, so an action is one command and the code up   *)
(* to the next one; nothing keeps two handlers apart, a command may fail,  *)
(* and a replica may die between any two.  An event is named by the        *)
(* request that records it, and a synthetic history is one item.           *)
(***************************************************************************)
EXTENDS Integers, Sequences, FiniteSets, Functions

CONSTANTS
    Requests,    \* requests the service will receive
    Replicas,    \* processes of app.py
    Users,       \* user ids
    SeedUsers,   \* the users that seeding creates, in its order
    Backends,    \* FEATURE_STORE_BACKEND: "memory", "redis"
    Synthetic,   \* the events of a synthetic history
    Absent       \* no history under that key

ASSUME FeatureStoreAssumption ==
    /\ SeedUsers \in Seq(Users) /\ SeedUsers # <<>>
    /\ IsInjective(SeedUsers)
    /\ Backends \subseteq {"memory", "redis"}
    /\ Synthetic \notin Requests
    /\ Absent \notin Seq(Requests \cup {Synthetic})

VARIABLES
    backend,   \* the adapter that _build_store has built in every replica
    redis,     \* the contents of Redis
    memory,    \* InMemoryFeatureStore._histories of every replica
    known,     \* RedisFeatureStore._seeded of every replica
    req        \* the handler of every request

vars == <<backend, redis, memory, known, req>>

History == Seq(Requests \cup {Synthetic})

Seeding == {"check", "seed_set", "seed_add", "seed_flag"}

Working == Seeding \cup {"read", "create", "create_add", "write", "list"}

(* `before` are the requests that had ended when this one began, `wrote`   *)
(* the users whose history it has set, `seed` its place in the seeding     *)
(* loop, `read` the history that record_event has read.                    *)
Request == [pc: Working \cup {"idle", "done", "dead"},
            kind: {"get", "record", "list"}, user: Users, at: Replicas,
            seed: 1..Len(SeedUsers), read: History, answer: SUBSET Users,
            before: SUBSET Requests, wrote: SUBSET Users]

Seeded == Range(SeedUsers)

(* A process starts with the synthetic histories in memory. *)
NewMemory == [u \in Users |-> IF u \in Seeded THEN <<Synthetic>> ELSE Absent]

TypeOK ==
    /\ backend \in Backends
    /\ redis \in [seeded: BOOLEAN, history: [Users -> History \cup {Absent}],
                  users: SUBSET Users]
    /\ memory \in [Replicas -> [Users -> History \cup {Absent}]]
    /\ known \in [Replicas -> BOOLEAN]
    /\ req \in [Requests -> Request]

Init ==
    /\ backend \in Backends
    /\ redis = [seeded |-> FALSE, history |-> [u \in Users |-> Absent], users |-> {}]
    /\ memory = [p \in Replicas |-> NewMemory]
    /\ known = [p \in Replicas |-> FALSE]
    /\ \E p \in Replicas :
          req = [r \in Requests |->
                   [pc |-> "idle", kind |-> "list", user |-> SeedUsers[1], at |-> p,
                    seed |-> 1, read |-> <<>>, answer |-> {}, before |-> {}, wrote |-> {}]]

-----------------------------------------------------------------------------
Ended == {r \in Requests : req[r].pc \in {"done", "dead"}}

(* The request as app.py hands it to the adapter. *)
Begun(r, kind, u, p, pc) ==
    [req[r] EXCEPT !.pc = pc, !.kind = kind, !.user = u, !.at = p, !.before = Ended]

(* The first command after _ensure_seeded. *)
Command(kind) == IF kind = "list" THEN "list" ELSE "read"

(* What `get` finds: the events, none if there is no key. *)
EventsOf(h) == IF h = Absent THEN <<>> ELSE h

Prepended(e, h) == <<e>> \o EventsOf(h)

(* InMemoryFeatureStore: one action per handler.  A history that does not  *)
(* exist is created by get_user_history (synthetic) and record_event.      *)
Serve(r) ==
    /\ backend = "memory"
    /\ req[r].pc = "idle"
    /\ \E u \in Users, p \in Replicas :
          LET h == memory[p][u] IN
          \/ /\ memory' = [memory EXCEPT ![p][u] = IF h = Absent THEN <<Synthetic>> ELSE h]
             /\ req' = [req EXCEPT ![r] = Begun(r, "get", u, p, "done")]
          \/ /\ memory' = [memory EXCEPT ![p][u] = Prepended(r, h)]
             /\ req' = [req EXCEPT ![r] =
                          [Begun(r, "record", u, p, "done") EXCEPT !.wrote = {u}]]
          \/ /\ req' = [req EXCEPT ![r] =
                          [Begun(r, "list", u, p, "done")
                             EXCEPT !.answer = {v \in Users : memory[p][v] # Absent}]]
             /\ UNCHANGED memory
    /\ UNCHANGED <<backend, redis, known>>

(* RedisFeatureStore: a handler begins with _ensure_seeded.  (A list is    *)
(* for no user; the field has a fixed value then.)                         *)
Begin(r) ==
    /\ backend = "redis"
    /\ req[r].pc = "idle"
    /\ \E kind \in {"get", "record", "list"}, u \in Users, p \in Replicas :
          /\ kind = "list" => u = SeedUsers[1]
          /\ req' = [req EXCEPT ![r] =
                       Begun(r, kind, u, p, IF known[p] THEN Command(kind) ELSE "check")]
    /\ UNCHANGED <<backend, redis, memory, known>>

(* The handler of r goes on from `pc` to `next`, with its other fields as  *)
(* in q; Redis becomes `store`.                                            *)
Does(r, pc, q, next, store) ==
    /\ req[r].pc = pc
    /\ req' = [req EXCEPT ![r] = [q EXCEPT !.pc = next]]
    /\ redis' = store
    /\ UNCHANGED <<backend, memory>>

Knows(r) == known' = [known EXCEPT ![req[r].at] = TRUE]

(* Variant: the adapter trusts its own flag alone. *)
CheckSeededLocally(r) ==
    Does(r, "check", req[r], "seed_set", redis) /\ UNCHANGED known

(* Variant: the flag is set when the loop is entered. *)
CheckAndFlag(r) ==
    IF redis.seeded
    THEN Does(r, "check", req[r], Command(req[r].kind), redis) /\ Knows(r)
    ELSE /\ Does(r, "check", req[r], "seed_set", [redis EXCEPT !.seeded = TRUE])
         /\ UNCHANGED known

(* EXISTS onerec:seeded *)
CheckSeeded(r) ==
    IF redis.seeded
    THEN Does(r, "check", req[r], Command(req[r].kind), redis) /\ Knows(r)
    ELSE Does(r, "check", req[r], "seed_set", redis) /\ UNCHANGED known

SetHistory(u, h) == [redis EXCEPT !.history[u] = h]

AddUser(u) == [redis EXCEPT !.users = @ \cup {u}]

(* SET of a synthetic history. *)
SeedHistory(r) ==
    LET u == SeedUsers[req[r].seed]
    IN  /\ Does(r, "seed_set", [req[r] EXCEPT !.wrote = @ \cup {u}], "seed_add",
                SetHistory(u, <<Synthetic>>))
        /\ UNCHANGED known

(* Variant: the loop counts on past the last user. *)
SeedUserPastEnd(r) ==
    LET last == req[r].seed = Len(SeedUsers)
    IN  /\ Does(r, "seed_add", [req[r] EXCEPT !.seed = @ + 1],
                IF last THEN "seed_flag" ELSE "seed_set",
                AddUser(SeedUsers[req[r].seed]))
        /\ UNCHANGED known

(* SADD, and round the loop. *)
SeedUser(r) ==
    LET last == req[r].seed = Len(SeedUsers)
    IN  /\ Does(r, "seed_add",
                IF last THEN req[r] ELSE [req[r] EXCEPT !.seed = @ + 1],
                IF last THEN "seed_flag" ELSE "seed_set",
                AddUser(SeedUsers[req[r].seed]))
        /\ UNCHANGED known

SeedFlag(r) ==
    /\ Does(r, "seed_flag", req[r], Command(req[r].kind), [redis EXCEPT !.seeded = TRUE])
    /\ Knows(r)

(* get_user_history: GET *)
GetHistory(r) ==
    /\ req[r].kind = "get"
    /\ Does(r, "read", req[r],
            IF redis.history[req[r].user] = Absent THEN "create" ELSE "done", redis)
    /\ UNCHANGED known

(* Variant: the user of a created history is not added to the set. *)
CreateUnlisted(r) ==
    /\ Does(r, "create", [req[r] EXCEPT !.wrote = @ \cup {req[r].user}], "done",
            SetHistory(req[r].user, <<Synthetic>>))
    /\ UNCHANGED known

(* SET of a synthetic history for a user that had none when it was read. *)
CreateHistory(r) ==
    /\ Does(r, "create", [req[r] EXCEPT !.wrote = @ \cup {req[r].user}], "create_add",
            SetHistory(req[r].user, <<Synthetic>>))
    /\ UNCHANGED known

CreateUser(r) ==
    Does(r, "create_add", req[r], "done", AddUser(req[r].user)) /\ UNCHANGED known

(* record_event: GET *)
ReadHistory(r) ==
    /\ req[r].kind = "record"
    /\ Does(r, "read", [req[r] EXCEPT !.read = EventsOf(redis.history[req[r].user])],
            "write", redis)
    /\ UNCHANGED known

(* Variant: the event is added behind the older ones. *)
WriteAtEnd(r) ==
    /\ Does(r, "write", [req[r] EXCEPT !.wrote = @ \cup {req[r].user}], "done",
            SetHistory(req[r].user, Append(req[r].read, r)))
    /\ UNCHANGED known

(* record_event: SET of what was read with the event in front. *)
WriteHistory(r) ==
    /\ Does(r, "write", [req[r] EXCEPT !.wrote = @ \cup {req[r].user}], "done",
            SetHistory(req[r].user, Prepended(r, req[r].read)))
    /\ UNCHANGED known

(* SMEMBERS *)
ListUsers(r) ==
    /\ Does(r, "list", [req[r] EXCEPT !.answer = redis.users], "done", redis)
    /\ UNCHANGED known

(* A handler that ends early; its variables go with it. *)
Cut(q) == [q EXCEPT !.pc = "dead", !.seed = 1, !.read = <<>>]

(* A Redis command raises, and the handler ends in HTTP 500; what it had   *)
(* done stays, and so does the adapter's flag.  (A command that Redis      *)
(* carries out although its answer is lost is that command, followed by    *)
(* the failure of the next one.)                                           *)
CommandFails(r) ==
    /\ backend = "redis"
    /\ req[r].pc \in Working
    /\ req' = [req EXCEPT ![r] = Cut(@)]
    /\ UNCHANGED <<backend, redis, memory, known>>

(* A replica is killed and starts anew; Redis keeps what it has.  (What    *)
(* the in-memory adapter has dies with its process, as it says itself.)    *)
Restart(p) ==
    /\ backend = "redis"
    /\ req' = [r \in Requests |->
                 IF req[r].pc \in Working /\ req[r].at = p
                 THEN Cut(req[r]) ELSE req[r]]
    /\ known' = [known EXCEPT ![p] = FALSE]
    /\ UNCHANGED <<backend, redis, memory>>

Next ==
    \/ \E r \in Requests :
          \/ Serve(r) \/ Begin(r)
          \/ CheckSeeded(r) \/ SeedHistory(r) \/ SeedUser(r) \/ SeedFlag(r)
          \/ GetHistory(r) \/ CreateHistory(r) \/ CreateUser(r)
          \/ ReadHistory(r) \/ WriteHistory(r) \/ ListUsers(r)
          \/ CommandFails(r)
    \/ \E p \in Replicas : Restart(p)

Spec == Init /\ [][Next]_vars

-----------------------------------------------------------------------------
Overlap(q, r) == q # r /\ q \notin req[r].before /\ r \notin req[q].before

(* The history that a request at replica p reads. *)
Stored(u, p) == EventsOf(IF backend = "memory" THEN memory[p][u] ELSE redis.history[u])

Recorded == {r \in Requests : req[r].kind = "record" /\ req[r].pc = "done"}

(* An event that was answered "recorded" is in the history, unless another *)
(* request that was under way at the same time set the history of that     *)
(* user: by its own stale copy, by creating it, or by seeding.  A seeding  *)
(* that was cut short, or a replica that starts later, costs nothing       *)
(* (adapter.py:101-103, 125-137, 154-159).                                 *)
EventKept ==
    \A r \in Recorded :
        \/ r \in Range(Stored(req[r].user, req[r].at))
        \/ \E q \in Requests : Overlap(q, r) /\ req[r].user \in req[q].wrote

(* Histories are newest first: an event recorded after another had been    *)
(* answered precedes it, and synthetic events come last, also when stale   *)
(* copies are written back (adapter.py:103, 158).                          *)
NewestFirst ==
    \A u \in Users, p \in Replicas :
        LET h == Stored(u, p)
        IN  \A i, j \in DOMAIN h : i < j =>
                /\ h[i] # Synthetic
                /\ h[j] # Synthetic => h[i] \notin req[h[j]].before

(* Seeding is complete once its flag is set, and a user is listed only     *)
(* when the history is there, whoever seeds or dies meanwhile              *)
(* (adapter.py:131-136, 142-145).                                          *)
StoreCoherent ==
    /\ redis.seeded => Seeded \subseteq redis.users
    /\ \A u \in redis.users : redis.history[u] # Absent
    /\ \A r \in Requests :
          req[r].kind = "list" /\ req[r].pc = "done" => Seeded \subseteq req[r].answer

(* The list of users misses nobody but those who came by record_event:     *)
(* when all requests have ended and none was killed or failed, whoever has *)
(* synthetic events is listed (adapter.py:142-145, 154-163).               *)
ListMissesOnlyRecorded ==
    (\A r \in Requests : req[r].pc \in {"idle", "done"}) =>
        \A u \in Users :
            Synthetic \in Range(EventsOf(redis.history[u])) => u \in redis.users

=============================================================================
