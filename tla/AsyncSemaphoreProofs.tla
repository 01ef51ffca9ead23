------------------------ MODULE AsyncSemaphoreProofs ------------------------
(***************************************************************************)
(* What each operation of AsyncSemaphore does to the permits and to the    *)
(* set of waiters, for any finite set of coroutines.                       *)
(***************************************************************************)
EXTENDS AsyncSemaphore, FiniteSetTheorems, SequenceTheorems, TLAPS

(* A waiter leaves the head of the queue. *)
LEMMA TailWaiting ==
    ASSUME NEW C, NEW q \in Seq(C), q # <<>>,
           \A i, j \in DOMAIN q : q[i] = q[j] => i = j
    PROVE  /\ Head(q) \in C
           /\ Tail(q) \in Seq(C)
           /\ ToSet(Tail(q)) = ToSet(q) \ {Head(q)}
           /\ Head(q) \in ToSet(q)
           /\ \A i, j \in DOMAIN Tail(q) : Tail(q)[i] = Tail(q)[j] => i = j
<1>1. /\ Head(q) \in C /\ Tail(q) \in Seq(C)
      /\ Len(q) \in Nat \ {0} /\ Len(Tail(q)) = Len(q) - 1
      /\ Head(q) = q[1] /\ DOMAIN q = 1..Len(q)
      /\ DOMAIN Tail(q) = 1..(Len(q) - 1)
      /\ \A i \in 1..(Len(q) - 1) : Tail(q)[i] = q[i + 1]
  BY HeadTailProperties, LenProperties
<1>2. {Tail(q)[i] : i \in DOMAIN Tail(q)} = {q[i] : i \in DOMAIN q} \ {q[1]}
  <2>1. ASSUME NEW i \in 1..(Len(q) - 1)
        PROVE  q[i + 1] \in {q[j] : j \in DOMAIN q} \ {q[1]}
    BY <1>1
  <2>2. ASSUME NEW j \in 1..Len(q), q[j] # q[1]
        PROVE  \E i \in 1..(Len(q) - 1) : q[j] = Tail(q)[i]
    <3>1. j - 1 \in 1..(Len(q) - 1) /\ (j - 1) + 1 = j
      BY <1>1, <2>2
    <3> QED BY <1>1, <3>1
  <2>3. {Tail(q)[i] : i \in DOMAIN Tail(q)} \subseteq {q[i] : i \in DOMAIN q} \ {q[1]}
    BY <1>1, <2>1
  <2>4. {q[i] : i \in DOMAIN q} \ {q[1]} \subseteq {Tail(q)[i] : i \in DOMAIN Tail(q)}
    <3>1. SUFFICES ASSUME NEW j \in 1..Len(q), q[j] # q[1]
                   PROVE  q[j] \in {Tail(q)[i] : i \in DOMAIN Tail(q)}
      BY <1>1
    <3>2. PICK i \in 1..(Len(q) - 1) : q[j] = Tail(q)[i]
      BY <2>2, <3>1
    <3> QED BY <1>1, <3>2
  <2> QED BY <2>3, <2>4
<1>3. \A i, j \in DOMAIN Tail(q) : Tail(q)[i] = Tail(q)[j] => i = j
  BY <1>1
<1>4. Head(q) \in {q[i] : i \in DOMAIN q}
  <2>1. 1 \in DOMAIN q
    BY <1>1
  <2> QED BY <1>1, <2>1
<1> QED BY <1>1, <1>2, <1>3, <1>4 DEF ToSet

(* RemoveAt keeps the elements before i and shifts the ones after it.      *)
LEMMA RemoveAtElements ==
    ASSUME NEW C, NEW q \in Seq(C), NEW i \in 1..Len(q)
    PROVE  /\ RemoveAt(q, i) \in Seq(C)
           /\ Len(RemoveAt(q, i)) = Len(q) - 1
           /\ \A j \in 1..(Len(q) - 1) :
                 RemoveAt(q, i)[j] = IF j < i THEN q[j] ELSE q[j + 1]
<1> DEFINE l == SubSeq(q, 1, i - 1)
           r == SubSeq(q, i + 1, Len(q))
<1>1. Len(q) \in Nat /\ \A j \in 1..Len(q) : q[j] \in C
  BY LenProperties, ElementOfSeq
<1>2. /\ l \in Seq(C) /\ Len(l) = i - 1
      /\ \A j \in 1..(i - 1) : l[j] = q[j]
  <2>1. \A j \in 1..(i - 1) : q[j] \in C
    BY <1>1
  <2>2. 1 \in Int /\ i - 1 \in Int
    BY <1>1
  <2>3. /\ l \in Seq(C)
        /\ Len(l) = IF 1 <= i - 1 THEN (i - 1) - 1 + 1 ELSE 0
        /\ \A j \in 1..((i - 1) - 1 + 1) : l[j] = q[1 + j - 1]
    BY <2>1, <2>2, SubSeqProperties, SMTT(30)
  <2>4. ASSUME NEW j \in 1..(i - 1)
        PROVE  j \in 1..((i - 1) - 1 + 1) /\ 1 + j - 1 = j
    BY <1>1
  <2>5. \A j \in 1..(i - 1) : l[j] = q[j]
    BY <2>3, <2>4, Zenon
  <2>6. (IF 1 <= i - 1 THEN (i - 1) - 1 + 1 ELSE 0) = i - 1
    BY <1>1
  <2> QED BY <2>3, <2>5, <2>6
<1>3. /\ r \in Seq(C) /\ Len(r) = Len(q) - i
      /\ \A j \in 1..(Len(q) - i) : r[j] = q[i + j]
  <2>1. \A j \in (i + 1)..Len(q) : q[j] \in C
    BY <1>1
  <2>2. i + 1 \in Int /\ Len(q) \in Int
    BY <1>1
  <2>3. /\ r \in Seq(C)
        /\ Len(r) = IF i + 1 <= Len(q) THEN Len(q) - (i + 1) + 1 ELSE 0
        /\ \A j \in 1..(Len(q) - (i + 1) + 1) : r[j] = q[(i + 1) + j - 1]
    BY <2>1, <2>2, SubSeqProperties, SMTT(30)
  <2>4. ASSUME NEW j \in 1..(Len(q) - i)
        PROVE  j \in 1..(Len(q) - (i + 1) + 1) /\ (i + 1) + j - 1 = i + j
    BY <1>1
  <2>5. \A j \in 1..(Len(q) - i) : r[j] = q[i + j]
    BY <2>3, <2>4, Zenon
  <2>6. (IF i + 1 <= Len(q) THEN Len(q) - (i + 1) + 1 ELSE 0) = Len(q) - i
    BY <1>1
  <2> QED BY <2>3, <2>5, <2>6
<1> HIDE DEF l, r
<1>4. /\ l \o r \in Seq(C)
      /\ Len(l \o r) = Len(l) + Len(r)
      /\ \A j \in 1..(Len(l) + Len(r)) :
            (l \o r)[j] = IF j <= Len(l) THEN l[j] ELSE r[j - Len(l)]
  BY <1>2, <1>3, ConcatProperties, Zenon
<1>5. RemoveAt(q, i) = l \o r
  BY DEF RemoveAt, l, r
<1>6. Len(l) + Len(r) = Len(q) - 1
  BY <1>1, <1>2, <1>3
<1>7. ASSUME NEW j \in 1..(Len(q) - 1)
      PROVE  (l \o r)[j] = IF j < i THEN q[j] ELSE q[j + 1]
  <2>1. (l \o r)[j] = IF j <= Len(l) THEN l[j] ELSE r[j - Len(l)]
    BY <1>4, <1>6
  <2>2. CASE j < i
    <3>1. j <= Len(l) /\ j \in 1..(i - 1)
      BY <1>1, <1>2, <2>2
    <3> QED BY <1>2, <2>1, <2>2, <3>1
  <2>3. CASE ~(j < i)
    <3>1. ~(j <= Len(l)) /\ j - Len(l) \in 1..(Len(q) - i) /\ i + (j - Len(l)) = j + 1
      BY <1>1, <1>2, <2>3
    <3>2. r[j - Len(l)] = q[i + (j - Len(l))]
      BY <1>3, <3>1, Zenon
    <3> QED BY <2>1, <2>3, <3>1, <3>2
  <2> QED BY <2>2, <2>3
<1> QED BY <1>4, <1>5, <1>6, <1>7

(* A waiter leaves the queue from any position i. *)
LEMMA RemoveWaiting ==
    ASSUME NEW C, NEW q \in Seq(C), NEW i \in DOMAIN q,
           \A j, k \in DOMAIN q : q[j] = q[k] => j = k,
           NEW p, p = RemoveAt(q, i)
    PROVE  /\ p \in Seq(C)
           /\ ToSet(p) = ToSet(q) \ {q[i]} /\ q[i] \in ToSet(q)
           /\ \A j, k \in DOMAIN p : p[j] = p[k] => j = k
<1>1. PICK n \in Nat : n = Len(q) /\ DOMAIN q = 1..n /\ i \in 1..n
  BY LenProperties
<1>2. /\ p \in Seq(C) /\ DOMAIN p = 1..(n - 1)
      /\ \A j \in 1..(n - 1) : p[j] = IF j < i THEN q[j] ELSE q[j + 1]
  BY <1>1, RemoveAtElements, LenProperties
<1>3. i \in 1..n /\ \A j, k \in 1..n : q[j] = q[k] => j = k
  BY <1>1
<1>4. ASSUME NEW j \in 1..(n - 1)
      PROVE  \E k \in 1..n : k # i /\ p[j] = q[k]
  <2>1. CASE j < i
    <3>1. j \in 1..n /\ j # i /\ p[j] = q[j]
      BY <1>2, <1>3, <2>1
    <3> QED BY <1>2, <1>3, <3>1
  <2>2. CASE ~(j < i)
    <3>1. j + 1 \in 1..n /\ j + 1 # i /\ p[j] = q[j + 1]
      BY <1>2, <1>3, <2>2
    <3> QED BY <1>2, <1>3, <3>1
  <2> QED BY <1>2, <1>3, <2>1, <2>2
<1>5. ASSUME NEW k \in 1..n, k # i
      PROVE  \E j \in 1..(n - 1) : p[j] = q[k]
  <2>1. CASE k < i
    <3>1. k \in 1..(n - 1) /\ p[k] = q[k]
      BY <1>2, <1>3, <2>1
    <3> QED BY <1>2, <1>3, <3>1
  <2>2. CASE ~(k < i)
    <3>1. k - 1 \in 1..(n - 1) /\ ~(k - 1 < i) /\ (k - 1) + 1 = k
      BY <1>2, <1>3, <1>5, <2>2
    <3>2. p[k - 1] = q[(k - 1) + 1]
      BY <1>2, <1>3, <3>1
    <3> QED BY <1>2, <1>3, <3>1, <3>2
  <2> QED BY <1>2, <1>3, <2>1, <2>2
<1>6. ASSUME NEW j \in 1..(n - 1), NEW k \in 1..(n - 1), p[j] = p[k]
      PROVE  j = k
  <2>1. CASE j < i /\ k < i
    BY <1>2, <1>3, <1>6, <2>1
  <2>2. CASE ~(j < i) /\ ~(k < i)
    <3>1. j + 1 \in 1..n /\ k + 1 \in 1..n /\ q[j + 1] = q[k + 1]
      BY <1>2, <1>3, <1>6, <2>2
    <3>2. j + 1 = k + 1
      BY <1>2, <1>3, <3>1
    <3> QED BY <1>2, <1>3, <3>2
  <2>3. CASE j < i /\ ~(k < i)
    <3>1. j \in 1..n /\ k + 1 \in 1..n /\ q[j] = q[k + 1] /\ j # k + 1
      BY <1>2, <1>3, <1>6, <2>3
    <3> QED BY <1>2, <1>3, <3>1
  <2>4. CASE ~(j < i) /\ k < i
    <3>1. j + 1 \in 1..n /\ k \in 1..n /\ q[j + 1] = q[k] /\ j + 1 # k
      BY <1>2, <1>3, <1>6, <2>4
    <3> QED BY <1>2, <1>3, <3>1
  <2> QED BY <1>2, <1>3, <2>1, <2>2, <2>3, <2>4
<1>7. {p[j] : j \in 1..(n - 1)} \subseteq {q[j] : j \in 1..n} \ {q[i]}
  <2>1. ASSUME NEW j \in 1..(n - 1)
        PROVE  p[j] \in {q[k] : k \in 1..n} \ {q[i]}
    BY <1>2, <1>3, <1>4
  <2> QED BY <1>2, <1>3, <2>1
<1>8. {q[j] : j \in 1..n} \ {q[i]} \subseteq {p[j] : j \in 1..(n - 1)}
  <2>1. ASSUME NEW k \in 1..n, q[k] # q[i]
        PROVE  q[k] \in {p[j] : j \in 1..(n - 1)}
    BY <1>2, <1>3, <1>5, <2>1
  <2> QED BY <1>2, <1>3, <2>1
<1> QED BY <1>1, <1>2, <1>6, <1>7, <1>8 DEF ToSet

-----------------------------------------------------------------------------
(* WakeUpNext keeps the permits and the waiters. *)
LEMMA WakeUpNextFacts ==
    ASSUME NEW C, IsFiniteSet(C), NEW s \in Semaphore(C), NEW Q,
           WaitersAre(s, Q), s.value > 0
    PROVE  /\ WakeUpNext(s) \in Semaphore(C)
           /\ WaitersAre(WakeUpNext(s), Q)
           /\ Permits(WakeUpNext(s)) = Permits(s)
           /\ NoneForgotten(WakeUpNext(s))
<1>1. /\ s.value \in Nat /\ s.pending \in Seq(C) /\ s.granted \in SUBSET C
      /\ s = [value |-> s.value, pending |-> s.pending, granted |-> s.granted]
  BY DEF Semaphore
<1>2. CASE s.pending = <<>>
  BY <1>2 DEF WakeUpNext, NoneForgotten
<1>3. CASE s.pending # <<>>
  <2> DEFINE h == Head(s.pending)
             w == WakeUpNext(s)
  <2>1. /\ h \in C
        /\ Tail(s.pending) \in Seq(C)
        /\ ToSet(Tail(s.pending)) = Waiting(s) \ {h}
        /\ h \in Waiting(s)
        /\ \A i, j \in DOMAIN Tail(s.pending) :
              Tail(s.pending)[i] = Tail(s.pending)[j] => i = j
    BY <1>1, <1>3, TailWaiting DEF WaitersAre, Waiting
  <2>2. w = [value |-> s.value - 1, pending |-> Tail(s.pending),
             granted |-> s.granted \cup {h}]
    BY <1>3 DEF WakeUpNext
  <2>3. w.value = s.value - 1 /\ w.pending = Tail(s.pending) /\ w.granted = s.granted \cup {h}
    BY <2>2
  <2>4. w \in Semaphore(C)
    BY <1>1, <2>1, <2>2 DEF Semaphore
  <2>5. WaitersAre(w, Q)
    <3>1. Waiting(w) = Waiting(s) \ {h}
      BY <2>1, <2>3 DEF Waiting
    <3> QED BY <2>1, <2>3, <3>1 DEF WaitersAre
  <2>6. Permits(w) = Permits(s)
    <3>1. h \notin s.granted
      BY <2>1 DEF WaitersAre
    <3>2. IsFiniteSet(s.granted)
      BY <1>1, FS_Subset
    <3>3. /\ Cardinality(s.granted \cup {h}) = Cardinality(s.granted) + 1
          /\ Cardinality(s.granted) \in Nat
      BY <3>1, <3>2, FS_AddElement, FS_CardinalityType
    <3> QED BY <1>1, <2>3, <3>3 DEF Permits
  <2>7. NoneForgotten(w)
    BY <2>3 DEF NoneForgotten
  <2> QED BY <2>4, <2>5, <2>6, <2>7
<1> QED BY <1>2, <1>3

(* A release adds one permit, whoever gets it. *)
LEMMA ReleaseFacts ==
    ASSUME NEW C, IsFiniteSet(C), NEW s \in Semaphore(C), NEW Q, WaitersAre(s, Q)
    PROVE  /\ Release(s) \in Semaphore(C)
           /\ WaitersAre(Release(s), Q)
           /\ Permits(Release(s)) = Permits(s) + 1
           /\ NoneForgotten(Release(s))
<1> DEFINE t == [s EXCEPT !.value = @ + 1]
<1>1. /\ s.value \in Nat /\ s.granted \in SUBSET C
      /\ t \in Semaphore(C) /\ t.value = s.value + 1 /\ t.value > 0
      /\ t.pending = s.pending /\ t.granted = s.granted
  BY DEF Semaphore
<1>2. WaitersAre(t, Q)
  BY <1>1 DEF WaitersAre, Waiting
<1>3. Permits(t) = Permits(s) + 1
  <2>1. Cardinality(s.granted) \in Nat
    BY <1>1, FS_Subset, FS_CardinalityType
  <2> QED BY <1>1, <2>1 DEF Permits
<1>4. Release(s) = WakeUpNext(t)
  BY DEF Release
<1> HIDE DEF t
<1> QED BY <1>1, <1>2, <1>3, <1>4, WakeUpNextFacts

(* A coroutine that finds the semaphore unlocked takes one permit. *)
LEMMA TakeFacts ==
    ASSUME NEW C, IsFiniteSet(C), NEW s \in Semaphore(C), NEW Q,
           WaitersAre(s, Q), ~Locked(s)
    PROVE  /\ Take(s) \in Semaphore(C)
           /\ WaitersAre(Take(s), Q)
           /\ Permits(Take(s)) = Permits(s) - 1
           /\ NoneForgotten(Take(s))
<1>1. /\ s.value \in Nat \ {0} /\ s.pending = <<>> /\ s.granted = {}
      /\ Take(s) = [s EXCEPT !.value = s.value - 1]
  BY DEF Semaphore, Locked, Take
<1>2. /\ Take(s) \in Semaphore(C) /\ Take(s).value = s.value - 1
      /\ Take(s).pending = s.pending /\ Take(s).granted = s.granted
  BY <1>1 DEF Semaphore
<1>3. WaitersAre(Take(s), Q) /\ NoneForgotten(Take(s))
  BY <1>1, <1>2 DEF WaitersAre, Waiting, NoneForgotten
<1>4. Permits(Take(s)) = Permits(s) - 1
  <2>1. Cardinality(s.granted) = 0 /\ Cardinality(Take(s).granted) = 0
    BY <1>1, <1>2, FS_EmptySet
  <2> QED BY <1>1, <1>2, <2>1 DEF Permits
<1> QED BY <1>2, <1>3, <1>4

(* A coroutine that finds it locked joins the queue. *)
LEMMA EnqueueFacts ==
    ASSUME NEW C, NEW s \in Semaphore(C), NEW Q, WaitersAre(s, Q),
           NEW c \in C, c \notin Q
    PROVE  /\ Enqueue(s, c) \in Semaphore(C)
           /\ WaitersAre(Enqueue(s, c), Q \cup {c})
           /\ Permits(Enqueue(s, c)) = Permits(s)
           /\ Locked(s) /\ NoneForgotten(s) => NoneForgotten(Enqueue(s, c))
<1> DEFINE t == Enqueue(s, c)
           n == Len(s.pending)
<1>1. /\ s.value \in Nat /\ s.pending \in Seq(C) /\ s.granted \in SUBSET C
      /\ n \in Nat /\ DOMAIN s.pending = 1..n
  BY LenProperties DEF Semaphore
<1>2. /\ t.value = s.value /\ t.granted = s.granted
      /\ t.pending = Append(s.pending, c)
      /\ t = [s EXCEPT !.pending = Append(s.pending, c)]
  BY DEF Enqueue, Semaphore
<1>3. /\ t.pending \in Seq(C) /\ DOMAIN t.pending = 1..(n + 1)
      /\ \A i \in 1..n : t.pending[i] = s.pending[i]
      /\ t.pending[n + 1] = c
  BY <1>1, <1>2, AppendProperties, LenProperties
<1>4. t \in Semaphore(C)
  BY <1>1, <1>2, <1>3 DEF Semaphore
<1>5. Waiting(t) = Waiting(s) \cup {c}
  <2>1. ASSUME NEW x \in Waiting(t) PROVE x \in Waiting(s) \cup {c}
    <3>1. PICK i \in 1..(n + 1) : x = t.pending[i]
      BY <1>3 DEF Waiting, ToSet
    <3>2. i = n + 1 \/ i \in 1..n
      BY <1>1
    <3> QED BY <1>1, <1>3, <3>1, <3>2 DEF Waiting, ToSet
  <2>2. ASSUME NEW x \in Waiting(s) \cup {c} PROVE x \in Waiting(t)
    <3>1. CASE x = c
      <4>1. n + 1 \in 1..(n + 1)
        BY <1>1
      <4> QED BY <1>3, <3>1, <4>1 DEF Waiting, ToSet
    <3>2. CASE x \in Waiting(s)
      <4>1. PICK i \in 1..n : x = s.pending[i]
        BY <1>1, <3>2 DEF Waiting, ToSet
      <4>2. i \in 1..(n + 1)
        BY <1>1
      <4> QED BY <1>3, <4>1, <4>2 DEF Waiting, ToSet
    <3> QED BY <3>1, <3>2
  <2> QED BY <2>1, <2>2
<1>6. c \notin Waiting(s) /\ c \notin s.granted
  BY DEF WaitersAre
<1>7. ASSUME NEW i \in DOMAIN t.pending, NEW j \in DOMAIN t.pending,
             t.pending[i] = t.pending[j]
      PROVE  i = j
  <2>1. \A k \in 1..n : s.pending[k] # c
    BY <1>1, <1>6 DEF Waiting, ToSet
  <2>2. (i = n + 1 \/ i \in 1..n) /\ (j = n + 1 \/ j \in 1..n)
    BY <1>1, <1>3
  <2> QED BY <1>1, <1>3, <1>7, <2>1, <2>2 DEF WaitersAre
<1>8. WaitersAre(t, Q \cup {c})
  <2>1. Q \cup {c} = Waiting(t) \cup t.granted
    BY <1>2, <1>5 DEF WaitersAre
  <2>2. Waiting(t) \cap t.granted = {}
    BY <1>2, <1>5, <1>6 DEF WaitersAre
  <2> QED BY <1>7, <2>1, <2>2 DEF WaitersAre
<1>9. Permits(t) = Permits(s)
  BY <1>2 DEF Permits
<1>10. Locked(s) /\ NoneForgotten(s) => NoneForgotten(t)
  BY <1>1, <1>2 DEF Locked, NoneForgotten
<1> QED BY <1>4, <1>8, <1>9, <1>10

(* A granted coroutine leaves the queue. *)
LEMMA GrantedLeaves ==
    ASSUME NEW C, IsFiniteSet(C), NEW s \in Semaphore(C), NEW Q,
           WaitersAre(s, Q), NEW c \in s.granted,
           NEW t, t = [s EXCEPT !.granted = @ \ {c}]
    PROVE  /\ t \in Semaphore(C)
           /\ WaitersAre(t, Q \ {c})
           /\ Permits(t) = Permits(s) - 1
           /\ t.value = s.value /\ t.pending = s.pending
<1>1. /\ s.value \in Nat /\ s.granted \in SUBSET C
      /\ t \in Semaphore(C) /\ t.value = s.value
      /\ t.pending = s.pending /\ t.granted = s.granted \ {c}
  BY DEF Semaphore
<1>2. WaitersAre(t, Q \ {c})
  <2>1. Waiting(t) = Waiting(s)
    BY <1>1 DEF Waiting
  <2> QED BY <1>1, <2>1 DEF WaitersAre
<1>3. Permits(t) = Permits(s) - 1
  <2>1. IsFiniteSet(s.granted)
    BY <1>1, FS_Subset
  <2>2. /\ Cardinality(s.granted \ {c}) = Cardinality(s.granted) - 1
        /\ Cardinality(s.granted) \in Nat
    BY <2>1, FS_RemoveElement, FS_CardinalityType
  <2> QED BY <1>1, <2>2 DEF Permits
<1> QED BY <1>1, <1>2, <1>3

(* A resumed coroutine returns from acquire() with one permit. *)
LEMMA ResumeGrantedFacts ==
    ASSUME NEW C, IsFiniteSet(C), NEW s \in Semaphore(C), NEW Q,
           WaitersAre(s, Q), NEW c \in s.granted
    PROVE  /\ ResumeGranted(s, c) \in Semaphore(C)
           /\ WaitersAre(ResumeGranted(s, c), Q \ {c})
           /\ Permits(ResumeGranted(s, c)) = Permits(s) - 1
           /\ NoneForgotten(ResumeGranted(s, c))
<1>1. PICK t : t = [s EXCEPT !.granted = @ \ {c}]
  OBVIOUS
<1>2. /\ t \in Semaphore(C) /\ WaitersAre(t, Q \ {c}) /\ Permits(t) = Permits(s) - 1
  BY <1>1, GrantedLeaves
<1>3. ResumeGranted(s, c) = IF t.value > 0 THEN WakeUpNext(t) ELSE t
  BY <1>1 DEF ResumeGranted
<1>4. CASE t.value > 0
  BY <1>2, <1>3, <1>4, WakeUpNextFacts
<1>5. CASE ~(t.value > 0)
  BY <1>2, <1>3, <1>5 DEF NoneForgotten
<1> QED BY <1>4, <1>5

(* A cancelled coroutine that was granted a permit hands it on. *)
LEMMA CancelGrantedFacts ==
    ASSUME NEW C, IsFiniteSet(C), NEW s \in Semaphore(C), NEW Q,
           WaitersAre(s, Q), NEW c \in s.granted
    PROVE  /\ CancelGranted(s, c) \in Semaphore(C)
           /\ WaitersAre(CancelGranted(s, c), Q \ {c})
           /\ Permits(CancelGranted(s, c)) = Permits(s)
           /\ NoneForgotten(CancelGranted(s, c))
<1>1. PICK t : t = [s EXCEPT !.granted = @ \ {c}]
  OBVIOUS
<1>2. /\ t \in Semaphore(C) /\ WaitersAre(t, Q \ {c}) /\ Permits(t) = Permits(s) - 1
  BY <1>1, GrantedLeaves
<1>3. CancelGranted(s, c) = Release(t)
  BY <1>1 DEF CancelGranted
<1>4. Permits(s) \in Int
  <2>1. s.value \in Nat /\ s.granted \in SUBSET C
    BY DEF Semaphore
  <2> QED BY <2>1, FS_Subset, FS_CardinalityType DEF Permits
<1>5. /\ Release(t) \in Semaphore(C) /\ WaitersAre(Release(t), Q \ {c})
      /\ Permits(Release(t)) = Permits(t) + 1 /\ NoneForgotten(Release(t))
  BY <1>2, ReleaseFacts
<1> QED BY <1>2, <1>3, <1>4, <1>5

(* A cancelled coroutine that was still waiting only leaves the queue. *)
LEMMA CancelPendingFacts ==
    ASSUME NEW C, NEW s \in Semaphore(C), NEW Q, WaitersAre(s, Q),
           NEW i \in DOMAIN s.pending
    PROVE  /\ CancelPending(s, i) \in Semaphore(C)
           /\ WaitersAre(CancelPending(s, i), Q \ {s.pending[i]})
           /\ Permits(CancelPending(s, i)) = Permits(s)
           /\ NoneForgotten(s) => NoneForgotten(CancelPending(s, i))
<1> DEFINE n == Len(s.pending)
           q == s.pending
           p == RemoveAt(s.pending, i)
           t == CancelPending(s, i)
<1>1. /\ s.value \in Nat /\ q \in Seq(C) /\ s.granted \in SUBSET C
      /\ n \in Nat /\ DOMAIN q = 1..n /\ i \in 1..n
  BY LenProperties DEF Semaphore
<1>2. /\ t.value = s.value /\ t.granted = s.granted /\ t.pending = p
      /\ t = [s EXCEPT !.pending = p]
  BY DEF CancelPending, Semaphore
<1>3. /\ p \in Seq(C)
      /\ ToSet(p) = ToSet(q) \ {q[i]} /\ q[i] \in ToSet(q)
      /\ \A j, k \in DOMAIN p : p[j] = p[k] => j = k
  BY <1>1, RemoveWaiting DEF WaitersAre
<1>4. t \in Semaphore(C)
  BY <1>1, <1>2, <1>3 DEF Semaphore
<1> HIDE DEF n, q, p, t
<1>5. WaitersAre(t, Q \ {q[i]})
  <2>1. Waiting(t) = Waiting(s) \ {q[i]}
    BY <1>2, <1>3 DEF Waiting, q
  <2>2. q[i] \in Waiting(s)
    BY <1>3 DEF Waiting, q
  <2>3. \A j, k \in DOMAIN t.pending : t.pending[j] = t.pending[k] => j = k
    BY <1>2, <1>3
  <2> QED BY <1>2, <2>1, <2>2, <2>3 DEF WaitersAre
<1>6. Permits(t) = Permits(s)
  BY <1>2 DEF Permits
<1>7. NoneForgotten(s) => NoneForgotten(t)
  <2>1. p # <<>> => q # <<>>
    BY <1>1
  <2> QED BY <1>2, <2>1 DEF NoneForgotten, q
<1> QED BY <1>4, <1>5, <1>6, <1>7 DEF q, t

=============================================================================
