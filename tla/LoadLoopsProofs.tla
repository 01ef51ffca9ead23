-------------------------- MODULE LoadLoopsProofs --------------------------
(***************************************************************************)
(* The figures of the load generator and the plan made from them, for any  *)
(* levels, quotas, times, rates, demands and cost assumptions.             *)
(***************************************************************************)
EXTENDS LoadLoops, FiniteSetTheorems, SequenceTheorems, WellFoundedInduction, TLAPS

-----------------------------------------------------------------------------
(* The sizing. *)

(* Euclid: a quotient and what is left of it.                              *)
LEMMA Euclid ==
    ASSUME NEW a \in Int, NEW b \in Nat, b > 0
    PROVE  /\ a \div b \in Int
           /\ b * (a \div b) <= a
           /\ a < b * (a \div b) + b
  BY SMTT(30)

(* math.ceil: the least integer that is not less than the quotient         *)
(* (capacity_planner.py:84, 100, 102).                                     *)
LEMMA CeilIsLeast ==
    ASSUME NEW a \in Int, NEW b \in Nat, b > 0
    PROVE  /\ CeilDiv(a, b) \in Int
           /\ b * CeilDiv(a, b) >= a
           /\ b * (CeilDiv(a, b) - 1) < a
  <1> DEFINE n == a + b - 1
  <1>1. n \in Int
    OBVIOUS
  <1>2. n \div b \in Int /\ b * (n \div b) <= n /\ n < b * (n \div b) + b
    BY <1>1, Euclid
  <1>3. CeilDiv(a, b) = n \div b
    BY DEF CeilDiv
  <1> HIDE DEF n
  <1>4. n = a + b - 1
    BY DEF n
  <1>5. b * ((n \div b) - 1) = b * (n \div b) - b
    BY <1>2
  <1> QED
    BY <1>2, <1>3, <1>4, <1>5

(* math.ceil of a quotient that is off by less than one part in Precision: *)
(* what it can be (capacity_planner.py:82-84, 100, 102).                   *)
LEMMA RoundedFacts ==
    ASSUME NEW a \in Nat, NEW b \in Nat, b > 0, NEW r \in Rounded(a, b)
    PROVE  /\ r \in Nat
           /\ Precision * (b * r) >= (Precision - 1) * a
           /\ Precision * (b * (r - 1)) < (Precision + 1) * a
  <1> DEFINE P == Precision
             low == a * (P - 1)
             high == a * (P + 1)
             c == b * P
  <1>1. P \in Nat /\ P > 1 /\ P - 1 \in Nat /\ P + 1 \in Nat
    BY PrecisionAssumption
  <1>2. low \in Nat /\ high \in Nat /\ c \in Nat /\ c > 0
    <2>1. low \in Nat
      BY <1>1
    <2>2. high \in Nat
      BY <1>1
    <2>3. c \in Nat /\ c > 0
      BY <1>1
    <2> QED
      BY <2>1, <2>2, <2>3
  <1>3. r \in CeilDiv(low, c)..CeilDiv(high, c)
    BY DEF Rounded
  <1> HIDE DEF low, high, c
  <1>4. /\ CeilDiv(low, c) \in Int /\ c * CeilDiv(low, c) >= low
        /\ CeilDiv(high, c) \in Int /\ c * (CeilDiv(high, c) - 1) < high
    <2>1. low \in Int /\ high \in Int
      BY <1>2
    <2>2. CeilDiv(low, c) \in Int /\ c * CeilDiv(low, c) >= low
      BY <1>2, <2>1, CeilIsLeast
    <2>3. CeilDiv(high, c) \in Int /\ c * (CeilDiv(high, c) - 1) < high
      BY <1>2, <2>1, CeilIsLeast
    <2> QED
      BY <2>2, <2>3
  <1>5. /\ r \in Int /\ r - CeilDiv(low, c) \in Nat /\ CeilDiv(high, c) - r \in Nat
    BY <1>3, <1>4
  <1>6. c * r >= low
    <2>1. c * (r - CeilDiv(low, c)) \in Nat
      BY <1>2, <1>5
    <2>2. c * (r - CeilDiv(low, c)) = c * r - c * CeilDiv(low, c)
      BY <1>2, <1>4, <1>5
    <2> QED
      BY <1>2, <1>4, <1>5, <2>1, <2>2
  <1>7. c * (r - 1) < high
    <2>1. c * (CeilDiv(high, c) - r) \in Nat
      BY <1>2, <1>5
    <2>2. c * (CeilDiv(high, c) - r) = c * (CeilDiv(high, c) - 1) - c * (r - 1)
      BY <1>2, <1>4, <1>5
    <2> QED
      BY <1>2, <1>4, <1>5, <2>1, <2>2
  <1>8. r >= 0
    <2>1. SUFFICES ASSUME r < 0 PROVE FALSE
      BY <1>5
    <2>2. r <= -1
      BY <1>5, <2>1
    <2>3. c * r <= -1
      BY <1>2, <1>5, <2>2
    <2> QED
      BY <1>2, <1>5, <1>6, <2>3
  <1>9. /\ c * r = P * (b * r) /\ c * (r - 1) = P * (b * (r - 1))
        /\ low = (P - 1) * a /\ high = (P + 1) * a
    BY <1>1, <1>5 DEF c, low, high
  <1> QED
    BY <1>5, <1>6, <1>7, <1>8, <1>9

(* Whatever rounding does, the GPUs of the plan deliver the required rate  *)
(* at the utilization target but for a part in Precision, and two replicas *)
(* less would not: one may be there for a quotient that is an integer      *)
(* (capacity_planner.py:79-85).                                            *)
THEOREM FleetIsRight ==
    ASSUME NEW required \in Nat, NEW rate \in Nat \ {0},
           NEW utilization \in 1..100, NEW tp \in Nat \ {0},
           100 * required <= Precision * rate * utilization * tp,
           NEW replicas \in Replicas(required, rate, utilization, tp)
    PROVE  LET gpus == tp * replicas
           IN  /\ gpus \in Nat
               /\ Covers(rate * utilization * gpus, 100 * required)
               /\ rate * utilization * (gpus - 2 * tp) < 100 * required
  <1> DEFINE each == rate * utilization
             need == 100 * required
             b == each * tp
             P == Precision
  <1>1. P \in Nat /\ P > 1 /\ need \in Nat /\ each \in Nat \ {0}
    BY PrecisionAssumption
  <1>2. b \in Nat /\ b > 0
    BY <1>1
  <1>3. replicas \in Rounded(need, b)
    BY DEF Replicas
  <1>4. need <= P * b
    BY <1>1
  <1> HIDE DEF b
  <1>5. /\ replicas \in Nat
        /\ P * (b * replicas) >= (P - 1) * need
        /\ P * (b * (replicas - 1)) < (P + 1) * need
    <2> HIDE DEF need
    <2> QED
      BY <1>1, <1>2, <1>3, RoundedFacts
  <1>6. b * (replicas - 2) < need
    <2> DEFINE x == b * (replicas - 1)
    <2>1. x \in Int /\ b * (replicas - 2) = x - b
      BY <1>2, <1>5
    <2> HIDE DEF x, need
    <2>2. SUFFICES ASSUME x - b - need >= 0 PROVE FALSE
      BY <1>1, <1>2, <2>1
    <2>3. P * (x - b - need) >= 0
      BY <1>1, <1>2, <2>1, <2>2
    <2>4. P * (x - b - need) = P * x - P * b - P * need
      BY <1>1, <1>2, <2>1
    <2>5. (P + 1) * need = P * need + need
      BY <1>1
    <2>6. P * x < (P + 1) * need
      BY <1>5 DEF x
    <2> QED
      BY <1>1, <1>2, <1>4, <2>1, <2>3, <2>4, <2>5, <2>6
  <1> HIDE DEF each, need
  <1>7. tp * replicas \in Nat
    BY <1>5
  <1>8. each * (tp * replicas) = b * replicas
    BY <1>1, <1>5 DEF b
  <1>9. each * (tp * replicas - 2 * tp) = b * (replicas - 2)
    BY <1>1, <1>5 DEF b
  <1> QED
    BY <1>5, <1>6, <1>7, <1>8, <1>9 DEF each, need, Covers

(* Reserved and burst GPUs together are enough for the peak but for a part *)
(* in Precision, whether the reservation falls short of it or not          *)
(* (capacity_planner.py:99-103).                                           *)
THEOREM PeakIsCovered ==
    ASSUME NEW gpus \in Nat, NEW peakTenths \in Nat, NEW coverage \in Nat,
           NEW reserved \in ReservedGpus(gpus, coverage),
           NEW most \in PeakGpus(gpus, peakTenths)
    PROVE  LET burst == BurstGpus(most, reserved)
           IN  /\ reserved \in Nat /\ burst \in Nat
               /\ Covers(10 * (reserved + burst), gpus * peakTenths)
  <1> DEFINE atPeak == gpus * peakTenths
             steady == gpus * coverage
             P == Precision
  <1>1. P \in Nat /\ P > 1 /\ atPeak \in Nat /\ steady \in Nat
    BY PrecisionAssumption
  <1>2. most \in Rounded(atPeak, 10) /\ reserved \in Rounded(steady, 100)
    BY DEF PeakGpus, ReservedGpus
  <1> HIDE DEF atPeak, steady
  <1>3. most \in Nat /\ P * (10 * most) >= (P - 1) * atPeak /\ reserved \in Nat
    BY <1>1, <1>2, RoundedFacts
  <1> DEFINE burst == BurstGpus(most, reserved)
  <1>4. burst \in Nat /\ reserved + burst - most \in Nat
    BY <1>3 DEF BurstGpus
  <1> HIDE DEF burst
  <1>5. P * (10 * (reserved + burst - most)) \in Nat
    BY <1>1, <1>4
  <1>6. P * (10 * (reserved + burst - most)) = P * (10 * (reserved + burst)) - P * (10 * most)
    BY <1>1, <1>3, <1>4
  <1>7. (P - 1) * atPeak \in Int
    BY <1>1
  <1>8. P * (10 * (reserved + burst)) \in Int /\ P * (10 * most) \in Int
    BY <1>1, <1>3, <1>4
  <1>9. P * (10 * (reserved + burst)) >= (P - 1) * atPeak
    <2> DEFINE z == (P - 1) * atPeak
               u == P * (10 * (reserved + burst))
               v == P * (10 * most)
    <2> HIDE DEF z, u, v
    <2>1. u \in Int /\ v \in Int /\ z \in Int /\ u - v \in Nat /\ v >= z
      BY <1>3, <1>5, <1>6, <1>7, <1>8 DEF z, u, v
    <2>2. u >= z
      BY <2>1
    <2> QED
      BY <2>2 DEF z, u
  <1> QED
    BY <1>3, <1>4, <1>9 DEF Covers, burst, atPeak

-----------------------------------------------------------------------------
(* Order. *)

LEMMA LeastOf ==
    ASSUME NEW S \in SUBSET Nat, S # {}
    PROVE  \E x \in S : \A y \in S : x <= y
<1> DEFINE R == OpToRel(<, Nat)
<1>1. PICK x \in S : \A y \in S : ~ (<<y, x>> \in R)
  <2>1. IsWellFoundedOn(R, Nat)
    BY NatLessThanWellFounded
  <2> HIDE DEF R
  <2> QED BY <2>1, WFMin
<1>2. ASSUME NEW y \in S, y < x PROVE FALSE
  <2>1. <<y, x>> \in R
    BY <1>2 DEF OpToRel
  <2> QED BY <1>1, <2>1
<1> QED BY <1>2

(* The element with the fewest above it. *)
LEMMA GreatestOf ==
    ASSUME NEW S, IsFiniteSet(S), S # {}, NEW f, \A s \in S : f[s] \in Nat
    PROVE  \E s \in S : \A r \in S : f[r] <= f[s]
<1> DEFINE Above(s) == {r \in S : f[r] > f[s]}
           K == {Cardinality(Above(s)) : s \in S}
<1>1. ASSUME NEW s \in S PROVE IsFiniteSet(Above(s)) /\ Cardinality(Above(s)) \in Nat
  <2>1. Above(s) \in SUBSET S
    OBVIOUS
  <2> HIDE DEF Above
  <2> QED BY <2>1, FS_Subset, FS_CardinalityType
<1>2. PICK s \in S : \A r \in S : Cardinality(Above(s)) <= Cardinality(Above(r))
  <2> HIDE DEF Above
  <2>1. K \in SUBSET Nat /\ K # {}
    BY <1>1
  <2>2. PICK x \in K : \A y \in K : x <= y
    <3> HIDE DEF K
    <3> QED BY <2>1, LeastOf
  <2> QED BY <2>2
<1>3. ASSUME NEW r \in S, f[r] > f[s] PROVE FALSE
  <2>1. /\ Above(r) \in SUBSET Above(s) /\ r \in Above(s) /\ r \notin Above(r)
    BY <1>3
  <2> HIDE DEF Above
  <2>2. Cardinality(Above(r)) < Cardinality(Above(s))
    BY <1>1, <2>1, FS_Subset
  <2> QED BY <1>1, <1>2, <2>2
<1> QED BY <1>3

LEMMA Hundredths ==
    ASSUME NEW k \in Nat
    PROVE  /\ k \div 100 \in Nat /\ k % 100 \in 0..99
           /\ k = 100 * (k \div 100) + (k % 100)
<1>1. k \div 100 \in Nat
  OBVIOUS
<1>2. k % 100 \in 0..99
  OBVIOUS
<1>3. k = 100 * (k \div 100) + (k % 100)
  OBVIOUS
<1> QED BY <1>1, <1>2, <1>3

LEMMA Shares ==
    ASSUME NEW d \in Nat, NEW r \in 0..99, NEW s \in r..99
    PROVE  /\ d * r \in Nat /\ d * r <= d * s /\ d * s <= 100 * d
<1>1. s - r \in Nat /\ 100 - s \in Nat
  OBVIOUS
<1>2. d * (s - r) \in Nat /\ d * (100 - s) \in Nat /\ d * r \in Nat
  BY <1>1
<1>3. d * (s - r) = d * s - d * r /\ d * (100 - s) = 100 * d - d * s
  OBVIOUS
<1> QED BY <1>2, <1>3


-----------------------------------------------------------------------------
(* Percentiles. *)

Rising(values) ==
    \A i \in 1..Len(values) : \A j \in 1..Len(values) : i <= j => values[i] <= values[j]

(* The two neighbours between which _percentiles interpolates. *)
Lower(values, p) == 1 + ((Len(values) - 1) * p) \div 100

Upper(values, p) ==
    IF Lower(values, p) < Len(values) THEN Lower(values, p) + 1 ELSE Lower(values, p)

Rest(values, p) == ((Len(values) - 1) * p) % 100

LEMMA Neighbours ==
    ASSUME NEW values \in Seq(Nat), Len(values) # 0, NEW p \in 0..100
    PROVE  /\ Lower(values, p) \in 1..Len(values) /\ Upper(values, p) \in 1..Len(values)
           /\ Lower(values, p) <= Upper(values, p) /\ Rest(values, p) \in 0..99
           /\ (Len(values) - 1) * p = 100 * (Lower(values, p) - 1) + Rest(values, p)
           /\ Percentile(values, p)
              = 100 * values[Lower(values, p)]
                + (values[Upper(values, p)] - values[Lower(values, p)]) * Rest(values, p)
<1> DEFINE n == Len(values)
           k == (n - 1) * p
           d == k \div 100
<1>1. n \in Nat \ {0}
  BY LenProperties
<1>2. k \in Nat /\ k <= 100 * (n - 1)
  <2> HIDE DEF n
  <2>1. n - 1 \in Nat /\ 100 - p \in Nat
    BY <1>1
  <2>2. (n - 1) * (100 - p) \in Nat /\ k \in Nat
    BY <2>1
  <2>3. (n - 1) * (100 - p) = 100 * (n - 1) - k
    BY <1>1
  <2> QED BY <1>1, <2>2, <2>3
<1> HIDE DEF k
<1>3. d \in Nat /\ k % 100 \in 0..99 /\ k = 100 * d + (k % 100)
  BY <1>2, Hundredths
<1> HIDE DEF d, n
<1>4. 1 + d \in 1..n
  BY <1>1, <1>2, <1>3
<1>5. Lower(values, p) = 1 + d /\ Rest(values, p) = k % 100
  BY DEF Lower, Rest, n, k, d
<1>6. Upper(values, p) = IF 1 + d < n THEN 1 + d + 1 ELSE 1 + d
  BY <1>5 DEF Upper, n
<1>7. Percentile(values, p)
        = 100 * values[Lower(values, p)]
          + (values[Upper(values, p)] - values[Lower(values, p)]) * Rest(values, p)
  BY DEF Percentile, Lower, Upper, Rest
<1>8. /\ Lower(values, p) \in 1..n /\ Upper(values, p) \in 1..n
      /\ Lower(values, p) <= Upper(values, p)
      /\ k = 100 * (Lower(values, p) - 1) + Rest(values, p)
  BY <1>1, <1>3, <1>4, <1>5, <1>6
<1> QED BY <1>3, <1>5, <1>7, <1>8 DEF n, k

LEMMA PercentileBetween ==
    ASSUME NEW values \in Seq(Nat), Len(values) # 0, Rising(values), NEW p \in 0..100
    PROVE  /\ Percentile(values, p) \in Nat
           /\ 100 * values[Lower(values, p)] <= Percentile(values, p)
           /\ Percentile(values, p) <= 100 * values[Upper(values, p)]
<1> DEFINE x == values[Lower(values, p)]
           y == values[Upper(values, p)]
           r == Rest(values, p)
<1>1. x \in Nat /\ y \in Nat /\ x <= y /\ r \in 0..99
  BY Neighbours, ElementOfSeq DEF Rising
<1>2. Percentile(values, p) = 100 * x + (y - x) * r
  BY Neighbours
<1> HIDE DEF x, y, r
<1>3. (y - x) * r \in Nat /\ (y - x) * r <= 100 * (y - x)
  <2>1. y - x \in Nat /\ r \in r..99
    BY <1>1
  <2> QED BY <1>1, <2>1, Shares
<1> DEFINE m == (y - x) * r
<1>4. m \in Nat /\ m <= 100 * (y - x) /\ Percentile(values, p) = 100 * x + m
  BY <1>2, <1>3
<1> HIDE DEF m
<1>5. /\ Percentile(values, p) \in Nat
      /\ 100 * x <= Percentile(values, p) /\ Percentile(values, p) <= 100 * y
  BY <1>1, <1>4
<1> QED BY <1>5 DEF x, y

LEMMA PercentilesRise ==
    ASSUME NEW values \in Seq(Nat), Len(values) # 0, Rising(values),
           NEW p \in 0..100, NEW q \in p..100
    PROVE  Percentile(values, p) <= Percentile(values, q)
<1> DEFINE n == Len(values)
           f == Lower(values, p)
           g == Lower(values, q)
           r == Rest(values, p)
           s == Rest(values, q)
<1>1. n \in Nat \ {0} /\ q \in 0..100
  BY LenProperties
<1>2. /\ f \in 1..n /\ g \in 1..n /\ r \in 0..99 /\ s \in 0..99
      /\ (n - 1) * p = 100 * (f - 1) + r /\ (n - 1) * q = 100 * (g - 1) + s
  BY <1>1, Neighbours
<1> HIDE DEF n, f, g, r, s
<1>3. 100 * (f - 1) + r <= 100 * (g - 1) + s
  <2>1. n - 1 \in Nat /\ q - p \in Nat
    BY <1>1
  <2>2. (n - 1) * (q - p) \in Nat
    BY <2>1
  <2>3. (n - 1) * (q - p) = (n - 1) * q - (n - 1) * p
    BY <1>1
  <2> QED BY <1>1, <1>2, <2>2, <2>3
<1>4. CASE f = g
  <2> DEFINE x == values[f]
             y == values[Upper(values, p)]
  <2>1. Upper(values, p) = Upper(values, q)
    BY <1>4 DEF Upper, f, g
  <2>2. /\ Percentile(values, p) = 100 * x + (y - x) * r
        /\ Percentile(values, q) = 100 * x + (y - x) * s
    BY <1>1, <1>4, <2>1, Neighbours DEF f, g, r, s
  <2>3. x \in Nat /\ y \in Nat /\ y - x \in Nat
    <3>1. x \in Nat /\ y \in Nat /\ x <= y
      BY Neighbours, ElementOfSeq DEF Rising, f
    <3> QED BY <3>1
  <2> HIDE DEF x, y
  <2>4. s \in r..99
    BY <1>2, <1>3, <1>4
  <2>5. (y - x) * r \in Nat /\ (y - x) * r <= (y - x) * s
    BY <1>2, <2>3, <2>4, Shares
  <2> QED BY <1>2, <2>2, <2>3, <2>5
<1>5. CASE f < g
  <2>1. Upper(values, p) \in 1..n /\ Upper(values, p) <= g
    <3>1. Upper(values, p) \in {f, f + 1}
      BY DEF Upper, f
    <3>2. Upper(values, p) \in 1..n
      BY <1>1, Neighbours DEF n
    <3> QED BY <1>2, <1>5, <3>1, <3>2
  <2>2. /\ values[Upper(values, p)] \in Nat /\ values[g] \in Nat
        /\ values[Upper(values, p)] <= values[g]
    BY <1>2, <2>1, ElementOfSeq DEF Rising, n
  <2>3. /\ Percentile(values, p) \in Nat /\ Percentile(values, q) \in Nat
        /\ Percentile(values, p) <= 100 * values[Upper(values, p)]
        /\ 100 * values[g] <= Percentile(values, q)
    BY <1>1, PercentileBetween DEF g
  <2> QED BY <2>2, <2>3
<1> QED BY <1>2, <1>3, <1>4, <1>5


-----------------------------------------------------------------------------
(* The tasks of a state. *)

LEMMA TaskFacts ==
    ASSUME TypeOK
    PROVE  /\ DOMAIN task = 1..Len(task) /\ Len(task) \in Nat /\ IsFiniteSet(DOMAIN task)
           /\ \A t \in DOMAIN task :
                 /\ task[t] \in Task
                 /\ task[t].level \in 1..Len(Levels) /\ task[t].part \in {"warmup", "measure"}
                 /\ task[t].state \in {"created", "running", "done", "cut", "raised"}
                 /\ task[t].time \in Times \cup {0} /\ task[t].time \in Nat
<1>1. task \in Seq(Task)
  BY DEF TypeOK
<1>2. DOMAIN task = 1..Len(task) /\ Len(task) \in Nat /\ IsFiniteSet(1..Len(task))
  BY <1>1, LenProperties, FS_Interval
<1>3. \A t \in DOMAIN task : task[t] \in Task
  BY <1>1, <1>2, ElementOfSeq
<1>4. \A x \in Task :
         /\ x.level \in 1..Len(Levels) /\ x.part \in {"warmup", "measure"}
         /\ x.state \in {"created", "running", "done", "cut", "raised"} /\ x.time \in Times \cup {0}
         /\ x.time \in Nat
  <2>1. Times \cup {0} \subseteq Nat
    BY LoadAssumption
  <2> QED BY <2>1 DEF Task
<1> QED BY <1>2, <1>3, <1>4

(* Sets of tasks are finite. *)
LEMMA TaskSets ==
    ASSUME TypeOK, NEW S, S \subseteq DOMAIN task
    PROVE  IsFiniteSet(S) /\ Cardinality(S) \in Nat
<1>1. S \in SUBSET (DOMAIN task)
  OBVIOUS
<1> QED BY <1>1, TaskFacts, FS_Subset, FS_CardinalityType

LEMMA GoodAndBad ==
    ASSUME TypeOK
    PROVE  /\ Good \subseteq Window /\ Bad \subseteq Window /\ Window \subseteq DOMAIN task
           /\ Good \cap Bad = {} /\ Good \cup Bad = InState(Window, "done")
           /\ \A t \in Good : task[t].time \in Nat
BY TaskFacts DEF Good, Bad, InState, Window

(* The order statistics exist, are the times of good requests, and rise.   *)
LEMMA GoodTimesFacts ==
    ASSUME TypeOK
    PROVE  /\ GoodTimes \in Seq(Nat) /\ Len(GoodTimes) = Cardinality(Good)
           /\ Rising(GoodTimes)
           /\ \A k \in 1..Len(GoodTimes) : \E t \in Good : GoodTimes[k] = task[t].time
<1> DEFINE times == {task[t].time : t \in Good}
           Below(x) == {t \in Good : task[t].time <= x}
           Served(x) == Cardinality(Below(x))
           n == Cardinality(Good)
           Least(k) == CHOOSE x \in times : /\ k <= Served(x)
                                            /\ \A y \in times : k <= Served(y) => x <= y
<1>1. /\ IsFiniteSet(Good) /\ n \in Nat /\ times \in SUBSET Nat
      /\ \A x : Served(x) \in Nat
  <2>1. IsFiniteSet(Good) /\ n \in Nat /\ times \in SUBSET Nat
    BY GoodAndBad, TaskSets
  <2>2. \A x : Below(x) \subseteq DOMAIN task
    BY GoodAndBad
  <2> HIDE DEF Below, times, n
  <2> QED BY <2>1, <2>2, TaskSets
<1>2. ASSUME NEW k \in 1..n
      PROVE  /\ Least(k) \in times /\ k <= Served(Least(k))
             /\ \A y \in times : k <= Served(y) => Least(k) <= y
  <2> DEFINE f == [t \in Good |-> task[t].time]
             K == {x \in times : k <= Served(x)}
  <2>1. Good # {}
    BY <1>1, <1>2, FS_EmptySet
  <2>2. PICK t \in Good : \A r \in Good : f[r] <= f[t]
    <3>1. \A s \in Good : f[s] \in Nat
      BY GoodAndBad
    <3> HIDE DEF f
    <3> QED BY <1>1, <2>1, <3>1, GreatestOf
  <2>3. Below(task[t].time) = Good
    BY <2>2
  <2>4. Served(task[t].time) = n /\ task[t].time \in times
    BY <2>3
  <2> HIDE DEF Below, Served, times, n, f
  <2>5. K \in SUBSET Nat /\ K # {}
    <3>1. task[t].time \in K
      BY <1>1, <1>2, <2>4
    <3> QED BY <1>1, <3>1
  <2>6. PICK x \in K : \A y \in K : x <= y
    <3> HIDE DEF K
    <3> QED BY <2>5, LeastOf
  <2>7. x \in times /\ k <= Served(x) /\ \A y \in times : k <= Served(y) => x <= y
    BY <2>6
  <2> QED BY <2>7
<1>3. GoodTimes = [k \in 1..n |-> Least(k)]
  BY DEF GoodTimes
<1> HIDE DEF Least, Served
<1>4. GoodTimes \in [1..n -> Nat]
  BY <1>1, <1>2, <1>3
<1>5. GoodTimes \in Seq(Nat) /\ Len(GoodTimes) = n
  BY <1>1, <1>4, SeqDef
<1>6. ASSUME NEW i \in 1..n, NEW j \in 1..n, i <= j PROVE Least(i) <= Least(j)
  <2>1. Least(j) \in times /\ j <= Served(Least(j)) /\ Served(Least(j)) \in Nat
    BY <1>1, <1>2
  <2>2. i <= Served(Least(j))
    BY <1>1, <1>6, <2>1
  <2> QED BY <1>2, <2>1, <2>2
<1>7. Rising(GoodTimes)
  BY <1>3, <1>5, <1>6 DEF Rising
<1>8. ASSUME NEW k \in 1..n PROVE \E t \in Good : GoodTimes[k] = task[t].time
  BY <1>2, <1>3
<1> QED BY <1>5, <1>7, <1>8

LEMMA PercentilesRight ==
    ASSUME TypeOK, Good # {}
    PROVE  LET f == FiguresNow
               times == {task[t].time : t \in Good}
           IN  /\ f.p50 \in Nat /\ f.p99 \in Nat
               /\ \A x \in times : \E y \in times : 100 * y <= f.p50
               /\ f.p50 <= f.p99
               /\ \E y \in times : f.p99 <= 100 * y
<1> DEFINE v == GoodTimes
           times == {task[t].time : t \in Good}
<1>1. /\ v \in Seq(Nat) /\ Rising(v) /\ Len(v) # 0
      /\ \A k \in 1..Len(v) : v[k] \in times
  <2>1. Cardinality(Good) # 0
    BY GoodAndBad, TaskSets, FS_EmptySet
  <2> QED BY <2>1, GoodTimesFacts
<1>2. FiguresNow.p50 = Percentile(v, 50) /\ FiguresNow.p99 = Percentile(v, 99)
  BY DEF FiguresNow
<1> HIDE DEF v
<1>3. /\ Percentile(v, 50) \in Nat /\ Percentile(v, 99) \in Nat
      /\ 100 * v[Lower(v, 50)] <= Percentile(v, 50)
      /\ Percentile(v, 99) <= 100 * v[Upper(v, 99)]
      /\ v[Lower(v, 50)] \in times /\ v[Upper(v, 99)] \in times
  <2>1. ASSUME NEW p \in 0..100
        PROVE  /\ Percentile(v, p) \in Nat
               /\ 100 * v[Lower(v, p)] <= Percentile(v, p)
               /\ Percentile(v, p) <= 100 * v[Upper(v, p)]
               /\ v[Lower(v, p)] \in times /\ v[Upper(v, p)] \in times
    <3>1. Lower(v, p) \in 1..Len(v) /\ Upper(v, p) \in 1..Len(v)
      BY <1>1, Neighbours
    <3> QED BY <1>1, <3>1, PercentileBetween
  <2>2. 50 \in 0..100 /\ 99 \in 0..100
    OBVIOUS
  <2> QED BY <2>1, <2>2
<1>4. Percentile(v, 50) <= Percentile(v, 99)
  <2>1. 50 \in 0..100 /\ 99 \in 50..100
    OBVIOUS
  <2> QED BY <1>1, <2>1, PercentilesRise
<1> HIDE DEF times
<1> QED BY <1>2, <1>3, <1>4 DEF times


-----------------------------------------------------------------------------
(* The inductive invariant.                                                *)

Working == {"sending", "draining", "sampling"}

Finished == {"collected", "written", "planned"}

(* Where a task may be: what has begun belongs to the level that is being  *)
(* run, what has not to the very window; a closed loop leaves nothing      *)
(* running when its window is drained, and the session of a level leaves   *)
(* nothing running when its figures are taken.                             *)
Placed(x) ==
    /\ x.level <= level
    /\ x.state = "created" =>
          /\ OpenLoop(mode) /\ step \in {"sending", "draining"}
          /\ x.level = level /\ x.part = part
    /\ x.state = "running" =>
          /\ x.level = level /\ step \notin Finished
          /\ part = "warmup" => x.part = "warmup"
          /\ ~OpenLoop(mode) => x.part = part /\ step \in {"sending", "draining", "crashed"}
    /\ x.state = "cut" /\ x.level = level => step \notin Working

TasksPlaced == \A t \in DOMAIN task : Placed(task[t])

(* The event loop runs a new task before the dispatcher adds another.      *)
OneCreated ==
    \A t, u \in DOMAIN task : task[t].state = "created" /\ task[u].state = "created" => t = u

CountsRight ==
    /\ inflight <= peak /\ backlog <= peak
    /\ ~OpenLoop(mode) => inflight = 0
    /\ OpenLoop(mode) /\ step \in Working =>
          inflight = Cardinality(InState(Window, "running")) + Cardinality(Raised)
    /\ OpenLoop(mode) /\ step \in {"draining", "sampling"} =>
          Cardinality(Unfinished) <= backlog + 1

FiguresRight ==
    /\ level <= LastLevel(mode)
    /\ step \in Working => Len(figures) = level - 1
    /\ step \in Finished => Len(figures) = level
    /\ step \in {"written", "planned"} => level = LastLevel(mode)
    /\ ~OpenLoop(mode) /\ step # "crashed" => \A l \in DOMAIN figures : figures[l].ok > 0

(* What the figures of the last level say, and what the planner made of it. *)
ResultsRight ==
    /\ RequestsAccounted /\ PercentilesOrdered /\ PlanSuffices
    /\ step = "crashed" =>
          IF OpenLoop(mode) THEN Window = {}
          ELSE Good = {} \/ (mode = "latency" /\ Raised # {})

IInv == TypeOK /\ TasksPlaced /\ OneCreated /\ CountsRight /\ FiguresRight /\ ResultsRight


LEMMA ModeFacts ==
    ASSUME TypeOK
    PROVE  /\ mode \in {"latency", "throughput", "open_loop", "trace"}
           /\ OpenLoop(mode) <=> mode \in {"open_loop", "trace"}
           /\ Len(Levels) \in Nat \ {0} /\ LastLevel(mode) \in 1..Len(Levels)
           /\ level \in 1..Len(Levels) /\ part \in {"warmup", "measure"}
           /\ peak \in Nat /\ backlog \in Nat /\ inflight \in Nat
<1>1. Len(Levels) \in Nat \ {0}
  BY LoadAssumption, EmptySeq
<1>2. mode \in {"latency", "throughput", "open_loop", "trace"}
  BY LoadAssumption DEF TypeOK
<1> QED BY <1>1, <1>2 DEF TypeOK, OpenLoop, LastLevel

LEMMA AtOnceType ==
    ASSUME TypeOK, NEW l \in 1..Len(Levels), NEW p \in {"warmup", "measure"}
    PROVE  AtOnce(mode, l, p) \in Nat /\ (OpenLoop(mode) => AtOnce(mode, l, p) = 0)
<1>1. Levels[l] \in Nat
  BY LoadAssumption, ElementOfSeq
<1>2. CASE mode = "latency"
  BY <1>2 DEF AtOnce, OpenLoop
<1>3. CASE mode = "throughput"
  BY <1>1, <1>3 DEF AtOnce, OpenLoop
<1>4. CASE OpenLoop(mode)
  BY <1>4 DEF AtOnce, OpenLoop
<1> QED BY <1>2, <1>3, <1>4, ModeFacts

LEMMA NewFields ==
    ASSUME NEW l \in 1..Len(Levels), NEW p \in {"warmup", "measure"},
           NEW state \in {"created", "running"}
    PROVE  /\ New(l, p, state) \in Task
           /\ New(l, p, state).level = l /\ New(l, p, state).part = p
           /\ New(l, p, state).state = state /\ New(l, p, state).time = 0
BY DEF New, Task

LEMMA StartedTasks ==
    ASSUME TypeOK, NEW l \in 1..Len(Levels), NEW p \in {"warmup", "measure"}
    PROVE  /\ Started(mode, l, p) \in Seq(Task)
           /\ Len(Started(mode, l, p)) = AtOnce(mode, l, p)
           /\ \A t \in 1..AtOnce(mode, l, p) :
                 Started(mode, l, p)[t] = New(l, p, "running") /\ ~OpenLoop(mode)
<1> DEFINE n == AtOnce(mode, l, p)
<1>1. n \in Nat /\ (OpenLoop(mode) => n = 0)
  BY AtOnceType
<1>2. Started(mode, l, p) = [i \in 1..n |-> New(l, p, "running")]
  BY DEF Started
<1>3. New(l, p, "running") \in Task
  BY NewFields
<1> HIDE DEF n
<1>4. Started(mode, l, p) \in [1..n -> Task]
  BY <1>2, <1>3
<1>5. Started(mode, l, p) \in Seq(Task) /\ Len(Started(mode, l, p)) = n
  BY <1>1, <1>4, SeqDef
<1> QED BY <1>1, <1>2, <1>5 DEF n

(* The two ways to change the list of tasks. *)
LEMMA AppendedTask ==
    ASSUME NEW s \in Seq(Task), NEW x \in Task
    PROVE  /\ Append(s, x) \in Seq(Task) /\ Len(s) \in Nat
           /\ DOMAIN Append(s, x) = DOMAIN s \cup {Len(s) + 1}
           /\ Len(s) + 1 \notin DOMAIN s
           /\ Append(s, x)[Len(s) + 1] = x
           /\ \A t \in DOMAIN s : Append(s, x)[t] = s[t]
<1>1. /\ Append(s, x) \in Seq(Task) /\ Len(Append(s, x)) = Len(s) + 1
      /\ \A i \in 1..Len(s) : Append(s, x)[i] = s[i]
      /\ Append(s, x)[Len(s) + 1] = x
  BY AppendProperties
<1>2. DOMAIN s = 1..Len(s) /\ Len(s) \in Nat /\ DOMAIN Append(s, x) = 1..Len(Append(s, x))
  BY <1>1, LenProperties
<1> QED BY <1>1, <1>2

LEMMA ChangedTask ==
    ASSUME NEW s \in Seq(Task), NEW t \in DOMAIN s, NEW x \in Task
    PROVE  /\ [s EXCEPT ![t] = x] \in Seq(Task)
           /\ DOMAIN [s EXCEPT ![t] = x] = DOMAIN s
           /\ [s EXCEPT ![t] = x][t] = x
           /\ \A u \in DOMAIN s \ {t} : [s EXCEPT ![t] = x][u] = s[u]
<1>1. DOMAIN s = 1..Len(s)
  BY LenProperties
<1> QED BY <1>1, ExceptSeq

LEMMA EndedTask ==
    ASSUME TypeOK, NEW t \in DOMAIN task, NEW time \in Times \cup {0}
    PROVE  /\ Ended(t, time) \in Seq(Task) /\ DOMAIN Ended(t, time) = DOMAIN task
           /\ Ended(t, time)[t].state = "done" /\ Ended(t, time)[t].level = task[t].level
           /\ Ended(t, time)[t].part = task[t].part
           /\ \A u \in DOMAIN task \ {t} : Ended(t, time)[u] = task[u]
<1> DEFINE d == [task[t] EXCEPT !.state = "done"]
           x == [d EXCEPT !.time = time]
           c == [task EXCEPT ![t] = d]
<1>1. task \in Seq(Task) /\ task[t] \in Task
  BY TaskFacts DEF TypeOK
<1>2. d \in Task /\ d.state = "done" /\ d.level = task[t].level /\ d.part = task[t].part
  BY <1>1 DEF Task
<1>3. Ended(t, time) = [c EXCEPT ![t] = [c[t] EXCEPT !.time = time]]
  BY DEF Ended
<1>4. /\ c \in Seq(Task) /\ DOMAIN c = DOMAIN task /\ c[t] = d
      /\ \A u \in DOMAIN task \ {t} : c[u] = task[u]
  <2> HIDE DEF d
  <2> QED BY <1>1, <1>2, ChangedTask
<1>5. Ended(t, time) = [c EXCEPT ![t] = x]
  BY <1>3, <1>4
<1> HIDE DEF c, d
<1>6. x \in Task /\ x.state = "done" /\ x.level = task[t].level /\ x.part = task[t].part
  BY <1>2 DEF Task
<1> HIDE DEF x
<1> QED BY <1>4, <1>5, <1>6, ChangedTask

(* While a window is worked on, nothing is claimed of its results. *)
LEMMA WorkingResults ==
    ASSUME step' \in Working
    PROVE  ResultsRight'
<1>1. step' \notin {"collected", "planned", "crashed"}
  BY DEF Working
<1> QED BY <1>1 DEF ResultsRight, RequestsAccounted, PercentilesOrdered, PlanSuffices

LEMMA FiguresStay ==
    ASSUME FiguresRight, step \in Working, step' \in Working, UNCHANGED <<mode, level, figures>>
    PROVE  FiguresRight'
<1>1. step' \notin Finished /\ step # "crashed" /\ step' \notin {"written", "planned"}
  BY DEF Working, Finished
<1> QED BY <1>1 DEF FiguresRight, Finished


-----------------------------------------------------------------------------
(* One lemma for each action. *)

LEMMA InitInv == Init => IInv
<1> SUFFICES ASSUME Init PROVE IInv
  OBVIOUS
<1>1. /\ mode \in Modes /\ level = 1 /\ part \in {"warmup", "measure"} /\ step = "sending"
      /\ inflight = 0 /\ peak = 0 /\ backlog = 0 /\ figures = <<>> /\ plan = NoPlan
  BY DEF Init
<1>2. /\ level \in 1..Len(Levels) /\ level <= LastLevel(mode)
      /\ (OpenLoop(mode) => AtOnce(mode, 1, part) = 0) /\ AtOnce(mode, 1, part) \in Nat
  <2>1. Len(Levels) \in Nat \ {0}
    BY LoadAssumption, EmptySeq
  <2>2. 1 \in 1..Len(Levels) /\ Levels[1] \in Nat
    BY <2>1, LoadAssumption, ElementOfSeq
  <2>3. mode \in {"latency", "throughput", "open_loop", "trace"}
    BY <1>1, LoadAssumption
  <2> QED BY <1>1, <2>1, <2>2, <2>3 DEF LastLevel, OpenLoop, AtOnce
<1> DEFINE n == AtOnce(mode, 1, part)
           x == New(1, part, "running")
<1>3. /\ task \in Seq(Task) /\ DOMAIN task = 1..n
      /\ \A t \in DOMAIN task : task[t] = x /\ ~OpenLoop(mode)
  <2>1. task = [i \in 1..n |-> x]
    BY DEF Init, Started
  <2>2. x \in Task
    BY <1>1, <1>2, NewFields
  <2>3. \A i \in 1..n : ~OpenLoop(mode)
    BY <1>2
  <2> HIDE DEF n, x
  <2>4. task \in [1..n -> Task]
    BY <2>1, <2>2
  <2> QED BY <1>2, <2>1, <2>3, <2>4, SeqDef DEF n
<1> HIDE DEF n
<1>4. TypeOK
  <2>1. NoPlan \in [level: Nat, required: Nat, rate: Nat, gpus: Nat, reserved: Nat, burst: Nat]
    BY DEF NoPlan
  <2> QED BY <1>1, <1>2, <1>3, <2>1 DEF TypeOK
<1>5. TasksPlaced /\ OneCreated
  <2>1. x.level = 1 /\ x.part = part /\ x.state = "running"
    BY <1>1, <1>2, NewFields
  <2> HIDE DEF x
  <2> QED BY <1>1, <1>3, <2>1 DEF TasksPlaced, OneCreated, Placed, Finished
<1>6. CountsRight
  <2>1. ASSUME OpenLoop(mode) PROVE InState(Window, "running") = {} /\ Raised = {}
    BY <1>3, <2>1 DEF InState, Window, Raised
  <2>2. OpenLoop(mode) =>
           Cardinality(InState(Window, "running")) = 0 /\ Cardinality(Raised) = 0
    BY <2>1, FS_EmptySet
  <2> QED BY <1>1, <2>2 DEF CountsRight
<1>7. FiguresRight
  BY <1>1, <1>2 DEF FiguresRight, Finished
<1>8. ResultsRight
  BY <1>1 DEF ResultsRight, RequestsAccounted, PercentilesOrdered, PlanSuffices
<1> QED BY <1>4, <1>5, <1>6, <1>7, <1>8 DEF IInv

LEMMA SubmitInv ==
    ASSUME IInv, Submit
    PROVE  IInv'
<1> DEFINE x == New(level, part, "created")
<1>1. TypeOK /\ level \in 1..Len(Levels) /\ part \in {"warmup", "measure"}
  BY ModeFacts DEF IInv
<1>2. /\ OpenLoop(mode) /\ step = "sending" /\ InState(DOMAIN task, "created") = {}
      /\ task' = Append(task, x)
      /\ UNCHANGED <<mode, level, part, step, inflight, peak, backlog, figures, plan>>
  BY DEF Submit, MaySend, where, counts, outcome
<1>3. x \in Task /\ x.level = level /\ x.part = part /\ x.state = "created"
  BY <1>1, NewFields
<1> HIDE DEF x
<1>4. PICK n : /\ task' \in Seq(Task) /\ DOMAIN task' = DOMAIN task \cup {n}
               /\ n \notin DOMAIN task /\ task'[n] = x
               /\ \A t \in DOMAIN task : task'[t] = task[t]
  BY <1>1, <1>2, <1>3, AppendedTask DEF TypeOK
<1>5. TypeOK'
  BY <1>1, <1>2, <1>4 DEF TypeOK
<1>6. TasksPlaced' /\ OneCreated'
  <2>1. \A t \in DOMAIN task : Placed(task[t]) /\ task[t].state # "created"
    BY <1>2 DEF IInv, TasksPlaced, InState
  <2>2. \A t \in DOMAIN task : Placed(task[t])'
    BY <1>2, <1>4, <2>1 DEF Placed
  <2>3. Placed(task[n])'
    <3>1. level <= level
      BY <1>1
    <3> QED BY <1>2, <1>3, <1>4, <3>1 DEF Placed
  <2> QED BY <1>3, <1>4, <2>1, <2>2, <2>3 DEF TasksPlaced, OneCreated
<1>7. CountsRight'
  <2>1. InState(Window, "running")' = InState(Window, "running") /\ Raised' = Raised
    BY <1>2, <1>3, <1>4 DEF InState, Window, Raised
  <2> QED BY <1>2, <2>1 DEF IInv, CountsRight
<1>8. FiguresRight' /\ ResultsRight'
  BY <1>2, FiguresStay, WorkingResults DEF IInv, Working
<1> QED BY <1>5, <1>6, <1>7, <1>8 DEF IInv

LEMMA StartTaskInv ==
    ASSUME IInv, Live, NEW t \in DOMAIN task, StartTask(t)
    PROVE  IInv'
<1> DEFINE x == [task[t] EXCEPT !.state = "running"]
<1>1. TypeOK /\ task[t] \in Task /\ task \in Seq(Task) /\ inflight \in Nat /\ peak \in Nat
      /\ backlog \in Nat
  BY TaskFacts, ModeFacts DEF IInv, TypeOK
<1>2. /\ task[t].state = "created" /\ task' = [task EXCEPT ![t] = x]
      /\ inflight' = inflight + 1 /\ peak' = IF inflight' > peak THEN inflight' ELSE peak
      /\ UNCHANGED <<mode, level, part, step, backlog, figures, plan>>
  BY DEF StartTask, CountedIn, where, outcome
<1>3. /\ x \in Task /\ x.level = task[t].level /\ x.part = task[t].part
      /\ x.state = "running"
  BY <1>1 DEF Task
<1> HIDE DEF x
<1>4. /\ task' \in Seq(Task) /\ DOMAIN task' = DOMAIN task /\ task'[t] = x
      /\ \A u \in DOMAIN task \ {t} : task'[u] = task[u]
  BY <1>1, <1>2, <1>3, ChangedTask
<1>5. /\ OpenLoop(mode) /\ step \in {"sending", "draining"}
      /\ task[t].level = level /\ task[t].part = part
  BY <1>2 DEF IInv, TasksPlaced, Placed
<1>6. TypeOK' /\ inflight' \in Nat /\ peak' \in Nat /\ inflight' <= peak' /\ peak <= peak'
  BY <1>1, <1>2, <1>4 DEF TypeOK
<1>7. TasksPlaced' /\ OneCreated'
  <2>1. \A u \in DOMAIN task : Placed(task[u])
    BY DEF IInv, TasksPlaced
  <2>2. \A u \in DOMAIN task \ {t} : Placed(task[u])'
    BY <1>2, <1>4, <2>1 DEF Placed
  <2>3. Placed(task[t])'
    BY <1>2, <1>3, <1>4, <1>5, <2>1 DEF Placed, Finished
  <2>4. OneCreated'
    BY <1>3, <1>4 DEF IInv, OneCreated
  <2> QED BY <1>4, <2>2, <2>3, <2>4 DEF TasksPlaced
<1>8. CountsRight'
  <2> DEFINE R == InState(Window, "running")
  <2>1. /\ R' = R \cup {t} /\ t \notin R /\ Unfinished' = Unfinished
        /\ R \subseteq DOMAIN task
    BY <1>2, <1>3, <1>4, <1>5 DEF InState, Window, Unfinished
  <2>5. Raised' = Raised /\ Raised \subseteq DOMAIN task
    BY <1>2, <1>3, <1>4, <1>5 DEF InState, Window, Raised
  <2>6. Cardinality(Raised) \in Nat /\ Cardinality(R) \in Nat
    BY <1>1, <2>1, <2>5, TaskSets
  <2>2. Cardinality(R') = Cardinality(R) + 1
    BY <1>1, <2>1, TaskSets, FS_AddElement
  <2>3. inflight = Cardinality(R) + Cardinality(Raised)
    BY <1>5 DEF IInv, CountsRight, Working
  <2>4. backlog <= peak'
    BY <1>1, <1>6 DEF IInv, CountsRight
  <2>7. inflight' = Cardinality(R') + Cardinality(Raised')
    <3> HIDE DEF R
    <3> QED BY <1>2, <2>2, <2>3, <2>5, <2>6
  <2> QED BY <1>2, <1>5, <1>6, <2>1, <2>4, <2>7 DEF IInv, CountsRight
<1>9. FiguresRight' /\ ResultsRight'
  BY <1>2, <1>5, FiguresStay, WorkingResults DEF IInv, Working
<1> QED BY <1>6, <1>7, <1>8, <1>9 DEF IInv


LEMMA PromptRaisesInv ==
    ASSUME IInv, Live, NEW t \in DOMAIN task, PromptRaises(t)
    PROVE  IInv'
<1> DEFINE x == [task[t] EXCEPT !.state = "raised"]
<1>1. TypeOK /\ task[t] \in Task /\ task \in Seq(Task) /\ inflight \in Nat /\ peak \in Nat
      /\ backlog \in Nat
  BY TaskFacts, ModeFacts DEF IInv, TypeOK
<1>2. /\ task[t].state = IF OpenLoop(mode) THEN "created" ELSE "running"
      /\ task' = [task EXCEPT ![t] = x]
      /\ step' = IF mode = "latency" THEN "crashed" ELSE step
      /\ UNCHANGED <<mode, level, part, backlog, figures, plan>>
  BY DEF PromptRaises, where, outcome
<1>3. IF OpenLoop(mode)
      THEN inflight' = inflight + 1 /\ peak' = IF inflight' > peak THEN inflight' ELSE peak
      ELSE inflight' = inflight /\ peak' = peak
  BY DEF PromptRaises, CountedIn
<1>4. /\ x \in Task /\ x.level = task[t].level /\ x.part = task[t].part
      /\ x.state = "raised"
  BY <1>1 DEF Task
<1> HIDE DEF x
<1>5. /\ task' \in Seq(Task) /\ DOMAIN task' = DOMAIN task /\ task'[t] = x
      /\ \A u \in DOMAIN task \ {t} : task'[u] = task[u]
  BY <1>1, <1>2, <1>4, ChangedTask
<1>6. /\ step \in {"sending", "draining"} /\ task[t].level = level /\ task[t].part = part
      /\ OpenLoop(mode) => mode # "latency"
  BY <1>2 DEF IInv, TasksPlaced, Placed, Live, OpenLoop
<1>7. TypeOK' /\ inflight' \in Nat /\ peak' \in Nat /\ inflight' <= peak' /\ peak <= peak'
  BY <1>1, <1>2, <1>3, <1>5 DEF TypeOK, IInv, CountsRight
<1>8. TasksPlaced' /\ OneCreated'
  <2>1. \A u \in DOMAIN task : Placed(task[u])
    BY DEF IInv, TasksPlaced
  <2>2. ASSUME NEW u \in DOMAIN task \ {t} PROVE Placed(task[u])'
    <3>1. /\ step' = step \/ (step' = "crashed" /\ ~OpenLoop(mode))
          /\ task'[u] = task[u] /\ Placed(task[u])
      BY <1>2, <1>5, <1>6, <2>1
    <3> QED BY <1>2, <3>1 DEF Placed, Finished, Working
  <2>3. Placed(task[t])'
    BY <1>2, <1>4, <1>5, <2>1 DEF Placed
  <2>4. OneCreated'
    BY <1>4, <1>5 DEF IInv, OneCreated
  <2> QED BY <1>5, <2>2, <2>3, <2>4 DEF TasksPlaced
<1>9. CountsRight'
  <2>1. CASE OpenLoop(mode)
    <3> DEFINE R == InState(Window, "running")
    <3>1. /\ R' = R /\ Raised' = Raised \cup {t} /\ t \notin Raised
          /\ Unfinished' = Unfinished \ {t}
          /\ R \subseteq DOMAIN task /\ Raised \subseteq DOMAIN task
          /\ Unfinished \subseteq DOMAIN task
      BY <1>2, <1>4, <1>5, <1>6, <2>1 DEF InState, Window, Unfinished, Raised
    <3> HIDE DEF R
    <3>2. /\ IsFiniteSet(Raised) /\ Cardinality(Raised) \in Nat /\ Cardinality(R) \in Nat
          /\ IsFiniteSet(Unfinished) /\ Cardinality(Unfinished) \in Nat
      BY <1>1, <3>1, TaskSets
    <3>3. Cardinality(Raised') = Cardinality(Raised) + 1
      BY <3>1, <3>2, FS_AddElement
    <3>4. Cardinality(Unfinished') \in Nat /\ Cardinality(Unfinished') <= Cardinality(Unfinished)
      <4>1. IsFiniteSet(Unfinished \ {t}) /\ Cardinality(Unfinished \ {t}) <= Cardinality(Unfinished)
        BY <3>2, FS_RemoveElement, FS_Subset
      <4> QED BY <3>1, <4>1, FS_CardinalityType
    <3>5. inflight = Cardinality(R) + Cardinality(Raised)
      BY <1>6, <2>1 DEF IInv, CountsRight, Working, R
    <3>6. inflight' = Cardinality(R') + Cardinality(Raised')
      BY <1>3, <2>1, <3>1, <3>2, <3>3, <3>5
    <3>7. backlog <= peak'
      BY <1>1, <1>7 DEF IInv, CountsRight
    <3>8. step \in {"draining", "sampling"} => Cardinality(Unfinished') <= backlog + 1
      BY <1>1, <2>1, <3>2, <3>4 DEF IInv, CountsRight
    <3>9. step' = step
      BY <1>2, <1>6, <2>1
    <3> QED BY <1>2, <1>7, <2>1, <3>6, <3>7, <3>8, <3>9 DEF CountsRight, R
  <2>2. CASE ~OpenLoop(mode)
    BY <1>1, <1>2, <1>3, <2>2 DEF IInv, CountsRight
  <2> QED BY <2>1, <2>2
<1>10. FiguresRight' /\ ResultsRight'
  <2>1. CASE mode = "latency"
    <3>1. step' = "crashed" /\ ~OpenLoop(mode)
      BY <1>2, <1>6, <2>1
    <3>2. t \in Raised'
      BY <1>2, <1>4, <1>5, <1>6 DEF Raised, InState, Window
    <3>3. FiguresRight'
      BY <1>2, <3>1 DEF IInv, FiguresRight, Working, Finished
    <3>4. ResultsRight'
      BY <1>2, <2>1, <3>1, <3>2
         DEF ResultsRight, RequestsAccounted, PercentilesOrdered, PlanSuffices
    <3> QED BY <3>3, <3>4
  <2>2. CASE mode # "latency"
    BY <1>2, <1>6, <2>2, FiguresStay, WorkingResults DEF IInv, Working
  <2> QED BY <2>1, <2>2
<1> QED BY <1>7, <1>8, <1>9, <1>10 DEF IInv


(* What an answer does to the list of tasks: one is done, and in a closed  *)
(* loop another may take its place. *)
LEMMA AnswerTasks ==
    ASSUME IInv, NEW t \in DOMAIN task, Answer(t)
    PROVE  /\ task' \in Seq(Task) /\ task'[t].state = "done"
           /\ task'[t].level = task[t].level /\ task'[t].part = task[t].part
           /\ \A u \in DOMAIN task \ {t} : task'[u] = task[u]
           /\ \/ DOMAIN task' = DOMAIN task
              \/ \E n : /\ DOMAIN task' = DOMAIN task \cup {n} /\ n \notin DOMAIN task
                        /\ ~OpenLoop(mode) /\ step = "sending"
                        /\ task'[n] = New(level, part, "running")
<1>1. TypeOK /\ level \in 1..Len(Levels) /\ part \in {"warmup", "measure"}
  BY ModeFacts DEF IInv
<1>2. PICK time \in TimesOf(t) :
         task' = IF ~OpenLoop(mode) /\ MaySend
                 THEN Append(Ended(t, time), New(level, part, "running"))
                 ELSE Ended(t, time)
  BY DEF Answer
<1>3. time \in Times \cup {0}
  BY DEF TimesOf
<1> DEFINE s == Ended(t, time)
           x == New(level, part, "running")
<1>4. /\ s \in Seq(Task) /\ DOMAIN s = DOMAIN task
      /\ s[t].state = "done" /\ s[t].level = task[t].level /\ s[t].part = task[t].part
      /\ \A u \in DOMAIN task \ {t} : s[u] = task[u]
  BY <1>1, <1>3, EndedTask
<1>5. x \in Task
  BY <1>1, NewFields
<1>6. task' = s \/ (task' = Append(s, x) /\ ~OpenLoop(mode) /\ step = "sending")
  BY <1>2 DEF MaySend
<1> HIDE DEF s, x
<1>7. CASE task' = s
  BY <1>4, <1>7
<1>8. CASE task' = Append(s, x) /\ ~OpenLoop(mode) /\ step = "sending"
  <2>1. PICK n : /\ task' \in Seq(Task) /\ DOMAIN task' = DOMAIN s \cup {n}
                 /\ n \notin DOMAIN s /\ task'[n] = x
                 /\ \A u \in DOMAIN s : task'[u] = s[u]
    BY <1>4, <1>5, <1>8, AppendedTask
  <2> QED BY <1>4, <1>8, <2>1 DEF x
<1> QED BY <1>6, <1>7, <1>8

LEMMA AnswerInv ==
    ASSUME IInv, Live, NEW t \in DOMAIN task, Answer(t)
    PROVE  IInv'
<1>1. /\ TypeOK /\ inflight \in Nat /\ peak \in Nat /\ backlog \in Nat
      /\ level \in 1..Len(Levels) /\ part \in {"warmup", "measure"}
  BY ModeFacts DEF IInv
<1>2. /\ task[t].state = "running"
      /\ UNCHANGED <<mode, level, part, step, peak, backlog, figures, plan>>
      /\ inflight' = IF OpenLoop(mode) /\ t \in Window THEN inflight - 1 ELSE inflight
  BY DEF Answer, CountsOut, where, outcome
<1>3. /\ task[t].level = level /\ step \in Working
      /\ ~OpenLoop(mode) => task[t].part = part /\ step \in {"sending", "draining"}
      /\ part = "warmup" => task[t].part = "warmup"
  <2>1. Placed(task[t])
    BY DEF IInv, TasksPlaced
  <2>2. step \in Working
    BY <1>1, <1>2, <2>1 DEF Placed, Live, Working, Finished, TypeOK
  <2> QED BY <1>2, <2>1, <2>2 DEF Placed, Live
<1>4. /\ task' \in Seq(Task) /\ task'[t].state = "done"
      /\ task'[t].level = task[t].level /\ task'[t].part = task[t].part
      /\ \A u \in DOMAIN task \ {t} : task'[u] = task[u]
  BY AnswerTasks
<1>5. CASE DOMAIN task' = DOMAIN task
  <2> DEFINE R == InState(Window, "running")
  <2>1. /\ R' = R \ {t} /\ (t \in R <=> t \in Window) /\ Unfinished' = Unfinished \ {t}
        /\ R \subseteq DOMAIN task /\ Unfinished \subseteq DOMAIN task
    BY <1>2, <1>4, <1>5 DEF InState, Window, Unfinished
  <2>6. Raised' = Raised /\ Raised \subseteq DOMAIN task
    BY <1>2, <1>4, <1>5 DEF InState, Window, Raised
  <2> HIDE DEF R
  <2>7. Cardinality(Raised) \in Nat
    BY <1>1, <2>6, TaskSets
  <2>2. /\ Cardinality(R) \in Nat /\ Cardinality(Unfinished) \in Nat
        /\ Cardinality(R') = IF t \in R THEN Cardinality(R) - 1 ELSE Cardinality(R)
        /\ Cardinality(R') \in Nat
        /\ Cardinality(Unfinished') \in Nat
        /\ Cardinality(Unfinished') <= Cardinality(Unfinished)
    <3>1. IsFiniteSet(R) /\ IsFiniteSet(Unfinished)
      BY <1>1, <2>1, TaskSets
    <3>2. IsFiniteSet(R \ {t}) /\ IsFiniteSet(Unfinished \ {t})
      BY <3>1, FS_RemoveElement
    <3>3. Cardinality(Unfinished \ {t}) <= Cardinality(Unfinished)
      BY <3>1, FS_Subset
    <3> QED BY <2>1, <3>1, <3>2, <3>3, FS_RemoveElement, FS_CardinalityType
  <2>3. CountsRight' /\ inflight' \in Nat
    <3>1. CASE OpenLoop(mode)
      <4>1. inflight = Cardinality(R) + Cardinality(Raised)
        BY <1>3, <3>1 DEF IInv, CountsRight, R
      <4>2. /\ inflight' = Cardinality(R') + Cardinality(Raised')
            /\ inflight' <= inflight /\ inflight' \in Nat
        BY <1>1, <1>2, <2>1, <2>2, <2>6, <2>7, <3>1, <4>1
      <4>3. inflight' <= peak'
        BY <1>1, <1>2, <4>2 DEF IInv, CountsRight
      <4>4. step \in {"draining", "sampling"} => Cardinality(Unfinished') <= backlog + 1
        BY <1>1, <2>2, <3>1 DEF IInv, CountsRight
      <4> QED BY <1>2, <3>1, <4>2, <4>3, <4>4 DEF IInv, CountsRight, R
    <3>2. CASE ~OpenLoop(mode)
      BY <1>1, <1>2, <3>2 DEF IInv, CountsRight
    <3> QED BY <3>1, <3>2
  <2>4. TypeOK'
    BY <1>1, <1>2, <1>4, <2>3 DEF TypeOK
  <2>5. TasksPlaced' /\ OneCreated'
    <3>1. \A u \in DOMAIN task : Placed(task[u])
      BY DEF IInv, TasksPlaced
    <3>2. \A u \in DOMAIN task \ {t} : Placed(task[u])'
      BY <1>2, <1>4, <3>1 DEF Placed
    <3>3. Placed(task[t])'
      BY <1>2, <1>4, <3>1 DEF Placed
    <3>4. OneCreated'
      BY <1>4, <1>5 DEF IInv, OneCreated
    <3> QED BY <1>5, <3>2, <3>3, <3>4 DEF TasksPlaced
  <2> QED BY <1>2, <1>3, <2>3, <2>4, <2>5, FiguresStay, WorkingResults DEF IInv
<1>6. ASSUME NEW n, DOMAIN task' = DOMAIN task \cup {n}, n \notin DOMAIN task,
             ~OpenLoop(mode), step = "sending", task'[n] = New(level, part, "running")
      PROVE  IInv'
  <2>1. CountsRight' /\ TypeOK'
    BY <1>1, <1>2, <1>4, <1>6 DEF IInv, CountsRight, TypeOK
  <2>2. TasksPlaced' /\ OneCreated'
    <3>1. \A u \in DOMAIN task : Placed(task[u])
      BY DEF IInv, TasksPlaced
    <3>2. \A u \in DOMAIN task \ {t} : Placed(task[u])'
      BY <1>2, <1>4, <3>1 DEF Placed
    <3>3. Placed(task[t])'
      BY <1>2, <1>4, <3>1 DEF Placed
    <3>4. /\ task'[n].level = level /\ task'[n].part = part /\ task'[n].state = "running"
          /\ level <= level
      BY <1>1, <1>6, NewFields
    <3>5. Placed(task[n])'
      BY <1>2, <1>6, <3>4 DEF Placed, Finished
    <3>6. OneCreated'
      BY <1>4, <1>6, <3>4 DEF IInv, OneCreated
    <3> QED BY <1>6, <3>2, <3>3, <3>5, <3>6 DEF TasksPlaced
  <2> QED BY <1>2, <1>3, <2>1, <2>2, FiguresStay, WorkingResults DEF IInv
<1> QED BY <1>5, <1>6, AnswerTasks

(* The sets of tasks of a window, in a step that changes neither. *)
LEMMA SameTasks ==
    ASSUME UNCHANGED <<level, part, task>>
    PROVE  /\ Window' = Window /\ Unfinished' = Unfinished /\ Good' = Good /\ Bad' = Bad
           /\ Raised' = Raised
           /\ \A s : InState(Window, s)' = InState(Window, s)
BY DEF Window, Unfinished, Good, Bad, Raised, InState

LEMMA WindowOverInv ==
    ASSUME IInv, WindowOver
    PROVE  IInv'
<1>1. /\ TypeOK /\ inflight \in Nat /\ peak \in Nat
  BY ModeFacts DEF IInv
<1>2. /\ step = "sending" /\ step' = "draining" /\ backlog' = inflight
      /\ UNCHANGED <<mode, level, part, task, inflight, peak, figures, plan>>
  BY DEF WindowOver, where, outcome
<1>3. TypeOK'
  BY <1>1, <1>2 DEF TypeOK
<1>4. TasksPlaced' /\ OneCreated'
  BY <1>2 DEF IInv, TasksPlaced, OneCreated, Placed, Finished, Working
<1>5. CountsRight'
  <2> DEFINE R == InState(Window, "running")
             C == InState(Window, "created")
  <2>1. R \subseteq DOMAIN task /\ Unfinished = C \cup R
    BY DEF InState, Window, Unfinished
  <2>2. C = {} \/ \E c : C = {c}
    BY DEF IInv, OneCreated, InState, Window
  <2> HIDE DEF R, C
  <2>3. IsFiniteSet(R) /\ Cardinality(R) \in Nat
    BY <1>1, <2>1, TaskSets
  <2>4. Cardinality(Unfinished) <= Cardinality(R) + 1
    <3>1. CASE C = {}
      <4>1. Unfinished = R
        BY <2>1, <3>1
      <4> QED BY <2>3, <4>1
    <3>2. ASSUME NEW c, C = {c} PROVE Cardinality(Unfinished) <= Cardinality(R) + 1
      <4>1. Unfinished = R \cup {c}
        BY <2>1, <3>2
      <4> QED BY <2>3, <4>1, FS_AddElement
    <3> QED BY <2>2, <3>1, <3>2
  <2>5. OpenLoop(mode) => inflight = Cardinality(R) + Cardinality(Raised)
    BY <1>2 DEF IInv, CountsRight, Working, R
  <2>6. /\ Unfinished' = Unfinished /\ InState(Window, "running")' = InState(Window, "running")
        /\ Raised' = Raised
    BY <1>2, SameTasks
  <2>7. Cardinality(Raised) \in Nat /\ Cardinality(Unfinished) \in Nat
    <3>1. Raised \subseteq DOMAIN task /\ Unfinished \subseteq DOMAIN task
      BY DEF Raised, Unfinished, InState, Window
    <3> QED BY <1>1, <3>1, TaskSets
  <2>8. OpenLoop(mode) => Cardinality(Unfinished) <= inflight + 1
    BY <2>3, <2>4, <2>5, <2>7
  <2> QED BY <1>2, <2>5, <2>6, <2>8 DEF IInv, CountsRight, R
<1>6. FiguresRight' /\ ResultsRight'
  BY <1>2, FiguresStay, WorkingResults DEF IInv, Working
<1> QED BY <1>3, <1>4, <1>5, <1>6 DEF IInv

LEMMA DrainedInv ==
    ASSUME IInv, Drained
    PROVE  IInv'
<1>1. TypeOK
  BY DEF IInv
<1>2. /\ step = "draining"
      /\ step' = IF OpenLoop(mode) /\ Window = {} THEN "crashed" ELSE "sampling"
      /\ IF OpenLoop(mode) THEN InState(Window, "created") = {} ELSE Unfinished = {}
      /\ UNCHANGED <<mode, level, part, task, inflight, peak, backlog, figures, plan>>
  BY DEF Drained, where, outcome, counts
<1>3. TypeOK'
  BY <1>1, <1>2 DEF TypeOK
<1>4. TasksPlaced' /\ OneCreated'
  <2>1. ASSUME NEW t \in DOMAIN task
        PROVE  /\ Placed(task[t]) /\ task[t].state # "created"
               /\ ~OpenLoop(mode) => task[t].state # "running"
    <3>1. Placed(task[t])
      BY DEF IInv, TasksPlaced
    <3> QED BY <1>2, <3>1 DEF Placed, InState, Window, Unfinished
  <2>2. step' \notin Finished /\ step' # "sending"
    BY <1>2 DEF Finished
  <2>3. ASSUME NEW t \in DOMAIN task PROVE Placed(task[t])'
    BY <1>2, <2>1, <2>2 DEF Placed, Working
  <2> QED BY <1>2, <2>3 DEF TasksPlaced, OneCreated, IInv
<1>5. CountsRight'
  BY <1>2, SameTasks DEF IInv, CountsRight, Working
<1>6. FiguresRight'
  BY <1>2 DEF IInv, FiguresRight, Working, Finished
<1>7. ResultsRight'
  <2>1. CASE step' = "sampling"
    BY <2>1, WorkingResults DEF Working
  <2>2. CASE step' = "crashed"
    <3>1. OpenLoop(mode)' /\ Window' = {}
      BY <1>2, <2>2, SameTasks
    <3> QED BY <2>2, <3>1 DEF ResultsRight, RequestsAccounted, PercentilesOrdered, PlanSuffices
  <2> QED BY <1>2, <2>1, <2>2
<1> QED BY <1>3, <1>4, <1>5, <1>6, <1>7 DEF IInv


(* A window opens on what the windows before it left: nothing that has not *)
(* begun, and nothing running but the warm-up of the same open window.     *)
LEMMA OpensInv ==
    ASSUME IInv, NEW l \in 1..Len(Levels), NEW p \in {"warmup", "measure"}, Opens(l, p),
           l <= LastLevel(mode), Len(figures) = l - 1, step # "crashed",
           \A t \in DOMAIN task :
              /\ task[t].level <= l /\ task[t].state # "created"
              /\ task[t].state = "running" =>
                    OpenLoop(mode) /\ task[t].level = l /\ task[t].part = "warmup"
                                   /\ p = "measure"
              /\ task[t].state = "cut" => task[t].level # l
    PROVE  IInv'
<1> DEFINE s == [t \in DOMAIN task |-> Forgotten(task[t])]
           n == AtOnce(mode, l, p)
           x == New(l, p, "running")
           k == Len(task)
<1>1. /\ level' = l /\ part' = p /\ step' = "sending" /\ task' = s \o Started(mode, l, p)
      /\ inflight' = 0 /\ peak' = 0 /\ backlog' = 0
      /\ UNCHANGED <<mode, figures, plan>>
  BY DEF Opens, outcome
<1>2. /\ TypeOK /\ DOMAIN task = 1..k /\ k \in Nat
      /\ \A t \in DOMAIN task : task[t] \in Task
  BY TaskFacts DEF IInv
<1>3. /\ s \in Seq(Task) /\ Len(s) = k
      /\ \A t \in DOMAIN task :
            /\ s[t].level = task[t].level /\ s[t].part = task[t].part
            /\ s[t].state = IF task[t].state = "raised" THEN "done" ELSE task[t].state
  <2>1. ASSUME NEW t \in DOMAIN task
        PROVE  /\ Forgotten(task[t]) \in Task
               /\ Forgotten(task[t]).level = task[t].level
               /\ Forgotten(task[t]).part = task[t].part
               /\ Forgotten(task[t]).state
                    = IF task[t].state = "raised" THEN "done" ELSE task[t].state
    BY <1>2 DEF Task, Forgotten
  <2>2. s \in [1..k -> Task]
    BY <1>2, <2>1
  <2>3. s \in Seq(Task) /\ Len(s) = k
    <3> HIDE DEF s, k
    <3> QED BY <1>2, <2>2, SeqDef
  <2> QED BY <2>1, <2>3
<1>4. /\ Started(mode, l, p) \in Seq(Task) /\ Len(Started(mode, l, p)) = n /\ n \in Nat
      /\ \A t \in 1..n : Started(mode, l, p)[t] = x /\ ~OpenLoop(mode)
  BY <1>2, AtOnceType, StartedTasks
<1>5. x.level = l /\ x.part = p /\ x.state = "running"
  BY NewFields
<1> HIDE DEF s, n, x, k
<1>6. /\ task' \in Seq(Task) /\ DOMAIN task' = 1..(k + n)
      /\ \A t \in 1..(k + n) :
            \/ t \in DOMAIN task /\ task'[t] = s[t]
            \/ task'[t] = x /\ ~OpenLoop(mode)
  <2> DEFINE c == s \o Started(mode, l, p)
  <2>1. /\ c \in Seq(Task) /\ Len(c) = k + n
        /\ \A t \in 1..(k + n) : c[t] = IF t <= k THEN s[t] ELSE Started(mode, l, p)[t - k]
    BY <1>3, <1>4, ConcatProperties
  <2>2. DOMAIN c = 1..(k + n)
    <3> HIDE DEF c
    <3> QED BY <2>1, LenProperties
  <2>3. ASSUME NEW t \in 1..(k + n)
        PROVE  \/ t \in DOMAIN task /\ c[t] = s[t]
               \/ c[t] = x /\ ~OpenLoop(mode)
    <3>1. CASE t <= k
      BY <1>2, <2>1, <3>1
    <3>2. CASE ~(t <= k)
      <4>1. t - k \in 1..n
        BY <1>2, <1>4, <3>2
      <4> QED BY <1>4, <2>1, <3>2, <4>1
    <3> QED BY <3>1, <3>2
  <2> HIDE DEF c
  <2> QED BY <1>1, <2>1, <2>2, <2>3 DEF c
<1>7. TypeOK'
  BY <1>1, <1>2, <1>6 DEF TypeOK
<1>8. ASSUME NEW t \in DOMAIN task'
      PROVE  /\ task'[t].level <= l /\ task'[t].state \notin {"created", "raised"}
             /\ task'[t].state = "running" =>
                   /\ task'[t].level = l
                   /\ IF OpenLoop(mode) THEN p = "measure" /\ task'[t].part = "warmup"
                                        ELSE task'[t].part = p
             /\ task'[t].state = "cut" => task'[t].level # l
  <2>1. CASE t \in DOMAIN task /\ task'[t] = s[t]
    BY <1>3, <2>1
  <2>2. CASE task'[t] = x /\ ~OpenLoop(mode)
    BY <1>5, <2>2
  <2> QED BY <1>6, <1>8, <2>1, <2>2
<1>9. TasksPlaced' /\ OneCreated'
  BY <1>1, <1>8 DEF TasksPlaced, OneCreated, Placed, Finished
<1>10. CountsRight'
  <2>1. ASSUME OpenLoop(mode) PROVE InState(Window, "running")' = {} /\ Raised' = {}
    BY <1>1, <1>8, <2>1 DEF InState, Window, Raised
  <2>2. OpenLoop(mode) =>
           Cardinality(InState(Window, "running"))' = 0 /\ Cardinality(Raised)' = 0
    BY <2>1, FS_EmptySet
  <2>3. OpenLoop(mode)' <=> OpenLoop(mode)
    BY <1>1
  <2>4. step' \notin {"draining", "sampling"} /\ inflight' <= peak' /\ backlog' <= peak'
    BY <1>1
  <2> QED BY <1>1, <2>2, <2>3, <2>4 DEF CountsRight
<1>11. FiguresRight'
  BY <1>1 DEF IInv, FiguresRight, Finished
<1>12. ResultsRight'
  BY <1>1, WorkingResults DEF Working
<1> QED BY <1>7, <1>9, <1>10, <1>11, <1>12 DEF IInv

LEMMA WarmedUpInv ==
    ASSUME IInv, WarmedUp
    PROVE  IInv'
<1>1. /\ step = "sampling" /\ part = "warmup" /\ Opens(level, "measure")
      /\ level \in 1..Len(Levels)
  BY ModeFacts DEF WarmedUp, IInv
<1>2. /\ level <= LastLevel(mode) /\ Len(figures) = level - 1
  BY <1>1 DEF IInv, FiguresRight, Working
<1>3. ASSUME NEW t \in DOMAIN task
      PROVE  /\ task[t].level <= level /\ task[t].state # "created"
             /\ task[t].state = "running" =>
                   OpenLoop(mode) /\ task[t].level = level /\ task[t].part = "warmup"
             /\ task[t].state = "cut" => task[t].level # level
  <2>1. Placed(task[t])
    BY DEF IInv, TasksPlaced
  <2> QED BY <1>1, <2>1 DEF Placed, Working
<1> QED BY <1>1, <1>2, <1>3, OpensInv

LEMMA NextLevelInv ==
    ASSUME IInv, NextLevel
    PROVE  IInv'
<1>1. /\ step = "collected" /\ level < LastLevel(mode) /\ Opens(level + 1, "warmup")
      /\ level \in 1..Len(Levels) /\ LastLevel(mode) \in 1..Len(Levels)
  BY ModeFacts DEF NextLevel, IInv
<1>2. /\ level + 1 \in 1..Len(Levels) /\ level + 1 <= LastLevel(mode)
      /\ Len(figures) = (level + 1) - 1
  BY <1>1 DEF IInv, FiguresRight, Finished
<1>3. ASSUME NEW t \in DOMAIN task
      PROVE  /\ task[t].level <= level + 1 /\ task[t].state # "created"
             /\ task[t].state # "running" /\ task[t].level # level + 1
  <2>1. Placed(task[t]) /\ task[t].level \in Nat
    BY TaskFacts DEF IInv, TasksPlaced
  <2> QED BY <1>1, <2>1 DEF Placed, Finished
<1> QED BY <1>1, <1>2, <1>3, OpensInv


(* What leaving the session does to the tasks. *)
LEMMA CutTasks ==
    ASSUME TypeOK
    PROVE  /\ Cut \in Seq(Task) /\ DOMAIN Cut = DOMAIN task
           /\ \A t \in DOMAIN task :
                 /\ Cut[t].level = task[t].level /\ Cut[t].part = task[t].part
                 /\ Cut[t].time = task[t].time
                 /\ Cut[t].state = IF task[t].state \in {"created", "running"}
                                   THEN "cut" ELSE task[t].state
<1> DEFINE x(t) == IF task[t].state \in {"created", "running"}
                   THEN [task[t] EXCEPT !.state = "cut"] ELSE task[t]
           k == Len(task)
<1>1. /\ DOMAIN task = 1..k /\ k \in Nat
      /\ \A t \in DOMAIN task : task[t] \in Task
  BY TaskFacts
<1>2. ASSUME NEW t \in DOMAIN task
      PROVE  /\ x(t) \in Task /\ x(t).level = task[t].level /\ x(t).part = task[t].part
             /\ x(t).time = task[t].time
             /\ x(t).state = IF task[t].state \in {"created", "running"}
                             THEN "cut" ELSE task[t].state
  BY <1>1 DEF Task
<1>3. Cut = [t \in DOMAIN task |-> x(t)]
  BY DEF Cut
<1> HIDE DEF x, k
<1>4. Cut \in [1..k -> Task]
  BY <1>1, <1>2, <1>3
<1> QED BY <1>1, <1>2, <1>3, <1>4, SeqDef

LEMMA FiguresType ==
    ASSUME TypeOK
    PROVE  /\ FiguresNow \in Figures
           /\ FiguresNow.ok = Cardinality(Good) /\ FiguresNow.failed = Cardinality(Bad)
           /\ FiguresNow.sent = Cardinality(Sent)
<1>1. /\ Cardinality(Sent) \in Nat /\ Cardinality(Good) \in Nat /\ Cardinality(Bad) \in Nat
      /\ peak \in Nat /\ backlog \in Nat
  <2>1. Sent \subseteq DOMAIN task
    BY DEF Sent, Window
  <2> QED BY <2>1, GoodAndBad, TaskSets, ModeFacts
<1>2. FiguresNow.p50 \in Nat /\ FiguresNow.p99 \in Nat
  <2>1. CASE Good = {}
    BY <2>1 DEF FiguresNow
  <2> QED BY <2>1, PercentilesRight
<1> DEFINE p == IF Good = {} THEN 0 ELSE Percentile(GoodTimes, 50)
           q == IF Good = {} THEN 0 ELSE Percentile(GoodTimes, 99)
<1>3. FiguresNow = [sent |-> Cardinality(Sent), ok |-> Cardinality(Good),
                    failed |-> Cardinality(Bad), backlog |-> backlog, peak |-> peak,
                    p50 |-> p, p99 |-> q]
  BY DEF FiguresNow
<1> HIDE DEF p, q
<1>4. p \in Nat /\ q \in Nat
  BY <1>2, <1>3
<1> QED BY <1>1, <1>3, <1>4 DEF Figures

LEMMA CollectInv ==
    ASSUME IInv, Collect
    PROVE  IInv'
<1>1. /\ step = "sampling" /\ figures' = Append(figures, FiguresNow) /\ task' = Cut
      /\ step' = IF PrintFails THEN "crashed" ELSE "collected"
      /\ UNCHANGED <<mode, level, part, inflight, peak, backlog, plan>>
  BY DEF Collect, where, counts
<1>2. TypeOK /\ level \in Nat
  BY ModeFacts DEF IInv
<1>3. /\ task' \in Seq(Task) /\ DOMAIN task' = DOMAIN task
      /\ \A t \in DOMAIN task :
            /\ task'[t].level = task[t].level /\ task'[t].part = task[t].part
            /\ task'[t].time = task[t].time
            /\ task'[t].state = IF task[t].state \in {"created", "running"}
                                THEN "cut" ELSE task[t].state
  BY <1>1, <1>2, CutTasks
<1>4. /\ figures \in Seq(Figures) /\ FiguresNow \in Figures
      /\ figures' \in Seq(Figures) /\ Len(figures) = level - 1 /\ Len(figures') = level
      /\ figures'[level] = FiguresNow
      /\ \A l \in DOMAIN figures' : l = level \/ (l \in DOMAIN figures /\ figures'[l] = figures[l])
  <2>1. figures \in Seq(Figures) /\ FiguresNow \in Figures /\ Len(figures) = level - 1
    BY <1>1, <1>2, FiguresType DEF IInv, TypeOK, FiguresRight, Working
  <2>2. /\ figures' \in Seq(Figures) /\ Len(figures') = level /\ figures'[level] = FiguresNow
        /\ \A i \in 1..Len(figures) : figures'[i] = figures[i]
    BY <1>1, <1>2, <2>1, AppendProperties
  <2>3. DOMAIN figures = 1..(level - 1) /\ DOMAIN figures' = 1..level
    BY <2>1, <2>2, LenProperties
  <2> QED BY <1>2, <2>1, <2>2, <2>3
<1>5. \A t \in DOMAIN task : Placed(task[t])
  BY DEF IInv, TasksPlaced
<1>6. step' \in {"crashed", "collected"} /\ step' \notin Working
      /\ step' \notin {"written", "planned"}
  BY <1>1 DEF Working
<1>7. TypeOK'
  <2>1. step' \in {"sending", "draining", "sampling", "collected", "written", "planned", "crashed"}
    BY <1>6
  <2> QED BY <1>1, <1>2, <1>3, <1>4, <2>1 DEF TypeOK
<1>8. TasksPlaced' /\ OneCreated'
  <2>1. ASSUME NEW t \in DOMAIN task
        PROVE  task'[t].state \notin {"created", "running"} /\ task'[t].level <= level
    BY <1>3, <1>5, <2>1 DEF Placed
  <2> QED BY <1>1, <1>3, <1>6, <2>1 DEF TasksPlaced, OneCreated, Placed
<1>9. CountsRight'
  BY <1>1, <1>6 DEF IInv, CountsRight
<1>10. /\ Window' = Window /\ Good' = Good /\ Bad' = Bad /\ Raised' = Raised
       /\ InState(Window, "cut")' = Unfinished
       /\ {task'[t].time : t \in Good} = {task[t].time : t \in Good}
  <2>1. Window' = Window
    BY <1>1, <1>3 DEF Window
  <2>2. Good' = Good /\ Bad' = Bad /\ Raised' = Raised
    BY <1>3, <2>1 DEF Good, Bad, Raised, InState, Window
  <2>3. \A t \in Window : task[t].state # "cut"
    BY <1>1, <1>5 DEF Placed, Window, Working
  <2>4. InState(Window, "cut")' = Unfinished
    BY <1>3, <2>1, <2>3 DEF InState, Unfinished, Window
  <2>5. Good \subseteq DOMAIN task
    BY <1>2, GoodAndBad
  <2> QED BY <1>3, <2>1, <2>2, <2>4, <2>5
<1>11. Cardinality(Sent) = Cardinality(Good) + Cardinality(Bad) + Cardinality(Unfinished)
                           + IF OpenLoop(mode) THEN Cardinality(Raised) ELSE 0
  <2> DEFINE Ends == (Good \cup Bad) \cup Unfinished
  <2>1. Window = Ends \cup Raised /\ Ends \cap Raised = {}
    <3>1. \A t \in Window : task[t].state \in {"created", "running", "done", "raised"}
      BY <1>1, <1>2, <1>5, TaskFacts DEF Placed, Window, Working
    <3>2. Window = (InState(Window, "done") \cup Unfinished) \cup Raised
      BY <3>1 DEF InState, Unfinished, Raised
    <3>3. Ends \cap Raised = {}
      BY DEF Good, Bad, InState, Unfinished, Raised
    <3> QED BY <1>2, <3>2, <3>3, GoodAndBad
  <2>2. Good \cap Bad = {} /\ (Good \cup Bad) \cap Unfinished = {}
    BY <1>2, GoodAndBad DEF Good, Bad, InState, Unfinished
  <2>3. /\ IsFiniteSet(Good) /\ IsFiniteSet(Bad) /\ IsFiniteSet(Unfinished)
        /\ IsFiniteSet(Raised)
        /\ Cardinality(Good) \in Nat /\ Cardinality(Bad) \in Nat
        /\ Cardinality(Unfinished) \in Nat /\ Cardinality(Raised) \in Nat
    <3>1. Unfinished \subseteq DOMAIN task /\ Raised \subseteq DOMAIN task
      BY DEF Unfinished, Raised, InState, Window
    <3> QED BY <1>2, <3>1, GoodAndBad, TaskSets
  <2>4. /\ IsFiniteSet(Good \cup Bad)
        /\ Cardinality(Good \cup Bad) = Cardinality(Good) + Cardinality(Bad) - Cardinality({})
    BY <2>2, <2>3, FS_Union
  <2>5. /\ IsFiniteSet(Ends)
        /\ Cardinality(Ends)
            = Cardinality(Good \cup Bad) + Cardinality(Unfinished) - Cardinality({})
    BY <2>2, <2>3, <2>4, FS_Union
  <2>6. Cardinality(Ends) = Cardinality(Good) + Cardinality(Bad) + Cardinality(Unfinished)
    BY <2>3, <2>4, <2>5, FS_EmptySet
  <2> HIDE DEF Ends
  <2>7. CASE OpenLoop(mode)
    <3>1. Cardinality(Sent) = Cardinality(Ends) + Cardinality(Raised) - Cardinality({})
      BY <2>1, <2>3, <2>5, <2>7, FS_Union DEF Sent
    <3> QED BY <2>3, <2>6, <2>7, <3>1, FS_EmptySet
  <2>8. CASE ~OpenLoop(mode)
    <3>1. Sent = Ends
      BY <2>1, <2>8 DEF Sent
    <3> QED BY <2>3, <2>6, <2>8, <3>1
  <2> QED BY <2>7, <2>8
<1>12. Cardinality(Good) \in Nat /\ (Good # {} => Cardinality(Good) > 0)
  BY <1>2, GoodAndBad, TaskSets, FS_EmptySet
<1>13. FiguresRight'
  <2>1. ASSUME ~OpenLoop(mode), step' # "crashed", NEW l \in DOMAIN figures'
        PROVE  figures'[l].ok > 0
    <3>1. Good # {}
      BY <1>1, <2>1 DEF PrintFails
    <3>2. FiguresNow.ok > 0
      BY <1>2, <1>12, <3>1, FiguresType
    <3>3. \A i \in DOMAIN figures : figures[i].ok > 0
      BY <1>1, <2>1 DEF IInv, FiguresRight
    <3> QED BY <1>4, <2>1, <3>2, <3>3
  <2> QED BY <1>1, <1>4, <1>6, <2>1 DEF IInv, FiguresRight
<1>14. ResultsRight'
  <2>1. RequestsAccounted'
    <3>1. ASSUME step' = "collected"
          PROVE  /\ Unfinished # {} => OpenLoop(mode)
      BY <1>1, <1>5 DEF Placed, Unfinished, InState, Window
    <3>2. figures'[Len(figures')] = FiguresNow
      BY <1>4
    <3>3. ~OpenLoop(mode) => Cardinality(Unfinished) = 0 \/ step' # "collected"
      BY <3>1, FS_EmptySet
    <3>4. /\ Cardinality(Good) \in Nat /\ Cardinality(Bad) \in Nat
          /\ Cardinality(Unfinished) \in Nat /\ Cardinality(Raised) \in Nat
      <4>1. Unfinished \subseteq DOMAIN task /\ Raised \subseteq DOMAIN task
        BY DEF Unfinished, Raised, InState, Window
      <4> QED BY <1>2, <4>1, GoodAndBad, TaskSets
    <3>5. step' = "collected" =>
             FiguresNow.sent = Cardinality(Good) + Cardinality(Bad)
                + IF OpenLoop(mode) THEN Cardinality(Unfinished) + Cardinality(Raised) ELSE 0
      BY <1>2, <1>11, <3>3, <3>4, FiguresType
    <3> QED BY <1>1, <1>2, <1>10, <3>1, <3>2, <3>5, FiguresType DEF RequestsAccounted
  <2>2. PercentilesOrdered'
    <3>1. figures'[Len(figures')] = FiguresNow
      BY <1>4
    <3> QED BY <1>2, <1>10, <3>1, PercentilesRight DEF PercentilesOrdered
  <2>3. PlanSuffices'
    BY <1>6 DEF PlanSuffices
  <2>4. (step = "crashed" =>
            IF OpenLoop(mode) THEN Window = {}
            ELSE Good = {} \/ (mode = "latency" /\ Raised # {}))'
    BY <1>1, <1>10 DEF PrintFails
  <2> QED BY <2>1, <2>2, <2>3, <2>4 DEF ResultsRight
<1> QED BY <1>7, <1>8, <1>9, <1>13, <1>14 DEF IInv


LEMMA WriteResultsInv ==
    ASSUME IInv, WriteResults
    PROVE  IInv'
<1>1. /\ step = "collected" /\ step' = "written" /\ level = LastLevel(mode)
      /\ UNCHANGED <<mode, level, part, task, inflight, peak, backlog, figures, plan>>
  BY DEF WriteResults, where, counts, outcome
<1>2. TypeOK'
  BY <1>1 DEF IInv, TypeOK
<1>3. TasksPlaced' /\ OneCreated'
  BY <1>1 DEF IInv, TasksPlaced, OneCreated, Placed, Finished, Working
<1>4. CountsRight'
  BY <1>1, SameTasks DEF IInv, CountsRight, Working
<1>5. FiguresRight'
  BY <1>1 DEF IInv, FiguresRight, Finished, Working
<1>6. ResultsRight'
  BY <1>1 DEF ResultsRight, RequestsAccounted, PercentilesOrdered, PlanSuffices
<1> QED BY <1>2, <1>3, <1>4, <1>5, <1>6 DEF IInv

(* The figures of a plan. *)
LEMMA Sizing ==
    ASSUME NEW required \in Demands, NEW rate \in Rates,
           NEW replicas \in Replicas(required, rate, Costs.utilization, Costs.tp),
           NEW gpus, gpus = Costs.tp * replicas,
           NEW reserved \in ReservedGpus(gpus, Costs.coverage),
           NEW peakGpus \in PeakGpus(gpus, Costs.peakTenths),
           NEW burst, burst = BurstGpus(peakGpus, reserved)
    PROVE  /\ required \in Nat /\ rate \in Nat
           /\ gpus \in Nat /\ reserved \in Nat /\ burst \in Nat
           /\ Covers(rate * Costs.utilization * gpus, 100 * required)
           /\ rate * Costs.utilization * (gpus - 2 * Costs.tp) < 100 * required
           /\ Covers(10 * (reserved + burst), gpus * Costs.peakTenths)
<1>1. /\ required \in Nat /\ rate \in Nat \ {0} /\ Costs.utilization \in 1..100
      /\ Costs.tp \in Nat \ {0} /\ Costs.coverage \in Nat /\ Costs.peakTenths \in Nat
      /\ 100 * required <= Precision * rate * Costs.utilization * Costs.tp
  BY LoadAssumption, FleetAssumption
<1>2. /\ gpus \in Nat
      /\ Covers(rate * Costs.utilization * gpus, 100 * required)
      /\ rate * Costs.utilization * (gpus - 2 * Costs.tp) < 100 * required
  BY <1>1, FleetIsRight
<1>3. /\ reserved \in Nat /\ burst \in Nat
      /\ Covers(10 * (reserved + burst), gpus * Costs.peakTenths)
  BY <1>1, <1>2, PeakIsCovered
<1> QED BY <1>1, <1>2, <1>3

LEMMA PlanInv ==
    ASSUME IInv, Plan
    PROVE  IInv'
<1>1. /\ step = "written" /\ step' = "planned" /\ mode = "throughput"
      /\ UNCHANGED <<mode, level, part, task, inflight, peak, backlog, figures>>
  BY DEF Plan, where, counts
<1>2. PICK l \in ReliableLevels, rate \in Rates, required \in Demands :
         \E replicas \in Replicas(required, rate, Costs.utilization, Costs.tp) :
            \E reserved \in ReservedGpus(Costs.tp * replicas, Costs.coverage),
               peakGpus \in PeakGpus(Costs.tp * replicas, Costs.peakTenths) :
               plan' = [level |-> l, required |-> required, rate |-> rate,
                        gpus |-> Costs.tp * replicas, reserved |-> reserved,
                        burst |-> BurstGpus(peakGpus, reserved)]
  BY DEF Plan
<1> PICK replicas \in Replicas(required, rate, Costs.utilization, Costs.tp) :
         \E reserved \in ReservedGpus(Costs.tp * replicas, Costs.coverage),
            peakGpus \in PeakGpus(Costs.tp * replicas, Costs.peakTenths) :
            plan' = [level |-> l, required |-> required, rate |-> rate,
                     gpus |-> Costs.tp * replicas, reserved |-> reserved,
                     burst |-> BurstGpus(peakGpus, reserved)]
  BY <1>2
<1> DEFINE gpus == Costs.tp * replicas
<1>12. PICK reserved \in ReservedGpus(gpus, Costs.coverage),
           peakGpus \in PeakGpus(gpus, Costs.peakTenths) :
            plan' = [level |-> l, required |-> required, rate |-> rate,
                     gpus |-> gpus, reserved |-> reserved,
                     burst |-> BurstGpus(peakGpus, reserved)]
  OBVIOUS
<1> DEFINE burst == BurstGpus(peakGpus, reserved)
<1>3. /\ required \in Nat /\ rate \in Nat
      /\ gpus \in Nat /\ reserved \in Nat /\ burst \in Nat
      /\ Covers(rate * Costs.utilization * gpus, 100 * required)
      /\ rate * Costs.utilization * (gpus - 2 * Costs.tp) < 100 * required
      /\ Covers(10 * (reserved + burst), gpus * Costs.peakTenths)
  BY Sizing
<1>4. plan' = [level |-> l, required |-> required, rate |-> rate, gpus |-> gpus,
               reserved |-> reserved, burst |-> burst]
  BY <1>12
<1> HIDE DEF gpus, burst
<1>5. /\ plan'.level = l /\ plan'.required = required /\ plan'.rate = rate
      /\ plan'.gpus = gpus /\ plan'.reserved = reserved /\ plan'.burst = burst
  BY <1>4
<1>6. /\ l \in DOMAIN figures /\ l \in Nat /\ figures[l].ok > 0
  <2>1. l \in DOMAIN figures /\ ThroughputTable[l].n_failed = 0
    BY <1>2 DEF ReliableLevels, ThroughputTable
  <2>2. figures[l].ok > 0
    BY <1>1, <2>1 DEF IInv, FiguresRight, OpenLoop
  <2>3. l \in Nat
    BY <2>1, LenProperties DEF IInv, TypeOK
  <2> QED BY <2>1, <2>2, <2>3
<1>7. TypeOK'
  BY <1>1, <1>3, <1>4, <1>6 DEF IInv, TypeOK
<1>8. TasksPlaced' /\ OneCreated'
  BY <1>1 DEF IInv, TasksPlaced, OneCreated, Placed, Finished, Working
<1>9. CountsRight'
  BY <1>1, SameTasks DEF IInv, CountsRight, Working
<1>10. FiguresRight'
  BY <1>1 DEF IInv, FiguresRight, Finished, Working
<1>11. ResultsRight'
  <2>1. PlanSuffices'
    BY <1>1, <1>3, <1>5, <1>6 DEF PlanSuffices
  <2> QED BY <1>1, <2>1 DEF ResultsRight, RequestsAccounted, PercentilesOrdered
<1> QED BY <1>7, <1>8, <1>9, <1>10, <1>11 DEF IInv

LEMMA StepInv == IInv /\ [Next]_vars => IInv'
<1> SUFFICES ASSUME IInv, [Next]_vars PROVE IInv'
  OBVIOUS
<1>1. CASE Submit \/ WindowOver \/ Drained
  BY <1>1, SubmitInv, WindowOverInv, DrainedInv
<1>2. CASE WarmedUp \/ Collect \/ NextLevel
  BY <1>2, WarmedUpInv, CollectInv, NextLevelInv
<1>3. CASE WriteResults \/ Plan
  BY <1>3, WriteResultsInv, PlanInv
<1>4. ASSUME Live, NEW t \in DOMAIN task, StartTask(t) \/ PromptRaises(t) \/ Answer(t)
      PROVE  IInv'
  BY <1>4, StartTaskInv, PromptRaisesInv, AnswerInv
<1>5. CASE UNCHANGED vars
  <2>1. UNCHANGED <<mode, level, part, step, task, inflight, peak, backlog, figures, plan>>
    BY <1>5 DEF vars
  <2>2. TypeOK' /\ TasksPlaced' /\ OneCreated'
    BY <2>1 DEF IInv, TypeOK, TasksPlaced, OneCreated, Placed
  <2>3. CountsRight' /\ FiguresRight'
    BY <2>1, SameTasks DEF IInv, CountsRight, FiguresRight
  <2>4. ResultsRight'
    <3>1. RequestsAccounted' = RequestsAccounted
      BY <2>1, SameTasks DEF RequestsAccounted
    <3>2. PercentilesOrdered' = PercentilesOrdered
      BY <2>1, SameTasks DEF PercentilesOrdered
    <3>3. PlanSuffices' = PlanSuffices
      BY <2>1 DEF PlanSuffices
    <3>4. Window' = Window /\ Good' = Good /\ Raised' = Raised
      BY <2>1, SameTasks
    <3> QED BY <2>1, <3>1, <3>2, <3>3, <3>4 DEF IInv, ResultsRight
  <2> QED BY <2>2, <2>3, <2>4 DEF IInv
<1> QED BY <1>1, <1>2, <1>3, <1>4, <1>5 DEF Next

-----------------------------------------------------------------------------
(* The theorems. *)

(* IInv holds in every reachable state.                                    *)
THEOREM Invariance == Spec => []IInv
  BY InitInv, StepInv, PTL DEF Spec

(* The sweep, its tasks, counts, figures and plan have their types, for    *)
(* any modes, levels and quotas.                                           *)
THEOREM TypeCorrect == Spec => []TypeOK
<1>1. IInv => TypeOK
  BY DEF IInv
<1> QED BY <1>1, Invariance, PTL

(* The figures of a level add up, in all four kinds of sweep and for any   *)
(* number of requests (benchmark_client.py:347-349, 478-491).              *)
THEOREM RequestsAreAccounted == Spec => []RequestsAccounted
<1>1. IInv => RequestsAccounted
  BY DEF IInv, ResultsRight
<1> QED BY <1>1, Invariance, PTL

(* Nothing that runs belongs to an earlier level, nor, in a closed loop,   *)
(* to an earlier window (benchmark_client.py:304-310).                     *)
THEOREM LevelsAreSeparate == Spec => []LevelsSeparate
<1>1. IInv => LevelsSeparate
  BY DEF IInv, TasksPlaced, Placed, LevelsSeparate, Running, InState
<1> QED BY <1>1, Invariance, PTL

(* The in-flight figure of an open window counts its running requests and  *)
(* those that never had a prompt, its maximum bounds it, and the backlog   *)
(* misses one request at most                                              *)
(* (benchmark_client.py:393-400, 453, 461-478).                            *)
THEOREM InflightIsExact == Spec => []InflightExact
<1>1. IInv => InflightExact
  <2> SUFFICES ASSUME IInv, OpenLoop(mode), Live PROVE InflightExact
    BY DEF InflightExact
  <2>1. step # "collected" => step \in Working
    BY DEF Live, IInv, TypeOK, Working
  <2> QED BY <2>1 DEF IInv, CountsRight, InflightExact
<1> QED BY <1>1, Invariance, PTL

(* p50 and p99 are in order and between the times of the fastest and the   *)
(* slowest good request, for any number of requests and any times          *)
(* (benchmark_client.py:232-241).                                          *)
THEOREM PercentilesAreOrdered == Spec => []PercentilesOrdered
<1>1. IInv => PercentilesOrdered
  BY DEF IInv, ResultsRight
<1> QED BY <1>1, Invariance, PTL

(* A sweep crashes only on a level that has served nothing, an open window *)
(* without requests or, in a latency sweep, a prompt that cannot be built, *)
(* and a written file holds every level                                    *)
(* (benchmark_client.py:256-274, 288, 384, 478, 602-615).                  *)
THEOREM LossesAreEmpty == Spec => []LostOnlyIfNothingServed
<1>1. IInv => LostOnlyIfNothingServed
  BY DEF IInv, ResultsRight, FiguresRight, Finished, LostOnlyIfNothingServed
<1> QED BY <1>1, Invariance, PTL

(* The plan rests on a level that has served requests, provides the        *)
(* required rate, has one whole replica too many at most, and covers the   *)
(* peak, whatever rounding does in the division of floating-point numbers  *)
(* and for any measured rates, demands and cost assumptions                *)
(* (capacity_planner.py:42-57, 79-103).                                    *)
THEOREM PlanIsSufficient == Spec => []PlanSuffices
<1>1. IInv => PlanSuffices
  BY DEF IInv, ResultsRight
<1> QED BY <1>1, Invariance, PTL

=============================================================================
