-------------------------- MODULE BenchSuiteProofs --------------------------
(***************************************************************************)
(* Theorems about the microbenchmark suite, whatever the arguments, the    *)
(* durations, the noise threshold and the way the machine drifts.          *)
(*                                                                         *)
(* The statistics: the sorted sample has at a place the value that fewer   *)
(* than so many are less than and at least so many are up to.  The runner: *)
(* an arm's samples are the executions of its turns, one turn in each      *)
(* round, so on a machine that drifts one way the sorted samples of either *)
(* arm are its rounds in their order, or in the opposite one, and a        *)
(* percentile of either is an execution of one and the same round.  The    *)
(* suite: while put_run is timed, the byte counts its executions.          *)
(***************************************************************************)
EXTENDS BenchSuite, FiniteSetTheorems, SequenceTheorems, WellFoundedInduction, TLAPS

-----------------------------------------------------------------------------
(* Statistics.                                                               *)

\* A set of numbers has a least one.
LEMMA LeastNat ==
  ASSUME NEW T \in SUBSET Nat, T # {}
  PROVE  \E x \in T : \A y \in T : x <= y
<1>1. PICK x \in T : \A y \in T : ~(<<y, x>> \in OpToRel(<, Nat))
  BY NatLessThanWellFounded, WFMin
<1>2. \A y \in T : ~(y < x)
  BY <1>1 DEF OpToRel
<1> QED BY <1>2

\* A bounded one has a greatest.
LEMMA GreatestNat ==
  ASSUME NEW T \in SUBSET Nat, T # {}, NEW n \in Nat, \A x \in T : x <= n
  PROVE  \E x \in T : \A y \in T : y <= x
<1> DEFINE Bounds == {k \in Nat : \A x \in T : x <= k}
<1>1. PICK k \in Bounds : \A j \in Bounds : k <= j
  BY LeastNat
<1>2. ASSUME k \notin T PROVE FALSE
  <2>1. PICK y \in T : TRUE
    OBVIOUS
  <2>2. k # 0
    BY <1>2, <2>1
  <2>3. k - 1 \in Bounds
    BY <1>2, <2>2
  <2> QED BY <1>1, <2>3
<1> QED BY <1>1, <1>2

\* Positions among the first n: so many, and no more than in a larger set of them.
LEMMA Positions ==
  ASSUME NEW n \in Nat, NEW P, P \subseteq 1..n, NEW Q, Q \subseteq P
  PROVE  /\ Cardinality(P) \in Nat /\ Cardinality(Q) \in Nat
         /\ Cardinality(Q) <= Cardinality(P) /\ Cardinality(P) <= n
         /\ Cardinality(Q) = Cardinality(P) => Q = P
<1>1. IsFiniteSet(1..n) /\ Cardinality(1..n) = n
  <2>1. IsFiniteSet(1..n) /\ Cardinality(1..n) = IF 1 > n THEN 0 ELSE n - 1 + 1
    BY FS_Interval
  <2> QED BY <2>1
<1>2. IsFiniteSet(P) /\ Cardinality(P) <= Cardinality(1..n)
  BY <1>1, FS_Subset
<1>3. /\ IsFiniteSet(Q) /\ Cardinality(Q) <= Cardinality(P)
      /\ Cardinality(P) = Cardinality(Q) => P = Q
  BY <1>2, FS_Subset
<1> QED BY <1>1, <1>2, <1>3, FS_CardinalityType

\* The durations of a sample.
Values(s) == {s[i] : i \in DOMAIN s}

\* What is up to a value, and what is less than it, are so many of the sample.
LEMMA Counts ==
  ASSUME NEW s \in Seq(Nat), NEW v \in Nat
  PROVE  /\ UpTo(s, v) \in Nat /\ UpTo(s, v) <= Len(s) /\ Less(s, v) \in Nat
         /\ \A w \in Nat : w < v => UpTo(s, w) <= Less(s, v)
         /\ Values(s) \subseteq Nat
<1> DEFINE A(w) == {i \in DOMAIN s : s[i] <= w}
           B    == {i \in DOMAIN s : s[i] < v}
<1>1. DOMAIN s = 1..Len(s) /\ Len(s) \in Nat /\ \A i \in DOMAIN s : s[i] \in Nat
  OBVIOUS
<1>2. A(v) \subseteq 1..Len(s) /\ B \subseteq 1..Len(s)
  BY <1>1
<1>3. \A w \in Nat : w < v => A(w) \subseteq B
  BY <1>1
<1>4. /\ \A w : UpTo(s, w) = Cardinality(A(w))
      /\ Less(s, v) = Cardinality(B)
  BY DEF UpTo, Less
<1>5. Values(s) \subseteq Nat
  BY <1>1 DEF Values
<1> HIDE DEF A, B
<1>6. \A w \in Nat : w < v => Cardinality(A(w)) <= Cardinality(B)
  BY <1>1, <1>2, <1>3, Positions
<1>7. Cardinality(A(v)) \in Nat /\ Cardinality(A(v)) <= Len(s) /\ Cardinality(B) \in Nat
  BY <1>1, <1>2, Positions
<1> QED BY <1>4, <1>5, <1>6, <1>7

\* Some value is the greatest: all are up to it.
LEMMA AllUpTo ==
  ASSUME NEW s \in Seq(Nat), Len(s) # 0
  PROVE  \E v \in Values(s) : UpTo(s, v) = Len(s)
<1>0. DOMAIN s = 1..Len(s) /\ Len(s) \in Nat /\ \A i \in DOMAIN s : s[i] \in Nat /\ s[i] \in Values(s)
  BY DEF Values
<1> DEFINE T == {UpTo(s, v) : v \in Values(s)}
<1>1. T \in SUBSET Nat /\ \A x \in T : x <= Len(s)
  BY Counts DEF Values
<1>2. T # {}
  <2>1. s[1] \in Values(s)
    BY <1>0
  <2> QED BY <2>1
<1>3. PICK x \in T : \A y \in T : y <= x
  <2> HIDE DEF T
  <2> QED BY <1>0, <1>1, <1>2, GreatestNat
<1>4. PICK v \in Values(s) : UpTo(s, v) = x
  BY <1>3
<1>5. v \in Nat
  BY <1>4, Counts
<1>6. ASSUME NEW i \in DOMAIN s, ~(s[i] <= v) PROVE FALSE
  <2> DEFINE P == {j \in DOMAIN s : s[j] <= s[i]}
             Q == {j \in DOMAIN s : s[j] <= v}
  <2>1. P \subseteq 1..Len(s) /\ Q \subseteq P /\ i \in P /\ i \notin Q
    BY <1>0, <1>5, <1>6
  <2>2. Cardinality(P) = UpTo(s, s[i]) /\ Cardinality(Q) = UpTo(s, v)
    BY DEF UpTo
  <2>3. Cardinality(P) <= Cardinality(Q)
    <3>1. UpTo(s, s[i]) \in T
      BY <1>0
    <3> QED BY <1>3, <1>4, <2>2, <3>1
  <2> HIDE DEF P, Q
  <2>4. /\ Cardinality(P) \in Nat /\ Cardinality(Q) \in Nat /\ Cardinality(Q) <= Cardinality(P)
        /\ Cardinality(Q) = Cardinality(P) => Q = P
    BY <1>0, <2>1, Positions
  <2> QED BY <2>1, <2>3, <2>4
<1>7. {i \in DOMAIN s : s[i] <= v} = 1..Len(s)
  BY <1>0, <1>6
<1>8. Cardinality(1..Len(s)) = Len(s)
  <2>1. Cardinality(1..Len(s)) = IF 1 > Len(s) THEN 0 ELSE Len(s) - 1 + 1
    BY <1>0, FS_Interval
  <2> QED BY <1>0, <2>1
<1> QED BY <1>4, <1>7, <1>8 DEF UpTo

\* The value at a place of the sorted sample.
At(s, k, v) == v \in Values(s) /\ Less(s, v) < k /\ k <= UpTo(s, v)

\* There is one at every place.
LEMMA SomeAt ==
  ASSUME NEW s \in Seq(Nat), NEW k \in 1..Len(s)
  PROVE  \E v : At(s, k, v)
<1>0. DOMAIN s = 1..Len(s) /\ Len(s) \in Nat /\ \A i \in DOMAIN s : s[i] \in Nat /\ s[i] \in Values(s)
  BY DEF Values
<1> DEFINE T == {v \in Values(s) : k <= UpTo(s, v)}
<1>1. T \in SUBSET Nat
  <2>1. Values(s) \subseteq Nat
    BY <1>0 DEF Values
  <2> QED BY <2>1
<1>2. T # {}
  BY <1>0, AllUpTo
<1>3. PICK v \in T : \A w \in T : v <= w
  <2> HIDE DEF T
  <2> QED BY <1>1, <1>2, LeastNat
<1>4. v \in Nat /\ v \in Values(s) /\ k <= UpTo(s, v)
  BY <1>1
<1>5. Less(s, v) < k
  <2> DEFINE B == {i \in DOMAIN s : s[i] < v}
  <2>1. CASE B = {}
    <3>1. Less(s, v) = Cardinality(B)
      BY DEF Less
    <3>2. Less(s, v) = 0
      BY <2>1, <3>1, FS_EmptySet, Zenon
    <3> QED BY <1>0, <3>2
  <2>2. CASE B # {}
    <3> DEFINE L == {x \in Values(s) : x < v}
    <3>0. Values(s) \subseteq Nat
      BY <1>0 DEF Values
    <3>1. L \in SUBSET Nat /\ L # {} /\ \A x \in L : x <= v
      <4>1. PICK i \in DOMAIN s : s[i] < v
        BY <2>2
      <4>2. s[i] \in L
        BY <1>0, <4>1
      <4> QED BY <1>4, <3>0, <4>2
    <3>2. PICK u \in L : \A x \in L : x <= u
      <4> HIDE DEF L
      <4> QED BY <1>4, <3>1, GreatestNat
    <3>3. u \in Nat /\ u < v /\ u \in Values(s)
      BY <3>0, <3>2
    <3>4. \A i \in DOMAIN s : s[i] < v <=> s[i] <= u
      <4>1. ASSUME NEW i \in DOMAIN s, s[i] < v PROVE s[i] <= u
        BY <1>0, <3>2, <4>1
      <4>2. ASSUME NEW i \in DOMAIN s, s[i] <= u PROVE s[i] < v
        BY <1>0, <1>4, <3>3, <4>2
      <4> QED BY <4>1, <4>2
    <3>5. B = {i \in DOMAIN s : s[i] <= u}
      BY <3>4
    <3>6. Less(s, v) = UpTo(s, u)
      BY <3>5 DEF Less, UpTo
    <3>7. u \notin T
      BY <1>3, <1>4, <3>3
    <3>8. UpTo(s, u) \in Nat
      BY <3>3, Counts
    <3> QED BY <1>0, <3>3, <3>6, <3>7, <3>8
  <2> QED BY <2>1, <2>2
<1> QED BY <1>4, <1>5 DEF At

\* So the sorted sample has one at every place.
LEMMA Sorts ==
  ASSUME NEW s \in Seq(Nat), Len(s) # 0
  PROVE  /\ Len(Ascending(s)) = Len(s)
         /\ \A k \in 1..Len(s) : At(s, k, Ascending(s)[k])
<1>0. DOMAIN s = 1..Len(s) /\ Len(s) \in Nat
  OBVIOUS
<1>1. DOMAIN Ascending(s) = 1..Len(s)
  BY <1>0 DEF Ascending
<1>2. Len(Ascending(s)) = Len(s)
  BY <1>0, <1>1
<1>3. ASSUME NEW k \in 1..Len(s) PROVE At(s, k, Ascending(s)[k])
  <2>1. PICK v : At(s, k, v)
    BY SomeAt
  <2>2. Ascending(s)[k] = CHOOSE x \in Values(s) : Less(s, x) < k /\ k <= UpTo(s, x)
    BY <1>0 DEF Ascending, Values
  <2>3. \E x \in Values(s) : Less(s, x) < k /\ k <= UpTo(s, x)
    BY <2>1 DEF At
  <2> QED BY <2>2, <2>3 DEF At
<1> QED BY <1>2, <1>3

\* The rank of a percentile is that of a place.
LEMMA RankIs ==
  ASSUME NEW n \in Nat \ {0}, NEW p \in {50, 95}
  PROVE  /\ Rank(p, n) \in 1..n
         /\ Rank(p, n) * 100 >= p * n
         /\ \A c \in Nat : c < Rank(p, n) => c * 100 < p * n
<1>1. CASE p = 50
  <2>1. Rank(50, n) = (50 * n + 99) \div 100
    BY DEF Rank
  <2>2. PICK r : r = (50 * n + 99) \div 100
    OBVIOUS
  <2>3. r \in Int /\ 100 * r <= 50 * n + 99 /\ 50 * n + 99 < 100 * r + 100
    BY <2>2
  <2> QED BY <1>1, <2>1, <2>2, <2>3
<1>2. CASE p = 95
  <2>1. Rank(95, n) = (95 * n + 99) \div 100
    BY DEF Rank
  <2>2. PICK r : r = (95 * n + 99) \div 100
    OBVIOUS
  <2>3. r \in Int /\ 100 * r <= 95 * n + 99 /\ 95 * n + 99 < 100 * r + 100
    BY <2>2
  <2> QED BY <1>2, <2>1, <2>2, <2>3
<1> QED BY <1>1, <1>2

\* A percentile of the sorted sample is at its rank.
LEMMA PercentileAt ==
  ASSUME NEW s \in Seq(Nat), Len(s) # 0, NEW p \in {50, 95}
  PROVE  At(s, Rank(p, Len(s)), Percentile(Ascending(s), p))
<1>1. Len(s) \in Nat \ {0}
  OBVIOUS
<1>2. Rank(p, Len(s)) \in 1..Len(s)
  BY <1>1, RankIs
<1>3. Len(Ascending(s)) = Len(s) /\ At(s, Rank(p, Len(s)), Ascending(s)[Rank(p, Len(s))])
  BY <1>2, Sorts
<1>4. PICK t, r, n : t = Ascending(s) /\ r = Rank(p, Len(s)) /\ n = Len(s)
  OBVIOUS
<1>5. Percentile(t, p) = IF n = 1 THEN t[1]
                         ELSE IF Rank(p, n) = 0 THEN t[1] ELSE t[AtMost(Rank(p, n), n)]
  BY <1>3, <1>4 DEF Percentile
<1>6. Percentile(t, p) = t[r]
  <2>1. Rank(p, n) = r /\ r \in 1..n /\ n \in Nat
    BY <1>1, <1>2, <1>4
  <2>2. AtMost(r, n) = r
    BY <2>1 DEF AtMost
  <2>3. n = 1 => r = 1
    BY <2>1
  <2>4. r # 0
    BY <2>1
  <2> QED BY <1>5, <2>1, <2>2, <2>3, <2>4
<1> QED BY <1>3, <1>4, <1>6

\* So it is the nearest rank.
LEMMA PercentileIsNearest ==
  ASSUME NEW s \in Seq(Nat), Len(s) # 0, NEW p \in {50, 95}
  PROVE  NearestRank(s, p, Percentile(Ascending(s), p))
<1>0. Len(s) \in Nat \ {0} /\ p \in Nat
  OBVIOUS
<1>1. PICK v, r : /\ v = Percentile(Ascending(s), p) /\ r = Rank(p, Len(s))
                  /\ At(s, r, v)
  BY PercentileAt
<1>2. /\ r \in 1..Len(s) /\ r * 100 >= p * Len(s)
      /\ \A c \in Nat : c < r => c * 100 < p * Len(s)
  BY <1>0, <1>1, RankIs
<1>3. Values(s) \subseteq Nat /\ v \in Nat
  <2>1. Values(s) \subseteq Nat
    BY DEF Values
  <2> QED BY <1>1, <2>1 DEF At
<1>4. /\ UpTo(s, v) \in Nat /\ Less(s, v) \in Nat
      /\ \A w \in Nat : w < v => UpTo(s, w) <= Less(s, v)
  BY <1>3, Counts
<1>5. UpTo(s, v) * 100 >= p * Len(s)
  <2>1. PICK x, y : x = UpTo(s, v) /\ y = p * Len(s)
    OBVIOUS
  <2>2. x \in Nat /\ r \in Nat /\ r <= x /\ r * 100 >= y /\ y \in Nat
    BY <1>0, <1>1, <1>2, <1>4, <2>1 DEF At
  <2>3. x * 100 >= y
    BY <2>2
  <2> QED BY <2>1, <2>3
<1>6. ASSUME NEW w \in Values(s), w < v PROVE UpTo(s, w) * 100 < p * Len(s)
  <2>1. w \in Nat /\ UpTo(s, w) \in Nat
    BY <1>3, Counts
  <2>2. UpTo(s, w) < r
    BY <1>1, <1>2, <1>4, <1>6, <2>1 DEF At
  <2> QED BY <1>2, <2>1, <2>2
<1>7. \E i \in DOMAIN s : s[i] = v
  BY <1>1 DEF At, Values
<1> QED BY <1>1, <1>5, <1>6, <1>7 DEF NearestRank, Values

Rising(s)  == \A i, j \in 1..Len(s) : i <= j => s[i] <= s[j]
Falling(s) == \A i, j \in 1..Len(s) : i <= j => s[j] <= s[i]

\* In a sample that drifts one way a place of the sorted sample is a place of the
\* sample.
LEMMA PlaceOfRising ==
  ASSUME NEW s \in Seq(Nat), NEW k \in 1..Len(s), NEW v, At(s, k, v),
         Rising(s)
  PROVE  v = s[k]
<1>0. DOMAIN s = 1..Len(s) /\ Len(s) \in Nat /\ \A i \in DOMAIN s : s[i] \in Nat
  OBVIOUS
<1>1. v \in Nat /\ s[k] \in Nat
  BY <1>0 DEF At, Values
<1>2. ASSUME s[k] < v PROVE FALSE
  <2> DEFINE P == {i \in DOMAIN s : s[i] < v}
  <2>1. 1..k \subseteq P /\ P \subseteq 1..Len(s)
    <3>1. ASSUME NEW i \in 1..k PROVE i \in P
      <4>1. i \in 1..Len(s) /\ i <= k /\ s[i] \in Nat
        BY <1>0
      <4>2. s[i] <= s[k]
        BY <4>1 DEF Rising
      <4> QED BY <1>0, <1>1, <1>2, <4>1, <4>2
    <3> QED BY <1>0, <3>1
  <2>2. Cardinality(P) = Less(s, v)
    BY DEF Less
  <2> HIDE DEF P
  <2>3. Cardinality(1..k) <= Cardinality(P) /\ Cardinality(P) \in Nat
    BY <1>0, <2>1, Positions
  <2>4. Cardinality(1..k) = k
    <3>1. Cardinality(1..k) = IF 1 > k THEN 0 ELSE k - 1 + 1
      BY FS_Interval
    <3> QED BY <3>1
  <2> QED BY <2>2, <2>3, <2>4 DEF At
<1>3. ASSUME v < s[k] PROVE FALSE
  <2> DEFINE P == {i \in DOMAIN s : s[i] <= v}
  <2>1. P \subseteq 1..(k - 1)
    BY <1>0, <1>1, <1>3 DEF Rising
  <2>2. Cardinality(P) = UpTo(s, v) /\ k - 1 \in Nat
    BY DEF UpTo
  <2> HIDE DEF P
  <2>3. Cardinality(P) <= k - 1 /\ Cardinality(P) \in Nat
    BY <2>1, <2>2, Positions
  <2> QED BY <2>2, <2>3 DEF At
<1> QED BY <1>1, <1>2, <1>3

\* In one that drifts the other way, counted from the end.
LEMMA PlaceOfFalling ==
  ASSUME NEW s \in Seq(Nat), NEW k \in 1..Len(s), NEW v, At(s, k, v),
         Falling(s)
  PROVE  v = s[Len(s) + 1 - k]
<1>0. DOMAIN s = 1..Len(s) /\ Len(s) \in Nat /\ \A i \in DOMAIN s : s[i] \in Nat
  OBVIOUS
<1>1. PICK n, m : n \in Nat /\ m \in 1..n /\ n = Len(s) /\ m = n + 1 - k
  BY <1>0
<1>2. v \in Nat /\ s[m] \in Nat /\ DOMAIN s = 1..n
  BY <1>0, <1>1 DEF At, Values
<1>3. ASSUME s[m] < v PROVE FALSE
  <2> DEFINE P == {i \in DOMAIN s : s[i] < v}
  <2>1. m..n \subseteq P /\ P \subseteq 1..n
    <3>1. m \in 1..n /\ m \in 1..Len(s) /\ P \subseteq 1..n
      BY <1>1, <1>2
    <3>2. ASSUME NEW i \in m..n PROVE i \in P
      <4>1. i \in 1..Len(s) /\ m <= i /\ s[i] \in Nat
        BY <1>0, <1>1, <3>1
      <4>2. s[i] <= s[m]
        BY <3>1, <4>1 DEF Falling
      <4> QED BY <1>0, <1>2, <1>3, <4>1, <4>2
    <3> QED BY <3>1, <3>2
  <2>2. Cardinality(P) = Less(s, v)
    BY DEF Less
  <2> HIDE DEF P
  <2>3. Cardinality(m..n) <= Cardinality(P) /\ Cardinality(P) \in Nat
    BY <1>1, <2>1, Positions
  <2>4. Cardinality(m..n) = k
    <3>1. Cardinality(m..n) = IF m > n THEN 0 ELSE n - m + 1
      BY <1>1, FS_Interval
    <3> QED BY <1>0, <1>1, <3>1
  <2> QED BY <2>2, <2>3, <2>4 DEF At
<1>4. ASSUME v < s[m] PROVE FALSE
  <2> DEFINE P == {i \in DOMAIN s : s[i] <= v}
  <2>1. P \subseteq (m + 1)..n /\ (m + 1)..n \subseteq 1..n
    <3>1. (m + 1)..n \subseteq 1..n
      BY <1>1
    <3>2. ASSUME NEW i \in P PROVE i \in (m + 1)..n
      <4>1. i \in 1..n /\ s[i] <= v /\ s[i] \in Nat
        BY <1>0, <1>2
      <4>2. ~(i <= m)
        <5>1. i <= m => s[m] <= s[i]
          BY <1>1, <4>1 DEF Falling
        <5> QED BY <1>2, <1>4, <4>1, <5>1
      <4> QED BY <1>1, <4>1, <4>2
    <3> QED BY <3>1, <3>2
  <2>2. Cardinality(P) = UpTo(s, v)
    BY DEF UpTo
  <2> HIDE DEF P
  <2>3. Cardinality(P) <= Cardinality((m + 1)..n) /\ Cardinality(P) \in Nat
    BY <1>1, <2>1, Positions
  <2>4. Cardinality((m + 1)..n) = k - 1
    <3>1. Cardinality((m + 1)..n) = IF m + 1 > n THEN 0 ELSE n - (m + 1) + 1
      <4>1. m + 1 \in Int /\ n \in Int
        BY <1>1
      <4> QED BY <4>1, FS_Interval
    <3> QED BY <1>0, <1>1, <3>1
  <2> QED BY <2>2, <2>3, <2>4 DEF At
<1> QED BY <1>1, <1>2, <1>3, <1>4

-----------------------------------------------------------------------------
(* The runner.                                                               *)

\* The arms of measure, and those of measure_interleaved.
Arms == {<<"a">>, <<"a", "b">>}

\* The executions of a call that nobody times.
First == Width * (1 + call.warmup)

\* The place among the timed executions of arm x's in round i: a goes first in the
\* odd rounds.
Turn(x, i) == IF (x = "a") = (i % 2 = 1) THEN 2 * i - 1 ELSE 2 * i

\* An arm's samples are the executions of its turns.
Paired(x) ==
  LET m == Len(samples[x]) IN
  /\ Turn(x, m + 1) > Len(spent)
  /\ \A i \in 1..m : Turn(x, i) <= Len(spent) /\ samples[x][i] = spent[Turn(x, i)]

\* Where a call is, and what it has recorded of a machine that drifts one way.
Counting ==
  /\ call.arms \in Arms /\ call.warmup \in Nat /\ call.iters \in Nat \ {0}
  /\ done \in Nat /\ done <= Executions
  /\ samples \in [Arm -> Seq(Nat)] /\ cold \in [Arm -> Nat] /\ spent \in Seq(Nat)
  /\ time \in Nat /\ trend \in Trend
  /\ Len(spent) = IF done > First THEN done - First ELSE 0
  /\ \A i, j \in 1..Len(spent) : i <= j => Drifts(spent[i], spent[j])
  /\ \A i \in 1..Len(spent) : Drifts(spent[i], time)
  /\ Width = 1 => samples["a"] = spent
  /\ Width = 2 => \A x \in Arm : Paired(x)

\* When a call has answered: with what its arms have recorded.
Answered ==
  /\ done = Executions
  /\ answer = IF Width = 1 THEN <<Cold("a"), Warm("a")>> ELSE <<Warm("a"), Warm("b")>>

\* The invariant of the runner, whose log holds whatever earlier calls have pushed.
RunnerInv ==
  /\ \E S : log \in Seq(S)
  /\ pc = "timing" => answer = <<>>
  /\ pc = "timing" \/ answer # <<>> => Counting
  /\ answer # <<>> => Answered

\* A call has one arm or two.
LEMMA Widths ==
  ASSUME call.arms \in Arms
  PROVE  /\ Width = 1 \/ Width = 2
         /\ Width = 1 <=> call.arms = <<"a">>
         /\ Width = 2 <=> call.arms = <<"a", "b">>
         /\ call.arms[1] = "a" /\ (Width = 2 => call.arms[2] = "b")
<1>1. Len(<<"a">>) = 1 /\ Len(<<"a", "b">>) = 2 /\ <<"a">>[1] = "a" /\ <<"a", "b">>[1] = "a" /\ <<"a", "b">>[2] = "b"
  OBVIOUS
<1>2. call.arms = <<"a">> \/ call.arms = <<"a", "b">>
  BY DEF Arms
<1> QED BY <1>1, <1>2 DEF Width

\* A round is timed when all before the first timed one are through.
LEMMA TimedIs ==
  ASSUME call.arms \in Arms, call.warmup \in Nat, done \in Nat
  PROVE  Timed <=> done >= First
<1>1. Timed <=> done \div Width > call.warmup
  BY DEF Timed, Round
<1>2. CASE Width = 1
  <2>1. done \div 1 = done /\ First = 1 + call.warmup
    BY <1>2 DEF First
  <2> QED BY <1>1, <1>2, <2>1
<1>3. CASE Width = 2
  <2>1. First = 2 * (1 + call.warmup)
    BY <1>3 DEF First
  <2>2. PICK w, r : w \in Nat /\ w = call.warmup /\ r = done \div 2
    OBVIOUS
  <2>3. r \in Int /\ 2 * r <= done /\ done < 2 * r + 2
    BY <2>2
  <2>4. r > w <=> done >= 2 * (1 + w)
    <3>1. PICK d : d = done
      OBVIOUS
    <3>2. d \in Int /\ r \in Int /\ w \in Int /\ 2 * r <= d /\ d < 2 * r + 2
      BY <2>2, <2>3, <3>1
    <3>3. r > w <=> d >= 2 * (1 + w)
      BY <3>2
    <3> QED BY <3>1, <3>3
  <2> QED BY <1>1, <1>3, <2>1, <2>2, <2>4
<1> QED BY <1>2, <1>3, Widths

\* The turns of an arm, and that the two arms have none in common.
LEMMA Turns ==
  ASSUME NEW i \in Nat \ {0}
  PROVE  /\ \A x \in Arm : Turn(x, i) = 2 * i - 1 \/ Turn(x, i) = 2 * i
         /\ Turn("a", i) + Turn("b", i) = 4 * i - 1
BY DEF Turn, Arm

\* The next execution is the next turn of its arm.
LEMMA NextTurn ==
  ASSUME call.arms \in Arms, Width = 2, call.warmup \in Nat, NEW t \in Nat, done = First + t
  PROVE  \E i \in Nat \ {0} : NextArm \in Arm /\ Turn(NextArm, i) = t + 1
<1>1. call.arms[1] = "a" /\ call.arms[2] = "b"
  BY Widths
<1>2. PICK w \in Nat, d \in Nat : w = call.warmup /\ d = done /\ d = 2 * (1 + w) + t
  BY DEF First
<1>3. PICK i, e : i = t \div 2 + 1 /\ e = t % 2
  OBVIOUS
<1>4. i \in Nat \ {0} /\ e \in {0, 1} /\ t = 2 * (i - 1) + e
  BY <1>3
<1>5. d \div 2 = w + i /\ d % 2 = e
  <2>1. d = 2 * (w + i) + e /\ w + i \in Nat
    BY <1>2, <1>4
  <2> QED BY <1>4, <2>1
<1>6. Timed
  <2>1. done >= First
    BY <1>2 DEF First
  <2> QED BY <1>2, <2>1, TimedIs
<1>7. Swapped <=> (i - 1) % 2 = 1
  <2>1. Swapped <=> (Round - 1 - w) % 2 = 1
    BY <1>2, <1>6 DEF Swapped
  <2>2. Round - 1 - w = i - 1
    BY <1>2, <1>4, <1>5 DEF Round
  <2> QED BY <2>1, <2>2
<1>8. (i - 1) % 2 = 1 <=> ~(i % 2 = 1)
  BY <1>4
<1>9. NextArm = call.arms[IF Swapped THEN 3 - (e + 1) ELSE e + 1]
  <2>1. done % Width = e
    BY <1>2, <1>5
  <2>2. NextArm = call.arms[IF Swapped THEN Width + 1 - ((done % Width) + 1) ELSE (done % Width) + 1]
    BY DEF NextArm
  <2>3. NextArm = call.arms[IF Swapped THEN 2 + 1 - (e + 1) ELSE e + 1]
    BY <2>1, <2>2
  <2> QED BY <1>4, <2>3
<1>10. NextArm = IF (e = 0) = (i % 2 = 1) THEN "a" ELSE "b"
  <2>1. CASE e = 0
    BY <1>1, <1>7, <1>8, <1>9, <2>1
  <2>2. CASE e = 1
    BY <1>1, <1>7, <1>8, <1>9, <2>2
  <2> QED BY <1>4, <2>1, <2>2
<1>11. Turn(NextArm, i) = t + 1
  <2>1. CASE e = 0
    BY <1>4, <1>10, <2>1 DEF Turn
  <2>2. CASE e = 1
    BY <1>4, <1>10, <2>2 DEF Turn
  <2> QED BY <1>4, <2>1, <2>2
<1>12. NextArm \in Arm
  BY <1>10 DEF Arm
<1> QED BY <1>4, <1>11, <1>12

\* A timed execution of two arms goes on with both arms' turns.
LEMMA PairsGoOn ==
  ASSUME Counting, Width = 2, NEW t \in Nat, t = Len(spent), NEW x \in Arm,
         NEW i \in Nat \ {0}, Turn(x, i) = t + 1, NEW d \in Nat,
         samples' = [samples EXCEPT ![x] = Append(@, d)], spent' = Append(spent, d)
  PROVE  \A y \in Arm : Paired(y)'
<1>0. /\ samples \in [Arm -> Seq(Nat)] /\ spent \in Seq(Nat) /\ \A y \in Arm : Paired(y)
  BY DEF Counting
<1>1. /\ Len(spent') = t + 1 /\ spent'[t + 1] = d /\ \A j \in 1..t : spent'[j] = spent[j]
  BY <1>0
<1>2. ASSUME NEW y \in Arm, y # x PROVE Paired(y)'
  <2>1. samples'[y] = samples[y]
    BY <1>0, <1>2
  <2>2. PICK m : m = Len(samples[y])
    OBVIOUS
  <2>3. /\ m \in Nat /\ Turn(y, m + 1) > t
        /\ \A j \in 1..m : Turn(y, j) <= t /\ samples[y][j] = spent[Turn(y, j)]
    BY <1>0, <2>2 DEF Paired
  <2>4. Turn(y, m + 1) # t + 1
    <3>1. /\ Turn(x, i) = 2 * i - 1 \/ Turn(x, i) = 2 * i
          /\ Turn(y, i) = 2 * i - 1 \/ Turn(y, i) = 2 * i
          /\ Turn("a", i) + Turn("b", i) = 4 * i - 1
      BY Turns
    <3>3. Turn(x, i) + Turn(y, i) = 4 * i - 1
      <4>1. (x = "a" /\ y = "b") \/ (x = "b" /\ y = "a")
        BY <1>2 DEF Arm
      <4>2. Turn(x, i) \in Int /\ Turn(y, i) \in Int
        BY <3>1
      <4> QED BY <3>1, <4>1, <4>2
    <3>4. m + 1 \in Nat \ {0}
      BY <2>3
    <3>5. Turn(y, m + 1) = 2 * (m + 1) - 1 \/ Turn(y, m + 1) = 2 * (m + 1)
      BY <3>4, Turns
    <3>6. CASE m + 1 = i
      BY <2>3, <3>1, <3>3, <3>6
    <3>7. CASE m + 1 # i
      BY <2>3, <3>1, <3>5, <3>7
    <3> QED BY <3>6, <3>7
  <2>5. Turn(y, m + 1) > t + 1
    <3>1. m + 1 \in Nat \ {0}
      BY <2>3
    <3>2. Turn(y, m + 1) = 2 * (m + 1) - 1 \/ Turn(y, m + 1) = 2 * (m + 1)
      BY <3>1, Turns
    <3>3. Turn(y, m + 1) \in Int
      BY <2>3, <3>2
    <3> QED BY <2>3, <2>4, <3>3
  <2>6. \A j \in 1..m : Turn(y, j) <= t + 1 /\ samples[y][j] = spent'[Turn(y, j)]
    <3> SUFFICES ASSUME NEW j \in 1..m
                 PROVE  Turn(y, j) <= t + 1 /\ samples[y][j] = spent'[Turn(y, j)]
      OBVIOUS
    <3>1. Turn(y, j) \in 1..t
      <4>1. j \in Nat \ {0}
        BY <2>3
      <4>2. Turn(y, j) = 2 * j - 1 \/ Turn(y, j) = 2 * j
        BY <4>1, Turns
      <4> QED BY <2>3, <4>1, <4>2
    <3> QED BY <1>1, <2>3, <3>1
  <2> QED BY <1>1, <2>1, <2>2, <2>5, <2>6 DEF Paired, Turn
<1>3. Paired(x)'
  <2>1. PICK m : m = Len(samples[x])
    OBVIOUS
  <2>2. /\ m \in Nat /\ Turn(x, m + 1) > t
        /\ \A j \in 1..m : Turn(x, j) <= t /\ samples[x][j] = spent[Turn(x, j)]
    BY <1>0, <2>1 DEF Paired
  <2>3. m + 1 = i
    <3>1. Turn(x, i) = 2 * i - 1 \/ Turn(x, i) = 2 * i
      BY Turns
    <3>2. m + 1 \in Nat \ {0}
      BY <2>2
    <3>3. Turn(x, m + 1) = 2 * (m + 1) - 1 \/ Turn(x, m + 1) = 2 * (m + 1)
      BY <3>2, Turns
    <3>4. i <= m + 1
      BY <2>2, <3>1, <3>3
    <3>5. i > m
      <4>1. SUFFICES ASSUME i \in 1..m PROVE FALSE
        BY <2>2
      <4> QED BY <2>2, <4>1
    <3> QED BY <2>2, <3>4, <3>5
  <2>4. samples'[x] = Append(samples[x], d)
    BY <1>0
  <2>5. /\ Len(samples'[x]) = m + 1 /\ samples'[x][m + 1] = d
        /\ \A j \in 1..m : samples'[x][j] = samples[x][j]
    BY <1>0, <2>1, <2>4
  <2>6. Turn(x, m + 2) > t + 1
    <3>1. m + 2 \in Nat \ {0}
      BY <2>2
    <3>2. Turn(x, m + 2) = 2 * (m + 2) - 1 \/ Turn(x, m + 2) = 2 * (m + 2)
      BY <3>1, Turns
    <3>3. Turn(x, i) = 2 * i - 1 \/ Turn(x, i) = 2 * i
      BY Turns
    <3> QED BY <2>2, <2>3, <3>2, <3>3
  <2>7. \A j \in 1..(m + 1) : Turn(x, j) <= t + 1 /\ samples'[x][j] = spent'[Turn(x, j)]
    <3> SUFFICES ASSUME NEW j \in 1..(m + 1)
                 PROVE  Turn(x, j) <= t + 1 /\ samples'[x][j] = spent'[Turn(x, j)]
      OBVIOUS
    <3>1. CASE j = m + 1
      <4>1. Turn(x, j) = t + 1
        BY <2>3, <3>1
      <4> QED BY <1>1, <2>5, <3>1, <4>1
    <3>2. CASE j # m + 1
      <4>0. j \in 1..m /\ j \in Nat \ {0}
        BY <2>2, <3>2
      <4>1. Turn(x, j) = 2 * j - 1 \/ Turn(x, j) = 2 * j
        BY <4>0, Turns
      <4>2. Turn(x, j) \in 1..t
        BY <2>2, <4>0, <4>1
      <4> QED BY <1>1, <2>2, <2>5, <4>0, <4>2
    <3> QED BY <3>1, <3>2
  <2>8. (m + 1) + 1 = m + 2
    BY <2>2
  <2> QED BY <1>1, <2>5, <2>6, <2>7, <2>8 DEF Paired, Turn
<1> QED BY <1>2, <1>3

\* How many executions a call has, and how many of them are timed.
LEMMA Totals ==
  ASSUME call.arms \in Arms, call.warmup \in Nat, call.iters \in Nat \ {0}
  PROVE  /\ Executions \in Nat /\ First \in Nat /\ First < Executions
         /\ Executions = First + Width * call.iters
<1>1. PICK w \in Nat, n \in Nat \ {0} : w = call.warmup /\ n = call.iters
  OBVIOUS
<1>2. CASE Width = 1
  <2>1. Executions = 1 + w + n /\ First = 1 + w
    BY <1>1, <1>2 DEF Executions, First
  <2> QED BY <1>1, <1>2, <2>1
<1>3. CASE Width = 2
  <2>1. Executions = 2 * (1 + w + n) /\ First = 2 * (1 + w)
    BY <1>1, <1>3 DEF Executions, First
  <2> QED BY <1>1, <1>3, <2>1
<1> QED BY <1>2, <1>3, Widths

\* A call begins with nothing recorded.
LEMMA BeginCounts ==
  ASSUME NEW arms \in Arms, NEW w \in Nat, NEW n \in Nat \ {0}, Begin(arms, w, n)
  PROVE  Counting'
<1>1. /\ call'.arms \in Arms /\ call'.warmup \in Nat /\ call'.iters \in Nat \ {0}
      /\ done' = 0 /\ trend' \in Trend /\ time' \in Nat
      /\ cold' = [x \in Arm |-> 0] /\ samples' = [x \in Arm |-> <<>>] /\ spent' = <<>>
  BY DurationsAssumption DEF Begin
<1>2. Width' = 1 \/ Width' = 2
  BY <1>1 DEF Width, Arms
<1>3. Executions' \in Nat /\ First' \in Nat
  <2>1. PICK x \in Nat, y \in Nat : x = call'.warmup /\ y = call'.iters
    BY <1>1
  <2>2. Executions' = Width' * (1 + x + y) /\ First' = Width' * (1 + x)
    BY <2>1 DEF Executions, First
  <2> QED BY <1>2, <2>1, <2>2
<1>4. samples' \in [Arm -> Seq(Nat)] /\ cold' \in [Arm -> Nat] /\ spent' \in Seq(Nat)
  BY <1>1
<1>5. Len(spent') = 0 /\ 1..Len(spent') = {}
  BY <1>1
<1>6. Width' = 1 => samples'["a"] = spent'
  BY <1>1 DEF Arm
<1>7. ASSUME NEW x \in Arm PROVE Paired(x)'
  <2>1. Len(samples'[x]) = 0
    BY <1>1
  <2>2. Turn(x, 0 + 1) > 0
    BY DEF Turn
  <2> QED BY <1>5, <2>1, <2>2 DEF Paired, Turn
<1>8. Len(spent') = IF done' > First' THEN done' - First' ELSE 0
  <2>1. done' = 0 /\ First' \in Nat
    BY <1>1, <1>3
  <2>2. ~(done' > First')
    BY <2>1
  <2> QED BY <1>5, <2>2
<1>9. done' \in Nat /\ done' <= Executions'
  BY <1>1, <1>3
<1>10. /\ \A i, j \in 1..Len(spent') : i <= j =>
             IF trend' = "slower" THEN spent'[i] <= spent'[j] ELSE spent'[j] <= spent'[i]
       /\ \A i \in 1..Len(spent') :
             IF trend' = "slower" THEN spent'[i] <= time' ELSE time' <= spent'[i]
  BY <1>5
<1>11. Width' = 2 => \A x \in Arm : Paired(x)'
  BY <1>7
<1> QED BY <1>1, <1>4, <1>6, <1>8, <1>9, <1>10, <1>11 DEF Counting, Drifts

\* What drifts one way goes on that way.
LEMMA DriftGoesOn ==
  ASSUME trend \in Trend, NEW x \in Nat, NEW y \in Nat, NEW z \in Nat, Drifts(x, y), Drifts(y, z)
  PROVE  Drifts(x, z)
<1>1. CASE trend = "slower"
  BY <1>1 DEF Drifts
<1>2. CASE trend # "slower"
  BY <1>2 DEF Drifts
<1> QED BY <1>1, <1>2

\* An execution is recorded where its round and its arm's turn say.
LEMMA ExecuteCounts ==
  ASSUME Counting, Execute
  PROVE  Counting'
<1>0. /\ call.arms \in Arms /\ call.warmup \in Nat /\ call.iters \in Nat \ {0}
      /\ done \in Nat /\ done < Executions /\ done' = done + 1
      /\ samples \in [Arm -> Seq(Nat)] /\ cold \in [Arm -> Nat] /\ spent \in Seq(Nat)
      /\ time \in Nat /\ trend \in Trend /\ call' = call /\ trend' = trend
  BY DEF Counting, Execute
<1>1. PICK d \in Durations :
        /\ Drifts(time, d) /\ time' = d
        /\ cold'    = IF Round = 0 THEN [cold EXCEPT ![NextArm] = d] ELSE cold
        /\ samples' = IF Timed THEN [samples EXCEPT ![NextArm] = Append(@, d)] ELSE samples
        /\ spent'   = IF Timed THEN Append(spent, d) ELSE spent
  BY DEF Execute
<1>2. d \in Nat
  BY DurationsAssumption
<1>3. Width' = Width /\ Executions' = Executions /\ First' = First
  BY <1>0 DEF Width, Executions, First
<1>4. First \in Nat /\ Executions \in Nat /\ (Width = 1 \/ Width = 2)
  BY <1>0, Totals, Widths
<1>6. cold' \in [Arm -> Nat]
  BY <1>0, <1>1, <1>2
<1>7. /\ \A i \in 1..Len(spent) : spent[i] \in Nat
      /\ \A i, j \in 1..Len(spent) : i <= j => Drifts(spent[i], spent[j])
      /\ \A i \in 1..Len(spent) : Drifts(spent[i], d)
  <2>1. \A i \in 1..Len(spent) : spent[i] \in Nat
    BY <1>0
  <2>2. /\ \A i, j \in 1..Len(spent) : i <= j => Drifts(spent[i], spent[j])
        /\ \A i \in 1..Len(spent) : Drifts(spent[i], time)
    BY DEF Counting
  <2>3. ASSUME NEW i \in 1..Len(spent) PROVE Drifts(spent[i], d)
    BY <1>0, <1>1, <1>2, <2>1, <2>2, DriftGoesOn
  <2> QED BY <2>1, <2>2, <2>3
<1>8. CASE ~Timed
  <2>1. done < First
    BY <1>0, <1>4, <1>8, TimedIs
  <2>2. samples' = samples /\ spent' = spent
    BY <1>1, <1>8
  <2>3. Len(spent) = 0
    BY <1>0, <1>4, <2>1 DEF Counting
  <2>4. Len(spent') = IF done' > First' THEN done' - First' ELSE 0
    BY <1>0, <1>3, <1>4, <2>1, <2>2, <2>3
  <2>5. done' \in Nat /\ done' <= Executions'
    BY <1>0, <1>3, <1>4
  <2>6. 1..Len(spent') = {}
    BY <2>2, <2>3
  <2>7. Width' = 1 => samples'["a"] = spent'
    BY <1>3, <2>2 DEF Counting
  <2>8. ASSUME Width = 2, NEW x \in Arm PROVE Paired(x)'
    <3>1. Paired(x)
      BY <2>8 DEF Counting
    <3> QED BY <2>2, <3>1 DEF Paired, Turn
  <2>9. /\ samples' \in [Arm -> Seq(Nat)] /\ spent' \in Seq(Nat) /\ time' \in Nat
    BY <1>0, <1>1, <1>2, <2>2
  <2> QED BY <1>0, <1>3, <1>6, <2>4, <2>5, <2>6, <2>7, <2>8, <2>9 DEF Counting
<1>9. CASE Timed
  <2>1. done >= First
    BY <1>0, <1>9, TimedIs
  <2>2. PICK t \in Nat : t = Len(spent) /\ done = First + t
    <3>1. Len(spent) = done - First
      BY <1>0, <1>4, <2>1 DEF Counting
    <3> QED BY <1>0, <1>4, <2>1, <3>1
  <2>3. samples' = [samples EXCEPT ![NextArm] = Append(@, d)] /\ spent' = Append(spent, d)
    BY <1>1, <1>9
  <2>4. /\ Len(spent') = t + 1 /\ spent'[t + 1] = d /\ \A i \in 1..t : spent'[i] = spent[i]
        /\ spent' \in Seq(Nat)
    BY <1>0, <1>2, <2>2, <2>3
  <2>5. Len(spent') = IF done' > First' THEN done' - First' ELSE 0
    BY <1>0, <1>3, <1>4, <2>2, <2>4
  <2>6. done' \in Nat /\ done' <= Executions'
    BY <1>0, <1>3, <1>4
  <2>7. Drifts(d, d)
    BY <1>2 DEF Drifts
  <2>8. ASSUME NEW i \in 1..(t + 1) PROVE spent'[i] \in Nat /\ Drifts(spent'[i], d)
    <3>1. CASE i = t + 1
      BY <1>2, <2>4, <2>7, <3>1
    <3>2. CASE i # t + 1
      <4>1. i \in 1..t
        BY <3>2
      <4> QED BY <1>7, <2>2, <2>4, <4>1
    <3> QED BY <3>1, <3>2
  <2>9. ASSUME NEW i \in 1..(t + 1), NEW j \in 1..(t + 1), i <= j
        PROVE  Drifts(spent'[i], spent'[j])
    <3>1. CASE j = t + 1
      BY <2>4, <2>8, <3>1
    <3>2. CASE j # t + 1
      <4>1. i \in 1..t /\ j \in 1..t
        BY <2>9, <3>2
      <4> QED BY <1>7, <2>2, <2>4, <2>9, <4>1
    <3> QED BY <3>1, <3>2
  <2>10. /\ \A i, j \in 1..Len(spent') : i <= j =>
              IF trend' = "slower" THEN spent'[i] <= spent'[j] ELSE spent'[j] <= spent'[i]
         /\ \A i \in 1..Len(spent') :
              IF trend' = "slower" THEN spent'[i] <= time' ELSE time' <= spent'[i]
    <3>1. \A x, y : Drifts(x, y) <=> IF trend' = "slower" THEN x <= y ELSE y <= x
      BY <1>0 DEF Drifts
    <3> QED BY <1>1, <2>4, <2>8, <2>9, <3>1
  <2>11. ASSUME Width = 1 PROVE samples'["a"] = spent' /\ samples' \in [Arm -> Seq(Nat)]
    <3>1. call.arms[1] = "a" /\ samples["a"] = spent
      BY <1>0, <2>11, Widths DEF Counting
    <3>2. done % 1 = 0
      BY <1>0
    <3>3. NextArm = call.arms[IF Swapped THEN Width + 1 - ((done % Width) + 1) ELSE (done % Width) + 1]
      BY DEF NextArm
    <3>4. NextArm = "a"
      BY <2>11, <3>1, <3>2, <3>3
    <3> QED BY <1>0, <1>2, <2>3, <3>1, <3>4 DEF Arm
  <2>12. ASSUME Width = 2 PROVE (\A x \in Arm : Paired(x)') /\ samples' \in [Arm -> Seq(Nat)]
    <3>1. PICK i \in Nat \ {0} : NextArm \in Arm /\ Turn(NextArm, i) = t + 1
      BY <1>0, <2>2, <2>12, NextTurn
    <3>2. PICK x \in Arm : x = NextArm
      BY <3>1
    <3>3. \A y \in Arm : Paired(y)'
      BY <1>2, <2>2, <2>3, <2>12, <3>1, <3>2, PairsGoOn
    <3> QED BY <1>0, <1>2, <2>3, <3>1, <3>3
  <2>13. (Width' = 1 => samples'["a"] = spent') /\ samples' \in [Arm -> Seq(Nat)]
         /\ (Width' = 2 => \A x \in Arm : Paired(x)')
    BY <1>3, <1>4, <2>11, <2>12
  <2>14. time' \in Nat
    BY <1>1, <1>2
  <2> QED BY <1>0, <1>6, <2>4, <2>5, <2>6, <2>10, <2>13, <2>14 DEF Counting, Drifts
<1> QED BY <1>8, <1>9

\* What the runner pushes ends in what it answers with.
LEMMA ReportAnswers ==
  ASSUME RunnerInv, Report
  PROVE  RunnerInv'
<1>1. /\ Counting /\ done = Executions /\ pc' = "idle" /\ UNCHANGED <<call, done, trend, time, cold, samples, spent>>
      /\ log' = log \o (IF Width = 1 THEN <<Cold("a"), Warm("a")>>
                                    ELSE <<Cold("a"), Warm("a"), Cold("b"), Warm("b")>>)
      /\ answer' = Answer(log')
  BY DEF RunnerInv, Report
<1>2. PICK S : log \in Seq(S)
  BY DEF RunnerInv
<1>3. PICK ca, wa, cb, wb : ca = Cold("a") /\ wa = Warm("a") /\ cb = Cold("b") /\ wb = Warm("b")
  OBVIOUS
<1>4. Width' = Width /\ Executions' = Executions
  BY <1>1 DEF Width, Executions
<1>5. /\ Cold("a")' = ca /\ Warm("a")' = wa /\ Warm("b")' = wb
  BY <1>1, <1>3 DEF Cold, Warm
<1>6. Counting'
  BY <1>1, <1>4 DEF Counting, Paired, Turn, First, Drifts
<1>7. Width = 1 \/ Width = 2
  BY <1>1, Widths DEF Counting
<1>8. CASE Width = 1
  <2>1. log' = log \o <<ca, wa>>
    BY <1>1, <1>3, <1>8
  <2>2. PICK n \in Nat : n = Len(log)
    BY <1>2
  <2>3. /\ Len(log') = n + 2 /\ log'[n + 1] = ca /\ log'[n + 2] = wa
        /\ log' \in Seq(S \cup {ca, wa})
    BY <1>2, <2>1, <2>2
  <2>4. Answer(log') = <<log'[n + 2 - 1], log'[n + 2]>>
    BY <1>8, <2>3 DEF Answer
  <2>5. answer' = <<ca, wa>>
    <3>1. n + 2 - 1 = n + 1
      BY <2>2
    <3> QED BY <1>1, <2>3, <2>4, <3>1
  <2>6. Answered'
    BY <1>1, <1>4, <1>5, <1>8, <2>5 DEF Answered
  <2>7. answer' # <<>>
    BY <2>5
  <2> QED BY <1>1, <1>6, <2>3, <2>6, <2>7 DEF RunnerInv
<1>9. CASE Width = 2
  <2>1. log' = log \o <<ca, wa, cb, wb>>
    BY <1>1, <1>3, <1>9
  <2>2. PICK n \in Nat : n = Len(log)
    BY <1>2
  <2>3. /\ Len(log') = n + 4 /\ log'[n + 2] = wa /\ log'[n + 4] = wb
        /\ log' \in Seq(S \cup {ca, wa, cb, wb})
    BY <1>2, <2>1, <2>2
  <2>4. Answer(log') = <<log'[n + 4 - 2], log'[n + 4]>>
    BY <1>9, <2>3 DEF Answer
  <2>5. answer' = <<wa, wb>>
    <3>1. n + 4 - 2 = n + 2
      BY <2>2
    <3> QED BY <1>1, <2>3, <2>4, <3>1
  <2>6. Answered'
    BY <1>1, <1>4, <1>5, <1>9, <2>5 DEF Answered
  <2>7. answer' # <<>>
    BY <2>5
  <2> QED BY <1>1, <1>6, <2>3, <2>6, <2>7 DEF RunnerInv
<1> QED BY <1>7, <1>8, <1>9

-----------------------------------------------------------------------------
(* The suite.                                                                *)

\* What main calls the runner with.
Kinds == {"construct", "count", "noboundary", "put_run", "run_output", "last_seen_hash"}

CallType == [kind : Kinds, size : Nat, arms : Arms, warmup : Nat, iters : Nat \ {0}]

\* What Call makes of its arguments.
LEMMA CallIs ==
  ASSUME NEW kind \in Kinds, NEW size \in Nat, NEW width \in {1, 2}, NEW w \in Nat, NEW n \in Nat \ {0}
  PROVE  Call(kind, size, width, w, n) \in CallType
BY DEF Call, CallType, Arms

\* The caps leave at least one round where `--iters` asks for one.
LEMMA Capped ==
  ASSUME cli \in Cli, NEW cap \in Nat \ {0}
  PROVE  /\ Iters(cap) \in Nat \ {0} /\ Iters(cap) <= cap
         /\ Warmup(cap) \in Nat /\ Warmup(cap) <= cap
         /\ cli.iters \in Nat \ {0} /\ cli.warmup \in Nat
<1>1. cli.iters \in Nat \ {0} /\ cli.warmup \in Nat
  BY CliAssumption
<1> QED BY <1>1 DEF Iters, Warmup, AtMost

\* The sizes, which differ from one another.
LEMMA Sizes ==
  /\ TokenSizes \in Seq(Nat) /\ StoreSizes \in Seq(Nat)
  /\ DOMAIN TokenSizes = 1..Len(TokenSizes)
  /\ \A j, k \in 1..Len(StoreSizes) : StoreSizes[j] = StoreSizes[k] => j = k
<1>1. CASE cli.quick
  BY <1>1 DEF TokenSizes, StoreSizes
<1>2. CASE ~cli.quick
  BY <1>2 DEF TokenSizes, StoreSizes
<1> QED BY <1>1, <1>2

\* What the calls ask for: put_run few enough executions for a byte.
LEMMA CallsAre ==
  ASSUME cli \in Cli, NEW size \in Nat
  PROVE  /\ Count(size) \in CallType /\ RunOutput(size) \in CallType
         /\ PutRun(size) \in CallType
         /\ PutRun(size).kind = "put_run" /\ PutRun(size).arms = <<"a">>
         /\ PutRun(size).size = size
         /\ PutRun(size).warmup <= 2 /\ PutRun(size).iters <= 30
         /\ Count(size).kind = "count" /\ RunOutput(size).kind = "run_output"
<1>1. /\ Warmup(3) \in Nat /\ Warmup(2) \in Nat /\ Warmup(2) <= 2
      /\ Iters(5) \in Nat \ {0} /\ Iters(10) \in Nat \ {0} /\ Iters(30) \in Nat \ {0}
      /\ Iters(5) <= 5 /\ Iters(30) <= 30 /\ cli.iters \in Nat \ {0}
  BY Capped
<1>2. Count(size) \in CallType /\ Count(size).kind = "count"
  BY <1>1, CallIs DEF Count, Kinds, Call
<1>3. RunOutput(size) \in CallType /\ RunOutput(size).kind = "run_output"
  BY <1>1, CallIs DEF RunOutput, Kinds, Call
<1>4. PutRun(size) \in CallType
  BY <1>1, CallIs DEF PutRun, Kinds
<1>5. /\ PutRun(size).kind = "put_run" /\ PutRun(size).arms = <<"a">>
      /\ PutRun(size).size = size
      /\ PutRun(size).warmup = Warmup(2) /\ PutRun(size).iters \in {Iters(5), Iters(30)}
  BY DEF PutRun, Call
<1> QED BY <1>1, <1>2, <1>3, <1>4, <1>5

\* Sequences one after the other.
LEMMA Joined ==
  ASSUME NEW T, NEW s \in Seq(T), NEW t \in Seq(T)
  PROVE  /\ s \o t \in Seq(T) /\ Len(s \o t) = Len(s) + Len(t)
         /\ \A i \in 1..Len(s) : (s \o t)[i] = s[i]
         /\ \A i \in 1..Len(t) : (s \o t)[Len(s) + i] = t[i]
OBVIOUS

\* The last place of the suite at which the token counter is called.
Stem == Len(TokenSizes) + 2

\* Every call is one of a kind, and put_run is called once for each of its sizes.
LEMMA SuiteIs ==
  ASSUME cli \in Cli
  PROVE  /\ Suite \in Seq(CallType)
         /\ \A m \in 1..Len(Suite) : Suite[m].kind = "put_run" =>
              \E j \in 1..Len(StoreSizes) : m = Stem + 2 * j - 1 /\ Suite[m] = PutRun(StoreSizes[j])
<1> DEFINE A == <<Call("construct", 0, 1, 0, Iters(10))>>
           B == [k \in DOMAIN TokenSizes |-> Count(TokenSizes[k])]
           C == <<Call("noboundary", 4096, 2, 1, Iters(8))>>
           D == [k \in 1..(2 * Len(StoreSizes)) |->
                   IF k % 2 = 1 THEN PutRun(StoreSizes[(k + 1) \div 2]) ELSE RunOutput(StoreSizes[k \div 2])]
           E == <<Call("last_seen_hash", 64, 1, cli.warmup, cli.iters)>>
<1>1. Suite = A \o B \o C \o D \o E
  BY DEF Suite
<1>2. /\ Call("construct", 0, 1, 0, Iters(10)) \in CallType
      /\ Call("noboundary", 4096, 2, 1, Iters(8)) \in CallType
      /\ Call("last_seen_hash", 64, 1, cli.warmup, cli.iters) \in CallType
  <2>1. /\ Iters(10) \in Nat \ {0} /\ Iters(8) \in Nat \ {0}
        /\ cli.iters \in Nat \ {0} /\ cli.warmup \in Nat
    BY Capped
  <2> QED BY <2>1, CallIs DEF Kinds
<1>3. PICK a, c, e :
        /\ a \in CallType /\ c \in CallType /\ e \in CallType
        /\ A = <<a>> /\ C = <<c>> /\ E = <<e>>
        /\ a.kind # "put_run" /\ c.kind # "put_run" /\ e.kind # "put_run"
  <2>1. /\ Call("construct", 0, 1, 0, Iters(10)).kind = "construct"
        /\ Call("noboundary", 4096, 2, 1, Iters(8)).kind = "noboundary"
        /\ Call("last_seen_hash", 64, 1, cli.warmup, cli.iters).kind = "last_seen_hash"
    BY DEF Call
  <2> QED BY <1>2, <2>1
<1>4. PICK p \in Nat, q \in Nat : p = Len(TokenSizes) /\ q = Len(StoreSizes)
  <2>1. Len(TokenSizes) \in Nat /\ Len(StoreSizes) \in Nat
    BY Sizes
  <2> QED BY <2>1
<1>5. B \in Seq(CallType) /\ Len(B) = p /\ \A i \in 1..p : B[i].kind = "count"
  <2>1. DOMAIN TokenSizes = 1..p /\ \A i \in 1..p : TokenSizes[i] \in Nat
    BY <1>4, Sizes
  <2>2. \A i \in 1..p : Count(TokenSizes[i]) \in CallType /\ Count(TokenSizes[i]).kind = "count"
    BY <2>1, CallsAre
  <2>3. B = [i \in 1..p |-> Count(TokenSizes[i])]
    BY <2>1
  <2> QED BY <2>2, <2>3
<1>6. /\ D \in Seq(CallType) /\ Len(D) = 2 * q
      /\ \A i \in 1..(2 * q) : D[i].kind = "put_run" =>
           \E j \in 1..q : i = 2 * j - 1 /\ D[i] = PutRun(StoreSizes[j])
  <2>1. \A j \in 1..q : StoreSizes[j] \in Nat
    BY <1>4, Sizes
  <2>2. ASSUME NEW i \in 1..(2 * q)
        PROVE  /\ D[i] \in CallType
               /\ D[i].kind = "put_run" => \E j \in 1..q : i = 2 * j - 1 /\ D[i] = PutRun(StoreSizes[j])
    <3>1. CASE i % 2 = 1
      <4>1. PICK j \in 1..q : j = (i + 1) \div 2 /\ i = 2 * j - 1
        BY <3>1
      <4>2. D[i] = PutRun(StoreSizes[j])
        BY <1>4, <3>1, <4>1
      <4> HIDE DEF D
      <4> QED BY <2>1, <4>1, <4>2, CallsAre
    <3>2. CASE i % 2 # 1
      <4>1. PICK j \in 1..q : j = i \div 2
        BY <3>2
      <4>2. D[i] = RunOutput(StoreSizes[j])
        BY <1>4, <3>2, <4>1
      <4> HIDE DEF D
      <4> QED BY <2>1, <4>1, <4>2, CallsAre
    <3> QED BY <3>1, <3>2
  <2>3. DOMAIN D = 1..(2 * q)
    BY <1>4
  <2>4. D = [i \in 1..(2 * q) |-> D[i]]
    BY <1>4
  <2> HIDE DEF D
  <2>5. D \in Seq(CallType) /\ Len(D) = 2 * q
    BY <2>2, <2>3, <2>4
  <2> QED BY <2>2, <2>5
<1> HIDE DEF A, B, C, D, E
<1>7. /\ Suite \in Seq(CallType) /\ Len(Suite) = p + 2 * q + 3
      /\ Suite[1] = a
      /\ \A i \in 1..p : Suite[1 + i] = B[i]
      /\ Suite[p + 2] = c
      /\ \A i \in 1..(2 * q) : Suite[p + 2 + i] = D[i]
      /\ Suite[p + 2 * q + 3] = e
  <2>0. /\ A \in Seq(CallType) /\ Len(A) = 1 /\ A[1] = a
        /\ C \in Seq(CallType) /\ Len(C) = 1 /\ C[1] = c
        /\ E \in Seq(CallType) /\ Len(E) = 1 /\ E[1] = e
    BY <1>3
  <2>1. /\ A \o B \in Seq(CallType) /\ Len(A \o B) = 1 + p
        /\ \A i \in 1..1 : (A \o B)[i] = A[i]
        /\ \A i \in 1..p : (A \o B)[1 + i] = B[i]
    <3>0. A \in Seq(CallType) /\ B \in Seq(CallType)
      BY <1>5, <2>0
    <3>1. /\ A \o B \in Seq(CallType) /\ Len(A \o B) = Len(A) + Len(B)
          /\ \A i \in 1..Len(A) : (A \o B)[i] = A[i]
          /\ \A i \in 1..Len(B) : (A \o B)[Len(A) + i] = B[i]
      BY <3>0, Joined
    <3> QED BY <1>5, <2>0, <3>1
  <2>2. PICK ab : ab = A \o B
    OBVIOUS
  <2>3. /\ ab \o C \in Seq(CallType) /\ Len(ab \o C) = 1 + p + 1
        /\ \A i \in 1..(1 + p) : (ab \o C)[i] = ab[i]
        /\ \A i \in 1..1 : (ab \o C)[1 + p + i] = C[i]
    <3>1. ab \in Seq(CallType) /\ 1 + p \in Nat /\ 1 + p = Len(ab)
      BY <2>1, <2>2
    <3>2. ab \in Seq(CallType) /\ C \in Seq(CallType)
      BY <2>0, <3>1
    <3>3. /\ ab \o C \in Seq(CallType) /\ Len(ab \o C) = Len(ab) + Len(C)
          /\ \A i \in 1..Len(ab) : (ab \o C)[i] = ab[i]
          /\ \A i \in 1..Len(C) : (ab \o C)[Len(ab) + i] = C[i]
      BY <3>2, Joined
    <3> QED BY <2>0, <3>1, <3>3
  <2>4. PICK abc : abc = ab \o C
    OBVIOUS
  <2>5. /\ abc \o D \in Seq(CallType) /\ Len(abc \o D) = p + 2 + 2 * q
        /\ \A i \in 1..(p + 2) : (abc \o D)[i] = abc[i]
        /\ \A i \in 1..(2 * q) : (abc \o D)[p + 2 + i] = D[i]
    <3>1. abc \in Seq(CallType) /\ p + 2 \in Nat /\ p + 2 = Len(abc) /\ 2 * q \in Nat
      BY <2>3, <2>4
    <3>2. abc \in Seq(CallType) /\ D \in Seq(CallType)
      BY <1>6, <3>1
    <3>3. /\ abc \o D \in Seq(CallType) /\ Len(abc \o D) = Len(abc) + Len(D)
          /\ \A i \in 1..Len(abc) : (abc \o D)[i] = abc[i]
          /\ \A i \in 1..Len(D) : (abc \o D)[Len(abc) + i] = D[i]
      BY <3>2, Joined
    <3> QED BY <1>6, <3>1, <3>3
  <2>6. PICK abcd : abcd = abc \o D
    OBVIOUS
  <2>7. /\ abcd \o E \in Seq(CallType) /\ Len(abcd \o E) = p + 2 + 2 * q + 1
        /\ \A i \in 1..(p + 2 + 2 * q) : (abcd \o E)[i] = abcd[i]
        /\ \A i \in 1..1 : (abcd \o E)[p + 2 + 2 * q + i] = E[i]
    <3>1. abcd \in Seq(CallType) /\ p + 2 + 2 * q \in Nat /\ p + 2 + 2 * q = Len(abcd)
      BY <2>5, <2>6
    <3>2. abcd \in Seq(CallType) /\ E \in Seq(CallType)
      BY <2>0, <3>1
    <3>3. /\ abcd \o E \in Seq(CallType) /\ Len(abcd \o E) = Len(abcd) + Len(E)
          /\ \A i \in 1..Len(abcd) : (abcd \o E)[i] = abcd[i]
          /\ \A i \in 1..Len(E) : (abcd \o E)[Len(abcd) + i] = E[i]
      BY <3>2, Joined
    <3> QED BY <2>0, <3>1, <3>3
  <2>8. Suite = abcd \o E
    BY <1>1, <2>2, <2>4, <2>6
  <2>9. Suite \in Seq(CallType) /\ Len(Suite) = p + 2 * q + 3 /\ Suite[p + 2 * q + 3] = e
    <3>1. p + 2 + 2 * q + 1 = p + 2 * q + 3
      OBVIOUS
    <3> QED BY <2>0, <2>7, <2>8, <3>1
  <2>10. \A i \in 1..(p + 2 + 2 * q) : Suite[i] = abcd[i]
    BY <2>7, <2>8
  <2>11. ASSUME NEW i \in 1..(2 * q) PROVE Suite[p + 2 + i] = D[i]
    <3>1. p + 2 + i \in 1..(p + 2 + 2 * q)
      OBVIOUS
    <3> QED BY <2>5, <2>6, <2>10, <3>1
  <2>12. ASSUME NEW i \in 1..(p + 2) PROVE Suite[i] = abc[i]
    <3>1. i \in 1..(p + 2 + 2 * q)
      OBVIOUS
    <3> QED BY <2>5, <2>6, <2>10, <3>1
  <2>13. Suite[p + 2] = c
    <3>1. p + 2 \in 1..(p + 2) /\ 1 + p + 1 = p + 2
      OBVIOUS
    <3>2. (ab \o C)[1 + p + 1] = C[1]
      BY <2>3
    <3> QED BY <2>0, <2>4, <2>12, <3>1, <3>2
  <2>14. ASSUME NEW i \in 1..(1 + p) PROVE Suite[i] = ab[i]
    <3>1. i \in 1..(p + 2)
      OBVIOUS
    <3> QED BY <2>3, <2>4, <2>12, <3>1
  <2>15. Suite[1] = a
    <3>1. 1 \in 1..(1 + p)
      OBVIOUS
    <3> QED BY <2>0, <2>1, <2>2, <2>14, <3>1
  <2>16. ASSUME NEW i \in 1..p PROVE Suite[1 + i] = B[i]
    <3>1. 1 + i \in 1..(1 + p)
      OBVIOUS
    <3> QED BY <2>1, <2>2, <2>14, <3>1
  <2> QED BY <2>9, <2>11, <2>13, <2>15, <2>16
<1>8. ASSUME NEW m \in 1..Len(Suite), Suite[m].kind = "put_run"
      PROVE  \E j \in 1..q : m = p + 2 + 2 * j - 1 /\ Suite[m] = PutRun(StoreSizes[j])
  <2>1. m # 1 /\ m # p + 2 /\ m # p + 2 * q + 3
    BY <1>3, <1>7, <1>8
  <2>2. CASE m \in 2..(p + 1)
    <3>1. PICK i \in 1..p : m = 1 + i
      BY <2>2
    <3> QED BY <1>5, <1>7, <1>8, <3>1
  <2>3. CASE m \in (p + 3)..(p + 2 + 2 * q)
    <3>1. PICK i \in 1..(2 * q) : m = p + 2 + i
      BY <2>3
    <3>2. PICK j \in 1..q : i = 2 * j - 1 /\ D[i] = PutRun(StoreSizes[j])
      BY <1>6, <1>7, <1>8, <3>1
    <3> QED BY <1>7, <3>1, <3>2
  <2> QED BY <1>7, <2>1, <2>2, <2>3
<1> QED BY <1>4, <1>7, <1>8 DEF Stem

\* While put_run is timed the byte counts its executions, of which there are few.
Writing ==
  /\ byte = done /\ done \in Nat
  /\ call.arms = <<"a">> /\ call.warmup \in 0..2 /\ call.iters \in 1..30

\* What the store holds but the runs to read back was written by an earlier call of
\* put_run, or by an earlier execution of this one.
Written(e) ==
  \E m \in 1..Len(Suite) :
    /\ m <= item /\ Suite[m].kind = "put_run" /\ Suite[m].size = e[1]
    /\ m = item => pc # "idle" /\ e[2] <= byte

\* The invariant of the suite.
SuiteInv ==
  /\ RunnerInv
  /\ cli \in Cli /\ item \in Nat \ {0}
  /\ pc = "timing" => item <= Len(Suite)
  /\ pc = "timing" /\ This.kind = "put_run" => Writing
  /\ stored \subseteq Nat \X Nat
  /\ \A e \in stored : e[2] = 0 \/ Written(e)

\* The calls depend on the arguments only.
LEMMA SuiteStays ==
  ASSUME cli' = cli
  PROVE  Suite' = Suite
BY DEF Suite, TokenSizes, StoreSizes, Count, PutRun, RunOutput, Iters, Warmup, Call

\* Where the runner does nothing, its invariant stays.
LEMMA RunnerStays ==
  ASSUME RunnerInv, UNCHANGED <<call, done, trend, time, cold, samples, spent, log, answer>>,
         pc' = pc \/ pc' # "timing"
  PROVE  RunnerInv'
<1>1. Width' = Width /\ Executions' = Executions /\ First' = First
  BY DEF Width, Executions, First
<1>2. Counting => Counting'
  BY <1>1 DEF Counting, Paired, Turn, Drifts
<1>3. Answered => Answered'
  BY <1>1 DEF Answered, Cold, Warm
<1> QED BY <1>2, <1>3 DEF RunnerInv

\* put_run is called once for each of its sizes.
LEMMA PutRunsDiffer ==
  ASSUME cli \in Cli, NEW m \in 1..Len(Suite), NEW n \in 1..Len(Suite),
         Suite[m].kind = "put_run", Suite[n].kind = "put_run", Suite[m].size = Suite[n].size
  PROVE  m = n
<1>1. PICK j \in 1..Len(StoreSizes) : m = Stem + 2 * j - 1 /\ Suite[m] = PutRun(StoreSizes[j])
  BY SuiteIs
<1>2. PICK k \in 1..Len(StoreSizes) : n = Stem + 2 * k - 1 /\ Suite[n] = PutRun(StoreSizes[k])
  BY SuiteIs
<1>3. StoreSizes[j] \in Nat /\ StoreSizes[k] \in Nat
  BY Sizes
<1>4. StoreSizes[j] = StoreSizes[k]
  BY <1>1, <1>2, <1>3, CallsAre
<1> QED BY <1>1, <1>2, <1>4, Sizes

\* The suite's steps, one at a time: a call begins.
LEMMA Begun ==
  ASSUME SuiteInv, BeginItem
  PROVE  SuiteInv'
<1>1. /\ cli \in Cli /\ item \in 1..Len(Suite) /\ pc = "idle" /\ pc' = "timing"
      /\ cli' = cli /\ item' = item /\ log' = log /\ answer' = <<>> /\ done' = 0
      /\ call' = [arms |-> This.arms, warmup |-> This.warmup, iters |-> This.iters]
      /\ byte' = IF This.kind = "put_run" THEN 0 ELSE byte
      /\ stored' = IF This.kind = "run_output" THEN stored \cup {<<This.size, 0>>} ELSE stored
  <2>1. Len(Suite) \in Nat
    BY SuiteIs DEF SuiteInv
  <2> QED BY <2>1 DEF SuiteInv, BeginItem, Begin
<1>2. Suite' = Suite /\ This' = This
  BY <1>1, SuiteStays DEF This
<1>3. This \in CallType
  BY <1>1, SuiteIs DEF This
<1>4. RunnerInv'
  <2>1. This.arms \in Arms /\ This.warmup \in Nat /\ This.iters \in Nat \ {0}
    BY <1>3 DEF CallType
  <2>2. Begin(This.arms, This.warmup, This.iters)
    BY DEF BeginItem
  <2>3. Counting'
    BY <2>1, <2>2, BeginCounts
  <2>4. \E S : log \in Seq(S)
    BY DEF SuiteInv, RunnerInv
  <2> QED BY <1>1, <2>3, <2>4 DEF RunnerInv
<1>5. ASSUME This.kind = "put_run" PROVE Writing'
  <2>1. PICK j \in 1..Len(StoreSizes) : This = PutRun(StoreSizes[j])
    BY <1>1, <1>5, SuiteIs DEF This
  <2>2. StoreSizes[j] \in Nat
    BY Sizes
  <2>3. This.arms = <<"a">> /\ This.warmup <= 2 /\ This.iters <= 30
    BY <1>1, <2>1, <2>2, CallsAre
  <2>4. This.warmup \in Nat /\ This.iters \in Nat \ {0}
    BY <1>3 DEF CallType
  <2>5. This.warmup \in 0..2 /\ This.iters \in 1..30
    <3>1. PICK w \in Nat, n \in Nat \ {0} : w = This.warmup /\ n = This.iters
      BY <2>4
    <3>2. w <= 2 /\ n <= 30
      BY <2>3, <3>1
    <3>3. w \in 0..2 /\ n \in 1..30
      BY <3>2
    <3> QED BY <3>1, <3>3
  <2>6. call'.arms = <<"a">> /\ call'.warmup \in 0..2 /\ call'.iters \in 1..30
    BY <1>1, <2>3, <2>5
  <2>7. byte' = done' /\ done' \in Nat
    BY <1>1, <1>5
  <2> QED BY <2>6, <2>7 DEF Writing
<1>6. ASSUME NEW e \in stored', e[2] # 0 PROVE Written(e)'
  <2>1. e \in stored
    BY <1>1, <1>6
  <2>2. PICK m \in 1..Len(Suite) : /\ m <= item /\ Suite[m].kind = "put_run" /\ Suite[m].size = e[1]
                                   /\ m = item => pc # "idle" /\ e[2] <= byte
    BY <1>6, <2>1 DEF SuiteInv, Written
  <2>3. m # item
    BY <1>1, <2>2
  <2> QED BY <1>1, <1>2, <2>2, <2>3 DEF Written
<1>7. pc' = "timing" => item' <= Len(Suite')
  BY <1>1, <1>2
<1>8. stored' \subseteq Nat \X Nat
  <2>1. This.size \in Nat
    BY <1>3 DEF CallType
  <2> QED BY <1>1, <2>1 DEF SuiteInv
<1> QED BY <1>1, <1>2, <1>4, <1>5, <1>6, <1>7, <1>8 DEF SuiteInv

\* An execution of put_run is given the next byte.
LEMMA NextByte ==
  ASSUME SuiteInv, Execute, This.kind = "put_run"
  PROVE  /\ item \in 1..Len(Suite) /\ byte \in Nat /\ byte = done
         /\ Payload = byte + 1 /\ done' = done + 1 /\ Writing
<1>1. pc = "timing" /\ done < Executions /\ done' = done + 1
  BY DEF Execute
<1>2. Writing /\ item \in 1..Len(Suite)
  <2>1. Len(Suite) \in Nat
    BY SuiteIs DEF SuiteInv
  <2> QED BY <1>1, <2>1 DEF SuiteInv
<1>3. PICK w \in 0..2, n \in 1..30 : w = call.warmup /\ n = call.iters
  BY <1>2 DEF Writing
<1>4. Executions = 1 + w + n
  <2>1. Width = 1
    BY <1>2 DEF Writing, Width
  <2> QED BY <1>3, <2>1 DEF Executions
<1>5. byte \in Nat /\ byte = done /\ byte < 33
  <2>1. byte \in Nat /\ byte = done
    BY <1>2 DEF Writing
  <2> QED BY <1>1, <1>3, <1>4, <2>1
<1>6. Payload = byte + 1
  BY <1>5 DEF Payload
<1> QED BY <1>1, <1>2, <1>5, <1>6

\* An execution, of put_run or of another call.
LEMMA Executed ==
  ASSUME SuiteInv, ExecuteItem
  PROVE  SuiteInv'
<1>1. /\ cli \in Cli /\ item \in Nat \ {0} /\ pc = "timing" /\ pc' = "timing"
      /\ item <= Len(Suite) /\ answer = <<>> /\ Counting
      /\ Execute /\ cli' = cli /\ item' = item /\ log' = log /\ answer' = answer /\ call' = call
  BY DEF SuiteInv, RunnerInv, ExecuteItem, Execute
<1>2. Suite' = Suite /\ This' = This
  BY <1>1, SuiteStays DEF This
<1>3. RunnerInv'
  <2>1. Counting'
    BY <1>1, ExecuteCounts
  <2>2. \E S : log \in Seq(S)
    BY DEF SuiteInv, RunnerInv
  <2> QED BY <1>1, <2>1, <2>2 DEF RunnerInv
<1>4. CASE This.kind = "put_run"
  <2>1. /\ item \in 1..Len(Suite) /\ byte \in Nat /\ byte = done
        /\ Payload = byte + 1 /\ done' = done + 1 /\ Writing
    BY <1>1, <1>4, NextByte
  <2>2. byte' = byte + 1 /\ stored' = stored \cup {<<This.size, byte + 1>>}
    BY <1>4, <2>1 DEF ExecuteItem
  <2>3. Writing'
    BY <1>1, <2>1, <2>2 DEF Writing
  <2>4. ASSUME NEW e \in stored', e[2] # 0 PROVE Written(e)'
    <3>1. CASE e \in stored
      <4>1. PICK m \in 1..Len(Suite) : /\ m <= item /\ Suite[m].kind = "put_run" /\ Suite[m].size = e[1]
                                       /\ m = item => pc # "idle" /\ e[2] <= byte
        BY <2>4, <3>1 DEF SuiteInv, Written
      <4>2. CASE m = item
        <5>1. SUFFICES e[2] <= byte'
          BY <1>1, <1>2, <2>1, <4>1, <4>2 DEF Written
        <5>2. e[2] \in Nat
          BY <3>1 DEF SuiteInv
        <5> QED BY <1>1, <2>1, <2>2, <4>1, <4>2, <5>2
      <4>3. CASE m # item
        BY <1>1, <1>2, <4>1, <4>3 DEF Written
      <4> QED BY <4>2, <4>3
    <3>2. CASE e = <<This.size, byte + 1>>
      <4>1. e[1] = Suite[item].size /\ e[2] <= byte' /\ Suite[item].kind = "put_run"
        BY <1>4, <2>1, <2>2, <3>2 DEF This
      <4> QED BY <1>1, <1>2, <2>1, <4>1 DEF Written
    <3> QED BY <2>2, <3>1, <3>2
  <2>5. stored' \subseteq Nat \X Nat
    <3>1. This.size \in Nat
      <4>1. This \in CallType
        BY <1>1, <2>1, SuiteIs DEF This
      <4> QED BY <4>1 DEF CallType
    <3> QED BY <2>1, <2>2, <3>1 DEF SuiteInv
  <2> QED BY <1>1, <1>2, <1>3, <2>3, <2>4, <2>5 DEF SuiteInv
<1>5. CASE This.kind # "put_run"
  <2>1. byte' = byte /\ stored' = stored
    BY <1>5 DEF ExecuteItem
  <2>2. ASSUME NEW e \in stored', e[2] # 0 PROVE Written(e)'
    <3>1. Written(e)
      BY <2>1, <2>2 DEF SuiteInv
    <3> QED BY <1>1, <1>2, <2>1, <3>1 DEF Written
  <2>3. stored' \subseteq Nat \X Nat
    BY <2>1 DEF SuiteInv
  <2> QED BY <1>1, <1>2, <1>3, <1>5, <2>2, <2>3 DEF SuiteInv
<1> QED BY <1>4, <1>5

\* A call ends, and the next one is due.
LEMMA ReportedItem ==
  ASSUME SuiteInv, ReportItem
  PROVE  SuiteInv'
<1>1. /\ cli \in Cli /\ item \in Nat \ {0} /\ pc' = "idle"
      /\ cli' = cli /\ item' = item + 1 /\ byte' = byte /\ stored' = stored
  BY DEF SuiteInv, ReportItem, Report
<1>2. Suite' = Suite
  BY <1>1, SuiteStays
<1>3. RunnerInv'
  BY ReportAnswers DEF SuiteInv, ReportItem
<1>4. ASSUME NEW e \in stored', e[2] # 0 PROVE Written(e)'
  <2>1. PICK m \in 1..Len(Suite) : m <= item /\ Suite[m].kind = "put_run" /\ Suite[m].size = e[1]
    BY <1>1, <1>4 DEF SuiteInv, Written
  <2>2. m <= item' /\ m # item'
    <3>1. m \in Int
      OBVIOUS
    <3> QED BY <1>1, <2>1, <3>1
  <2> QED BY <1>2, <2>1, <2>2 DEF Written
<1>5. stored' \subseteq Nat \X Nat
  BY <1>1 DEF SuiteInv
<1>6. item' \in Nat \ {0} /\ pc' # "timing"
  BY <1>1
<1> QED BY <1>1, <1>3, <1>4, <1>5, <1>6 DEF SuiteInv

\* A failure, the append, and no step at all.
LEMMA Stopped ==
  ASSUME SuiteInv, ItemFails \/ AppendLog \/ UNCHANGED suiteVars
  PROVE  SuiteInv'
<1>1. /\ UNCHANGED <<call, done, trend, time, cold, samples, spent, log, answer, cli, item, byte, stored>>
      /\ pc' = pc \/ pc' \notin {"idle", "timing"}
  BY DEF ItemFails, AppendLog, suiteVars, vars
<1>2. Suite' = Suite /\ This' = This
  BY <1>1, SuiteStays DEF This
<1>3. RunnerInv'
  BY <1>1, RunnerStays DEF SuiteInv
<1>4. ASSUME NEW e \in stored', e[2] # 0 PROVE Written(e)'
  <2>1. Written(e)
    BY <1>1, <1>4 DEF SuiteInv
  <2> QED BY <1>1, <1>2, <2>1 DEF Written
<1>5. pc' = "timing" => /\ item' <= Len(Suite')
                        /\ This'.kind = "put_run" => Writing'
  BY <1>1, <1>2 DEF SuiteInv, Writing
<1>6. cli' \in Cli /\ item' \in Nat \ {0} /\ stored' \subseteq Nat \X Nat
  BY <1>1 DEF SuiteInv
<1> QED BY <1>3, <1>4, <1>5, <1>6 DEF SuiteInv

\* It holds throughout.
LEMMA SuiteInvHolds == SuiteSpec => []SuiteInv
<1>1. SuiteInit => SuiteInv
  <2> SUFFICES ASSUME SuiteInit PROVE SuiteInv
    OBVIOUS
  <2>1. /\ pc = "idle" /\ log = <<>> /\ answer = <<>> /\ cli \in Cli /\ item = 1 /\ stored = {}
    BY DEF SuiteInit, Init
  <2>2. log \in Seq({})
    BY <2>1
  <2> QED BY <2>1, <2>2 DEF SuiteInv, RunnerInv
<1>2. SuiteInv /\ [SuiteNext]_suiteVars => SuiteInv'
  <2> SUFFICES ASSUME SuiteInv, [SuiteNext]_suiteVars PROVE SuiteInv'
    OBVIOUS
  <2>1. CASE BeginItem
    BY <2>1, Begun
  <2>2. CASE ExecuteItem
    BY <2>2, Executed
  <2>3. CASE ReportItem
    BY <2>3, ReportedItem
  <2>4. CASE ItemFails \/ AppendLog \/ UNCHANGED suiteVars
    BY <2>4, Stopped
  <2> QED BY <2>1, <2>2, <2>3, <2>4 DEF SuiteNext
<1> QED BY <1>1, <1>2, PTL DEF SuiteSpec

\* "Each iteration writes distinct bytes" (main.rs:198): put_run is never given a
\* content that the store already has, of an earlier call or an earlier execution.
THEOREM NoContentTwice == SuiteSpec => WritesAreNew
<1>1. SuiteInv /\ [SuiteNext]_suiteVars =>
        [ExecuteItem /\ This.kind = "put_run" => <<This.size, byte'>> \notin stored]_suiteVars
  <2> SUFFICES ASSUME SuiteInv, ExecuteItem, This.kind = "put_run", <<This.size, byte'>> \in stored
               PROVE  FALSE
    OBVIOUS
  <2>1. /\ item \in 1..Len(Suite) /\ byte \in Nat /\ Payload = byte + 1 /\ cli \in Cli
        /\ byte' = byte + 1
    <3>1. Execute
      BY DEF ExecuteItem
    <3> QED BY <3>1, NextByte DEF SuiteInv, ExecuteItem
  <2>2. PICK e \in stored : e[1] = This.size /\ e[2] = byte + 1
    BY <2>1
  <2>3. Written(e)
    BY <2>1, <2>2 DEF SuiteInv
  <2>4. PICK m \in 1..Len(Suite) : /\ Suite[m].kind = "put_run" /\ Suite[m].size = e[1]
                                   /\ m = item => e[2] <= byte
    BY <2>3 DEF Written
  <2>5. m = item
    BY <2>1, <2>2, <2>4, PutRunsDiffer DEF This
  <2> QED BY <2>1, <2>2, <2>4, <2>5
<1> QED BY <1>1, SuiteInvHolds, PTL DEF SuiteSpec, WritesAreNew

-----------------------------------------------------------------------------
(* What a call answers.                                                      *)

\* The statistics of a sample.
LEMMA StatsAre ==
  ASSUME NEW s \in Seq(Nat), Len(s) # 0
  PROVE  /\ StatsOf(s).n = Len(s)
         /\ \A p \in {50, 95} : Quantile(StatsOf(s), p) = Percentile(Ascending(s), p)
BY DEF StatsOf, Quantile

\* A measurement's statistics are those of its own sample.
Measured(m, s) ==
  /\ m.stats.n = Len(s)
  /\ \A p \in {50, 95} : NearestRank(s, p, Quantile(m.stats, p))

\* What StatsOf makes of a sample measures it.
LEMMA MeasuredIs ==
  ASSUME NEW s \in Seq(Nat), Len(s) # 0, NEW m, m.stats = StatsOf(s)
  PROVE  Measured(m, s)
<1>1. ASSUME NEW p \in {50, 95} PROVE NearestRank(s, p, Quantile(m.stats, p))
  BY PercentileIsNearest, StatsAre
<1> QED BY <1>1, StatsAre DEF Measured

\* At the end of a call an arm has a sample for each of its rounds.
LEMMA EachRound ==
  ASSUME Counting, done = Executions
  PROVE  /\ Len(spent) = Width * call.iters
         /\ Width = 1 => samples["a"] = spent
         /\ Width = 2 => \A x \in Arm : Len(samples[x]) = call.iters
<1>1. PICK n \in Nat \ {0}, f \in Nat, t \in Nat :
        n = call.iters /\ f = First /\ t = Len(spent)
  BY Totals DEF Counting
<1>2. Executions = f + Width * n /\ f < Executions /\ (Width = 1 \/ Width = 2)
  BY <1>1, Totals, Widths DEF Counting
<1>3. t = Width * n
  <2>1. t = IF Executions > f THEN Executions - f ELSE 0
    BY <1>1 DEF Counting
  <2> QED BY <1>1, <1>2, <2>1
<1>4. ASSUME Width = 2, NEW x \in Arm PROVE Len(samples[x]) = n
  <2>1. PICK m \in Nat : m = Len(samples[x])
    BY DEF Counting
  <2>2. /\ Turn(x, m + 1) > 2 * n
        /\ \A i \in 1..m : Turn(x, i) <= 2 * n
    BY <1>1, <1>3, <1>4, <2>1 DEF Counting, Paired
  <2>3. m + 1 \in Nat \ {0}
    BY <2>1
  <2>4. Turn(x, m + 1) = 2 * (m + 1) - 1 \/ Turn(x, m + 1) = 2 * (m + 1)
    BY <2>3, Turns
  <2>5. m >= n
    BY <1>1, <2>1, <2>2, <2>4
  <2>6. m <= n
    <3>1. CASE m = 0
      BY <1>1, <3>1
    <3>2. CASE m # 0
      <4>1. m \in Nat \ {0} /\ m \in 1..m
        BY <2>1, <3>2
      <4>2. Turn(x, m) = 2 * m - 1 \/ Turn(x, m) = 2 * m
        BY <4>1, Turns
      <4>3. Turn(x, m) <= 2 * n
        BY <2>2, <4>1
      <4> QED BY <1>1, <2>1, <4>2, <4>3
    <3> QED BY <3>1, <3>2
  <2> QED BY <1>1, <2>1, <2>5, <2>6
<1> QED BY <1>1, <1>3, <1>4 DEF Counting

\* "The arms are still reported separately" (harness.rs:244): an answer has the arms
\* of its call, and each measurement the nearest ranks of its own executions.
THEOREM AnswersAreOwn == SuiteSpec => []AnswersItsOwn
<1>1. SuiteInv => AnswersItsOwn
  <2> SUFFICES ASSUME SuiteInv, Reported PROVE AnswersItsOwn
    BY DEF AnswersItsOwn
  <2>1. Counting /\ Answered
    BY DEF SuiteInv, RunnerInv, Reported
  <2>2. PICK n \in Nat \ {0} : n = call.iters
    BY <2>1 DEF Counting
  <2>3. /\ samples \in [Arm -> Seq(Nat)] /\ cold \in [Arm -> Nat] /\ spent \in Seq(Nat)
        /\ "a" \in Arm /\ "b" \in Arm
    BY <2>1 DEF Counting, Arm
  <2>4. /\ Width = 1 \/ Width = 2
        /\ call.arms[1] = "a" /\ (Width = 2 => call.arms[2] = "b")
    BY <2>1, Widths DEF Counting
  <2>5. /\ Len(spent) = Width * n
        /\ Width = 1 => samples["a"] = spent
        /\ Width = 2 => \A x \in Arm : Len(samples[x]) = n
    BY <2>1, <2>2, EachRound DEF Answered
  <2>6. CASE Width = 1
    <3>1. answer = <<Cold("a"), Warm("a")>>
      BY <2>1, <2>6 DEF Answered
    <3>2. samples["a"] \in Seq(Nat) /\ Len(samples["a"]) = n
      BY <2>2, <2>3, <2>5, <2>6
    <3>3. <<cold["a"]>> \in Seq(Nat) /\ Len(<<cold["a"]>>) = 1
      BY <2>3
    <3>4. /\ Cold("a").arm = "a" /\ Cold("a").thermal = "cold" /\ Cold("a").stats = StatsOf(<<cold["a"]>>)
          /\ Warm("a").arm = "a" /\ Warm("a").thermal = "warm" /\ Warm("a").stats = StatsOf(samples["a"])
      BY DEF Cold, Warm
    <3>5. Measured(Cold("a"), <<cold["a"]>>) /\ Measured(Warm("a"), samples["a"])
      <4>1. Len(samples["a"]) # 0 /\ Len(<<cold["a"]>>) # 0
        BY <2>2, <3>2, <3>3
      <4>2. Measured(Cold("a"), <<cold["a"]>>)
        BY <3>3, <3>4, <4>1, MeasuredIs
      <4>3. Measured(Warm("a"), samples["a"])
        BY <3>2, <3>4, <4>1, MeasuredIs
      <4> QED BY <4>2, <4>3
    <3>6. answer[1] = Cold("a") /\ answer[2] = Warm("a")
      BY <3>1
    <3> QED BY <2>2, <2>4, <2>6, <3>2, <3>3, <3>4, <3>5, <3>6 DEF AnswersItsOwn, Measured
  <2>7. CASE Width = 2
    <3>1. answer = <<Warm("a"), Warm("b")>>
      BY <2>1, <2>7 DEF Answered
    <3>2. \A x \in Arm : samples[x] \in Seq(Nat) /\ Len(samples[x]) = n
      BY <2>3, <2>5, <2>7
    <3>3. \A x \in Arm : Warm(x).arm = x /\ Warm(x).thermal = "warm" /\ Warm(x).stats = StatsOf(samples[x])
      BY DEF Warm
    <3>4. \A x \in Arm : Measured(Warm(x), samples[x])
      <4>1. SUFFICES ASSUME NEW x \in Arm PROVE Measured(Warm(x), samples[x])
        OBVIOUS
      <4>2. samples[x] \in Seq(Nat) /\ Len(samples[x]) # 0 /\ Warm(x).stats = StatsOf(samples[x])
        BY <2>2, <3>2, <3>3
      <4> QED BY <4>2, MeasuredIs
    <3>5. answer[1] = Warm("a") /\ answer[2] = Warm("b")
      BY <3>1
    <3>6. call.arms[1] = "a" /\ call.arms[2] = "b" /\ call.arms[1] \in Arm /\ call.arms[2] \in Arm
      BY <2>3, <2>4, <2>7
    <3>7. ASSUME NEW k \in {1, 2}
          PROVE  /\ answer[k].arm = call.arms[k] /\ answer[k].thermal = "warm"
                 /\ Len(samples[call.arms[k]]) = call.iters
                 /\ Measured(answer[k], samples[call.arms[k]])
      <4>1. k = 1 \/ k = 2
        OBVIOUS
      <4>2. answer[k] = Warm(call.arms[k]) /\ call.arms[k] \in Arm
        BY <3>5, <3>6, <4>1
      <4> QED BY <2>2, <3>2, <3>3, <3>4, <4>2
    <3> QED BY <2>7, <3>7 DEF AnswersItsOwn, Measured
  <2> QED BY <2>4, <2>6, <2>7
<1> QED BY <1>1, SuiteInvHolds, PTL

-----------------------------------------------------------------------------
(* What drift does to a comparison.                                          *)

\* The round a percentile falls into: the sorted samples of an arm are its samples
\* in their order, or in the opposite one.
RoundOf(k, n) == IF trend = "slower" THEN k ELSE n + 1 - k

\* Either arm's percentile is an execution of that round.
LEMMA QuantileIsTurn ==
  ASSUME Counting, done = Executions, Width = 2, NEW x \in Arm, NEW p \in {50, 95},
         NEW n \in Nat \ {0}, n = call.iters
  PROVE  /\ RoundOf(Rank(p, n), n) \in 1..n
         /\ Percentile(Ascending(samples[x]), p) = spent[Turn(x, RoundOf(Rank(p, n), n))]
<1>1. /\ samples[x] \in Seq(Nat) /\ Len(samples[x]) = n /\ Len(spent) = 2 * n /\ spent \in Seq(Nat)
      /\ Paired(x)
  BY EachRound DEF Counting
<1>2. PICK k \in 1..n : k = Rank(p, n)
  BY RankIs
<1>3. PICK v : v = Percentile(Ascending(samples[x]), p) /\ At(samples[x], k, v)
  BY <1>1, <1>2, PercentileAt
<1>4. \A i \in 1..n : Turn(x, i) \in 1..(2 * n) /\ samples[x][i] = spent[Turn(x, i)]
  <2> SUFFICES ASSUME NEW i \in 1..n
               PROVE  Turn(x, i) \in 1..(2 * n) /\ samples[x][i] = spent[Turn(x, i)]
    OBVIOUS
  <2>1. i \in Nat \ {0}
    OBVIOUS
  <2>2. Turn(x, i) = 2 * i - 1 \/ Turn(x, i) = 2 * i
    BY <2>1, Turns
  <2>3. \A j \in 1..n : Turn(x, j) <= 2 * n /\ samples[x][j] = spent[Turn(x, j)]
    BY <1>1 DEF Paired
  <2>4. Turn(x, i) <= 2 * n /\ samples[x][i] = spent[Turn(x, i)]
    BY <2>3
  <2> QED BY <2>1, <2>2, <2>4
<1>5. ASSUME NEW i \in 1..n, NEW j \in 1..n, i <= j
      PROVE  Drifts(samples[x][i], samples[x][j])
  <2>1. Turn(x, i) <= Turn(x, j)
    <3>0. i \in Nat \ {0} /\ j \in Nat \ {0}
      OBVIOUS
    <3>1. Turn(x, i) = 2 * i - 1 \/ Turn(x, i) = 2 * i
      BY <3>0, Turns
    <3>2. Turn(x, j) = 2 * j - 1 \/ Turn(x, j) = 2 * j
      BY <3>0, Turns
    <3>3. CASE i = j
      BY <3>1, <3>3
    <3>4. CASE i # j
      BY <1>5, <3>0, <3>1, <3>2, <3>4
    <3> QED BY <3>3, <3>4
  <2>2. \A u, w \in 1..Len(spent) : u <= w => Drifts(spent[u], spent[w])
    BY DEF Counting
  <2>3. Turn(x, i) \in 1..Len(spent) /\ Turn(x, j) \in 1..Len(spent)
    BY <1>1, <1>4
  <2>4. Drifts(spent[Turn(x, i)], spent[Turn(x, j)])
    BY <2>1, <2>2, <2>3
  <2> QED BY <1>4, <2>4
<1>6. CASE trend = "slower"
  <2>1. Rising(samples[x])
    BY <1>1, <1>5, <1>6 DEF Drifts, Rising
  <2>2. v = samples[x][k]
    <3>1. PICK s : s = samples[x]
      OBVIOUS
    <3>2. s \in Seq(Nat) /\ Len(s) = n /\ At(s, k, v) /\ Rising(s)
      BY <1>1, <1>3, <2>1, <3>1
    <3>3. k \in 1..Len(s)
      BY <3>2
    <3> QED BY <3>1, <3>2, <3>3, PlaceOfRising
  <2> QED BY <1>2, <1>3, <1>4, <1>6, <2>2 DEF RoundOf
<1>7. CASE trend # "slower"
  <2>1. Falling(samples[x])
    BY <1>1, <1>5, <1>7 DEF Drifts, Falling
  <2>2. v = samples[x][n + 1 - k]
    <3>1. PICK s : s = samples[x]
      OBVIOUS
    <3>2. s \in Seq(Nat) /\ Len(s) = n /\ At(s, k, v) /\ Falling(s)
      BY <1>1, <1>3, <2>1, <3>1
    <3>3. k \in 1..Len(s)
      BY <3>2
    <3>4. v = s[Len(s) + 1 - k]
      BY <3>2, <3>3, PlaceOfFalling
    <3> QED BY <3>1, <3>2, <3>4
  <2>3. n + 1 - k \in 1..n
    OBVIOUS
  <2> QED BY <1>2, <1>3, <1>4, <1>7, <2>2, <2>3 DEF RoundOf
<1> QED BY <1>6, <1>7

\* Both executions of a round lie between the faster and the slower of them.
LEMMA WithinRound ==
  ASSUME spent \in Seq(Nat), NEW n \in Nat, Len(spent) = 2 * n, NEW i \in 1..n, NEW x \in Arm
  PROVE  spent[Turn(x, i)] \in Low(i)..High(i) /\ Low(i) \in Nat /\ High(i) \in Nat
<1>1. i \in Nat \ {0} /\ 2 * i - 1 \in 1..(2 * n) /\ 2 * i \in 1..(2 * n)
  OBVIOUS
<1>2. PICK b \in Nat, c \in Nat : b = spent[2 * i - 1] /\ c = spent[2 * i]
  BY <1>1
<1>3. Low(i) = (IF b < c THEN b ELSE c) /\ High(i) = (IF b < c THEN c ELSE b)
  BY <1>2 DEF Low, High
<1>4. spent[Turn(x, i)] = b \/ spent[Turn(x, i)] = c
  BY <1>1, <1>2, Turns
<1> QED BY <1>2, <1>3, <1>4

\* Two values within a round that drifts by no more than the noise compare as
\* neutral.
LEMMA NeutralIfSteady ==
  ASSUME NEW l \in Nat, NEW h \in Nat, h * 100 <= l * (100 + Noise), l * 100 + h * Noise >= h * 100,
         NEW b \in l..h, NEW t \in l..h
  PROVE  Compare(b, t) = "neutral"
<1>1. b \in Nat /\ t \in Nat /\ l <= b /\ b <= h /\ l <= t /\ t <= h
  OBVIOUS
<1>2. PICK c \in Nat : c = Noise
  BY NoiseAssumption
<1>3. CASE b = 0
  <2>1. l = 0
    BY <1>1, <1>3
  <2>2. h * 100 <= 0
    BY <2>1, <1>2
  <2>3. t = 0
    BY <1>1, <2>2
  <2> QED BY <1>3, <2>3 DEF Compare
<1>4. CASE b # 0
  <2>1. ~(t * 100 > b * (100 + c))
    <3>1. l * (100 + c) <= b * (100 + c)
      BY <1>1
    <3> QED BY <1>1, <1>2, <3>1
  <2>2. ~(t * 100 + b * c < b * 100)
    <3>1. CASE c >= 100
      <4>1. b * c >= b * 100
        BY <1>1, <3>1
      <4> QED BY <1>1, <4>1
    <3>2. CASE c < 100
      <4>1. PICK g \in Nat : g = 100 - c
        BY <3>2
      <4>2. b * g <= h * g
        BY <1>1
      <4>3. b * g = b * 100 - b * c /\ h * g = h * 100 - h * c
        BY <1>1, <4>1
      <4> QED BY <1>1, <1>2, <4>2, <4>3
    <3> QED BY <3>1, <3>2
  <2> QED BY <1>2, <1>4, <2>1, <2>2 DEF Compare
<1> QED BY <1>3, <1>4

\* "Alternating A, B, A, B spreads any such drift across both arms" (harness.rs:243):
\* the percentiles of the two arms are executions of one round, so noise within the
\* threshold is never reported as a win.
THEOREM DriftHitsBothArms == SuiteSpec => []DriftIsShared
<1>1. SuiteInv => DriftIsShared
  <2> SUFFICES ASSUME SuiteInv, Interleaved PROVE DriftIsShared
    BY DEF DriftIsShared
  <2>1. Counting /\ Answered /\ Width = 2
    BY DEF SuiteInv, RunnerInv, Reported, Interleaved
  <2>2. PICK n \in Nat \ {0} : n = call.iters
    BY <2>1 DEF Counting
  <2>3. "a" \in Arm /\ "b" \in Arm
    BY DEF Arm
  <2>4. \A x \in Arm : samples[x] \in Seq(Nat) /\ Len(samples[x]) # 0 /\ Warm(x).stats = StatsOf(samples[x])
    BY <2>1, <2>2, EachRound DEF Counting, Answered, Warm
  <2>5. answer[1] = Warm("a") /\ answer[2] = Warm("b")
    <3>1. answer = <<Warm("a"), Warm("b")>>
      BY <2>1 DEF Answered
    <3> QED BY <3>1
  <2>6. spent \in Seq(Nat) /\ Len(spent) = 2 * n
    BY <2>1, <2>2, EachRound DEF Counting, Answered
  <2>7. ASSUME NEW p \in {50, 95}
        PROVE  \E i \in 1..n : \A k \in {1, 2} : Quantile(answer[k].stats, p) \in Low(i)..High(i)
    <3>1. PICK i : i = RoundOf(Rank(p, n), n)
      OBVIOUS
    <3>2. ASSUME NEW x \in Arm PROVE i \in 1..n /\ Quantile(Warm(x).stats, p) \in Low(i)..High(i)
      <4>1. i \in 1..n /\ Percentile(Ascending(samples[x]), p) = spent[Turn(x, i)]
        BY <2>1, <2>2, <3>1, QuantileIsTurn DEF Answered
      <4>2. spent[Turn(x, i)] \in Low(i)..High(i)
        BY <2>6, <4>1, WithinRound
      <4>3. Quantile(Warm(x).stats, p) = Percentile(Ascending(samples[x]), p)
        BY <2>4, StatsAre
      <4> QED BY <4>1, <4>2, <4>3
    <3> QED BY <2>3, <2>5, <3>2
  <2>8. ASSUME \A i \in 1..n : Steady(i)
        PROVE  Compare(answer[1].stats.p50, answer[2].stats.p50) = "neutral"
    <3>1. PICK i \in 1..n : \A k \in {1, 2} : Quantile(answer[k].stats, 50) \in Low(i)..High(i)
      BY <2>7
    <3>2. answer[1].stats.p50 \in Low(i)..High(i) /\ answer[2].stats.p50 \in Low(i)..High(i)
      BY <3>1 DEF Quantile
    <3>3. Low(i) \in Nat /\ High(i) \in Nat
      BY <2>3, <2>6, WithinRound
    <3>4. High(i) * 100 <= Low(i) * (100 + Noise) /\ Low(i) * 100 + High(i) * Noise >= High(i) * 100
      BY <2>8 DEF Steady
    <3> QED BY <3>2, <3>3, <3>4, NeutralIfSteady
  <2> QED BY <2>2, <2>7, <2>8 DEF DriftIsShared
<1> QED BY <1>1, SuiteInvHolds, PTL
=============================================================================
