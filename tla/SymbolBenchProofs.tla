------------------------- MODULE SymbolBenchProofs -------------------------
(***************************************************************************)
(* Theorems about SymbolBench, whatever the repositories, the sample and   *)
(* the number of repetitions: the arms take turns, the sample is even,     *)
(* nothing is reported by halves, the index says of a name what the text   *)
(* defines, and ripgrep alone finds only its own mistakes and the bodies   *)
(* of macros.                                                              *)
(*                                                                         *)
(* The turns: with an even number of repetitions the lead is evened out    *)
(* within each name; with an odd number the last repetition of a name and  *)
(* the first of the next one have different leads, so it is evened out     *)
(* over the whole loop.                                                    *)
(*                                                                         *)
(* The definitions: walk's container is a function defined by recursion    *)
(* over the lines; the nearest scope around a line satisfies its equation, *)
(* and no other function does, for where two differ first they agree on    *)
(* the parent.                                                             *)
(***************************************************************************)
EXTENDS SymbolBench, FiniteSetTheorems, SequenceTheorems, WellFoundedInduction, TLAPS

CountsTyped ==
  /\ reps \in Nat /\ at \in (Nat \ {0}) \X Nat
  /\ taken \in [Arms -> Nat] /\ first \in [Arms -> Nat]

\* How far ripgrep leads when a repetition begins.
Due ==
  IF reps % 2 = 0
  THEN IF at[2] % 2 = 0 THEN 0 ELSE IF (at[1] - 1) % 2 = 0 THEN 1 ELSE -1
  ELSE (at[1] - 1 + at[2]) % 2

\* What a repetition adds to that, once its first lookup is done.
Step == IF taken[Lead] = Before THEN 0 ELSE IF BaseFirst THEN 1 ELSE -1

InLoop ==
  /\ at[2] <= reps
  /\ taken[Follower] = Before
  /\ taken[Lead] = Before \/ (taken[Lead] = Before + 1 /\ at[2] < reps)
  /\ first["baseline_ripgrep"] = first["treatment_index"] + Due + Step

TurnsInv ==
  /\ CountsTyped
  /\ pc \in {"sample", "build", "warm"} =>
       at = <<1, 0>> /\ \A a \in Arms : taken[a] = 0 /\ first[a] = 0
  /\ pc = "time" => InLoop

LEMMA Starts ==
  ASSUME CountsTyped, at = <<1, 0>>, \A a \in Arms : taken[a] = 0 /\ first[a] = 0
  PROVE  InLoop
<1>1. at[1] = 1 /\ at[2] = 0 /\ reps \in Nat BY DEF CountsTyped
<1>2. Before = 0 BY <1>1 DEF Before
<1>3. Due = 0 BY <1>1 DEF Due
<1>4. Lead \in Arms /\ Follower \in Arms BY DEF Lead, Follower, Arms
<1>5. Step = 0 BY <1>2, <1>4 DEF Step
<1> QED BY <1>1, <1>2, <1>3, <1>4, <1>5 DEF InLoop, Arms

LEMMA InitTurns == Init => TurnsInv
BY BoundsAssumption DEF Init, TurnsInv, CountsTyped, Arms

\* The first lookup of a repetition.
LEMMA LeadLooksUp ==
  ASSUME CountsTyped, InLoop, TimeLookup, ~(taken[Lead] > Before)
  PROVE  CountsTyped' /\ InLoop'
<1>1. /\ taken[Lead] = Before /\ taken' = [taken EXCEPT ![Lead] = @ + 1]
      /\ first' = [first EXCEPT ![Lead] = @ + 1] /\ at' = at /\ reps' = reps /\ at[2] < reps
  <2>1. Lead \in Arms /\ Before \in Int BY DEF Lead, Arms, Before, CountsTyped
  <2> QED BY <2>1 DEF TimeLookup, InLoop, Timing, args, CountsTyped
<1>2. CountsTyped' BY <1>1 DEF CountsTyped, Arms, Lead
<1>3. /\ Lead' = Lead /\ Follower' = Follower /\ Before' = Before /\ Due' = Due
      /\ BaseFirst' = BaseFirst /\ Before \in Int
  BY <1>1 DEF Lead, Follower, BaseFirst, Before, Due, CountsTyped
<1>4. Step = 0 BY <1>1 DEF Step
<1>5. taken'[Lead] = Before + 1 /\ taken'[Follower] = taken[Follower]
  BY <1>1 DEF CountsTyped, Arms, Lead, Follower
<1>6. Step' = IF BaseFirst THEN 1 ELSE -1 BY <1>3, <1>5 DEF Step
<1>7. first'["baseline_ripgrep"] = first'["treatment_index"] + Due + Step'
  <2>1. Due \in Int BY DEF Due, CountsTyped
  <2>2. first["baseline_ripgrep"] = first["treatment_index"] + Due
    BY <1>4, <2>1 DEF InLoop, CountsTyped, Arms
  <2>3. CASE BaseFirst BY <1>1, <1>6, <2>1, <2>2, <2>3 DEF CountsTyped, Arms, Lead
  <2>4. CASE ~BaseFirst BY <1>1, <1>6, <2>1, <2>2, <2>4 DEF CountsTyped, Arms, Lead
  <2> QED BY <2>3, <2>4
<1> QED BY <1>1, <1>2, <1>3, <1>5, <1>7 DEF InLoop

LEMMA Parity == \A x, y \in Nat : (x + y) % 2 = 0 <=> x % 2 = y % 2
OBVIOUS

LEMMA Odd == \A x \in Nat : /\ x % 2 \in {0, 1}
                            /\ x % 2 = 0 <=> (x + 1) % 2 = 1
OBVIOUS

\* The second one, after which the next repetition begins.
LEMMA FollowerLooksUp ==
  ASSUME CountsTyped, InLoop, TimeLookup, taken[Lead] > Before
  PROVE  CountsTyped' /\ InLoop'
<1>1. /\ taken[Lead] = Before + 1 /\ taken' = [taken EXCEPT ![Follower] = @ + 1]
      /\ first' = first /\ at' = <<at[1], at[2] + 1>> /\ reps' = reps /\ at[2] < reps
  <2>1. Before \in Int BY DEF Before, CountsTyped
  <2>2. taken[Lead] = Before + 1 /\ at[2] < reps BY <2>1 DEF InLoop
  <2> QED BY <2>2 DEF TimeLookup, args
<1>2. CountsTyped' BY <1>1 DEF CountsTyped, Arms, Follower
<1>3. at[1] \in Nat \ {0} /\ at[2] \in Nat /\ reps \in Nat /\ at'[1] = at[1] /\ at'[2] = at[2] + 1
  BY <1>1 DEF CountsTyped
<1>4. Before' = Before + 1 /\ Before \in Int BY <1>1, <1>3 DEF Before
<1>5. \A a \in Arms : taken'[a] = Before'
  BY <1>1, <1>4 DEF CountsTyped, InLoop, Arms, Lead, Follower
<1>6. Step' = 0 BY <1>5 DEF Step, Lead, Arms
<1>7. Step = IF BaseFirst THEN 1 ELSE -1 BY <1>1, <1>4 DEF Step
<1>8. Due' = Due + Step
  <2>1. CASE reps % 2 = 0
    <3>1. at[1] - 1 \in Nat BY <1>3
    <3> QED BY <1>1, <1>3, <1>7, <2>1, <3>1 DEF Due, BaseFirst
  <2>2. CASE reps % 2 # 0
    <3>1. at[1] - 1 + at[2] \in Nat /\ at[1] - 1 + (at[2] + 1) = (at[1] - 1 + at[2]) + 1 BY <1>3
    <3> QED BY <1>1, <1>3, <1>7, <2>2, <3>1, Odd DEF Due, BaseFirst
  <2> QED BY <2>1, <2>2
<1>9. first'["baseline_ripgrep"] = first'["treatment_index"] + Due' + Step'
  <2>1. Due \in Int /\ Step \in Int BY <1>3, <1>7 DEF Due
  <2> QED BY <1>1, <1>6, <1>8, <2>1 DEF InLoop, CountsTyped, Arms
<1> QED BY <1>1, <1>2, <1>3, <1>5, <1>9 DEF InLoop, Lead, Follower, Arms

\* From one name to the next.
LEMMA NameEnds ==
  ASSUME CountsTyped, InLoop, NextName
  PROVE  CountsTyped' /\ InLoop'
<1>1. /\ at' = <<at[1] + 1, 0>> /\ at[2] = reps /\ reps' = reps /\ taken' = taken /\ first' = first
  BY DEF NextName, args
<1>2. CountsTyped' BY <1>1 DEF CountsTyped
<1>3. at[1] \in Nat \ {0} /\ reps \in Nat /\ at'[1] = at[1] + 1 /\ at'[2] = 0
  BY <1>1 DEF CountsTyped
<1>4. Before' = Before /\ Before \in Int BY <1>1, <1>3 DEF Before
<1>5. \A a \in Arms : taken[a] = Before BY <1>1, <1>3 DEF InLoop, Arms, Lead, Follower
<1>6. Step = 0 /\ Step' = 0 BY <1>1, <1>4, <1>5 DEF Step, Lead, Arms
<1>7. Due' = Due
  <2>1. CASE reps % 2 = 0 BY <1>1, <1>3, <2>1 DEF Due
  <2>2. CASE reps % 2 # 0
    <3>1. (at[1] + 1) - 1 + 0 = at[1] BY <1>3
    <3>2. at[1] % 2 = (at[1] - 1 + reps) % 2 BY <1>3, <2>2
    <3> QED BY <1>1, <1>3, <2>2, <3>1, <3>2 DEF Due
  <2> QED BY <2>1, <2>2
<1> QED BY <1>1, <1>2, <1>3, <1>4, <1>5, <1>6, <1>7 DEF InLoop, Lead, Follower, Arms

LEMMA NextTurns == TurnsInv /\ [Next]_vars => TurnsInv'
<1> SUFFICES ASSUME TurnsInv, [Next]_vars PROVE TurnsInv'
  OBVIOUS
<1> USE DEF TurnsInv
<1>1. ASSUME Fails \/ NextTier PROVE TurnsInv'
  BY <1>1 DEF Fails, NextTier, Leave, Afresh, CountsTyped, args, Arms
<1>2. CASE SkipCorpus BY <1>1, <1>2 DEF SkipCorpus
<1>3. CASE EnterCorpus BY <1>3 DEF EnterCorpus, Afresh, CountsTyped, args, Arms
<1>4. CASE TakeSample
  <2>1. CASE Fails BY <1>1, <2>1
  <2>2. CASE pc' = "build" /\ UNCHANGED <<args, at, taken, first>>
    BY <1>4, <2>2 DEF TakeSample, CountsTyped, args
  <2> QED BY <1>4, <2>1, <2>2 DEF TakeSample, args
<1>5. CASE IndexAll BY <1>5 DEF IndexAll, CountsTyped, args
<1>6. CASE Warm
  <2>1. InLoop' 
    <3>1. InLoop BY <1>6, Starts DEF Warm
    <3> QED BY <1>6, <3>1 DEF Warm, measure, args, InLoop, Before, Lead, Follower, BaseFirst, Step, Due
  <2> QED BY <1>6, <2>1 DEF Warm, measure, args, CountsTyped
<1>7. CASE TimeLookup
  <2>1. pc = "time" /\ pc' = "time" BY <1>7 DEF TimeLookup, Timing
  <2> QED BY <1>7, <2>1, LeadLooksUp, FollowerLooksUp
<1>8. CASE NextName
  <2>1. pc = "time" /\ pc' = "time" BY <1>8 DEF NextName
  <2> QED BY <1>8, <2>1, NameEnds
<1>9. CASE FloorStats
  BY <1>1, <1>9 DEF FloorStats, CountsTyped, measure, args
<1>10. CASE CompareSites BY <1>10 DEF CompareSites, CountsTyped, args
<1>11. CASE PushResults BY <1>1, <1>11 DEF PushResults
<1>12. CASE StepFails \/ AppendFails BY <1>1, <1>12 DEF StepFails, AppendFails
<1>13. CASE AssertNoop BY <1>1, <1>13 DEF AssertNoop, CountsTyped, measure, args
<1>14. CASE AppendResults BY <1>14 DEF AppendResults, CountsTyped, measure, args
<1>15. CASE Edit
  <2>1. pc' = pc /\ pc # "time" /\ UNCHANGED <<args, measure>> BY <1>15 DEF Edit
  <2> QED BY <2>1 DEF CountsTyped, measure, args
<1>16. CASE UNCHANGED vars
  BY <1>16 DEF vars, measure, args, CountsTyped, InLoop, Before, Lead, Follower, BaseFirst, Step, Due
<1> QED BY <1>2, <1>3, <1>4, <1>5, <1>6, <1>7, <1>8, <1>9, <1>10, <1>11, <1>12, <1>13, <1>14,
           <1>15, <1>16 DEF Next

-----------------------------------------------------------------------------

\* "Interleaved, order swapped each round": for every sample and every number of
\* repetitions, neither arm is ever more than one ahead of the other, in first
\* places or in answers.
THEOREM TurnsAreTaken == Spec => []ArmsTakeTurns
<1>1. TurnsInv => ArmsTakeTurns
  <2> SUFFICES ASSUME TurnsInv, pc = "time" PROVE ArmsTakeTurns
    BY DEF ArmsTakeTurns
  <2>1. CountsTyped /\ InLoop BY DEF TurnsInv
  <2>2. Due + Step \in {-1, 0, 1}
    <3>1. at[1] - 1 \in Nat /\ at[2] \in Nat /\ reps \in Nat /\ at[1] - 1 + at[2] \in Nat
      BY <2>1 DEF CountsTyped
    <3>2. CASE reps % 2 = 0
      <4>1. BaseFirst <=> (at[1] - 1) % 2 = at[2] % 2 BY <3>1, Parity DEF BaseFirst
      <4>2. at[2] % 2 \in {0, 1} BY <3>1, Odd
      <4>3. (at[1] - 1) % 2 \in {0, 1} BY <3>1, Odd
      <4>4. CASE at[2] % 2 = 0
        <5>1. Due = 0 BY <3>2, <4>4 DEF Due
        <5> QED BY <5>1 DEF Step
      <4>5. CASE at[2] % 2 = 1 /\ (at[1] - 1) % 2 = 0
        <5>1. Due = 1 /\ ~BaseFirst BY <3>2, <4>1, <4>5 DEF Due
        <5> QED BY <5>1 DEF Step
      <4>6. CASE at[2] % 2 = 1 /\ (at[1] - 1) % 2 = 1
        <5>1. Due = -1 /\ BaseFirst BY <3>2, <4>1, <4>6 DEF Due
        <5> QED BY <5>1 DEF Step
      <4> QED BY <4>2, <4>3, <4>4, <4>5, <4>6
    <3>3. CASE reps % 2 # 0 BY <3>1, <3>3, Odd DEF Due, Step, BaseFirst
    <3> QED BY <3>2, <3>3
  <2>3. \A a, b \in Arms : first[a] <= first[b] + 1
    <3>1. Due \in Int /\ Step \in Int BY <2>1 DEF Due, Step, CountsTyped
    <3> QED BY <2>1, <2>2, <3>1 DEF CountsTyped, InLoop, Arms
  <2>4. \A a, b \in Arms : taken[a] <= taken[b] + 1
    <3>1. Before \in Int BY <2>1 DEF CountsTyped, Before
    <3> QED BY <2>1, <3>1 DEF CountsTyped, InLoop, Arms, Lead, Follower
  <2> QED BY <2>3, <2>4 DEF ArmsTakeTurns
<1> QED BY <1>1, InitTurns, NextTurns, PTL DEF Spec


-----------------------------------------------------------------------------
(* The sample.                                                               *)

\* How many names of a set there are.
Hits(S) == {i \in DOMAIN Names : Names[i] \in S}

\* Sorted gives a sequence, as long as there are names.
LEMMA SortedIsList ==
  ASSUME NEW S
  PROVE  /\ IsFiniteSet(Hits(S)) /\ Cardinality(Hits(S)) \in Nat
         /\ DOMAIN Sorted(S) = 1..Len(Sorted(S)) /\ Len(Sorted(S)) = Cardinality(Hits(S))
<1>1. IsFiniteSet(Hits(S)) /\ Cardinality(Hits(S)) \in Nat
  <2>1. DOMAIN Names = 1..Len(Names) /\ Len(Names) \in Nat
    BY NamesAssumption
  <2>2. IsFiniteSet(1..Len(Names))
    BY <2>1, FS_Interval
  <2> QED BY <2>1, <2>2, FS_Subset, FS_CardinalityType DEF Hits
<1> QED BY <1>1 DEF Sorted, Hits

\* Strides of a list that is longer than want: as many as were wanted.
LEMMA StridedLength ==
  ASSUME NEW n \in Nat, NEW w \in Nat \ {0}, w < n
  PROVE  /\ Stride(n, w) \in Nat \ {0}
         /\ (n + Stride(n, w) - 1) \div Stride(n, w) \in Nat
         /\ (n + Stride(n, w) - 1) \div Stride(n, w) >= w
         /\ 2 * Stride(n, w) * w > n /\ Stride(n, w) <= n
<1> DEFINE d == n \div w
<1>1. d \in Nat /\ d * w <= n /\ n < (d + 1) * w
  OBVIOUS
<1>2. d # 0
  BY <1>1
<1>3. 2 * d * w > n
  <2>1. (d + 1) * w <= 2 * d * w
    BY <1>1, <1>2
  <2> QED BY <1>1, <2>1
<1> DEFINE m == n + d - 1
           q == m \div d
<1>4. m \in Nat /\ q \in Nat /\ m < (q + 1) * d
  BY <1>1, <1>2
<1>5. q >= w
  <2>1. SUFFICES ASSUME q + 1 <= w PROVE FALSE
    BY <1>4
  <2>2. (q + 1) * d <= w * d
    BY <1>1, <1>4, <2>1
  <2>3. m >= n
    BY <1>1, <1>2
  <2> QED BY <1>1, <1>4, <2>2, <2>3
<1>6. d <= n
  <2>1. d * 1 <= d * w
    BY <1>1
  <2> QED BY <1>1, <2>1
<1> QED BY <1>1, <1>2, <1>3, <1>4, <1>5, <1>6 DEF Stride

ScannedNames == UNION {Candidates(disk[f]) : f \in {g \in Files : Scanned(g)}}

\* What sample_symbols gives: as many names as were wanted and there are, equally
\* far apart.
Even(list, all) ==
  /\ DOMAIN list = 1..Len(list) /\ Len(list) \in Nat
  /\ Len(list) = Min({want, Len(all)})
  /\ list # <<>> => \E d \in DOMAIN all :
       /\ 2 * d * Len(list) > Len(all)
       /\ \A k \in DOMAIN list : list[k] = all[(k - 1) * d + 1]

LEMMA MinOfTwo ==
  ASSUME NEW x \in Nat, NEW y \in Nat
  PROVE  Min({x, y}) = IF x <= y THEN x ELSE y
<1> DEFINE m == IF x <= y THEN x ELSE y
<1>1. m \in {x, y} /\ \A z \in {x, y} : m <= z
  OBVIOUS
<1>2. \A w \in {x, y} : (\A z \in {x, y} : w <= z) => w = m
  OBVIOUS
<1> HIDE DEF m
<1>3. Min({x, y}) = m
  BY <1>1, <1>2 DEF Min
<1> QED BY <1>3 DEF m

LEMMA SampleIsEven ==
  ASSUME want \in Nat, NEW S, want # 0 \/ S = {}
  PROVE  Even(Sample(S, want), Sorted(S))
<1> DEFINE all == Sorted(S)
           n   == Len(all)
<1>1. DOMAIN all = 1..n /\ n \in Nat
  BY SortedIsList
<1>2. CASE n <= want
  <2>1. Sample(S, want) = all
    BY <1>2 DEF Sample
  <2>2. Min({want, n}) = n
    BY <1>1, <1>2, MinOfTwo
  <2>3. ASSUME all # <<>>
        PROVE  /\ 1 \in DOMAIN all /\ 2 * 1 * n > n
               /\ \A k \in DOMAIN all : all[k] = all[(k - 1) * 1 + 1]
    <3>1. n # 0
      <4>1. all \in [1..n -> {all[k] : k \in 1..n}]
        BY <1>1 DEF Sorted
      <4> QED BY <2>3, <4>1
    <3>2. \A k \in 1..n : (k - 1) * 1 + 1 = k
      BY <1>1
    <3> QED BY <1>1, <3>1, <3>2
  <2> HIDE DEF all, n
  <2>4. all # <<>> => \E d \in DOMAIN all :
          2 * d * n > n /\ \A k \in DOMAIN all : all[k] = all[(k - 1) * d + 1]
    BY <2>3
  <2> QED BY <1>1, <2>1, <2>2, <2>4 DEF Even, all, n
<1>3. CASE want < n
  <2>1. want \in Nat \ {0}
    <3>1. ASSUME S = {} PROVE n = 0
      <4>1. Hits(S) = {}
        BY <3>1 DEF Hits
      <4> QED BY <4>1, SortedIsList, FS_EmptySet
    <3> QED BY <1>1, <1>3, <3>1
  <2> DEFINE d == Stride(n, want)
             steps == (n + d - 1) \div d
             list == [k \in 1..Min({steps, want}) |-> all[(k - 1) * d + 1]]
  <2>2. d \in Nat \ {0} /\ steps \in Nat /\ steps >= want /\ 2 * d * want > n
    BY <1>1, <1>3, <2>1, StridedLength
  <2>3. Sample(S, want) = list
    BY <1>1, <1>3 DEF Sample, Strided
  <2>4. Min({steps, want}) = want /\ Min({want, n}) = want
    BY <1>1, <1>3, <2>2, MinOfTwo
  <2>5. DOMAIN list = 1..want /\ Len(list) = want /\ \A k \in 1..want : list[k] = all[(k - 1) * d + 1]
    <3>1. list = [k \in 1..want |-> all[(k - 1) * d + 1]]
      BY <2>4, Zenon
    <3> HIDE DEF list, steps, d, all
    <3> QED BY <2>1, <3>1
  <2>6. d \in 1..n
    BY <1>1, <1>3, <2>1, StridedLength
  <2>7. \E e \in DOMAIN all : /\ 2 * e * Len(list) > n
                              /\ \A k \in DOMAIN list : list[k] = all[(k - 1) * e + 1]
    <3> HIDE DEF d, list, all, n
    <3> QED BY <1>1, <2>2, <2>5, <2>6
  <2> QED BY <2>3, <2>4, <2>5, <2>7 DEF Even
<1> QED BY <1>1, <1>2, <1>3

\* The sample is even until somebody edits what it was taken from.
SampleInv ==
  /\ want \in Nat /\ edits \in Nat /\ Len(sample) \in Nat
  /\ pc = "build" /\ parsed = <<>> /\ edits = 0 => Even(sample, Sorted(ScannedNames))

LEMMA InitSample == Init => SampleInv
BY BoundsAssumption DEF Init, SampleInv

\* What the index, the loop, the comparison and the report do to the sample.
LEMMA SampleSteps ==
  ASSUME [Next]_vars
  PROVE  \/ TakeSample
         \/ sample' = <<>> /\ edits' = 0 /\ want' = want /\ pc' # "build"
         \/ /\ sample' = sample /\ want' = want
            /\ \/ /\ pc' = "build" => pc = "build" /\ UNCHANGED <<parsed, disk>>
                  /\ edits' = edits
               \/ IndexAll
               \/ Edit
<1>1. ASSUME Fails \/ NextTier
      PROVE  sample' = <<>> /\ edits' = 0 /\ want' = want /\ pc' # "build"
  BY <1>1 DEF Fails, NextTier, Leave, Afresh, args
<1>2. ASSUME EnterCorpus
      PROVE  sample' = <<>> /\ edits' = 0 /\ want' = want /\ pc' # "build"
  BY <1>2 DEF EnterCorpus, Afresh, args
<1>3. CASE SkipCorpus \/ StepFails \/ AppendFails \/ EnterCorpus
  BY <1>1, <1>2, <1>3 DEF SkipCorpus, StepFails, AppendFails
<1>4. CASE FloorStats \/ PushResults \/ AssertNoop
  BY <1>1, <1>4 DEF FloorStats, PushResults, AssertNoop, measure, args
<1>5. CASE IndexAll \/ Edit
  BY <1>5 DEF IndexAll, Edit, measure, args
<1>6. CASE Warm \/ TimeLookup \/ NextName \/ CompareSites \/ AppendResults \/ UNCHANGED vars
  BY <1>6 DEF Warm, TimeLookup, Timing, NextName, CompareSites, AppendResults, vars, measure, args
<1> QED BY <1>3, <1>4, <1>5, <1>6 DEF Next

LEMMA NextSample == SampleInv /\ [Next]_vars => SampleInv'
<1> SUFFICES ASSUME SampleInv, [Next]_vars PROVE SampleInv'
  OBVIOUS
<1> USE DEF SampleInv
<1>1. CASE TakeSample
  <2>1. CASE Fails
    BY <2>1 DEF Fails, Leave, Afresh, args
  <2>2. CASE ~Fails
    <3>1. /\ want # 0 \/ ScannedNames = {}
          /\ sample' = Sample(ScannedNames, want) /\ UNCHANGED <<want, edits, disk>>
      BY <1>1, <2>2 DEF TakeSample, ScannedNames, args
    <3>2. Even(sample', Sorted(ScannedNames))
      BY <3>1, SampleIsEven
    <3>3. ScannedNames' = ScannedNames
      BY <3>1 DEF ScannedNames, Scanned
    <3>4. Even(sample, Sorted(ScannedNames))'
      BY <3>1, <3>2, <3>3 DEF Even
    <3> QED BY <3>1, <3>4 DEF Even
  <2> QED BY <2>1, <2>2
<1>2. CASE sample' = <<>> /\ edits' = 0 /\ want' = want /\ pc' # "build"
  BY <1>2
<1>3. CASE /\ sample' = sample /\ want' = want
           /\ pc' = "build" => pc = "build" /\ UNCHANGED <<parsed, disk>>
           /\ edits' = edits
  <2>1. disk' = disk => ScannedNames' = ScannedNames
    BY DEF ScannedNames, Scanned
  <2>2. ASSUME disk' = disk, Even(sample, Sorted(ScannedNames))
        PROVE  Even(sample, Sorted(ScannedNames))'
    BY <1>3, <2>1, <2>2 DEF Even
  <2> QED BY <1>3, <2>2
<1>4. CASE sample' = sample /\ want' = want /\ (IndexAll \/ Edit)
  <2>1. edits' \in Nat /\ (edits' = 0 => parsed' # <<>>)
    BY <1>4 DEF IndexAll, Edit
  <2> QED BY <1>4, <2>1
<1> QED BY <1>1, <1>2, <1>3, <1>4, SampleSteps

\* "Sorted and evenly strided": whatever the scan finds and however many names are
\* asked for, the sample is even.
THEOREM SamplesAreStrided == Spec => []SamplesAreEven
<1>1. SampleInv => SamplesAreEven
  BY DEF SampleInv, SamplesAreEven, Even, ScannedNames
<1> QED BY <1>1, InitSample, NextSample, PTL DEF Spec

-----------------------------------------------------------------------------
(* The report.                                                               *)

IsList(s) == s \in Seq(Range(s))

\* What appending does to a list.
LEMMA AppendToList ==
  ASSUME NEW s, IsList(s), NEW x
  PROVE  /\ IsList(Append(s, x)) /\ DOMAIN Append(s, x) = DOMAIN s \cup {Len(s) + 1}
         /\ Append(s, x)[Len(s) + 1] = x
         /\ \A i \in DOMAIN s : Append(s, x)[i] = s[i]
<1>1. s \in Seq(Range(s)) /\ DOMAIN s = 1..Len(s) /\ Len(s) \in Nat
  BY DEF IsList
<1>2. s \in Seq(Range(s) \cup {x})
  BY <1>1
<1> DEFINE t == Append(s, x)
<1>3. /\ t \in Seq(Range(s) \cup {x}) /\ DOMAIN t = 1..(Len(s) + 1)
      /\ t[Len(s) + 1] = x /\ \A i \in 1..Len(s) : t[i] = s[i]
  BY <1>1, <1>2
<1>4. IsList(t)
  <2>1. \A i \in DOMAIN t : t[i] \in Range(t)
    BY DEF Range
  <2> QED BY <1>3, <2>1 DEF IsList
<1> QED BY <1>1, <1>3, <1>4

LEMMA JoinLists ==
  ASSUME NEW s, NEW t, IsList(s), IsList(t)
  PROVE  /\ IsList(s \o t) /\ Len(s \o t) = Len(s) + Len(t)
         /\ DOMAIN (s \o t) = 1..(Len(s) + Len(t))
         /\ \A i \in DOMAIN s : i \in DOMAIN (s \o t) /\ (s \o t)[i] = s[i]
         /\ \A i \in DOMAIN t : Len(s) + i \in DOMAIN (s \o t) /\ (s \o t)[Len(s) + i] = t[i]
<1>1. /\ s \in Seq(Range(s) \cup Range(t)) /\ DOMAIN s = 1..Len(s) /\ Len(s) \in Nat
      /\ t \in Seq(Range(s) \cup Range(t)) /\ DOMAIN t = 1..Len(t) /\ Len(t) \in Nat
  BY DEF IsList
<1> DEFINE u == s \o t
<1>2. u \in Seq(Range(s) \cup Range(t)) /\ Len(u) = Len(s) + Len(t) /\ DOMAIN u = 1..(Len(s) + Len(t))
  BY <1>1
<1>3. \A i \in 1..Len(s) : u[i] = s[i]
  BY <1>1
<1>4. \A i \in 1..Len(t) : u[Len(s) + i] = t[i]
  BY <1>1
<1>5. IsList(u)
  <2>1. \A i \in DOMAIN u : u[i] \in Range(u)
    BY DEF Range
  <2>2. u \in [1..(Len(s) + Len(t)) -> Range(u)]
    <3> HIDE DEF u
    <3> QED BY <1>2, <2>1
  <2> HIDE DEF u
  <2> QED BY <1>1, <2>2 DEF IsList
<1> QED BY <1>1, <1>2, <1>3, <1>4, <1>5

\* The results hold the lookups that an arm made of the names of a repository.
Answered(t, a) ==
  \E k \in DOMAIN results :
    /\ results[k].tier = t /\ results[k].arm = a
    /\ results[k].names > 0 /\ results[k].lookups = results[k].names * reps

\* The loop is over when every name had every repetition, and the spawn floor was
\* measured only after a name.
LoopInv ==
  /\ floor \in Nat
  /\ pc \in {"sample", "build", "warm"} => floor = 0
  /\ pc = "time" =>
       /\ at[1] <= Len(sample) + 1
       /\ at[1] = Len(sample) + 1 => at[2] = 0 /\ \A a \in Arms : taken[a] = Before
       /\ floor # 0 => at[1] > 1
  /\ pc = "agree" => Len(sample) > 0 /\ \A a \in Arms : taken[a] = Len(sample) * reps

\* The results are complete but for the repository in hand, and nothing is out
\* before the assertion on the builds.
ReportInv ==
  /\ IsList(results) /\ IsList(builds)
  /\ pc = "sample" => parsed = <<>>
  /\ pc = "build" => parsed = <<>> \/ \E x : parsed = <<x>>
  /\ pc # "failed" => \A i \in DOMAIN builds : \A a \in Arms :
       Answered(builds[i].tier, a) \/ (pc \in {"warm", "time", "agree"} /\ builds[i].tier = tier)
  /\ pc \in {"append", "done"} \/ out # <<>> => \A i \in DOMAIN builds : builds[i].reparsed = 0
  /\ out # <<>> => pc \in {"done", "failed"} /\ IsPrefix(out, results \o builds)
  /\ pc = "done" => out = results \o builds

LEMMA InitLoop == Init => LoopInv /\ ReportInv
<1> SUFFICES ASSUME Init PROVE LoopInv /\ ReportInv
  OBVIOUS
<1>1. IsList(<<>>)
  BY DEF IsList
<1> QED BY <1>1 DEF Init, LoopInv, ReportInv

\* The steps of the loop add up.
LEMMA NextLoop == TurnsInv /\ SampleInv /\ LoopInv /\ [Next]_vars => LoopInv'
<1> SUFFICES ASSUME TurnsInv, SampleInv, LoopInv, [Next]_vars PROVE LoopInv'
  OBVIOUS
<1> USE DEF LoopInv
<1>0. /\ reps \in Nat /\ at \in (Nat \ {0}) \X Nat /\ taken \in [Arms -> Nat]
      /\ Len(sample) \in Nat
  BY DEF TurnsInv, CountsTyped, SampleInv
<1>1. ASSUME Fails \/ NextTier PROVE LoopInv'
  BY <1>1 DEF Fails, NextTier, Leave, Afresh
<1>2. CASE SkipCorpus \/ StepFails \/ AppendFails
  BY <1>1, <1>2 DEF SkipCorpus, StepFails, AppendFails
<1>3. CASE EnterCorpus
  BY <1>3 DEF EnterCorpus, Afresh
<1>4. CASE TakeSample
  <2>1. CASE pc' = "build" /\ pc = "sample" /\ floor' = floor
    BY <2>1
  <2> QED BY <1>1, <1>4, <2>1 DEF TakeSample
<1>5. CASE IndexAll
  <2>1. pc = "build" /\ pc' \in {"build", "warm"} /\ floor' = floor
    BY <1>5 DEF IndexAll
  <2> QED BY <2>1
<1>6. CASE Warm
  <2>1. /\ pc = "warm" /\ pc' = "time" /\ UNCHANGED <<sample, at, floor, taken, reps>>
        /\ at = <<1, 0>> /\ \A a \in Arms : taken[a] = 0
    BY <1>6 DEF Warm, measure, args, TurnsInv
  <2>2. Before' = 0
    BY <1>0, <2>1 DEF Before
  <2> QED BY <1>0, <2>1, <2>2
<1>7. CASE TimeLookup
  <2>1. /\ pc = "time" /\ pc' = "time" /\ UNCHANGED <<sample, floor>> /\ at[1] <= Len(sample)
        /\ at' = at \/ at' = <<at[1], at[2] + 1>>
    BY <1>7 DEF TimeLookup, Timing
  <2> QED BY <1>0, <2>1
<1>8. CASE NextName
  <2>1. /\ pc = "time" /\ pc' = "time" /\ sample' = sample /\ at[1] <= Len(sample)
        /\ at' = <<at[1] + 1, 0>> /\ floor' \in {floor, floor + 1}
        /\ at[2] = reps /\ UNCHANGED <<taken, reps>>
    BY <1>8 DEF NextName, args
  <2>2. Before' = Before /\ Before \in Nat
    <3>1. at'[1] = at[1] + 1 /\ at'[2] = 0 /\ at[1] - 1 \in Nat
      BY <1>0, <2>1
    <3> QED BY <1>0, <2>1, <3>1 DEF Before
  <2>3. \A a \in Arms : taken[a] = Before
    BY <1>0, <2>1, <2>2 DEF TurnsInv, InLoop, Arms, Lead, Follower
  <2> QED BY <1>0, <2>1, <2>2, <2>3
<1>9. CASE FloorStats
  <2>1. CASE Fails
    BY <1>1, <2>1
  <2>2. CASE ~Fails
    <3>1. /\ pc = "time" /\ pc' = "agree" /\ floor # 0 /\ at[1] > Len(sample)
          /\ UNCHANGED <<sample, taken, floor, reps>>
      BY <1>9, <2>2 DEF FloorStats, measure, args
    <3>2. /\ at[1] = Len(sample) + 1 /\ at[2] = 0 /\ Len(sample) > 0
          /\ \A a \in Arms : taken[a] = Before
      BY <1>0, <3>1
    <3>3. Before = Len(sample) * reps
      <4>1. at[1] - 1 = Len(sample)
        BY <1>0, <3>2
      <4> QED BY <1>0, <3>2, <4>1 DEF Before
    <3> QED BY <3>1, <3>2, <3>3
  <2> QED BY <2>1, <2>2
<1>10. CASE CompareSites
  BY <1>10 DEF CompareSites, args
<1>11. CASE PushResults
  BY <1>1, <1>11 DEF PushResults
<1>12. CASE AssertNoop
  BY <1>1, <1>12 DEF AssertNoop, measure
<1>13. CASE AppendResults
  BY <1>13 DEF AppendResults, measure
<1>14. CASE Edit
  BY <1>14 DEF Edit, measure, args
<1>15. CASE UNCHANGED vars
  BY <1>15 DEF vars, measure, args, Before
<1> QED BY <1>2, <1>3, <1>4, <1>5, <1>6, <1>7, <1>8, <1>9, <1>10, <1>11, <1>12, <1>13, <1>14,
           <1>15 DEF Next

\* The two results of a repository complete it, and leave the others complete.
LEMMA ResultsComplete ==
  ASSUME LoopInv, ReportInv, pc = "agree", reps' = reps,
         results' = results \o <<Result("baseline_ripgrep"), Result("treatment_index")>>
  PROVE  /\ IsList(results')
         /\ \A t : \A a \in Arms : Answered(t, a) \/ t = tier => Answered(t, a)'
<1> DEFINE both == <<Result("baseline_ripgrep"), Result("treatment_index")>>
<1>1. IsList(both) /\ DOMAIN both = {1, 2}
      /\ both[1] = Result("baseline_ripgrep") /\ both[2] = Result("treatment_index")
  BY DEF IsList, Range
<1>2. IsList(results) /\ results' = results \o both
  BY DEF ReportInv
<1> HIDE DEF both
<1>3. /\ IsList(results \o both)
      /\ \A k \in DOMAIN results : k \in DOMAIN (results \o both) /\ (results \o both)[k] = results[k]
      /\ \A k \in DOMAIN both : /\ Len(results) + k \in DOMAIN (results \o both)
                                /\ (results \o both)[Len(results) + k] = both[k]
  BY <1>1, <1>2, JoinLists
<1>4. ASSUME NEW t, NEW a, Answered(t, a) PROVE Answered(t, a)'
  BY <1>2, <1>3, <1>4 DEF Answered
<1>5. ASSUME NEW t, t = tier, NEW a \in Arms PROVE Answered(t, a)'
  <2>1. PICK k \in {1, 2} : both[k] = Result(a)
    BY <1>1 DEF Arms
  <2>2. Len(results) + k \in DOMAIN results' /\ results'[Len(results) + k] = Result(a)
    BY <1>1, <1>2, <1>3, <2>1
  <2>3. /\ Result(a).tier = t /\ Result(a).arm = a
        /\ Result(a).names > 0 /\ Result(a).lookups = Result(a).names * reps
    BY <1>5 DEF Result, LoopInv
  <2> QED BY <2>2, <2>3 DEF Answered
<1> QED BY <1>2, <1>3, <1>4, <1>5

\* What is cut off a list at its end leaves a prefix of it.
LEMMA CutIsPrefix ==
  ASSUME NEW u, IsList(u), NEW k \in 0..Len(u)
  PROVE  IsPrefix(SubSeq(u, 1, k), u)
<1>1. u \in Seq(Range(u)) /\ Len(u) \in Nat
  BY DEF IsList
<1> DEFINE s == SubSeq(u, 1, k)
<1>2. s \in Seq(Range(u)) /\ Len(s) = k /\ \A i \in 1..k : s[i] = u[i]
  BY <1>1, SubSeqProperties
<1>3. SubSeq(s, 1, k) = SubSeq(u, 1, k)
  BY <1>1, <1>2, SubSeqProperties
<1> QED BY <1>1, <1>2, <1>3 DEF IsPrefix

\* Every step keeps the results complete and the report whole.
LEMMA NextReport == LoopInv /\ ReportInv /\ [Next]_vars => ReportInv'
<1> SUFFICES ASSUME LoopInv, ReportInv, [Next]_vars PROVE ReportInv'
  OBVIOUS
<1> USE DEF ReportInv
<1>0. reps' = reps
  BY DEF Next, SkipCorpus, EnterCorpus, TakeSample, IndexAll, Warm, TimeLookup, NextName, FloorStats,
         CompareSites, PushResults, StepFails, AssertNoop, AppendResults, AppendFails, Edit, Fails,
         NextTier, Leave, args, vars
<1>1. ASSUME UNCHANGED results, NEW t, NEW a, Answered(t, a) PROVE Answered(t, a)'
  BY <1>0, <1>1 DEF Answered
<1>2. ASSUME Fails, out' = out, pc \notin {"done", "failed"} PROVE ReportInv'
  BY <1>2 DEF Fails, Leave, Afresh
<1>3. ASSUME pc \notin {"warm", "time", "agree", "append", "done", "failed"},
             pc' \notin {"append", "done"}, pc' \in {"sample", "build"} => parsed' = <<>>,
             UNCHANGED <<results, builds, out>>
      PROVE  ReportInv'
  BY <1>1, <1>3
<1>4. CASE SkipCorpus
  <2>1. pc = "corpus" /\ pc' \in {"corpus", "report"} /\ UNCHANGED <<results, builds, out>>
    BY <1>4 DEF SkipCorpus, NextTier
  <2> QED BY <1>3, <2>1
<1>5. CASE EnterCorpus
  BY <1>3, <1>5 DEF EnterCorpus, Afresh, report
<1>6. CASE TakeSample
  <2>1. CASE pc' = "build"
    <3>1. pc = "sample" /\ parsed' = parsed /\ UNCHANGED <<results, builds, out>>
      BY <1>6, <2>1 DEF TakeSample, Fails, report
    <3> QED BY <1>3, <2>1, <3>1
  <2>2. CASE pc' # "build"
    <3>1. pc = "sample" /\ Fails /\ out' = out
      BY <1>6, <2>2 DEF TakeSample, report
    <3> QED BY <1>2, <3>1
  <2> QED BY <2>1, <2>2
<1>7. CASE PushResults
  <2>1. CASE Fails
    BY <1>2, <1>7, <2>1 DEF PushResults, Fails, NextTier
  <2>2. CASE ~Fails
    <3>1. /\ pc = "agree" /\ pc' \in {"corpus", "report"} /\ UNCHANGED <<builds, out>>
          /\ results' = results \o <<Result("baseline_ripgrep"), Result("treatment_index")>>
      BY <1>7, <2>2 DEF PushResults, NextTier
    <3>2. /\ IsList(results')
          /\ \A t : \A a \in Arms : Answered(t, a) \/ t = tier => Answered(t, a)'
      BY <1>0, <3>1, ResultsComplete
    <3>3. \A i \in DOMAIN builds : \A a \in Arms : Answered(builds[i].tier, a)'
      BY <3>1, <3>2
    <3> QED BY <3>1, <3>2, <3>3
  <2> QED BY <2>1, <2>2
<1>8. CASE IndexAll
  <2>1. /\ pc = "build" /\ pc' = IF Len(parsed) = 0 THEN "build" ELSE "warm"
        /\ \E x : parsed' = Append(parsed, x)
        /\ builds' = IF Len(parsed') = 2
                     THEN Append(builds, [tier |-> tier, cold |-> parsed'[1], reparsed |-> parsed'[2]])
                     ELSE builds
        /\ UNCHANGED <<tier, results, out>>
    BY <1>8 DEF IndexAll
  <2>2. CASE parsed = <<>>
    <3>1. PICK x : parsed' = <<x>>
      BY <2>1, <2>2
    <3>2. pc' = "build" /\ builds' = builds
      BY <2>1, <2>2, <3>1
    <3> QED BY <1>1, <2>1, <3>1, <3>2
  <2>3. CASE parsed # <<>>
    <3>1. pc' = "warm"
      BY <2>1, <2>3
    <3>2. CASE builds' = builds
      BY <1>1, <2>1, <3>1, <3>2
    <3>3. CASE builds' # builds
      <4>1. PICK b : builds' = Append(builds, b) /\ b.tier = tier
        BY <2>1, <3>3
      <4>2. /\ IsList(builds') /\ DOMAIN builds' = DOMAIN builds \cup {Len(builds) + 1}
            /\ builds'[Len(builds) + 1].tier = tier
            /\ \A i \in DOMAIN builds : builds'[i] = builds[i]
        BY <4>1, AppendToList
      <4>3. \A i \in DOMAIN builds' : \A a \in Arms :
              Answered(builds'[i].tier, a) \/ builds'[i].tier = tier
        BY <2>1, <4>2
      <4>4. ASSUME NEW i \in DOMAIN builds', NEW a \in Arms, NEW t, t = builds'[i].tier, t # tier
            PROVE  Answered(t, a)'
        BY <1>1, <2>1, <4>3, <4>4
      <4> QED BY <2>1, <3>1, <4>2, <4>4
    <3> QED BY <3>2, <3>3
  <2> QED BY <2>2, <2>3
<1>9. ASSUME pc \in {"warm", "time"}, pc' \in {"time", "agree"} \/ pc' = pc,
             UNCHANGED <<tier, results, builds, out>>
      PROVE  ReportInv'
  BY <1>1, <1>9
<1>10. CASE Warm
  BY <1>9, <1>10 DEF Warm, report
<1>11. CASE TimeLookup \/ NextName
  BY <1>9, <1>11 DEF TimeLookup, Timing, NextName, report
<1>12. CASE FloorStats
  <2>1. CASE Fails
    BY <1>2, <1>12, <2>1 DEF FloorStats, report
  <2>2. CASE ~Fails
    BY <1>9, <1>12, <2>2 DEF FloorStats, report
  <2> QED BY <2>1, <2>2
<1>13. CASE CompareSites
  <2>1. pc = "agree" /\ pc' = "agree" /\ UNCHANGED <<tier, results, builds, out>>
    BY <1>13 DEF CompareSites, report
  <2> QED BY <1>1, <2>1
<1>14. CASE StepFails
  BY <1>2, <1>14 DEF StepFails
<1>15. CASE AssertNoop
  <2>1. CASE Fails
    BY <1>2, <1>15, <2>1 DEF AssertNoop, report
  <2>2. CASE ~Fails
    <3>1. /\ pc = "report" /\ pc' = "append" /\ UNCHANGED <<results, builds, out>>
          /\ \A i \in DOMAIN builds : builds[i].reparsed = 0
      BY <1>15, <2>2 DEF AssertNoop, report
    <3> QED BY <1>1, <3>1
  <2> QED BY <2>1, <2>2
<1>16. IsList(results \o builds) /\ Len(results \o builds) = Len(results) + Len(builds)
  BY JoinLists
<1>17. CASE AppendResults
  <2>1. /\ pc = "append" /\ pc' = "done" /\ UNCHANGED <<results, builds>>
        /\ out' = results \o builds
    BY <1>17 DEF AppendResults
  <2>2. IsPrefix(out', results \o builds)
    BY <1>16, <2>1 DEF IsPrefix, IsList
  <2> QED BY <1>1, <2>1, <2>2
<1>18. CASE AppendFails
  <2>1. /\ pc = "append" /\ pc' = "failed" /\ UNCHANGED <<results, builds>>
        /\ \E k \in 0..(Len(results) + Len(builds)) : out' = SubSeq(results \o builds, 1, k)
    BY <1>18 DEF AppendFails, Fails
  <2>2. IsPrefix(out', results \o builds)
    BY <1>16, <2>1, CutIsPrefix
  <2> QED BY <2>1, <2>2
<1>19. CASE Edit
  <2>1. pc \in {"build", "agree"} /\ pc' = pc /\ UNCHANGED <<tier, parsed, results, builds, out>>
    BY <1>19 DEF Edit, measure, report
  <2> QED BY <1>1, <2>1
<1>20. CASE UNCHANGED vars
  <2>1. UNCHANGED <<pc, tier, parsed, results, builds, out>>
    BY <1>20 DEF vars, measure, report
  <2> QED BY <1>1, <2>1
<1> QED BY <1>4, <1>5, <1>6, <1>7, <1>8, <1>10, <1>11, <1>12, <1>13, <1>14, <1>15, <1>17, <1>18,
           <1>19, <1>20 DEF Next

\* "Target 5: this must be 0": nothing is appended unless the second pass over every
\* repository parsed nothing, and what is appended at the end has of each repository
\* both arms with every lookup; a write that fails leaves a prefix of it.
THEOREM ReportIsWhole == Spec => []NothingHalfReported
<1>1. ReportInv => NothingHalfReported
  <2> SUFFICES ASSUME ReportInv PROVE NothingHalfReported
    OBVIOUS
  <2>1. ASSUME pc = "done", NEW i \in DOMAIN builds, NEW a \in Arms
        PROVE  \E r \in Range(results) : /\ r.tier = builds[i].tier /\ r.arm = a
                                         /\ r.names > 0 /\ r.lookups = r.names * reps
    <3>1. PICK k \in DOMAIN results :
            /\ results[k].tier = builds[i].tier /\ results[k].arm = a
            /\ results[k].names > 0 /\ results[k].lookups = results[k].names * reps
      BY <2>1 DEF ReportInv, Answered
    <3> QED BY <3>1 DEF Range
  <2> QED BY <2>1 DEF ReportInv, NothingHalfReported
<1>2. TurnsInv /\ SampleInv /\ LoopInv /\ ReportInv /\ [Next]_vars
        => TurnsInv' /\ SampleInv' /\ LoopInv' /\ ReportInv'
  BY NextTurns, NextSample, NextLoop, NextReport
<1> QED BY <1>1, <1>2, InitTurns, InitSample, InitLoop, PTL DEF Spec

-----------------------------------------------------------------------------
(* What the walk makes of a text.                                            *)

\* A set of numbers has a least one.
LEMMA LeastNat ==
  ASSUME NEW T \in SUBSET Nat, T # {}
  PROVE  \E x \in T : \A y \in T : x <= y
<1>1. PICK x \in T : \A y \in T : ~(<<y, x>> \in OpToRel(<, Nat))
  BY NatLessThanWellFounded, WFMin
<1>2. \A y \in T : ~(y < x)
  BY <1>1 DEF OpToRel
<1> QED BY <1>2

\* A bounded one has a greatest, which is what Max gives.
LEMMA MaxIs ==
  ASSUME NEW n \in Nat, NEW T, T \subseteq 0..n, T # {}
  PROVE  Max(T) \in T /\ \A x \in T : x <= Max(T)
<1> DEFINE Bounds == {k \in Nat : \A x \in T : x <= k}
<1>0. T \subseteq Nat /\ n \in Bounds
  OBVIOUS
<1>1. PICK k \in Bounds : \A j \in Bounds : k <= j
  BY <1>0, LeastNat
<1>2. ASSUME k \notin T PROVE FALSE
  <2>1. PICK y \in T : TRUE
    OBVIOUS
  <2>2. k # 0
    BY <1>2, <2>1
  <2>3. k - 1 \in Bounds
    BY <1>2, <2>2
  <2> QED BY <1>1, <2>3
<1>3. k \in T /\ \A x \in T : k >= x
  BY <1>1, <1>2
<1>4. Max(T) \in T /\ \A x \in T : Max(T) >= x
  BY <1>3 DEF Max
<1> QED BY <1>0, <1>4

\* The keyword of a line is the last one before its name.
LEMMA KeywordIs ==
  ASSUME NEW line, line.words \in Seq(Range(line.words))
  PROVE  /\ KeywordAt(line) \in 0..Len(line.words)
         /\ KeywordAt(line) # 0 => /\ KeywordAt(line) < Len(line.words)
                                   /\ Keyword(line) = line.words[KeywordAt(line)]
                                   /\ Keyword(line) \in Keywords \cup {"impl"}
         /\ KeywordAt(line) = 0 => Keyword(line) = NoName
         /\ \A k \in 1..(Len(line.words) - 1) :
              line.words[k] \in Keywords \cup {"impl"} => k <= KeywordAt(line)
         /\ Keyword(line) \in Keywords \cup {"impl", NoName}
<1> DEFINE T == {k \in 1..(Len(line.words) - 1) : line.words[k] \in Keywords \cup {"impl"}} \cup {0}
<1>1. Len(line.words) \in Nat
  OBVIOUS
<1>2. T \subseteq 0..Len(line.words) /\ T # {} /\ \A k \in T : k # 0 => k < Len(line.words)
  BY <1>1
<1>3. KeywordAt(line) = Max(T)
  BY DEF KeywordAt
<1>4. Max(T) \in T /\ \A x \in T : x <= Max(T)
  <2> HIDE DEF T
  <2> QED BY <1>1, <1>2, MaxIs
<1> QED BY <1>1, <1>2, <1>3, <1>4 DEF Keyword

Lines(text) == 1..Len(text)

LEMMA TextIs ==
  ASSUME NEW text, IsText(text)
  PROVE  /\ Len(text) \in Nat /\ DOMAIN text = Lines(text)
         /\ \A i \in Lines(text) :
              /\ text[i].depth \in Nat /\ text[i].words \in Seq(Range(text[i].words))
              /\ text[i].within \in {"code", "text", "macro"}
<1>1. text \in Seq(Range(text))
  BY DEF IsText
<1>2. Len(text) \in Nat /\ DOMAIN text = Lines(text)
  BY <1>1 DEF Lines
<1>3. \A i \in Lines(text) : text[i] \in Range(text)
  BY <1>2 DEF Range
<1> QED BY <1>2, <1>3 DEF IsText

\* The line around line i, of which it is a child.
LEMMA ParentIs ==
  ASSUME NEW text, IsText(text), NEW i \in Lines(text)
  PROVE  /\ Parent(text, i) \in 0..(i - 1)
         /\ Parent(text, i) # 0 => text[Parent(text, i)].depth < text[i].depth
         /\ \A j \in 1..(i - 1) : text[j].depth < text[i].depth => j <= Parent(text, i)
<1> DEFINE T == {j \in 1..(i - 1) : text[j].depth < text[i].depth} \cup {0}
<1>1. i - 1 \in Nat
  BY TextIs DEF Lines
<1>2. T \subseteq 0..(i - 1) /\ T # {}
  BY <1>1
<1>3. Parent(text, i) = Max(T)
  BY DEF Parent
<1>4. Max(T) \in T /\ \A x \in T : x <= Max(T)
  <2> HIDE DEF T
  <2> QED BY <1>1, <1>2, MaxIs
<1> QED BY <1>2, <1>3, <1>4

\* A scope of its own: impl, trait or mod.
Scope(text, j) == IsItem(text[j]) /\ Keyword(text[j]) \in {"impl", "trait", "mod"}

\* The name of the nearest scope around a line.
Around(text, i) ==
  IF Scopes(text, i) = {} THEN NoName ELSE NameOf(text[Max(Scopes(text, i))])

\* Whatever encloses a line is its parent or encloses that.
LEMMA EnclosedIs ==
  ASSUME NEW text, IsText(text), NEW i \in Lines(text), NEW j \in Lines(text)
  PROVE  Encloses(text, j, i) <=>
           Parent(text, i) # 0 /\ (j = Parent(text, i) \/ Encloses(text, j, Parent(text, i)))
<1>0. \A k \in Lines(text) : text[k].depth \in Nat
  BY TextIs
<1>1. Len(text) \in Nat /\ Lines(text) = 1..Len(text) /\ i \in 1..Len(text) /\ j \in 1..Len(text)
  BY TextIs DEF Lines
<1>2. PICK p : p = Parent(text, i)
  OBVIOUS
<1>3. /\ p \in 0..(i - 1)
      /\ p # 0 => text[p].depth < text[i].depth
      /\ \A k \in 1..(i - 1) : text[k].depth < text[i].depth => k <= p
  BY <1>2, ParentIs
<1>4. ASSUME Encloses(text, j, i)
      PROVE  p # 0 /\ (j = p \/ Encloses(text, j, p))
  <2>1. j < i /\ \A k \in (j + 1)..i : text[j].depth < text[k].depth
    BY <1>4 DEF Encloses
  <2>2. i \in (j + 1)..i /\ j \in 1..(i - 1)
    BY <1>1, <2>1
  <2>3. j <= p /\ p # 0 /\ p \in Nat
    <3>1. text[j].depth < text[i].depth
      BY <2>1, <2>2
    <3>2. j <= p
      BY <1>3, <2>2, <3>1
    <3> QED BY <1>1, <1>3, <3>2
  <2>4. ASSUME j # p PROVE Encloses(text, j, p)
    <3>1. j < p
      BY <1>1, <2>3, <2>4
    <3>2. \A k \in (j + 1)..p : k \in (j + 1)..i
      <4>1. p <= i /\ i \in Nat /\ j \in Nat /\ p \in Nat
        BY <1>1, <1>3, <2>3
      <4> QED BY <4>1
    <3> QED BY <2>1, <3>1, <3>2 DEF Encloses
  <2> QED BY <2>3, <2>4
<1>5. p # 0 => Encloses(text, p, i)
  <2> SUFFICES ASSUME p # 0, NEW k \in (p + 1)..i PROVE p < i /\ text[p].depth < text[k].depth
    <3>1. p # 0 => p < i
      BY <1>1, <1>3
    <3> QED BY <3>1 DEF Encloses
  <2>1. p < i /\ p \in Lines(text) /\ k \in Lines(text) /\ k <= i /\ p < k
    BY <1>1, <1>3
  <2>2. text[p].depth \in Nat /\ text[i].depth \in Nat /\ text[k].depth \in Nat
    BY <1>0, <1>1, <2>1
  <2>3. CASE k = i
    BY <1>3, <2>1, <2>3
  <2>4. CASE k # i
    <3>1. k \in 1..(i - 1) /\ ~(k <= p)
      BY <1>1, <1>3, <2>1, <2>4
    <3>2. ~(text[k].depth < text[i].depth)
      BY <1>3, <3>1
    <3>3. text[p].depth < text[i].depth
      BY <1>3
    <3> QED BY <2>1, <2>2, <3>2, <3>3
  <2> QED BY <2>3, <2>4
<1>6. ASSUME p # 0, Encloses(text, j, p) PROVE Encloses(text, j, i)
  <2>1. p \in Lines(text) /\ p < i
    BY <1>1, <1>3, <1>6
  <2>2. j < p /\ \A k \in (j + 1)..p : text[j].depth < text[k].depth
    BY <1>6 DEF Encloses
  <2>3. Encloses(text, p, i)
    BY <1>5, <1>6
  <2>4. text[j].depth < text[p].depth
    <3>1. p \in (j + 1)..p
      BY <1>1, <1>3, <2>2
    <3> QED BY <2>2, <3>1
  <2>5. ASSUME NEW k \in (j + 1)..i PROVE text[j].depth < text[k].depth
    <3>0. k \in Lines(text)
      BY <1>1
    <3>1. CASE k <= p
      <4>1. k \in (j + 1)..p
        BY <1>1, <1>3, <3>1
      <4> QED BY <2>2, <4>1
    <3>2. CASE ~(k <= p)
      <4>1. k \in (p + 1)..i
        BY <1>1, <1>3, <3>2
      <4>2. text[p].depth < text[k].depth
        BY <2>3, <4>1 DEF Encloses
      <4> QED BY <1>0, <1>1, <2>1, <2>4, <3>0, <4>2
    <3> QED BY <3>1, <3>2
  <2>6. j < i
    BY <1>1, <1>3, <2>1, <2>2
  <2> QED BY <2>5, <2>6 DEF Encloses
<1> QED BY <1>2, <1>4, <1>5, <1>6

\* What a node declares, as a table.
LEMMA DeclaresIs ==
  /\ Declares["function_item"] = "fn" /\ Declares["function_signature_item"] = "fn"
  /\ Declares["struct_item"] = "struct" /\ Declares["enum_item"] = "enum"
  /\ Declares["trait_item"] = "trait" /\ Declares["union_item"] = "union"
  /\ Declares["type_item"] = "type" /\ Declares["associated_type"] = "type"
  /\ Declares["const_item"] = "const" /\ Declares["static_item"] = "static"
  /\ Declares["mod_item"] = "mod" /\ Declares["macro_definition"] = "macro"
  /\ DOMAIN Declares =
       {"function_item", "function_signature_item", "struct_item", "enum_item", "trait_item",
        "union_item", "type_item", "associated_type", "const_item", "static_item", "mod_item",
        "macro_definition"}
BY DEF Declares

DeclaredKind(line) == IF Keyword(line) = "macro_rules!" THEN "macro" ELSE Keyword(line)

ScopeNodes == {"impl_item", "trait_item", "mod_item"}

\* What is true of the node of a line.
NodeRight(text, i) ==
  /\ Node(text, i) \in DOMAIN Declares <=> IsItem(text[i]) /\ Keyword(text[i]) # "impl"
  /\ Node(text, i) \in DOMAIN Declares => Declares[Node(text, i)] = DeclaredKind(text[i])
  /\ Node(text, i) \in ScopeNodes <=> Scope(text, i)

LEMMA NodeIs ==
  ASSUME NEW text, IsText(text), NEW i \in Lines(text)
  PROVE  NodeRight(text, i)
<1>1. Keyword(text[i]) \in Keywords \cup {"impl", NoName}
  BY TextIs, KeywordIs
<1>2. CASE ~IsItem(text[i])
  <2>1. Node(text, i) = "other"
    BY <1>2 DEF Node
  <2> QED BY <1>2, <2>1, DeclaresIs DEF NodeRight, Scope, ScopeNodes
<1>3. ASSUME IsItem(text[i]), NEW n, Node(text, i) = n,
             n \in {"function_item", "function_signature_item"}, Keyword(text[i]) = "fn"
      PROVE  NodeRight(text, i)
  BY <1>3, DeclaresIs DEF NodeRight, Scope, ScopeNodes, DeclaredKind
<1>4. CASE IsItem(text[i]) /\ Keyword(text[i]) = "fn"
  <2>1. Node(text, i) = IF text[i].body THEN "function_item" ELSE "function_signature_item"
    BY <1>4 DEF Node
  <2> QED BY <1>3, <1>4, <2>1
<1>5. CASE IsItem(text[i]) /\ Keyword(text[i]) = "type"
  <2>1. Node(text, i) = "associated_type" \/ Node(text, i) = "type_item"
    BY <1>5 DEF Node
  <2> QED BY <1>5, <2>1, DeclaresIs DEF NodeRight, Scope, ScopeNodes, DeclaredKind
<1>6. CASE IsItem(text[i]) /\ Keyword(text[i]) = "macro_rules!"
  <2>1. Node(text, i) = "macro_definition"
    BY <1>6 DEF Node
  <2> QED BY <1>6, <2>1, DeclaresIs DEF NodeRight, Scope, ScopeNodes, DeclaredKind
<1>7. CASE IsItem(text[i]) /\ Keyword(text[i]) = "struct"
  <2>1. Node(text, i) = "struct_item"
    BY <1>7 DEF Node
  <2> QED BY <1>7, <2>1, DeclaresIs DEF NodeRight, Scope, ScopeNodes, DeclaredKind
<1>8. CASE IsItem(text[i]) /\ Keyword(text[i]) = "enum"
  <2>1. Node(text, i) = "enum_item"
    BY <1>8 DEF Node
  <2> QED BY <1>8, <2>1, DeclaresIs DEF NodeRight, Scope, ScopeNodes, DeclaredKind
<1>9. CASE IsItem(text[i]) /\ Keyword(text[i]) = "trait"
  <2>1. Node(text, i) = "trait_item"
    BY <1>9 DEF Node
  <2> QED BY <1>9, <2>1, DeclaresIs DEF NodeRight, Scope, ScopeNodes, DeclaredKind
<1>10. CASE IsItem(text[i]) /\ Keyword(text[i]) = "union"
  <2>1. Node(text, i) = "union_item"
    BY <1>10 DEF Node
  <2> QED BY <1>10, <2>1, DeclaresIs DEF NodeRight, Scope, ScopeNodes, DeclaredKind
<1>11. CASE IsItem(text[i]) /\ Keyword(text[i]) = "const"
  <2>1. Node(text, i) = "const_item"
    BY <1>11 DEF Node
  <2> QED BY <1>11, <2>1, DeclaresIs DEF NodeRight, Scope, ScopeNodes, DeclaredKind
<1>12. CASE IsItem(text[i]) /\ Keyword(text[i]) = "static"
  <2>1. Node(text, i) = "static_item"
    BY <1>12 DEF Node
  <2> QED BY <1>12, <2>1, DeclaresIs DEF NodeRight, Scope, ScopeNodes, DeclaredKind
<1>13. CASE IsItem(text[i]) /\ Keyword(text[i]) = "mod"
  <2>1. Node(text, i) = "mod_item"
    BY <1>13 DEF Node
  <2> QED BY <1>13, <2>1, DeclaresIs DEF NodeRight, Scope, ScopeNodes, DeclaredKind
<1>14. CASE IsItem(text[i]) /\ Keyword(text[i]) = "impl"
  <2>1. Node(text, i) = "impl_item"
    BY <1>14 DEF Node
  <2> QED BY <1>14, <2>1, DeclaresIs DEF NodeRight, Scope, ScopeNodes, DeclaredKind
<1>15. IsItem(text[i]) => Keyword(text[i]) # NoName
  BY DEF IsItem
<1> QED BY <1>1, <1>2, <1>4, <1>5, <1>6, <1>7, <1>8, <1>9, <1>10, <1>11, <1>12, <1>13, <1>14, <1>15 DEF Keywords

LEMMA ScopesIs ==
  ASSUME NEW text, IsText(text), NEW i
  PROVE  /\ Scopes(text, i) = {j \in Lines(text) : Encloses(text, j, i) /\ Scope(text, j)}
         /\ Scopes(text, i) \subseteq 0..Len(text) /\ Len(text) \in Nat
<1>1. DOMAIN text = Lines(text) /\ Len(text) \in Nat
  BY TextIs
<1>2. Lines(text) \subseteq 0..Len(text)
  BY <1>1 DEF Lines
<1> QED BY <1>1, <1>2 DEF Scopes, Scope

\* The nearest scope around a line is its parent, or the nearest around that.
LEMMA AroundIs ==
  ASSUME NEW text, IsText(text), NEW i \in Lines(text)
  PROVE  Around(text, i) = IF Parent(text, i) = 0 THEN NoName
                           ELSE IF Scope(text, Parent(text, i)) THEN NameOf(text[Parent(text, i)])
                           ELSE Around(text, Parent(text, i))
<1>1. PICK p : p = Parent(text, i)
  OBVIOUS
<1>2. i \in Nat /\ p \in 0..(i - 1) /\ (p # 0 => p \in Lines(text))
  BY <1>1, TextIs, ParentIs DEF Lines
<1>3. \A j \in Lines(text) : Encloses(text, j, i) <=> p # 0 /\ (j = p \/ Encloses(text, j, p))
  BY <1>1, EnclosedIs
<1>4. CASE p = 0
  <2>1. Scopes(text, i) = {}
    BY <1>3, <1>4, ScopesIs
  <2> QED BY <1>1, <1>4, <2>1 DEF Around
<1>5. CASE p # 0 /\ ~Scope(text, p)
  <2>1. Scopes(text, i) = Scopes(text, p)
    BY <1>3, <1>5, ScopesIs
  <2> QED BY <1>1, <1>5, <2>1 DEF Around
<1>6. CASE p # 0 /\ Scope(text, p)
  <2> DEFINE S == Scopes(text, i)
  <2>1. p \in S /\ \A j \in S : j = p \/ Encloses(text, j, p)
    BY <1>2, <1>3, <1>6, ScopesIs
  <2>2. S \subseteq 0..Len(text) /\ Len(text) \in Nat
    BY ScopesIs
  <2> HIDE DEF S
  <2>3. \A j \in S : j <= p
    BY <1>2, <2>1, <2>2 DEF Encloses
  <2>4. Max(S) \in S /\ \A j \in S : j <= Max(S)
    BY <2>1, <2>2, MaxIs
  <2>5. Max(S) = p
    <3>1. Max(S) \in 0..Len(text) /\ p \in 0..Len(text)
      BY <2>1, <2>2, <2>4
    <3>2. Max(S) <= p /\ p <= Max(S)
      BY <2>1, <2>3, <2>4
    <3>3. PICK m : m = Max(S)
      OBVIOUS
    <3> QED BY <2>2, <3>1, <3>2, <3>3
  <2>6. Around(text, i) = NameOf(text[p])
    <3>1. Scopes(text, i) # {} /\ Max(Scopes(text, i)) = p
      BY <2>1, <2>5 DEF S
    <3> QED BY <3>1 DEF Around
  <2> QED BY <1>1, <1>6, <2>6
<1> QED BY <1>4, <1>5, <1>6

\* The function walk computes: the scope a child of each line is in.
Walks(text, f) ==
  f = [i \in 0..Len(text) |->
         IF i = 0 THEN NoName
         ELSE IF Node(text, i) \in {"impl_item", "trait_item", "mod_item"} THEN NameOf(text[i])
         ELSE f[Parent(text, i)]]

ChildOf(text) ==
  [i \in 0..Len(text) |->
     IF i = 0 THEN NoName ELSE IF Scope(text, i) THEN NameOf(text[i]) ELSE Around(text, i)]

LEMMA ChildOfWalks ==
  ASSUME NEW text, IsText(text)
  PROVE  Walks(text, ChildOf(text))
<1> DEFINE g == ChildOf(text)
<1>0. Len(text) \in Nat
  BY TextIs
<1>1. \A i \in 0..Len(text) :
        g[i] = IF i = 0 THEN NoName ELSE IF Scope(text, i) THEN NameOf(text[i]) ELSE Around(text, i)
  BY DEF ChildOf
<1>2. ASSUME NEW i \in 0..Len(text)
      PROVE  g[i] = IF i = 0 THEN NoName
                    ELSE IF Node(text, i) \in {"impl_item", "trait_item", "mod_item"} THEN NameOf(text[i])
                    ELSE g[Parent(text, i)]
  <2> HIDE DEF g
  <2>1. CASE i = 0
    BY <1>1, <2>1
  <2>2. CASE i # 0
    <3>1. i \in Lines(text)
      BY <1>0, <2>2 DEF Lines
    <3>2. Node(text, i) \in ScopeNodes <=> Scope(text, i)
      BY <3>1, NodeIs DEF NodeRight
    <3>3. Parent(text, i) \in 0..Len(text)
      BY <1>0, <3>1, ParentIs DEF Lines
    <3>4. Around(text, i) = g[Parent(text, i)]
      BY <1>1, <3>1, <3>3, AroundIs
    <3>5. g[i] = IF Scope(text, i) THEN NameOf(text[i]) ELSE Around(text, i)
      BY <1>1, <2>2
    <3> QED BY <2>2, <3>2, <3>4, <3>5 DEF ScopeNodes
  <2> QED BY <2>1, <2>2
<1>3. g = [i \in 0..Len(text) |-> g[i]]
  BY DEF ChildOf
<1> HIDE DEF g
<1>4. Walks(text, g)
  BY <1>2, <1>3 DEF Walks
<1> QED BY <1>4 DEF g

\* There is but one such function: where two differ first, they agree on the parent.
LEMMA WalkIsUnique ==
  ASSUME NEW text, IsText(text), NEW f, NEW g, Walks(text, f), Walks(text, g)
  PROVE  f = g
<1> DEFINE D == 0..Len(text)
           Differ == {i \in D : f[i] # g[i]}
<1>0. Len(text) \in Nat
  BY TextIs
<1>1. /\ f = [i \in D |-> f[i]] /\ g = [i \in D |-> g[i]]
  BY DEF Walks
<1>2. ASSUME NEW i \in D, i # 0
      PROVE  /\ f[i] = IF Node(text, i) \in {"impl_item", "trait_item", "mod_item"} THEN NameOf(text[i])
                       ELSE f[Parent(text, i)]
             /\ g[i] = IF Node(text, i) \in {"impl_item", "trait_item", "mod_item"} THEN NameOf(text[i])
                       ELSE g[Parent(text, i)]
  BY <1>2 DEF Walks
<1>3. f[0] = NoName /\ g[0] = NoName
  BY <1>0 DEF Walks
<1>4. ASSUME Differ # {} PROVE FALSE
  <2>1. PICK i \in Differ : \A j \in Differ : i <= j
    <3>1. Differ \in SUBSET Nat
      BY <1>0
    <3> HIDE DEF Differ
    <3> QED BY <1>4, <3>1, LeastNat
  <2>2. i \in D /\ i # 0 /\ f[i] # g[i]
    BY <1>3
  <2>3. i \in Lines(text)
    BY <1>0, <2>2 DEF Lines
  <2>4. f[Parent(text, i)] # g[Parent(text, i)]
    BY <1>2, <2>2
  <2>5. Parent(text, i) \in 0..(i - 1)
    BY <2>3, ParentIs
  <2>6. i \in Nat /\ i <= Len(text)
    BY <1>0, <2>2
  <2>7. Parent(text, i) \in D /\ ~(i <= Parent(text, i))
    BY <1>0, <2>5, <2>6
  <2>8. Parent(text, i) \in Differ
    BY <2>4, <2>7
  <2> QED BY <2>1, <2>7, <2>8
<1>5. \A i \in D : f[i] = g[i]
  BY <1>4
<1> QED BY <1>1, <1>5

LEMMA ContainerIs ==
  ASSUME NEW text, IsText(text)
  PROVE  NextContainer(text) = ChildOf(text)
<1> DEFINE Eq(f) == f = [i \in 0..Len(text) |->
        IF i = 0 THEN NoName
        ELSE IF Node(text, i) \in {"impl_item", "trait_item", "mod_item"} THEN NameOf(text[i])
        ELSE f[Parent(text, i)]]
<1>1. NextContainer(text) = CHOOSE f : Eq(f)
  BY DEF NextContainer
<1>2. Eq(ChildOf(text))
  BY ChildOfWalks DEF Walks
<1>3. \A f : Eq(f) <=> Walks(text, f)
  BY DEF Walks
<1> HIDE DEF Eq
<1>4. Eq(CHOOSE f : Eq(f))
  BY <1>2
<1>5. Walks(text, NextContainer(text)) /\ Walks(text, ChildOf(text))
  BY <1>1, <1>2, <1>3, <1>4
<1> QED BY <1>5, WalkIsUnique

\* The walk of symbols.rs, which hands the container down from node to node, gives
\* of every text exactly the items it defines, each in the nearest impl, trait or
\* mod around it, however deep it is nested.
THEOREM ExtractIsDefined ==
  ASSUME NEW text, IsText(text)
  PROVE  Extract(text) = Defined(text)
<1>1. DOMAIN text = Lines(text) /\ Len(text) \in Nat
  BY TextIs
<1>2. \A i \in Lines(text) : NodeRight(text, i)
  BY NodeIs
<1>3. ASSUME NEW i \in Lines(text) PROVE NextContainer(text)[Parent(text, i)] = Around(text, i)
  <2>1. Parent(text, i) \in 0..Len(text)
    BY <1>1, ParentIs DEF Lines
  <2>2. ChildOf(text)[Parent(text, i)] =
          IF Parent(text, i) = 0 THEN NoName
          ELSE IF Scope(text, Parent(text, i)) THEN NameOf(text[Parent(text, i)])
          ELSE Around(text, Parent(text, i))
    BY <2>1 DEF ChildOf
  <2> QED BY <2>2, ContainerIs, AroundIs
<1> DEFINE Row(i, kind) == [name |-> NameOf(text[i]), kind |-> kind, line |-> i, container |-> Around(text, i)]
<1>4. Extract(text) = {Row(i, Declares[Node(text, i)]) : i \in {j \in Lines(text) : Node(text, j) \in DOMAIN Declares}}
  BY <1>1, <1>3 DEF Extract
<1>5. Defined(text) = {Row(i, DeclaredKind(text[i])) : i \in {j \in Lines(text) : IsItem(text[j]) /\ Keyword(text[j]) # "impl"}}
  BY <1>1 DEF Defined, DeclaredKind, Around
<1>6. {j \in Lines(text) : Node(text, j) \in DOMAIN Declares} =
        {j \in Lines(text) : IsItem(text[j]) /\ Keyword(text[j]) # "impl"}
  BY <1>2 DEF NodeRight
<1>7. \A j \in {k \in Lines(text) : Node(text, k) \in DOMAIN Declares} :
        Declares[Node(text, j)] = DeclaredKind(text[j])
  BY <1>2 DEF NodeRight
<1> HIDE DEF Row
<1> QED BY <1>4, <1>5, <1>6, <1>7

-----------------------------------------------------------------------------
(* The rows of the index.                                                    *)

\* What a file may hold, and what the rows of the index are made from.
Readable == DOMAIN disk = Files /\ \A f \in Files : disk[f] = Gone \/ IsText(disk[f])
Fresh    == index = [f \in Files |-> IF Indexed(f) THEN disk[f] ELSE Gone]

FreshInv ==
  /\ Readable /\ edits \in Nat
  /\ pc \in {"warm", "time", "agree"} /\ Current => Fresh

\* The sites of one file.
Sites(f, rows, name) ==
  {[file |-> f, line |-> d.line, kind |-> d.kind, container |-> d.container] :
     d \in {e \in rows : e.name = name}}

LEMMA KindIsKept ==
  ASSUME NEW text, IsText(text), NEW d \in Defined(text)
  PROVE  KindFrom(d.kind) = d.kind
<1>1. DOMAIN text = Lines(text)
  BY TextIs
<1>2. PICK i \in Lines(text) : IsItem(text[i]) /\ Keyword(text[i]) # "impl" /\ d.kind = DeclaredKind(text[i])
  BY <1>1 DEF Defined, DeclaredKind
<1>3. Keyword(text[i]) \in Keywords \cup {"impl", NoName}
  BY TextIs, KeywordIs
<1>4. Keyword(text[i]) \in Keywords
  BY <1>2, <1>3 DEF IsItem
<1>5. d.kind \in {"fn", "struct", "enum", "trait", "union", "type", "const", "static", "mod", "macro"}
  BY <1>2, <1>4 DEF DeclaredKind, Keywords
<1> QED BY <1>5 DEF KindFrom

LEMMA FreshAnswers ==
  ASSUME Readable, Fresh, NEW name
  PROVE  Lookup(name) = UNION {Sites(f, Defined(disk[f]), name) : f \in {g \in Files : Indexed(g)}}
<1>1. \A f \in Files : Indexed(f) => disk[f] # Gone /\ IsText(disk[f]) /\ index[f] = disk[f]
  BY DEF Readable, Fresh, Indexed
<1>2. \A f \in Files : index[f] # Gone <=> Indexed(f)
  BY <1>1 DEF Fresh
<1> DEFINE G == {g \in Files : Indexed(g)}
           Mine(f) == {[file |-> f, line |-> d.line, kind |-> KindFrom(d.kind), container |-> d.container] :
                         d \in {e \in Extract(index[f]) : e.name = name}}
<1>3. {g \in Files : index[g] # Gone} = G
  BY <1>2
<1>4. Lookup(name) = UNION {Mine(f) : f \in G}
  BY <1>3 DEF Lookup
<1>5. ASSUME NEW f \in G PROVE Mine(f) = Sites(f, Defined(disk[f]), name)
  <2>1. Extract(index[f]) = Defined(disk[f])
    BY <1>1, ExtractIsDefined
  <2>2. \A d \in Defined(disk[f]) : KindFrom(d.kind) = d.kind
    BY <1>1, KindIsKept
  <2> QED BY <2>1, <2>2 DEF Sites
<1> HIDE DEF Mine, G
<1>6. {Mine(f) : f \in G} = {Sites(f, Defined(disk[f]), name) : f \in G}
  BY <1>5
<1> QED BY <1>4, <1>6 DEF G

LEMMA InitFresh == Init => FreshInv
BY DEF Init, FreshInv, Readable

LEMMA NextFresh == FreshInv /\ [Next]_vars => FreshInv'
<1> SUFFICES ASSUME FreshInv, [Next]_vars PROVE FreshInv'
  OBVIOUS
<1> USE DEF FreshInv
<1>1. ASSUME UNCHANGED <<disk, edits>>, pc' \notin {"warm", "time", "agree"} PROVE FreshInv'
  BY <1>1 DEF Readable
<1>2. ASSUME UNCHANGED <<disk, edits, unread, index>>, pc \in {"warm", "time", "agree"}
      PROVE  FreshInv'
  BY <1>2 DEF Current, Readable, Fresh, Indexed
<1>3. ASSUME Fails \/ NextTier PROVE FreshInv'
  BY <1>3 DEF Fails, NextTier, Leave, Afresh, Readable
<1>4. CASE SkipCorpus BY <1>3, <1>4 DEF SkipCorpus
<1>5. CASE EnterCorpus
  BY <1>5, ReposAssumption, TextsAssumption DEF EnterCorpus, Afresh, Readable
<1>6. CASE TakeSample BY <1>1, <1>3, <1>6 DEF TakeSample
<1>7. CASE IndexAll
  <2>1. Current' => Fresh'
    BY <1>7 DEF Current, IndexAll, Fresh, Indexed
  <2> QED BY <1>7, <2>1 DEF IndexAll, Readable
<1>8. CASE Warm \/ TimeLookup \/ NextName \/ CompareSites
  BY <1>2, <1>8 DEF Warm, TimeLookup, Timing, NextName, CompareSites, measure
<1>9. CASE FloorStats BY <1>2, <1>3, <1>9 DEF FloorStats, measure
<1>10. CASE PushResults BY <1>2, <1>3, <1>10 DEF PushResults
<1>11. CASE StepFails \/ AppendFails BY <1>3, <1>11 DEF StepFails, AppendFails
<1>12. CASE AssertNoop \/ AppendResults BY <1>1, <1>3, <1>12 DEF AssertNoop, AppendResults
<1>13. CASE Edit
  <2>1. PICK f \in Files, t \in Edits \cup {Gone} : disk' = [disk EXCEPT ![f] = t]
    BY <1>13 DEF Edit
  <2>2. Readable'
    BY <2>1, TextsAssumption DEF Readable
  <2>3. edits' \in Nat /\ edits' # 0
    BY <1>13 DEF Edit
  <2> QED BY <2>2, <2>3 DEF Current
<1>14. CASE UNCHANGED vars
  BY <1>14 DEF vars, measure, Current, Readable, Fresh, Indexed
<1> QED BY <1>4, <1>5, <1>6, <1>7, <1>8, <1>9, <1>10, <1>11, <1>12, <1>13, <1>14 DEF Next

LEMMA FreshHolds == Spec => []FreshInv
BY InitFresh, NextFresh, PTL DEF Spec

\* "Where is X defined": whatever the files hold, as long as the rows are current, the index
\* answers a name with all its definitions and nothing else, each with its line, its
\* kind and the nearest impl, trait or mod around it.
THEOREM DefinitionsAreFound == Spec => []DefinitionsAreRight
<1>1. FreshInv => DefinitionsAreRight
  BY FreshAnswers DEF FreshInv, DefinitionsAreRight, Sites
<1> QED BY <1>1, FreshHolds, PTL

-----------------------------------------------------------------------------
(* What ripgrep finds besides.                                               *)

LEMMA NoModifier == Rank("//") = 0
<1>1. \A k \in DOMAIN PatternOrder : "//" \notin PatternOrder[k]
  BY DEF PatternOrder
<1> DEFINE T == {k \in DOMAIN PatternOrder : "//" \in PatternOrder[k]} \cup {0}
<1>2. T = {0}
  BY <1>1
<1>3. Rank("//") = Max(T)
  BY DEF Rank
<1>4. Max({0}) = 0
  BY MaxIs
<1> QED BY <1>2, <1>3, <1>4

\* What the pattern matches where a name stands that the line declares is an item
\* of that name.
LEMMA MatchDeclares ==
  ASSUME NEW text, IsText(text), NEW i \in Lines(text), NEW name,
         Matches(text[i], name), text[i].within = "code"
  PROVE  IsItem(text[i]) /\ Keyword(text[i]) # "impl"
<1> DEFINE line == text[i]
           words == line.words
<1>1. words \in Seq(Range(words)) /\ Len(words) \in Nat /\ DOMAIN words = 1..Len(words)
  BY TextIs
<1>2. PICK k \in 1..(Len(words) - 1) :
        words[k] \in Keywords /\ \A j \in 1..(k - 1) : Rank(words[j]) # 0
  BY DEF Matches
<1>3. k <= KeywordAt(line) /\ KeywordAt(line) \in 0..Len(words) /\ KeywordAt(line) # 0
  BY <1>1, <1>2, KeywordIs
<1>4. /\ Keyword(line) = words[KeywordAt(line)] /\ Keyword(line) \in Keywords \cup {"impl"}
      /\ KeywordAt(line) < Len(words)
  BY <1>1, <1>3, KeywordIs
<1>5. words[1] # "//"
  <2>1. CASE k = 1
    BY <1>2, <2>1 DEF Keywords
  <2>2. CASE k # 1
    <3>1. 1 \in 1..(k - 1)
      BY <1>2, <2>2
    <3> QED BY <1>2, <3>1, NoModifier
  <2> QED BY <2>1, <2>2
<1>6. IsItem(line)
  BY <1>4, <1>5 DEF IsItem, Keywords, NoName
<1>7. Keyword(line) # "impl"
  <2> SUFFICES ASSUME Keyword(line) = "impl" PROVE FALSE
    OBVIOUS
  <2>1. "impl" \notin Keywords
    BY DEF Keywords
  <2>2. k # KeywordAt(line)
    BY <1>2, <1>4, <2>1
  <2>3. k < KeywordAt(line) /\ k \in DOMAIN words /\ KeywordAt(line) \in DOMAIN words
    BY <1>1, <1>3, <2>2
  <2>4. line \in Range(text)
    BY TextIs DEF Range
  <2>5. \A a, b \in DOMAIN words : a < b /\ words[b] = "impl" => words[a] \notin Keywords
    BY <1>6, <2>4 DEF IsText
  <2> QED BY <1>2, <1>4, <2>3, <2>5
<1> QED BY <1>6, <1>7

Declaring(f, n, name) ==
  /\ Indexed(f) /\ n \in DOMAIN disk[f] /\ IsItem(disk[f][n])
  /\ Keyword(disk[f][n]) # "impl" /\ NameOf(disk[f][n]) = name

\* The sites of a fresh index.
LEMMA IndexSitesAre ==
  ASSUME Readable, Fresh, NEW name, NEW f \in Files, NEW n
  PROVE  <<f, n>> \in IndexSites(name) <=> Declaring(f, n, name)
<1>1. Lookup(name) = UNION {Sites(g, Defined(disk[g]), name) : g \in {h \in Files : Indexed(h)}}
  BY FreshAnswers
<1>2. <<f, n>> \in IndexSites(name) <=> \E d \in Lookup(name) : d.file = f /\ d.line = n
  BY DEF IndexSites
<1>3. (\E d \in Lookup(name) : d.file = f /\ d.line = n) <=>
        Indexed(f) /\ \E e \in Defined(disk[f]) : e.name = name /\ e.line = n
  <2>1. ASSUME NEW d \in Lookup(name), d.file = f, d.line = n
        PROVE  Indexed(f) /\ \E e \in Defined(disk[f]) : e.name = name /\ e.line = n
    <3>1. PICK g \in Files : Indexed(g) /\ d \in Sites(g, Defined(disk[g]), name)
      BY <1>1, <2>1
    <3>2. PICK e \in Defined(disk[g]) : e.name = name /\ d.file = g /\ d.line = e.line
      BY <3>1 DEF Sites
    <3> QED BY <2>1, <3>1, <3>2
  <2>2. ASSUME Indexed(f), NEW e \in Defined(disk[f]), e.name = name, e.line = n
        PROVE  \E d \in Lookup(name) : d.file = f /\ d.line = n
    <3> DEFINE d == [file |-> f, line |-> e.line, kind |-> e.kind, container |-> e.container]
    <3>1. d \in Sites(f, Defined(disk[f]), name)
      BY <2>2 DEF Sites
    <3>2. d \in Lookup(name)
      BY <1>1, <2>2, <3>1
    <3> QED BY <2>2, <3>2
  <2> QED BY <2>1, <2>2
<1>4. (\E e \in Defined(disk[f]) : e.name = name /\ e.line = n) <=>
        /\ n \in DOMAIN disk[f] /\ IsItem(disk[f][n])
        /\ Keyword(disk[f][n]) # "impl" /\ NameOf(disk[f][n]) = name
  <2>1. ASSUME NEW e \in Defined(disk[f]), e.name = name, e.line = n
        PROVE  /\ n \in DOMAIN disk[f] /\ IsItem(disk[f][n])
               /\ Keyword(disk[f][n]) # "impl" /\ NameOf(disk[f][n]) = name
    BY <2>1 DEF Defined
  <2>2. ASSUME n \in DOMAIN disk[f], IsItem(disk[f][n]), Keyword(disk[f][n]) # "impl",
               NameOf(disk[f][n]) = name
        PROVE  \E e \in Defined(disk[f]) : e.name = name /\ e.line = n
    <3> DEFINE e == [name |-> NameOf(disk[f][n]), kind |-> DeclaredKind(disk[f][n]), line |-> n,
                     container |-> Around(disk[f], n)]
    <3>1. e \in Defined(disk[f])
      BY <2>2 DEF Defined, DeclaredKind, Around
    <3>2. e.name = name /\ e.line = n
      BY <2>2
    <3> QED BY <3>1, <3>2
  <2> QED BY <2>1, <2>2
<1> QED BY <1>2, <1>3, <1>4 DEF Declaring

LEMMA RgSitesAre ==
  ASSUME NEW name, NEW site
  PROVE  site \in RgSites(name) <=>
           \E f \in Files : \E n \in DOMAIN disk[f] :
             Searched(f) /\ Matches(disk[f][n], name) /\ site = <<f, n>>
BY DEF RgSites

Verdicts == {"both_empty", "identical", "index_superset", "rg_only"}

\* Ripgrep alone has a site: the sets are neither empty nor equal then.
LEMMA VerdictIs ==
  ASSUME NEW rg, NEW idx
  PROVE  /\ Verdict(rg, idx) \in Verdicts
         /\ Verdict(rg, idx) = "rg_only" <=> ~(rg \subseteq idx)
<1>1. CASE rg = {} /\ idx = {}
  <2>1. Verdict(rg, idx) = "both_empty" /\ rg \subseteq idx
    BY <1>1 DEF Verdict
  <2> QED BY <2>1 DEF Verdicts
<1>2. CASE ~(rg = {} /\ idx = {}) /\ rg = idx /\ rg # {}
  <2>1. Verdict(rg, idx) = "identical" /\ rg \subseteq idx
    BY <1>2 DEF Verdict
  <2> QED BY <2>1 DEF Verdicts
<1>3. CASE ~(rg = {} /\ idx = {}) /\ ~(rg = idx /\ rg # {})
  <2>1. Verdict(rg, idx) = IF rg \subseteq idx THEN "index_superset" ELSE "rg_only"
    BY <1>3 DEF Verdict
  <2>2. CASE rg \subseteq idx
    <3>1. Verdict(rg, idx) = "index_superset" BY <2>1, <2>2
    <3> QED BY <2>2, <3>1 DEF Verdicts
  <2>3. CASE ~(rg \subseteq idx)
    <3>1. Verdict(rg, idx) = "rg_only" BY <2>1, <2>3
    <3> QED BY <2>3, <3>1 DEF Verdicts
  <2> QED BY <2>2, <2>3
<1> QED BY <1>1, <1>2, <1>3

\* What accounts for a site that ripgrep alone reports.
Explained(f, n, name) == RgMistakes(disk[f][n], name) \/ IndexMisses(disk[f][n], name)

LEMMA RgOnlyIs ==
  ASSUME Readable, Fresh, NEW name
  PROVE  Verdict(RgSites(name), IndexSites(name)) = "rg_only" <=>
           \E site \in RgSites(name) : Explained(site[1], site[2], name)
<1> DEFINE rg  == RgSites(name)
           idx == IndexSites(name)
<1>1. ASSUME NEW site \in rg
      PROVE  site \notin idx <=> Explained(site[1], site[2], name)
  <2>0. PICK f \in Files : \E n \in DOMAIN disk[f] :
          Searched(f) /\ Matches(disk[f][n], name) /\ site = <<f, n>>
    BY RgSitesAre
  <2>1. PICK n \in DOMAIN disk[f] : Searched(f) /\ Matches(disk[f][n], name) /\ site = <<f, n>>
    BY <2>0
  <2>2. disk[f] # Gone /\ Indexed(f) /\ IsText(disk[f]) /\ n \in Lines(disk[f])
    <3>1. disk[f] # Gone /\ Indexed(f)
      BY <2>1 DEF Searched, Indexed
    <3>2. IsText(disk[f])
      BY <3>1 DEF Readable
    <3> QED BY <3>1, <3>2, TextIs
  <2>3. site \in idx <=> Declaring(f, n, name)
    BY <2>1, IndexSitesAre
  <2>4. CASE disk[f][n].within # "code"
    <3>1. disk[f][n].within \in {"text", "macro"}
      BY <2>2, <2>4, TextIs
    <3> QED BY <2>1, <2>3, <2>4, <3>1 DEF Declaring, IsItem, Explained, RgMistakes, IndexMisses
  <2>5. CASE disk[f][n].within = "code"
    <3>1. IsItem(disk[f][n]) /\ Keyword(disk[f][n]) # "impl"
      BY <2>1, <2>2, <2>5, MatchDeclares
    <3> QED BY <2>1, <2>2, <2>3, <2>5, <3>1 DEF Declaring, Explained, RgMistakes, IndexMisses
  <2> QED BY <2>4, <2>5
<1> HIDE DEF rg, idx
<1>2. Verdict(rg, idx) = "rg_only" <=> ~(rg \subseteq idx)
  BY VerdictIs
<1> QED BY <1>1, <1>2 DEF rg, idx

-----------------------------------------------------------------------------

AgreeInv ==
  /\ pc \in {"sample", "build", "warm", "time"} => agree = <<>>
  /\ pc = "agree" =>
       /\ agree \in Seq(Verdicts)
       /\ edits = 0 => \A k \in DOMAIN agree :
                         agree[k] = Verdict(RgSites(sample[k]), IndexSites(sample[k]))

LEMMA InitAgree == Init => AgreeInv
BY DEF Init, AgreeInv

LEMMA NextAgree == FreshInv /\ AgreeInv /\ [Next]_vars => AgreeInv'
<1> SUFFICES ASSUME FreshInv, AgreeInv, [Next]_vars PROVE AgreeInv'
  OBVIOUS
<1>1. ASSUME pc' \notin {"sample", "build", "warm", "time", "agree"} PROVE AgreeInv'
  BY <1>1 DEF AgreeInv
<1>2. ASSUME agree' = <<>> PROVE AgreeInv'
  BY <1>2 DEF AgreeInv
<1>3. ASSUME Fails \/ NextTier PROVE AgreeInv'
  BY <1>1, <1>3 DEF Fails, NextTier, Leave, Afresh, AgreeInv
<1>4. CASE SkipCorpus BY <1>3, <1>4 DEF SkipCorpus
<1>5. CASE EnterCorpus BY <1>2, <1>5 DEF EnterCorpus, Afresh
<1>6. CASE TakeSample BY <1>2, <1>3, <1>6 DEF TakeSample, AgreeInv
<1>7. CASE IndexAll BY <1>2, <1>7 DEF IndexAll, AgreeInv
<1>8. CASE Warm BY <1>2, <1>8 DEF Warm, AgreeInv, measure
<1>9. CASE TimeLookup \/ NextName
  BY <1>2, <1>9 DEF TimeLookup, Timing, NextName, AgreeInv
<1>10. CASE FloorStats BY <1>2, <1>3, <1>10 DEF FloorStats, AgreeInv, measure
<1>11. CASE CompareSites
  <2>1. PICK s : s = Verdict(RgSites(sample[Len(agree) + 1]), IndexSites(sample[Len(agree) + 1]))
    OBVIOUS
  <2>2. /\ pc = "agree" /\ pc' = "agree" /\ agree' = Append(agree, s)
        /\ UNCHANGED <<disk, index, sample, edits>> /\ agree \in Seq(Verdicts)
    BY <1>11, <2>1 DEF CompareSites, AgreeInv
  <2>3. s \in Verdicts
    BY <2>1, VerdictIs
  <2>4. agree' \in Seq(Verdicts)
    BY <2>2, <2>3
  <2>5. ASSUME edits = 0, NEW k \in DOMAIN agree'
        PROVE  agree'[k] = Verdict(RgSites(sample[k]), IndexSites(sample[k]))
    <3>1. CASE k = Len(agree) + 1
      BY <2>1, <2>2, <3>1
    <3>2. CASE k # Len(agree) + 1
      <4>1. k \in DOMAIN agree /\ agree'[k] = agree[k]
        BY <2>2, <2>3, <3>2
      <4> QED BY <2>2, <2>5, <4>1 DEF AgreeInv
    <3> QED BY <3>1, <3>2
  <2>6. \A k : /\ RgSites(sample[k])' = RgSites(sample[k])
               /\ IndexSites(sample[k])' = IndexSites(sample[k])
    BY <2>2 DEF RgSites, IndexSites, Lookup, Searched
  <2> QED BY <2>2, <2>4, <2>5, <2>6 DEF AgreeInv, Verdict
<1>12. CASE PushResults BY <1>3, <1>12 DEF PushResults
<1>13. CASE StepFails \/ AppendFails BY <1>3, <1>13 DEF StepFails, AppendFails
<1>14. CASE AssertNoop \/ AppendResults
  BY <1>1, <1>3, <1>14 DEF AssertNoop, AppendResults
<1>15. CASE Edit
  <2>1. pc' = pc /\ agree' = agree /\ edits' # 0
    BY <1>15 DEF Edit, measure, FreshInv
  <2> QED BY <2>1 DEF AgreeInv
<1>16. CASE UNCHANGED vars
  BY <1>16 DEF vars, measure, AgreeInv, Verdict, RgSites, IndexSites, Lookup, Searched
<1> QED BY <1>4, <1>5, <1>6, <1>7, <1>8, <1>9, <1>10, <1>11, <1>12, <1>13, <1>14, <1>15, <1>16 DEF Next

\* "NOT the same as 'the index is wrong'": whatever the files hold, while the rows are
\* current ripgrep alone reports a site of a name exactly when one of its sites is a
\* mistake of its own or a gap of the index, in the body of a macro.
THEOREM RgOnlyIsWhatItSays == Spec => []RgOnlyIsExplained
<1>1. FreshInv /\ AgreeInv => RgOnlyIsExplained
  <2> SUFFICES ASSUME FreshInv, AgreeInv, pc = "agree", Current, NEW k \in DOMAIN agree
               PROVE  agree[k] = "rg_only" <=>
                        \E site \in RgSites(sample[k]) : Explained(site[1], site[2], sample[k])
    BY DEF RgOnlyIsExplained, Explained
  <2>1. agree[k] = Verdict(RgSites(sample[k]), IndexSites(sample[k]))
    BY DEF AgreeInv, Current
  <2> QED BY <2>1, RgOnlyIs DEF FreshInv
<1>2. Spec => []AgreeInv
  BY InitAgree, NextAgree, FreshHolds, PTL DEF Spec
<1> QED BY <1>1, <1>2, FreshHolds, PTL
=============================================================================
