------------------------------ MODULE Harness ------------------------------
(***************************************************************************)
(* The benchmark runner and its statistics, crates/ctx-bench: measure and  *)
(* measure_interleaved (src/harness.rs), Stats::from_durations, percentile *)
(* and compare (src/stats.rs).                                             *)
(*                                                                         *)
(* All arms do the same work on a machine whose speed drifts one way while *)
(* a call runs: what the runner is there to keep out of its verdicts.      *)
(*                                                                         *)
(* Data abstraction.  A duration is a small number; a measurement is its   *)
(* arm, whether it is cold, and its statistics (names, notes, throughput   *)
(* and the environment are left out).  The ratio of two medians is         *)
(* compared by multiplication, in per cent.                                *)
(***************************************************************************)
EXTENDS Naturals, Sequences, FiniteSets

CONSTANTS
  Durations,  \* how long an execution may take
  Noise       \* noise_threshold, in per cent

ASSUME DurationsAssumption == Durations \subseteq Nat /\ Durations # {}
ASSUME NoiseAssumption     == Noise \in Nat

Arm   == {"a", "b"}
Trend == {"slower", "faster"}

VARIABLES
  call,    \* the arguments of the call
  pc,      \* "idle", or "timing" while a call runs
  done,    \* number of executions so far in this call
  trend,   \* which way the machine drifts during the call
  time,    \* how long the last execution took
  cold,    \* cold[arm]: cold_ns, cold_a, cold_b
  samples, \* samples[arm]: the durations recorded in the timed rounds
  spent,   \* history: the same durations in the order of the executions
  log,     \* the runner's measurements
  answer   \* what the last call returned, <<>> while one runs and before the first

vars == <<call, pc, done, trend, time, cold, samples, spent, log, answer>>

Init ==
  /\ call = [arms |-> <<>>, warmup |-> 0, iters |-> 0] /\ pc = "idle" /\ done = 0
  /\ trend \in Trend /\ time \in Durations
  /\ cold = [x \in Arm |-> 0] /\ samples = [x \in Arm |-> <<>>] /\ spent = <<>>
  /\ log = <<>> /\ answer = <<>>

-----------------------------------------------------------------------------
(* Statistics.                                                             *)

\* Fault variant for the checks: the rank is rounded down.
RankDown(p, n) == (p * n) \div 100

\* (p / 100 * n).ceil(), for which f64 is exact enough.
Rank(p, n) == (p * n + 99) \div 100

AtMost(k, n) == IF k < n THEN k ELSE n

\* sorted[rank.saturating_sub(1).min(len - 1)], sequences counting from 1.
Percentile(sorted, p) ==
  LET n == Len(sorted) IN
  IF n = 1 THEN sorted[1]
  ELSE IF Rank(p, n) = 0 THEN sorted[1] ELSE sorted[AtMost(Rank(p, n), n)]

\* sort_unstable: at k the one that fewer than k are less than, and that at least k
\* are no greater than.
Less(s, v) == Cardinality({i \in DOMAIN s : s[i] < v})
UpTo(s, v) == Cardinality({i \in DOMAIN s : s[i] <= v})
Ascending(s) ==
  [k \in DOMAIN s |-> CHOOSE v \in {s[i] : i \in DOMAIN s} : Less(s, v) < k /\ k <= UpTo(s, v)]

\* from_durations: an empty sample panics, which `assert!(iters > 0)` rules out.
StatsOf(ns) ==
  LET sorted == Ascending(ns) IN
  [n |-> Len(ns), min |-> sorted[1], p50 |-> Percentile(sorted, 50),
   p95 |-> Percentile(sorted, 95), max |-> sorted[Len(sorted)],
   low_confidence |-> Len(ns) < 3]

\* compare, on the medians: ratio > 1 + threshold, ratio < 1 - threshold; a zero
\* baseline has the ratio 1 to another zero and is infinitely slower otherwise.
Compare(base, treat) ==
  IF base = 0 THEN IF treat = 0 THEN "neutral" ELSE "regression"
  ELSE IF treat * 100 > base * (100 + Noise) THEN "regression"
  ELSE IF treat * 100 + base * Noise < base * 100 THEN "improvement"
  ELSE "neutral"

-----------------------------------------------------------------------------
(* The order of the executions.                                            *)

Width      == Len(call.arms)
Executions == Width * (1 + call.warmup + call.iters)

\* Round 0 is the cold one; call.warmup rounds follow that nobody times.
Round == done \div Width
Timed == Round > call.warmup

\* `i % 2 == 0` of the timed rounds: a goes first, else b does.
Swapped == Timed /\ (Round - 1 - call.warmup) % 2 = 1

\* Fault variant for the checks: the timed rounds of one arm, then of the other.
NextArmSequential ==
  call.arms[IF Timed THEN ((done - Width * (1 + call.warmup)) \div call.iters) + 1
                     ELSE (done % Width) + 1]

NextArm ==
  LET turn == (done % Width) + 1 IN
  call.arms[IF Swapped THEN Width + 1 - turn ELSE turn]

-----------------------------------------------------------------------------
(* The calls.                                                              *)

\* measure times one arm, measure_interleaved two; with no timed round both panic.
Begin(arms, warmup, iters) ==
  /\ pc = "idle"
  /\ pc' = "timing" /\ done' = 0
  /\ call' = [arms |-> arms, warmup |-> warmup, iters |-> iters]
  /\ trend' \in Trend /\ time' \in Durations
  /\ cold' = [x \in Arm |-> 0] /\ samples' = [x \in Arm |-> <<>>] /\ spent' = <<>>
  /\ answer' = <<>> /\ UNCHANGED log

Drifts(from, to) == IF trend = "slower" THEN from <= to ELSE to <= from

Execute ==
  LET x == NextArm IN
  /\ pc = "timing" /\ done < Executions /\ done' = done + 1
  /\ \E d \in Durations :
       /\ Drifts(time, d) /\ time' = d
       /\ cold'    = IF Round = 0 THEN [cold EXCEPT ![x] = d] ELSE cold
       /\ samples' = IF Timed THEN [samples EXCEPT ![x] = Append(@, d)] ELSE samples
       /\ spent'   = IF Timed THEN Append(spent, d) ELSE spent
  /\ UNCHANGED <<call, pc, trend, log, answer>>

Cold(x) == [arm |-> x, thermal |-> "cold", warmup |-> 0, stats |-> StatsOf(<<cold[x]>>)]
Warm(x) == [arm |-> x, thermal |-> "warm", warmup |-> call.warmup, stats |-> StatsOf(samples[x])]

\* measure returns (cold, warm); measure_interleaved measurements[n - 3] and
\* measurements[n - 1], counted from 0.
Answer(pushed) ==
  LET n == Len(pushed) IN
  IF Width = 1 THEN <<pushed[n - 1], pushed[n]>> ELSE <<pushed[n - 2], pushed[n]>>

Report ==
  /\ pc = "timing" /\ done = Executions /\ pc' = "idle"
  /\ log' = log \o IF Width = 1 THEN <<Cold("a"), Warm("a")>>
                               ELSE <<Cold("a"), Warm("a"), Cold("b"), Warm("b")>>
  /\ answer' = Answer(log')
  /\ UNCHANGED <<call, done, trend, time, cold, samples, spent>>

-----------------------------------------------------------------------------
(* What holds.                                                             *)

Reported    == pc = "idle" /\ answer # <<>>
Interleaved == Reported /\ Width = 2

Quantile(stats, p) == IF p = 50 THEN stats.p50 ELSE stats.p95

\* v is the nearest rank p of s: one of s, at least p per cent of which are no
\* greater, and of no smaller one is that true.
NearestRank(s, p, v) ==
  /\ \E i \in DOMAIN s : s[i] = v
  /\ UpTo(s, v) * 100 >= p * Len(s)
  /\ \A w \in {s[i] : i \in DOMAIN s} : w < v => UpTo(s, w) * 100 < p * Len(s)

\* "The arms are still reported separately" (harness.rs:244), cold apart from
\* warm: whatever calls came before, a call answers with its own arms, a cold one
\* of one execution or a warm one of as many rounds as were asked for, and with
\* the nearest-rank median and 95th percentile of just those durations.
AnswersItsOwn ==
  Reported => \A k \in {1, 2} :
    LET x == call.arms[IF Width = 1 THEN 1 ELSE k]
        s == IF Width = 1 /\ k = 1 THEN <<cold[x]>> ELSE samples[x]
    IN /\ answer[k].arm = x
       /\ answer[k].stats.n = Len(s)
       /\ Len(s) = IF answer[k].thermal = "cold" THEN 1 ELSE call.iters
       /\ \A p \in {50, 95} : NearestRank(s, p, Quantile(answer[k].stats, p))

\* The faster and the slower of the two executions of timed round i.
Low(i)  == IF spent[2*i - 1] < spent[2*i] THEN spent[2*i - 1] ELSE spent[2*i]
High(i) == IF spent[2*i - 1] < spent[2*i] THEN spent[2*i] ELSE spent[2*i - 1]

\* Round i drifts by no more than the noise threshold, seen from either arm.
Steady(i) == /\ High(i) * 100 <= Low(i) * (100 + Noise)
             /\ Low(i) * 100 + High(i) * Noise >= High(i) * 100

\* "Alternating A, B, A, B spreads any such drift across both arms" (line 243 of
\* harness.rs): however far the machine drifts, the medians of the two arms, and
\* their 95th percentiles, lie within one and the same round; and "noise cannot be
\* reported as a win" (stats.rs:91): as long as no single round drifts by more than
\* the threshold, two arms of the same work compare as neutral.
DriftIsShared ==
  Interleaved =>
    /\ \A p \in {50, 95} : \E i \in 1..call.iters : \A k \in {1, 2} :
         Quantile(answer[k].stats, p) \in Low(i)..High(i)
    /\ (\A i \in 1..call.iters : Steady(i)) =>
         Compare(answer[1].stats.p50, answer[2].stats.p50) = "neutral"
=============================================================================
