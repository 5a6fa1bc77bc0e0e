---------------------------- MODULE MCBenchSuite ----------------------------
(* BenchSuite with few iterations throughout, and with 20 of them, the fewest of *)
(* which the 95th percentile is not the maximum, in the quick suite.             *)
EXTENDS BenchSuite

Arguments(iters, warmup, quick) == [iters |-> iters, warmup |-> warmup, quick |-> quick]

MCCli == {Arguments(1, 0, TRUE), Arguments(2, 5, FALSE), Arguments(3, 1, TRUE),
          Arguments(4, 0, FALSE), Arguments(20, 0, TRUE)}

\* Nothing reads what earlier calls have pushed, so states that differ in it only
\* are one to TLC: a call looks at the length of the log and at its own entries.
Recent == <<call, pc, done, trend, time, cold, samples, spent, answer, Len(log),
            cli, item, byte, stored>>
=============================================================================
