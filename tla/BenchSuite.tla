----------------------------- MODULE BenchSuite -----------------------------
(***************************************************************************)
(* The microbenchmark suite, crates/ctx-bench/src/main.rs: main, which     *)
(* makes the calls of Harness one after the other, with --iters and        *)
(* --warmup capped differently for each, and appends what the runner has   *)
(* recorded when all of them are through.                                  *)
(*                                                                         *)
(* Data abstraction.  Sizes are in KiB.  What put_run is given differs in  *)
(* its size and its first byte; the scratch store is the set of contents   *)
(* it was given (Store has the rest).  --out is given.                     *)
(***************************************************************************)
EXTENDS Harness

CONSTANT Cli \* the arguments the suite is started with

ASSUME CliAssumption ==
  Cli \subseteq [iters : Nat \ {0}, warmup : Nat, quick : BOOLEAN]

VARIABLES
  cli,    \* the arguments
  item,   \* the number of the call in the suite
  byte,   \* counter_byte
  stored  \* the contents in the scratch store: <<size, first byte>>

suiteVars == <<vars, cli, item, byte, stored>>

-----------------------------------------------------------------------------

Iters(cap)  == AtMost(cap, cli.iters)
Warmup(cap) == AtMost(cap, cli.warmup)

Call(kind, size, width, w, n) ==
  [kind |-> kind, size |-> size, arms |-> IF width = 1 THEN <<"a">> ELSE <<"a", "b">>,
   warmup |-> w, iters |-> n]

TokenSizes == IF cli.quick THEN <<1, 100, 1024>> ELSE <<1, 100, 1024, 10240, 40960>>
StoreSizes == IF cli.quick THEN <<1, 1024>> ELSE <<1, 1024, 40960>>

Count(size) == Call("count", size, 2, Warmup(3),
  IF size > 10240 THEN Iters(5) ELSE IF size > 1024 THEN Iters(10) ELSE cli.iters)
PutRun(size) == Call("put_run", size, 1, Warmup(2), IF size > 1024 THEN Iters(5) ELSE Iters(30))
RunOutput(size) == Call("run_output", size, 1, Warmup(2), IF size > 1024 THEN Iters(10) ELSE Iters(30))

\* The calls of main in their order.
Suite ==
  <<Call("construct", 0, 1, 0, Iters(10))>>
  \o [k \in DOMAIN TokenSizes |-> Count(TokenSizes[k])]
  \o <<Call("noboundary", 4096, 2, 1, Iters(8))>>
  \o [k \in 1..(2 * Len(StoreSizes)) |->
        IF k % 2 = 1 THEN PutRun(StoreSizes[(k + 1) \div 2]) ELSE RunOutput(StoreSizes[k \div 2])]
  \o <<Call("last_seen_hash", 64, 1, cli.warmup, cli.iters)>>

This == Suite[item]

SuiteInit == Init /\ cli \in Cli /\ item = 1 /\ byte = 0 /\ stored = {}

\* The counter starts at zero for every size; a run to read back is stored before
\* run_output is timed.
BeginItem ==
  /\ item <= Len(Suite) /\ Begin(This.arms, This.warmup, This.iters)
  /\ byte' = IF This.kind = "put_run" THEN 0 ELSE byte
  /\ stored' = IF This.kind = "run_output" THEN stored \cup {<<This.size, 0>>} ELSE stored
  /\ UNCHANGED <<cli, item>>

\* Fault variant for the checks: the first byte is not varied.
PayloadSame == byte

\* wrapping_add(1), of a u8.
Payload == (byte + 1) % 256

ExecuteItem ==
  /\ Execute
  /\ IF This.kind = "put_run" THEN byte' = Payload /\ stored' = stored \cup {<<This.size, Payload>>}
                              ELSE UNCHANGED <<byte, stored>>
  /\ UNCHANGED <<cli, item>>

ReportItem == Report /\ item' = item + 1 /\ UNCHANGED <<cli, byte, stored>>

\* The vocabulary or the store fails within a call or between two of them: a
\* panic or a `?`, with nothing appended.
ItemFails ==
  /\ pc \in {"idle", "timing"} /\ item <= Len(Suite) /\ pc' = "failed"
  /\ UNCHANGED <<call, done, trend, time, cold, samples, spent, log, answer, cli, item, byte, stored>>

\* All lines are appended; a write that fails may leave some of them.
AppendLog ==
  /\ pc = "idle" /\ item > Len(Suite) /\ pc' \in {"done", "failed"}
  /\ UNCHANGED <<call, done, trend, time, cold, samples, spent, log, answer, cli, item, byte, stored>>

SuiteNext == BeginItem \/ ExecuteItem \/ ReportItem \/ ItemFails \/ AppendLog

SuiteSpec == SuiteInit /\ [][SuiteNext]_suiteVars

-----------------------------------------------------------------------------

\* "Each iteration writes distinct bytes, so dedup does not flatter the result"
\* (main.rs:198): no execution of put_run, cold, warm-up or timed, is given a
\* content that the store already has.
WritesAreNew ==
  [][ExecuteItem /\ This.kind = "put_run" => <<This.size, byte'>> \notin stored]_suiteVars
=============================================================================
