# A specification of the Context Runtime

`ctx` runs a command for a coding agent, keeps all that the command wrote, and
gives the agent a short summary and a *handle* from which every byte can be
read back. This directory holds TLA+ models of the parts of the program on
which that bargain rests, TLC configurations that check them on small
instances, and proofs, checked by TLAPS, of what matters most for every
instance.

    tlc -workers 2 -config StoreShared.cfg MCStore      # a run: cfg, then its MC module
    tlapm StoreProofs.tla                               # the proofs of a module

`PROJECT.json` lists the runs, the lines each definition translates, the
hazards each property is for, a mutant for each property, and the theorems.

## 1. The system

| Part | Source | State | Operations | Used by |
|---|---|---|---|---|
| Blob files | `ctx-store/src/blobs.rs` | files under `.ctx/blobs/aa/bb/<hash>`, temporaries beside them | `put`, `get`, `exists` | the store |
| Evidence store | `ctx-store/src/store.rs` | tables `blobs`, `runs`, `snapshots` in `.ctx/ctx.sqlite` | `put_blob`, `put_run`, `record_snapshot`; `run_output`, `get_run`, `last_seen_hash`, ... | the CLI |
| Opening the store | `ctx-store/src/store.rs` | the schema, `meta.schema_version` | `open`, `check_schema_version` | every command |
| Symbol index | `ctx-index/src/lib.rs` | tables `indexed_files`, `symbols` in `.ctx/index.sqlite` | `index_all`, `index_files`, `find_definition` | the benchmarks so far |
| Symbol extraction | `ctx-index/src/symbols.rs` | none | `extract_rust` | the index, once per file it parses |
| Token count | `ctx-core/src/tokens.rs` | none that outlives a call; worker threads | `count`, `safe_split_points` | `ctx run` |
| Handles | `ctx-core/src/handle.rs` | none | print, parse | store, CLI |
| `ctx run` | `ctx-cli/src/main.rs` | a child, its pipes, a loader thread | `cmd_run` | |
| `ctx output` | `ctx-cli/src/main.rs` | none | `cmd_output` | |
| `ctx init`, `ctx stats` | `ctx-cli/src/main.rs` | none | open, read a sum, print | |
| Provenance | `ctx-core/src/provenance.rs` | none | data types, `cost_tier` | nothing yet |
| Benchmark harness | `ctx-bench/src/harness.rs`, `stats.rs` | the measurements of a `Runner` | `measure`, `measure_interleaved`, `from_durations`, `compare` | the suite |
| Microbenchmark suite | `ctx-bench/src/main.rs` | its arguments, a scratch store | the calls of the harness in their order, the append to `--out` | |
| Symbol lookup benchmark | `ctx-bench/src/bin/symbols.rs` | a sample of names, an index, results | sample, index twice, time by turns, compare, append | |

**How they interact.** No process serves another. Each `ctx` is a process of
its own that opens the same `.ctx` directory, so the parts meet in shared
files: the blob directory, which nothing locks, and two SQLite databases, where
each statement (store) or each pass (index) is a transaction. Inside a process,
`ctx run` has a loader thread beside the main one, and `count` has up to
sixteen workers.

**What is hard.**

- *Interleaving without locks.* `put` tests for the file, and writes and
  renames it several system calls later, through a temporary name that two
  writers of the same bytes share.
- *Calls of many statements.* `put_run` is two files and four statements with
  no transaction around them; any of them can fail, and a kill or another
  process can come between any two.
- *Stale snapshots.* A pass of the index reads files at one time, the database
  at another, and writes at a third.
- *Text against tree.* The benchmark asks two readers of the same files where a
  name is defined, one with a syntax tree and rows, one with a pattern and the
  text, and each sees files the other does not.
- *Threads and pipes.* A child with two pipes, a helper it leaves behind, a
  loader that is joined late; chunks counted in parallel that must add up to
  exactly the serial count.
- *A machine that drifts.* Two arms of a benchmark run on a machine that changes
  its speed meanwhile, and a verdict must not come from that.
- *Results that are only half there.* Both benchmarks write at the very end what
  they have measured on the way, and much can end them before.
- *Edges.* Division with rounding, a cursor that jumps, an empty output, a
  second in which a file is shown twice, a limit that is reached between two
  streams, a stride through about as many names as are asked for.

What makes each part correct is stated in the modules below, next to the hazard
in `PROJECT.json` that it answers.

## 2. The modules

| Module | Models | Extends |
|---|---|---|
| `BlobFiles` | `blobs.rs`, system call by system call | |
| `AtomicBlobs` | what `put` promises: a content appears whole, in one step, for good | |
| `Store` | `put_blob`, `put_run`, `record_snapshot` and their readers | `BlobFiles` |
| `RunLog` | what `put_run` promises: one more readable run, none ever changed | |
| `StoreOpen` | `open`, `check_schema_version`, binaries of several versions | |
| `SymbolIndex` | a pass of the index, the statements of its transaction, lookups, an editor | |
| `Pretokenizer` | the rule for a cut; the expressions of the vocabularies and the tokens of their pieces | |
| `TokenCount` | `count`, `safe_split_points`, the worker threads | `Pretokenizer` |
| `CtxRun` | `cmd_run`: command, helper, pipes, loader, summary | |
| `CtxOutput` | `cmd_output`, handles | |
| `CtxSession` | `ctx run` and then `ctx output`, with the store between them | `CtxRun`; an instance of `CtxOutput` |
| `Harness` | `Runner`'s calls on a machine that drifts, percentiles, verdicts | |
| `BenchSuite` | the calls `main.rs` of the benchmarks makes, and its scratch store | `Harness` |
| `Symbols` | `extract_rust`; the scan and the pattern of the benchmark, on texts | |
| `SymbolBench` | `bin/symbols.rs`: `main` and all it calls, with an editor | `Symbols` |
| `MC...` | small instances for TLC | the module of the name |
| `...Proofs` | theorems and proofs; those of `BlobFiles` are in `StoreProofs` | the module of the name |

An operator named in a comment as a *fault variant* is a plausible bug of the
definition that follows it. No specification uses it; the mutants of
`PROJECT.json` put it in place of that definition to see that the property
notices.

### State and actions against the code

**BlobFiles.** `blob[c]` and `tmp[c]` are the two directory entries of content
`c`, each a set of blocks (or `Absent`); `fd[p]` says to which of them, or to
which file that has lost its name, the descriptor of `p` refers. `PutExisting`
and `PutMissing` are `path.exists()`; `CreateTmp` and `WriteBlock` are the two
halves of `fs::write`, the open with truncation and the writes; `Rename` and
`RenameMissing` are `fs::rename`, which moves or does not find the temporary.
A file is a set of blocks because all writers of one path write the same bytes:
it can only lack some. A content stands for its digest. `IOError` and `Crash`
come at any system call of the processes in `Faulty`.

**Store.** `step[p]` is where a process is in `put_run` or `record_snapshot`;
inside a `put_blob` the steps are those of `BlobFiles` (`PutFile`). Each SQL
statement is one action: `RegisterBlob` (INSERT OR IGNORE), `CountRuns` and
`CountFails` (COUNT(*) with `unwrap_or(0)`), `InsertRun` (INSERT OR REPLACE,
with its foreign keys), `Upsert`. `Stamp` is the clock, which is read before
the statement asks for the write lock. A run id is the record of what is hashed
into it. `handed` and `last` are history: what was returned to callers.
`blob_meta`, `snapshot_count` and `total_raw_bytes` are plain reads.

**StoreOpen.** `open` statement by statement: `CreateTables`, one table after another
in any order, before `SelectVersion`, then `InsertVersion` or `CompareVersion`. Each process has a
binary of some version.

**SymbolIndex.** `rusqlite`'s `transaction()` is DEFERRED and the database is
in WAL mode, so a pass has a snapshot from its first SELECT (`open`, `view`),
takes the write lock at its first write (`writer`), and cannot take it when
another process has committed since (`stale`): that is `Busy`, and the pass is
rolled back. The steps of the loop are `ReadFile`, `SkipFile` (`continue`),
`Compare`, `SelectFails` (`.ok()`), and the statements that replace a file's rows,
`DeleteSymbols`, `UpsertFile` and one `InsertSymbol` per definition; those of the
sweep are `Sweep`, then `DropSymbols` and `DropFile` for each file that is dropped
(the rows of `symbols` go with those of `indexed_files`: ON DELETE CASCADE); then
`Commit`. A pass may fail or be killed between any two (`Abort`). The files to drop
are dropped in the order of their paths, where the code has that of the table;
nobody sees the difference. `Edit` is the world outside. The walk of the directory
is one step: a file that appears or goes during the walk is one that does so
before or after it.

**Pretokenizer.** The branches of both expressions as functions from an offset
to the end of the match, from the text quoted at `tokens.rs:192-217`; the rule
`Boundary` is the code's, and is used by none of them. `PieceStarts` is the pieces of
a text one match after the other. Which tokens a vocabulary makes of a piece is the
parameter `Begins`: anything that depends on that piece alone, as in
`encode_ordinary`.

**TokenCount.** `CountSerial`, `StartSplit`, `TakePoint`, `EndSplit`,
`NoPoints`, `Spawn`, `Encode(k)`, `Join` follow `count` and `safe_split_points`.
`EncodeLen` tokenizes a chunk as a text of its own, `SerialCount` the whole text. The
tokenizer may panic, on the calling thread (`Serially`) or on a worker (`Encode`);
then `JoinCrashed` waits for the other threads as the scope does, and `Unwind`
panics. A character is one byte: no byte of a longer one is a newline, and the rule
never cuts before one.

**CtxRun.** The main thread's `pc`, the loader, the command and one helper, two
pipes of bounded size. `put_run` is one step here, since `Store` has its steps,
and either stores the run or fails. The command may exit
(`CommandExits`) or be killed by somebody else (`CommandKilled`); a helper it
forked has the same pipes and ends when it likes.

**CtxOutput.** `Ask` types a handle, a query or none and a limit; `NoSuchRun` and
`FindRun` parse it and look the run up, whose two streams become `body`: as text
(`Lossy`, from_utf8_lossy) and in lines (`Trimmed`, a carriage return before the line
feed is lost), which is not always what was stored. Then the loops go on line by line.
`printed` is the lines printed, each with its stream, its number and its text.
Handles are sequences of words of which the colon and the slash are two. It has no
specification of its own and is checked inside `CtxSession`.

**CtxSession.** Once `ctx run` and all it started are gone, `ctx output` is typed.
`Stored` is the store as `run_output` reads it: an older run and, if `CtxRun`
got that far, the new one. A mark that a process of `CtxRun` writes is a line of
`CtxOutput`, so what is printed is compared with the text of what was once written
into the pipes (`written`), through both commands.

**Harness.** A call of `measure` (one arm) or `measure_interleaved` (two) is
`Begin`, one `Execute` per execution of a closure, and `Report`; `NextArm` is
the order of the executions, `Timed` tells cold, warm-up and timed rounds apart.
The duration of an execution is at least (or at most) that of the one before,
whichever arm it is of: both arms do the same work and the machine drifts one
way during a call. That is an assumption about the outside, and the case
`measure_interleaved` was written for. `spent` is history: the timed durations in
the order of the executions. Ratios of medians are compared by multiplication
in per cent, where the code divides in `f64`.

**BenchSuite.** `Suite` is the list of the calls `main` makes, with the size each
is about and the caps it puts on `--iters` and `--warmup`; `BeginItem`,
`ExecuteItem` and `ReportItem` are the actions of `Harness` for the call whose
number is `item`. `byte` is `counter_byte`, a `u8` that each execution of `put_run`
adds one to, `stored` what the scratch store has been given. `ItemFails` is any
`expect` or `?`, `AppendLog` the write of `--out`. A call makes at most 33
executions (30 timed, 2 warm-up, 1 cold), far from where the byte wraps.

**Symbols.** A text is a sequence of lines with at most one item each: `words` up to
its name, `depth`, and whether there is a `body`, a closing parenthesis after the
name (`closed`), and what it is `within`: code, the text of a literal or a comment, or
the body of a macro. Every text parses (`symbols.rs:88-92` gives no rows of one that
does not), and what the parser makes of malformed text is left out.
`Node` is the grammar, which is not in this repository; `Extract` is `extract_rust`
with the list of node kinds (`Declares`) and the container handed down by the
recursion (`NextContainer`). `Matches` is the pattern given to `ripgrep`,
`Candidates`, `Stride` and `Sample` are `sample_symbols`. `Defined` is the reference:
what a reader takes for a definition, from keywords and nesting alone. A keyword
`impl` names no item, only the scope around others. The keyword is the last one before
the name, so `fn union` is a function. `IsText` is what the grammar says of a text
that the proofs need.

**SymbolBench.** An action for each step of `main`: `EnterCorpus` or `SkipCorpus`,
`TakeSample`, `IndexAll` (twice), `Warm`, `TimeLookup` (one answer of one arm),
`NextName`, `FloorStats`, `CompareSites`, `PushResults`, then `AssertNoop` and
`AppendResults`. `index_all` is one step, as `SymbolIndex` shows a pass to be for
everybody outside it; files of `Locked` may be unreadable for it, and keep the rows
they had. The sample and `ripgrep` read every file they look for. `Place` says where a file is: the sample, the index and
`ripgrep` skip different ones of `plain`, `hidden`, `ignored` and `target`
(`Scanned`, `Indexed`, `Searched`). A step may fail (`Fails`, `StepFails`,
`AppendFails`), and so do a division by zero, a failed assertion and statistics
of no samples. `Edit` is somebody who saves a file meanwhile.

## 3. The runs

Passing runs:

| Run | Checks | Bounds |
|---|---|---|
| `StoreOwn` | types, `VisibleWhole`, `HandlesResolve`, `SeenIsCurrent`, `SnapshotsKept`; implements `AtomicBlobs` and `RunLog` | 2 processes, one captures the same run twice, the other captures one and shows a file with 2 contents; 2 runs, 2 seconds; kills, failures at every step |
| `StoreShared` | types, `MissingIsPending`, `OkIsNamed`, `SeqBelowCount`, `NoRowPrecedesItsFile`; `Heals`, `CallReturns` | 3 processes share a content of 2 blocks: 2 capture the same run, the third shows a file with it; COUNT may fail |
| `OpenMixed` | `OnlyUnderstood`, `RefusedForCause`, `VersionFixed` | 2 binaries of version 1 and one of version 2; kills, failures |
| `IndexRace` | types, `RowsAgree`, `PassFreshens` | 2 processes, 2 files, 2 contents, 2 edits, full passes and an explicit list; one content with two definitions and one with none; failing reads and statements, kills |
| `TokensExact` | types, `CountIsExact`, `CutsAreSafe`, `ThreadsAreBounded`, `CutKeepsPieces`; `CountEnds` | both vocabularies, one token per piece; all texts of up to 3 characters of 13 classes, those of 4 with a newline before the last, of 6 and 7 of few classes; 1, 2, 4 cores; threshold 4, chunk 2, 3 workers |
| `RunThenOutput` | types, `StoredIsWhole`, `NothingIsDropped`, `TheRunNamedAnswers`; `PipesDrain`, `RunEnds` | command and helper write up to twice each, pipes of one mark; then 10 handles, limits 0 to 3, with and without a query; a line that is not UTF-8 and one that ends in a carriage return |
| `BenchDrift` | `AnswersItsOwn`, `DriftIsShared`, `WritesAreNew` | the whole suite with 1, 2, 3, 4 and 20 iterations, in full or quick; durations 0 to 3, a threshold of 50 per cent |
| `SymbolLookup` | `DefinitionsAreRight`, `RgOnlyIsExplained`, `ArmsTakeTurns`, `SamplesAreEven`, `NothingHalfReported` | 2 tiers, 4 repositories of up to 3 files, 8 names; samples of 0, 2, 3 and 9; 0 to 2 repetitions; 1 edit after each pass, 1 file that may be unreadable; failures |

**Why the bounds are enough to be of use.** Every hazard listed needs at most
three actors on one object: to replace a whole blob by a cut one takes one writer
that saw the name free, one that completes it and one that cuts the temporary, and
the three processes of `StoreShared` are those; every other race has two sides. Two
blocks let a file lack its head, its tail or all. Two runs let the second be a
repeat of the first. Two definitions let a replacement of rows stop half way, none
let a file have a row and no definition. A pipe of one mark is full after every write.
The texts of `TokensExact` are short against real ones but so are the limits: they reach
serial counts by both conditions, no cut, one and two, chunks that are not of equal
size, and a last chunk of one character. A piece of a text spans a cut because of
the characters next to it: the texts of up to four characters have every class on
either side of a cut, the longer ones two cuts and pieces of several newlines. With one
token to a piece, every piece that a cut divides changes the count. Twenty timed
rounds are the fewest of which the 95th percentile is not the slowest, and 3
against 2 is a change of exactly the threshold. `BenchDrift` has a VIEW
that forgets what earlier calls have pushed, which nothing reads again. Between
them the texts of `SymbolLookup` have every keyword, every kind of modifier, items
four deep, and every kind of line that only looks like a definition; of at most six names
9 are all of them; 2 and 3 of six make strides of three and two, 3 of four and of five
a stride of one, which leaves out the last; an even and an odd number of repetitions
make the turns go either way; a second tier, of the three
the code has, is there to be measured after a first or instead of it. Bounds
on counters are constants named in the modules: `MaxRuns`, `MaxClock`,
`MaxEdits`, `MaxWrites`, `PipeSize`, `MaxLimit`.

**Deadlock** is checked except where the modelled program really ends: `count`,
`ctx run` and `ctx output` return, both benchmarks do, and
in `StoreOwn` and `StoreShared` no run starts beyond `MaxRuns`.

**Fairness.** Weak fairness of what a process does by itself once it is inside
a call (`Store!Proceed`): none of those steps waits for another process but the
ones that ask for SQLite's write lock, which every statement gives back.
Beginning a call, faults and kills have no fairness. In `TokenCount` each thread
and the calling thread are scheduled. In `CtxSession` the main thread and the loader
of `ctx run` are, and the command writes what it has to and exits; nothing makes
anybody kill it or a helper end, and `RunEnds` is about the time after the last of
them has gone. `StoreOpen`, `SymbolIndex`, `BenchSuite` and `SymbolBench` are
checked for safety alone and state none.

**Violation runs.** Each shows that the code does not do what a comment of it
says; `PROJECT.json` quotes the comment under `findings`.

| Run | What TLC finds |
|---|---|
| `BlobsCrash` | two writers of one content, of which one may be killed: a truncated blob under its hash, for good |
| `StoreRace` | two captures of one run at once share an id; one row is lost |
| `SeenTwice` | one process shows contents A, B and A within a second: `last_seen_hash` answers B, since an upsert keeps the rowid that breaks the tie |
| `SampleBias` | a function whose parameters close on its first line is not sampled unless it is `pub(crate)`: the scan goes on behind the first `") "` of the line, which is after the name |

**What the passing properties leave out on purpose.** A property is stated as
strong as the code makes it, and its conditions are where the code does less than
a reader may expect. Those conditions, and why they are there:

- `OkIsNamed` speaks of `Ok`. Two processes that put the same bytes share one
  temporary name, so the loser of the race gets an error from `rename`
  (`RenameMissing`), although its bytes are stored: also for the empty stderr of
  two unrelated commands.
- `MissingIsPending` and `Heals` let a visible blob be torn for a while: a
  writer that found the name free may rename a file over the whole blob that a
  third has just cut to length zero. A handle may be printed in that while.
- `HandlesResolve` and `RunLogSpec` are without `Misread`: a COUNT(*) that fails
  counts as zero (`unwrap_or(0)`), and a later run may get the id of the first.
- `SeenIsCurrent` is what is left of the comment at `store.rs:283` when `SeenTwice` is
  set aside: the answer is of the second of the last show, and is what was shown last
  unless a content that was new after it was shown in that second too.
- `RefusedForCause` counts a lost race to create the store as a cause: the
  second INSERT of the version breaks the primary key and that `open` fails.
- `PassFreshens` is about the files a pass listed and those that are gone. It leaves
  open what becomes of files that are there and not listed: `index_files` with one
  file drops all the others, against the comments at `lib.rs:66` ("dropped because they no
  longer exist") and `lib.rs:205` ("Drop files that have disappeared"); nobody in `src/`
  calls it so. It also leaves out files that were passed over: one
  deleted between the walk and the read keeps its row, and answers lookups.
- `CutKeepsPieces` and `CountIsExact` leave out a cut before a vertical tab. The rule
  tests `is_ascii_whitespace`, which lacks U+000B, and `\s` of the expressions contains
  it, so in newline, vertical tab, newline the rule allows a cut that
  `\s*[\r\n]+` matches over, against the comment at `tokens.rs:207` ("stops at
  `i` because `text[i]` is not whitespace"). Whether the *count* changes depends
  on the vocabulary: it does not if no token of it joins a newline and a vertical tab.
- `NothingIsDropped` is about lines of text. The help of the program says of the handle
  that it is "needed to recover the original bytes" (`main.rs:43`), and `store.rs:3` that
  they are retrievable byte-exactly; `ctx output` prints their lossy
  decoding, line by line, so bytes that are no UTF-8 are U+FFFD and a carriage return
  before a line feed is lost. The bytes themselves are in the store and `run_output` returns them
  (`HandlesResolve`).
- `DriftIsShared` bounds, for the verdict, the drift within a round, not over the call: a jump
  inside one round is not spread over the arms by any order of them.
- `StoredIsWhole` says nothing of output that is not shown: when `put_run` or
  the loader fails after the command has run, its output, or the handle to it, is
  gone with the process.
- `RgOnlyIsExplained` allows two reasons for a site that `ripgrep` alone reports: a
  mistake of its own, `RgMistakes`, or a gap of the index, `IndexMisses`, which is an item
  in the body of a macro as at `symbols.rs:379`. The mistakes are more than the comment
  found: in `const unsafe fn f` the scan and the pattern both take `unsafe` for a name,
  and of the same line the pattern does not find `f`, as its modifiers have no `const`.
- `DefinitionsAreRight` and `RgOnlyIsExplained` hold while the rows are `Current`:
  `ripgrep` reads the files as they are, the index its rows of the last pass, so an
  edit between them counts as a disagreement of the tools, and so does a file the pass
  could not read. How many answers agreed is printed, and is in no line of `--out`.
- `SamplesAreEven` allows the first 40 of 79 names: the stride is rounded down to one.
- `NothingHalfReported` lets a write that fails leave a part of the lines.
  It asks for nothing when nothing is written: `--symbols 0`, an empty
  sample, no repetitions, or a file saved between the two passes end the
  program by a panic, with all earlier repositories' results lost.
- `WritesAreNew` says nothing of two sizes, nor of `run_output`, which reads back a
  content it has stored before `byte` starts anew.

## 4. The proofs

All theorems are for every value of the constants that satisfies the `ASSUME`s
of the module: any number of processes, contents, sizes, files, lengths.
What a theorem needs besides, it says.

**`StoreProofs`, on `BlobFiles`.** `TypeCorrect`: the types are inductive together with
`FdInv`, that an open descriptor on a named file keeps the name in use; without
it a write through a descriptor could not be typed. `VisibleBlobsAreWhole` and
`PutIsAtomic`, under `DisjointWork` (no two processes put the same non-empty
content): `OwnInv` says that the temporary of a writer holds exactly the blocks
before its position, so what it renames is whole, and no rename replaces a blob
by anything else. `OkMeansNamed` needs no condition. `MissingBlocksArePending`,
for any number of writers of one content that are not killed and do not fail,
whatever befalls the processes at work on other contents (`Reliable`), which is
more than `StoreShared` checks, where nobody is killed: the
invariant follows each block from the truncation to the write that brings it
back, through the renames that move descriptors with their file.

**`StoreProofs`, on `Store`.** `StoreUsesPut` shows that a behaviour of the store is one of
`BlobFiles`, so its theorems carry over. `StoreTypeCorrect` needs it for the part
of the state that is `BlobFiles`'s. `RowsNeverPrecedeFiles`: what a call
has in hand (`InHand`) is named before it is registered, so no row of `blobs`,
`runs` or `snapshots` (`SnapInv`) is there before the file it is about.
`CountersStayBelow`:
a counter that was read is at most the number of runs, which only grows.
`EveryHandleResolves` and `StoreIsRunLog`, under `DisjointWork`,
`DisjointCaptures` (no two processes capture the same command with the same
output) and `~Misread`: the invariant adds that every stored run of the same
command and output has a smaller counter than the one just read (`MetaInv`), so
an INSERT OR REPLACE never replaces. `LastSeenIsCurrent` and `HistoryIsRetained`,
under `DisjointShows` (each path is shown by one process): a process that is between
the stamp and the upsert has a stamp no earlier than any row of its path
(`TimeInv`), so the row it writes is the latest (`LastInv`), and only a row that was
inserted after it can come before it, by the rowid; an upsert that
finds the content gives it no earlier a time. With two processes a stamp may be the older one by the
time it is written, which is the hazard at `store.rs:278`.

**`StoreOpenProofs`.** `TypeCorrect`, `NobodyMisreads`, `NoIdleRefusal` and
`VersionIsForEver`, for any number of binaries and versions. `Knows` says for
each step of `open` what the process has made sure of. It is inductive because
only the first INSERT writes the version (`WrittenOnce`): what a process has
selected is the version still when it compares.

**`PretokenizerProofs`.** Lemmas, for texts of every length and both vocabularies. At a
cut the rule allows, except before a vertical tab, the pieces of a text are those of its
two halves (`CutIsSound`). A match that begins before the cut ends there at the latest,
and is the match of the first half (`MatchBefore`): no branch but those for white space
and the tail of punctuation takes a newline, and what follows the cut is neither white
space nor a slash. Only `\s+(?!\S)` would end elsewhere at the end of the first half than
before the cut, and there `\s*[\r\n]+`, which is tried first, has matched. A match that
begins after the cut sees nothing of what is before it (`MatchAfter`). `PieceStarts`
follows the matches by recursion; that its function exists is shown by a closed form
(`Reach`), and the rest goes backwards from the end of the text by its equation. So the
tokens, which a piece alone decides, are those of the halves too (`TokensSplit`,
`CountSplits`).

**`TokenCountProofs`.** `CutsAreAtBoundaries`, `CutsAreSound`, `ParallelCountIsExact`,
`NoMoreThreadsThanWorkers`, for every `Begins`: the invariant says that the cuts are
boundaries a chunk apart (`CutsAreSafe`), that the cursor is a chunk behind the last one
(`Searching`), and, unless a cut is before a vertical tab, that the sum of the joined
chunks is the count of the text up to the last of them (`Summed`, by `CountSplits`).
The arithmetic that bounds the threads is
that n chunks of at least ceil(len / workers) bytes, and one more, fit in len.

**`SymbolIndexProofs`.** `TypeCorrect` and `CommittedRowsAgree`: of each file but the one
whose rows a pass is replacing, committed and uncommitted tables alike hold the
definitions of one content (`TablesAgree`); of that one it is known which statements
have been made and how many definitions are in (`Half`), a pass that commits has none in
hand, and the lock, the phases and the snapshots are in accord
(`Locks`, `Passes`, `Opened`). `IndexIsFreshened`: what a pass sees is the
committed database until somebody else commits or it writes itself (`Following`);
what it sees is right of every file the loop is through with (`Behind`) and, once the
sweep is over, has no others (`Swept`); the bytes in hand are those on disk unless
the editor was there (`AtFile`). None of the three is inductive alone: the rows of a
file are right because of the bytes compared, and those count because an edit
puts the file in `dirty`.

**`SymbolBenchProofs`.** `TurnsAreTaken`: for every sample and any number of
repetitions. `InLoop` says by how much `ripgrep` has led more often than the
index when a repetition begins (`Due`). With an even number of repetitions the
lead is evened out within each name, with an odd number the last repetition of a
name and the first of the next one have different leads. `SamplesAreStrided`: the
names sorted are those of the set, each at the place that as many come before, and
a stride, which is rounded down, is more than half of what it would be exactly.
`ReportIsWhole`: when a loop over a sample is over, each arm has one answer for every
name and repetition (`LoopInv`, on top of the turns), and each repository whose
build is among the results has both its arms there but the one at work
(`ReportInv`); what fails before the append leaves `out` empty.
`ExtractIsDefined`, for every text: what `walk` hands down as the container is a
function defined by recursion over the lines, so the proof shows that the nearest
scope satisfies its equation (`ChildOfWalks`) and that nothing else does, for
where two such functions differ first they agree on the parent (`WalkIsUnique`);
that the nearest scope of a line is its parent's, unless that is one, is a matter of
nesting (`EnclosedIs`, `AroundIs`). `DefinitionsAreFound` adds that the rows are those
of the files as they are while they are current (`FreshInv`), and `RgOnlyIsWhatItSays`
that where the pattern matches the name that a line of code declares, the line is an
item of that name (`MatchDeclares`), which a fresh index has.

**`CtxSessionProofs`.** Through both commands, for all schedules of the main thread,
the loader, the command and its helper, and for all handles, queries and limits.
`RunIsStoredWhole`: what a process has written is what was captured followed by what
is in the pipe (`PipesInv`), and `put_run` comes only when nobody holds a pipe
and both are empty (`RunInv`). `HandleFindsItsRun`: the first separator of a printed
handle is the one after its kind, so parsing gives back the id, whatever words that
has (`HandleFinds`), and the lines that are printed are of the run so found
(`HandleInv`). `OutputDropsNothing`: of the
lines passed so far, over the end of one stream and into the next, as many are
counted as match, the smaller of that number and the limit is printed, and they are
the first of the matching ones (`ScanInv`). Counting replaces recursion there:
`Kept` puts the matching lines at the places that `Rank` gives them.
`SessionIsTyped` is needed by all of them.

**`BenchSuiteProofs`.** For every suite of arguments, every number of rounds and
every duration. `AnswersAreOwn`: the samples of an arm are the executions of its
own turns (`Paired`, `Turn`), as many at the end as rounds were asked for
(`EachRound`), and an answer is made of the last entries of the log, whatever is
before them (`RunnerInv`); that a percentile is the nearest rank follows from the
counts of what is less than a value and of what is up to it (`PercentileIsNearest`),
for every sample, not only for those that rise or fall. `DriftHitsBothArms`: since the
machine drifts one way, the samples of an arm rise or fall, a percentile of either
arm is the sample of the same round (`QuantileIsTurn`), and two durations of one
round compare as neutral when the round is steady. `NoContentTwice`: `byte` is
the number of executions of this `put_run` (`Writing`), which the caps on
`--iters` and `--warmup` keep below 256, and what the store holds was written under a
smaller byte or for another size (`Written`).

**Assumptions.** Besides types and bounds: `IdsAreWords`, `TypedAssumption`,
`TextAssumption` and `NamesAssumption` say that what the models call a sequence is
one, of whatever values; `TextsAssumption` says it of the texts, whose items besides
have nothing but modifiers before an `impl`; `DisjointWork`, `DisjointCaptures`, `DisjointShows`,
`Reliable` and `~Misread` are conditions of single theorems, stated there, and
those under which the hazards of section 3 do not bite.

Properties under conditions are stated unconditionally in the modules
(`VisibleWhole`, `HandlesResolve`); the configurations choose constants that
satisfy the conditions, the theorems assume them, and the violation runs show
what happens when they do not hold.

**Model-checked only.** Liveness: `Heals`, `CallReturns`, `CountEnds`, `PipesDrain`,
`RunEnds`, since the prover has no ENABLED and no fairness. Every safety invariant and
every action property of a passing run is proved, some under the conditions named
above, which the configurations of the runs satisfy.

**How the models were made fit for it.** The least of a set of numbers can be had
from `WFMin` and the well-foundedness of `<`, which takes the place of induction
where a bound is needed (`LeastNat`, `Downward`); it also shows that a function is the only one with
a recursive equation, which is as good as induction over a text where the answer can be
written down. That there is such a function at all follows from its closed form, and where
the recursion has none of its own, from the sets closed under a step of it (`Reach`). `SelectSeq`, `SortSeq`, and the `:>` and
`@@` of `TLC` are opaque to the prover, so the models filter and sort by
counting (`Kept`, `Sorted`, `Ascending`): the sequence that has at place k the
element that k are up to.

## 5. What is not modelled

- Loss of power: files and tables survive a kill, not necessarily the machine.
- Contents of blobs, digests, collisions; formatting; tracing.
- The vocabularies themselves: the tokens of a piece are arbitrary in the proofs, one
  in the runs. Characters of several bytes: each is one byte long.
- Source that does not parse, and the nodes the parser makes up for malformed source.
- The version of the extractor: an unchanged file keeps the rows an older one wrote
  (`lib.rs:160`), and the database does not say which one that was. Nor the line an
  item ends at, nor how deep a syntax tree may be for the recursion of `walk`.
- `ctx init`, `ctx stats`, `provenance.rs`: no behaviour beyond what is here.
- What the benchmarks measure and print: latencies, tokens, environment,
  fingerprints; of an answer only that it was given, and where its sites are.
- The router, the packet compiler, the tool gateway and the memory of
  `docs/architecture-v0.md`, which are marked planned there and have no code.
- A clock that goes back; two processes that show one path (the time of a
  snapshot may then go back by as long as the statement waited).

## 6. Plan

Built in this order, the most important first: `BlobFiles` and what it
promises, `Store` on top of it, their proofs; `StoreOpen`; `SymbolIndex` and
its proofs; `TokenCount` and `Pretokenizer`, first apart and then one on the other; `CtxRun`; `CtxOutput`;
`Harness`; then `CtxSession`, which joins the two commands; `BenchSuite`,
`Symbols` and `SymbolBench`; the proofs of `StoreOpen` and `SymbolBench`; those of
`CtxSession` and `BenchSuite`, of the passes of the index, of the snapshots and of
`Pretokenizer`.

Next:

1. Loss of power: what is durable when of the file, its name and the commit; a
   run whose row survives and whose blob does not.
2. `ctx run` composed with `Store`: two commands at once from start to handle,
   and `ctx output` reading while they run.
3. A proof that `CtxRun`'s `put_run` is a step of `RunLog`.
