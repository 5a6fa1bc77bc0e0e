------------------------------- MODULE Store -------------------------------
(***************************************************************************)
(* The evidence store, crates/ctx-store/src/store.rs, on top of the blob   *)
(* files: put_blob, put_run, run_output, get_run, record_snapshot,         *)
(* last_seen_hash, snapshot_count, total_raw_bytes.                        *)
(*                                                                         *)
(* Every SQL statement runs in a transaction of its own (no call of the    *)
(* store opens one), so it is one step here, and nothing ties the steps of *)
(* one call together: other processes, a kill or a failing statement may   *)
(* come between any two of them.                                           *)
(*                                                                         *)
(* Data abstraction.  A run id is the record of what is hashed into it     *)
(* (twelve hex digits of blake3, taken to be collision-free); everything a *)
(* runs row says beside its key (cwd, exit code, duration) is one value,   *)
(* `meta`.  Time is counted in the seconds the program stores.             *)
(***************************************************************************)
EXTENDS BlobFiles, FiniteSets, Sequences

CONSTANTS
  Captures,  \* Captures[p]: executions p may capture, [cmd, out, err, meta]
  Shows,     \* Shows[p]: what p may show the agent, [path, bytes]
  Path,      \* the files of the repository
  NoJob,     \* the job of a process that is in no call
  Misread,   \* whether SELECT COUNT(*) FROM runs may fail
  MaxRuns,   \* bound: no further put_run starts once so many runs are stored
  MaxClock   \* bound: the last second

ASSUME JobAssumption ==
  \A p \in Proc :
    /\ \A e \in Captures[p] : e # NoJob /\ e.out \in Work[p] /\ e.err \in Work[p]
    /\ \A s \in Shows[p] : s # NoJob /\ s.bytes \in Work[p] /\ s.path \in Path
ASSUME MisreadAssumption == Misread \in BOOLEAN
ASSUME BoundAssumption   == MaxRuns \in Nat /\ MaxClock \in Nat

VARIABLES
  rows,   \* table blobs: the hashes (contents) that have a row
  runs,   \* table runs: id -> the meta of its row
  snaps,  \* table snapshots: snaps[path] is its rows in rowid order
  clock,  \* SystemTime in whole seconds
  step,   \* step[p]: where p is inside put_run or record_snapshot
  job,    \* job[p]: the arguments of the call
  seq,    \* seq[p]: the local `seq` of put_run
  stamp,  \* stamp[p]: the Self::now() bound as a statement parameter
  handed, \* history: the handles put_run returned, with the run they are for
  last    \* history: last[path] is the row record_snapshot last wrote

tables    == <<rows, runs, snaps>>
locals    == <<step, job, seq, stamp>>
history   == <<handed, last>>
storeVars == <<vars, tables, clock, locals, history>>

RunSteps  == {"out", "err", "count", "insert"}
ShowSteps == {"bytes", "stamp", "upsert"}

Commands == {e.cmd : e \in UNION {Captures[p] : p \in Proc}}
IdType   == [cmd : Commands, out : Content, err : Content, seq : Nat]

\* Types of the store's tables and of the locals of its calls: a call is in a
\* step of its own kind, and is inside put only while it waits for a blob.
StoreTypeOK ==
  /\ TypeOK
  /\ rows \in SUBSET Content
  /\ DOMAIN runs \subseteq IdType
  /\ \A f \in Path : \A i \in DOMAIN snaps[f] :
       snaps[f][i].bytes \in Content /\ snaps[f][i].seen \in 0..MaxClock
  /\ clock \in 0..MaxClock
  /\ step \in [Proc -> {"none"} \cup RunSteps \cup ShowSteps]
  /\ \A p \in Proc :
       /\ step[p] \in RunSteps  => job[p] \in Captures[p]
       /\ step[p] \in ShowSteps => job[p] \in Shows[p]
       /\ step[p] \notin {"out", "err", "bytes"} => pc[p] = "idle"
  /\ seq \in [Proc -> Nat] /\ stamp \in [Proc -> 0..MaxClock]

StoreInit ==
  /\ Init
  /\ rows = {} /\ runs = [i \in {} |-> NoJob] /\ snaps = [f \in Path |-> <<>>]
  /\ clock = 0
  /\ step  = [p \in Proc |-> "none"]
  /\ job   = [p \in Proc |-> NoJob]
  /\ seq   = [p \in Proc |-> 0]
  /\ stamp = [p \in Proc |-> 0]
  /\ handed = {} /\ last = [f \in Path |-> NoJob]

-----------------------------------------------------------------------------
(* Calls begin and end.                                                    *)

Goto(p, s) == step' = [step EXCEPT ![p] = s]
Leave(p)   == Goto(p, "none") /\ job' = [job EXCEPT ![p] = NoJob]

BeginRun(p, e) ==
  /\ step[p] = "none" /\ Cardinality(DOMAIN runs) < MaxRuns
  /\ Goto(p, "out") /\ job' = [job EXCEPT ![p] = e]
  /\ UNCHANGED <<vars, tables, clock, seq, stamp, history>>

BeginShow(p, s) ==
  /\ step[p] = "none"
  /\ Goto(p, "bytes") /\ job' = [job EXCEPT ![p] = s]
  /\ UNCHANGED <<vars, tables, clock, seq, stamp, history>>

-----------------------------------------------------------------------------
(* put_blob: the file, then the row.                                       *)

Want(p) ==
  IF step[p] = "out" THEN job[p].out ELSE IF step[p] = "err" THEN job[p].err ELSE job[p].bytes

\* Fault variant for the checks: the row is written before the file.
PutFileRowFirst(p) ==
  /\ step[p] \in {"out", "err", "bytes"}
  /\ \/ PutExisting(p, Want(p)) \/ PutMissing(p, Want(p))
     \/ CreateTmp(p) \/ WriteBlock(p) \/ Rename(p) \/ RenameMissing(p)
  /\ rows' = rows \cup {Want(p)}
  /\ UNCHANGED <<runs, snaps, clock, locals, history>>

PutFile(p) ==
  /\ step[p] \in {"out", "err", "bytes"}
  /\ \/ PutExisting(p, Want(p)) \/ PutMissing(p, Want(p))
     \/ CreateTmp(p) \/ WriteBlock(p) \/ Rename(p) \/ RenameMissing(p)
  /\ UNCHANGED <<tables, clock, locals, history>>

\* Fault variant for the checks: a run goes the way of a snapshot.
AfterBlobSame(s) == IF s = "out" THEN "err" ELSE "stamp"

\* What put_run or record_snapshot does once put_blob has returned.
AfterBlob(s) == IF s = "out" THEN "err" ELSE IF s = "err" THEN "count" ELSE "stamp"

\* INSERT OR IGNORE INTO blobs.
RegisterBlob(p) ==
  /\ pc[p] = "ok" /\ Return(p)
  /\ rows' = rows \cup {cur[p]}
  /\ Goto(p, AfterBlob(step[p]))
  /\ UNCHANGED <<runs, snaps, clock, job, seq, stamp, history>>

\* `?` on blobs::put, or on the INSERT: put_run and record_snapshot return
\* the error; what earlier steps stored stays.
PutBlobFails(p) ==
  /\ pc[p] = "err" \/ (p \in Faulty /\ pc[p] = "ok")
  /\ Return(p) /\ Leave(p)
  /\ UNCHANGED <<tables, clock, seq, stamp, history>>

PutFault(p) == IOError(p) /\ UNCHANGED <<tables, clock, locals, history>>

-----------------------------------------------------------------------------
(* put_run, after the two blobs.                                           *)

\* Fault variants for the checks: the counter is left out of the id; the run
\* being captured is counted already.
CountIgnored(p) ==
  /\ step[p] = "count" /\ Goto(p, "insert")
  /\ seq' = [seq EXCEPT ![p] = 0]
  /\ UNCHANGED <<vars, tables, clock, job, stamp, history>>

CountSelf(p) ==
  /\ step[p] = "count" /\ Goto(p, "insert")
  /\ seq' = [seq EXCEPT ![p] = Cardinality(DOMAIN runs) + 1]
  /\ UNCHANGED <<vars, tables, clock, job, stamp, history>>

CountRuns(p) ==
  /\ step[p] = "count" /\ Goto(p, "insert")
  /\ seq' = [seq EXCEPT ![p] = Cardinality(DOMAIN runs)]
  /\ UNCHANGED <<vars, tables, clock, job, stamp, history>>

\* `.unwrap_or(0)`: a failing COUNT(*) is taken for an empty table.
CountFails(p) ==
  /\ Misread /\ step[p] = "count" /\ Goto(p, "insert")
  /\ seq' = [seq EXCEPT ![p] = 0]
  /\ UNCHANGED <<vars, tables, clock, job, stamp, history>>

RunId(p) == [cmd |-> job[p].cmd, out |-> job[p].out, err |-> job[p].err, seq |-> seq[p]]

\* What the foreign keys of a runs row ask for.
References(id) == {id.out, id.err} \subseteq rows

\* INSERT OR REPLACE INTO runs: a row of the same id is overwritten.  The call
\* returns output://run/<id>.
InsertRun(p) ==
  LET id == RunId(p) IN
  /\ step[p] = "insert" /\ References(id) /\ Leave(p)
  /\ runs' = [i \in DOMAIN runs \cup {id} |-> IF i = id THEN job[p].meta ELSE runs[i]]
  /\ handed' = handed \cup {[id |-> id, meta |-> job[p].meta]}
  /\ UNCHANGED <<vars, rows, snaps, clock, seq, stamp, last>>

InsertFails(p) ==
  /\ step[p] \in {"insert", "upsert"} /\ Leave(p)
  /\ p \in Faulty \/ (step[p] = "insert" /\ ~References(RunId(p)))
  /\ UNCHANGED <<vars, tables, clock, seq, stamp, history>>

-----------------------------------------------------------------------------
(* record_snapshot, after its blob.                                        *)

\* Self::now() is read before the statement takes the database's write lock.
Stamp(p) ==
  /\ step[p] = "stamp" /\ Goto(p, "upsert")
  /\ stamp' = [stamp EXCEPT ![p] = clock]
  /\ UNCHANGED <<vars, tables, clock, job, seq, history>>

RowOf(f, c) == {i \in DOMAIN snaps[f] : snaps[f][i].bytes = c}

\* Fault variants for the checks: ON CONFLICT DO NOTHING; a key of path alone.
UpsertIgnored(f, new) ==
  IF RowOf(f, new.bytes) = {} THEN Append(snaps[f], new) ELSE snaps[f]

UpsertPerPath(f, new) == <<new>>

\* The table after the upsert: a row of this (path, content_hash) gets the new
\* seen_at and keeps its rowid, otherwise a row is added.
Upserted(f, new) ==
  IF RowOf(f, new.bytes) = {}
  THEN Append(snaps[f], new)
  ELSE [i \in DOMAIN snaps[f] |-> IF i \in RowOf(f, new.bytes) THEN new ELSE snaps[f][i]]

Upsert(p) ==
  LET f   == job[p].path
      new == [bytes |-> job[p].bytes, seen |-> stamp[p]]
  IN /\ step[p] = "upsert" /\ Leave(p)
     /\ snaps' = [snaps EXCEPT ![f] = Upserted(f, new)]
     /\ last'  = [last EXCEPT ![f] = new]
     /\ UNCHANGED <<vars, rows, runs, clock, seq, stamp, handed>>

-----------------------------------------------------------------------------
(* What the readers return.                                                *)

\* last_seen_hash: ORDER BY seen_at DESC, rowid DESC LIMIT 1.
LastSeen(f) ==
  CHOOSE r \in {<<i, snaps[f][i]>> : i \in DOMAIN snaps[f]} :
    \A j \in DOMAIN snaps[f] :
      \/ snaps[f][j].seen < r[2].seen
      \/ snaps[f][j].seen = r[2].seen /\ j <= r[1]

SnapshotCount(f) == Len(snaps[f])

\* run_output: the row, then one file after the other; every part is there.
RunOutput(id) == id \in DOMAIN runs /\ Whole(id.out) /\ Whole(id.err)

\* get_run: the row as it was captured, both lengths from the joined rows and
\* not from COALESCE(..., 0).
GetRun(id, meta) == id \in DOMAIN runs /\ runs[id] = meta /\ References(id)

-----------------------------------------------------------------------------
(* Kills and time.                                                         *)

Kill(p) ==
  /\ p \in Faulty /\ step[p] # "none" /\ Leave(p)
  /\ IF pc[p] = "idle" THEN UNCHANGED vars ELSE Crash(p)
  /\ UNCHANGED <<tables, clock, seq, stamp, history>>

Tick ==
  /\ clock < MaxClock /\ clock' = clock + 1
  /\ UNCHANGED <<vars, tables, locals, history>>

\* What a call does by itself, without faults.
Proceed(p) ==
  \/ PutFile(p) \/ RegisterBlob(p) \/ PutBlobFails(p)
  \/ CountRuns(p) \/ InsertRun(p) \/ InsertFails(p) \/ Stamp(p) \/ Upsert(p)

StoreNext ==
  \/ \E p \in Proc :
       \/ \E e \in Captures[p] : BeginRun(p, e)
       \/ \E s \in Shows[p] : BeginShow(p, s)
       \/ Proceed(p)
       \/ PutFault(p) \/ CountFails(p) \/ Kill(p)
  \/ Tick

StoreSpec == StoreInit /\ [][StoreNext]_storeVars

\* A call runs on until it returns: the statements wait for the write lock at
\* most, which every statement gives back.
FairStoreSpec == StoreSpec /\ \A p \in Proc : WF_storeVars(Proceed(p))

-----------------------------------------------------------------------------
(* Properties of captured runs.                                            *)

\* No two processes capture the same command with the same output.
DisjointCaptures ==
  \A p, q \in Proc : p # q => \A e \in Captures[p], f \in Captures[q] :
    <<e.cmd, e.out, e.err>> # <<f.cmd, f.out, f.err>>

\* Whatever is killed and whatever fails, a handle that put_run returned gives
\* back the run it was returned for, now and later: both streams byte-exactly,
\* the metadata of that very execution, and both lengths.  Under DisjointWork
\* and DisjointCaptures.
HandlesResolve == \A h \in handed : RunOutput(h.id) /\ GetRun(h.id, h.meta)

\* A blobs row, which total_raw_bytes counts and foreign keys point at, has a file.
RowsAreNamed == \A c \in rows : Exists(c)

\* The counter in a stored id is below the number of stored runs, after a lost
\* race and a misread count too: so a put_run that starts when no other is
\* between its count and its insert gets an id that no run has.
SeqBelowCount == \A id \in DOMAIN runs : id.seq < Cardinality(DOMAIN runs)

\* The stored runs as the log has them.
Book ==
  [i \in DOMAIN runs |->
     [meta  |-> runs[i],
      state |-> IF RunOutput(i) /\ References(i) THEN "readable" ELSE "damaged"]]
Log == INSTANCE RunLog WITH book <- Book
\* put_run implements the run log: one readable run more, none ever changed,
\* whatever is killed and fails, under DisjointWork and DisjointCaptures.
RunLogSpec == Log!Spec

\* Every call comes back, also the loser of a race for a temporary file.
CallReturns == \A p \in Proc : step[p] # "none" ~> step[p] = "none"

-----------------------------------------------------------------------------
(* Properties of snapshots.                                                *)

\* Each path is shown by one process.
DisjointShows ==
  \A p, q \in Proc : p # q => \A s \in Shows[p], t \in Shows[q] : s.path # t.path

\* The clock does not go back: under DisjointShows, the content shown last is
\* recorded with the time of that show, last_seen_hash answers with a content of
\* that second, and with the one shown last, unless another one that was first
\* shown after it was shown in that second too.
SeenIsCurrent ==
  \A f \in Path : last[f] # NoJob =>
    /\ LastSeen(f)[2].seen = last[f].seen
    /\ \E i \in DOMAIN snaps[f] :
         /\ snaps[f][i] = last[f]
         /\ (\A j \in DOMAIN snaps[f] : j > i => snaps[f][j].seen < last[f].seen)
              => LastSeen(f)[2] = last[f]

\* "history is retained across edits" (store.rs:46): a content once shown for a
\* path stays recorded, and the time it was last shown does not go back, under
\* DisjointShows.
SnapshotsKept ==
  [][\A f \in Path : \A i \in DOMAIN snaps[f] : \E j \in DOMAIN snaps'[f] :
       /\ snaps'[f][j].bytes = snaps[f][i].bytes
       /\ snaps'[f][j].seen >= snaps[f][i].seen]_storeVars

\* What a snapshot says was shown has a blobs row.
SnapshotsHaveRows == \A f \in Path : \A i \in DOMAIN snaps[f] : snaps[f][i].bytes \in rows

\* Any number of writers, kills and failures: no row of any table precedes the
\* file it is about.  Of runs the foreign keys see to it, of snapshots, which
\* have none, only the order of the steps, and of blobs too.
NoRowPrecedesItsFile ==
  RowsAreNamed /\ SnapshotsHaveRows /\ \A id \in DOMAIN runs : References(id)

-----------------------------------------------------------------------------
(* What comments claim and the code refutes.                               *)

\* store.rs:187: the id is "distinct for repeat runs of the same command with
\* identical output": a handle names one execution.  Overlapping captures
\* refute it.
RepeatRunsDistinct == \A g, h \in handed : g.id = h.id => g.meta = h.meta

\* store.rs:283: last_seen_hash is "the content hash most recently shown for
\* `path`".  One process that shows two contents, and the first again, within a
\* second refutes it: the upsert keeps the rowid, which breaks the tie.
LastShownIsSeen == \A f \in Path : last[f] # NoJob => LastSeen(f)[2].bytes = last[f].bytes
=============================================================================
