---------------------------- MODULE SymbolIndex ----------------------------
(***************************************************************************)
(* The incremental symbol index, crates/ctx-index/src/lib.rs: index_all,   *)
(* index_files, find_definition.                                           *)
(*                                                                         *)
(* Several processes may index one repository, into one database, while an *)
(* editor changes the files.  A pass is one SQLite transaction, opened     *)
(* DEFERRED (what Connection::transaction does) on a database in WAL mode: *)
(* its first SELECT fixes the snapshot it reads, its first DELETE or       *)
(* INSERT takes the write lock, and that fails when another process has    *)
(* committed since the snapshot.  Every statement of the pass is a step of *)
(* its own, so between any two of them a file may be half replaced in the  *)
(* view of the transaction, and the pass may fail or be killed there.      *)
(*                                                                         *)
(* Data abstraction.  A file's content stands for its own hash; Defs gives *)
(* the definitions extract_rust finds in it.  The files of a pass are read *)
(* in the order of its list, which is sorted by path.                      *)
(***************************************************************************)
EXTENDS Naturals, Sequences, FiniteSets, Functions

CONSTANTS
  Proc,      \* processes that index
  Files,     \* the .rs files of the repository that may exist, sorted by path
  Content,   \* what a file may hold
  Defs,      \* Defs[c]: the definitions in content c, in the order they are found
  Gone,      \* no such file; no such row
  Lists,     \* explicit lists that index_files may be called with
  Faults,    \* whether a read may fail, a statement may fail, a process be killed
  MaxEdits   \* bound: how often the editor changes a file

File == Range(Files)
NoRow == [hash |-> Gone, count |-> 0, defs |-> <<>>]

ASSUME ContentAssumption == Gone \notin Content
ASSUME ProcAssumption    == Gone \notin Proc
ASSUME DefsAssumption    == \A c \in Content : Defs[c] \in Seq(Range(Defs[c]))
ASSUME FilesAssumption   == Files \in Seq(Range(Files))
ASSUME ListsAssumption   == \A l \in Lists : l \in Seq(File)
ASSUME FaultsAssumption  == Faults \in BOOLEAN /\ MaxEdits \in Nat

VARIABLES
  disk,   \* disk[f]: the content of f, or Gone
  db,     \* db[f]: what the committed database holds of f: its indexed_files
          \* row (hash, symbol_count) and its rows in symbols, oldest first
  writer, \* the process that holds the write lock, or Gone
  pc,     \* pc[p]: where p is inside index_files
  list,   \* list[p]: the argument `files`
  todo,   \* todo[p]: how many of them the loop is through with
  bytes,  \* bytes[p]: the content the loop has read and not yet compared
  added,  \* added[p]: how many of the file's definitions are inserted so far
  known,  \* known[p]: the files with a row that are still to be dropped
  view,   \* view[p]: the database as p's transaction sees it, p's changes included
  open,   \* open[p]: whether p's transaction has fixed its snapshot
  stale,  \* stale[p]: whether another process has committed since
  edits,  \* number of changes the editor has made
  dirty,  \* history: dirty[p]: the files the editor changed during p's pass
  skipped \* history: skipped[p]: the files p's pass did not get to read

txn  == <<view, open, stale>>
past == <<edits, dirty, skipped>>
vars == <<disk, db, writer, pc, list, todo, bytes, added, known, txn, past>>

Definition == UNION {Range(Defs[c]) : c \in Content}
Phase == {"idle", "read", "compare", "delete", "upsert", "insert", "sweep", "drop", "forget", "commit"}
Row   == [hash : Content \cup {Gone}, count : Nat, defs : Seq(Definition)]

\* Types of the index and of a pass; the write lock is held by a transaction
\* whose snapshot is current.
IndexTypeOK ==
  /\ disk \in [File -> Content \cup {Gone}]
  /\ \A f \in File : db[f] \in Row
  /\ writer \in Proc \cup {Gone}
  /\ pc \in [Proc -> Phase]
  /\ \A p \in Proc : list[p] \in Seq(File) /\ todo[p] \in 0..Len(list[p])
  /\ bytes \in [Proc -> Content \cup {Gone}]
  /\ added \in [Proc -> Nat] /\ \A p \in Proc : known[p] \in Seq(File)
  /\ \A p \in Proc, f \in File : view[p][f] \in Row
  /\ open \in [Proc -> BOOLEAN] /\ stale \in [Proc -> BOOLEAN]
  /\ edits \in 0..MaxEdits /\ dirty \in [Proc -> SUBSET File] /\ skipped \in [Proc -> SUBSET File]
  \* the write lock is held by a transaction with a snapshot that is current
  /\ writer # Gone => open[writer] /\ ~stale[writer]

Init ==
  /\ disk \in [File -> Content \cup {Gone}]
  /\ db = [f \in File |-> NoRow]
  /\ writer = Gone
  /\ pc    = [p \in Proc |-> "idle"]
  /\ list  = [p \in Proc |-> <<>>]
  /\ todo  = [p \in Proc |-> 0]
  /\ bytes = [p \in Proc |-> Gone]
  /\ added = [p \in Proc |-> 0]
  /\ known = [p \in Proc |-> <<>>]
  /\ view  = [p \in Proc |-> [f \in File |-> NoRow]]
  /\ open  = [p \in Proc |-> FALSE]
  /\ stale = [p \in Proc |-> FALSE]
  /\ edits = 0
  /\ dirty = [p \in Proc |-> {}] /\ skipped = [p \in Proc |-> {}]

-----------------------------------------------------------------------------
(* The transaction.                                                        *)

Goto(p, s) == pc' = [pc EXCEPT ![p] = s]

\* A SELECT of p: the first one takes the committed database for its snapshot.
Snapshot(p) == IF open[p] THEN view[p] ELSE db

\* Fault variant for the checks: a stale snapshot is written from.
MayWriteStale(p) == writer = p \/ writer = Gone

\* The write lock is there for p: held already, or free and p's snapshot is
\* the last committed one.
MayWrite(p) == writer = p \/ (writer = Gone /\ ~stale[p])

Extracted(c) == [hash |-> c, count |-> Len(Defs[c]), defs |-> Defs[c]]

\* p's transaction is over; nothing of it stays unless it was committed.
EndPass(p) ==
  /\ Goto(p, "idle")
  /\ list'   = [list EXCEPT ![p] = <<>>]
  /\ todo'   = [todo EXCEPT ![p] = 0]
  /\ bytes'  = [bytes EXCEPT ![p] = Gone]
  /\ added'  = [added EXCEPT ![p] = 0]
  /\ known'  = [known EXCEPT ![p] = <<>>]
  /\ view'   = [view EXCEPT ![p] = [f \in File |-> NoRow]]
  /\ open'   = [open EXCEPT ![p] = FALSE]
  /\ writer' = IF writer = p THEN Gone ELSE writer
  /\ dirty'  = [dirty EXCEPT ![p] = {}] /\ skipped' = [skipped EXCEPT ![p] = {}]
  /\ UNCHANGED <<disk, edits>>

-----------------------------------------------------------------------------
(* index_all and index_files.                                              *)

Begin(p, l) ==
  /\ pc[p] = "idle" /\ Goto(p, IF l = <<>> THEN "sweep" ELSE "read")
  /\ list' = [list EXCEPT ![p] = l]
  /\ UNCHANGED <<disk, db, writer, todo, bytes, added, known, txn, past>>

\* The files of S in the order of Files.
Before(f, g) == \E i, j \in DOMAIN Files : i < j /\ Files[i] = f /\ Files[j] = g
Sorted(S) ==
  {l \in [1..Cardinality(S) -> S] :
     Range(l) = S /\ \A i, j \in DOMAIN l : i < j => Before(l[i], l[j])}

\* discover_sources: the files there are, sorted.
IndexAll(p) == \E l \in Sorted({f \in File : disk[f] # Gone}) : Begin(p, l)

IndexFiles(p) == \E l \in Lists : Begin(p, l)

Current(p) == list[p][todo[p] + 1]

Advance(p) ==
  /\ todo' = [todo EXCEPT ![p] = @ + 1]
  /\ Goto(p, IF todo[p] + 1 = Len(list[p]) THEN "sweep" ELSE "read")

\* fs::read: the whole content as it is by now.
ReadFile(p) ==
  /\ pc[p] = "read" /\ disk[Current(p)] # Gone
  /\ bytes' = [bytes EXCEPT ![p] = disk[Current(p)]]
  /\ Goto(p, "compare")
  /\ UNCHANGED <<disk, db, writer, list, todo, added, known, txn, past>>

\* `let Ok(bytes) = fs::read(file) else { continue }`: the file is gone since
\* it was listed, or cannot be read; its row stays as it is.
SkipFile(p) ==
  /\ pc[p] = "read" /\ (Faults \/ disk[Current(p)] = Gone)
  /\ Advance(p)
  /\ skipped' = [skipped EXCEPT ![p] = @ \cup {Current(p)}]
  /\ UNCHANGED <<disk, db, writer, list, bytes, added, known, txn, edits, dirty>>

\* SELECT content_hash: an equal hash means the file is unchanged.
Compare(p) ==
  LET f == Current(p) IN
  /\ pc[p] = "compare"
  /\ view' = [view EXCEPT ![p] = Snapshot(p)]
  /\ open' = [open EXCEPT ![p] = TRUE]
  /\ stale' = [stale EXCEPT ![p] = open[p] /\ stale[p]]
  /\ IF Snapshot(p)[f].hash = bytes[p]
     THEN Advance(p)
     ELSE Goto(p, "delete") /\ UNCHANGED todo
  /\ UNCHANGED <<disk, db, writer, list, bytes, added, known, past>>

\* `.ok()`: a SELECT that fails is taken for a file that has no row yet.
SelectFails(p) ==
  /\ Faults /\ pc[p] = "compare" /\ Goto(p, "delete")
  /\ UNCHANGED <<disk, db, writer, list, todo, bytes, added, known, txn, past>>

\* DELETE FROM symbols WHERE path = ?1: the first statement of a replacement
\* takes the write lock, and the snapshot when no SELECT has.
DeleteSymbols(p) ==
  /\ pc[p] = "delete" /\ MayWrite(p) /\ Goto(p, "upsert")
  /\ writer' = p
  /\ view' = [view EXCEPT ![p] = [Snapshot(p) EXCEPT ![Current(p)].defs = <<>>]]
  /\ open' = [open EXCEPT ![p] = TRUE]
  /\ UNCHANGED <<disk, db, list, todo, bytes, added, known, stale, past>>

\* The upsert of the file's row, with the number of definitions to come.
UpsertFile(p) ==
  LET found == Defs[bytes[p]] IN
  /\ pc[p] = "upsert"
  /\ view' = [view EXCEPT ![p][Current(p)] =
                [hash |-> bytes[p], count |-> Len(found), defs |-> @.defs]]
  /\ IF found = <<>> THEN Advance(p) ELSE Goto(p, "insert") /\ UNCHANGED todo
  /\ UNCHANGED <<disk, db, writer, list, bytes, added, known, open, stale, past>>

\* INSERT INTO symbols, one definition after the other.
InsertSymbol(p) ==
  LET found == Defs[bytes[p]]
      next  == added[p] + 1
  IN
  /\ pc[p] = "insert"
  /\ view' = [view EXCEPT ![p][Current(p)].defs = Append(@, found[next])]
  /\ IF next < Len(found)
     THEN added' = [added EXCEPT ![p] = next] /\ UNCHANGED <<pc, todo>>
     ELSE added' = [added EXCEPT ![p] = 0] /\ Advance(p)
  /\ UNCHANGED <<disk, db, writer, list, bytes, known, open, stale, past>>

\* Fault variant for the checks: no row is ever dropped.
MissingNone(p) == {}

\* The files with a row that are not in the list.
Missing(p) == {f \in File : Snapshot(p)[f].hash # Gone /\ f \notin Range(list[p])}

\* SELECT path FROM indexed_files, and which of them the loop will drop.
\* `filter_map(|r| r.ok())`: a row that cannot be read is passed over, and its
\* file stays.
Sweep(p) ==
  /\ pc[p] = "sweep"
  /\ view' = [view EXCEPT ![p] = Snapshot(p)]
  /\ open' = [open EXCEPT ![p] = TRUE]
  /\ stale' = [stale EXCEPT ![p] = open[p] /\ stale[p]]
  /\ \E read \in SUBSET Missing(p) :
       /\ Faults \/ read = Missing(p)
       /\ \E l \in Sorted(read) : known' = [known EXCEPT ![p] = l]
       /\ skipped' = [skipped EXCEPT ![p] = @ \cup (Missing(p) \ read)]
       /\ Goto(p, IF read = {} THEN "commit" ELSE "drop")
  /\ UNCHANGED <<disk, db, writer, list, todo, bytes, added, edits, dirty>>

\* DELETE FROM symbols WHERE path = ?1, of a file that is dropped.
DropSymbols(p) ==
  /\ pc[p] = "drop" /\ MayWrite(p) /\ Goto(p, "forget")
  /\ writer' = p
  /\ view' = [view EXCEPT ![p][Head(known[p])].defs = <<>>]
  /\ UNCHANGED <<disk, db, list, todo, bytes, added, known, open, stale, past>>

\* DELETE FROM indexed_files WHERE path = ?1; ON DELETE CASCADE takes along
\* what symbols would still hold of the file.
DropFile(p) ==
  /\ pc[p] = "forget"
  /\ view' = [view EXCEPT ![p][Head(known[p])] = NoRow]
  /\ known' = [known EXCEPT ![p] = Tail(@)]
  /\ Goto(p, IF Tail(known[p]) = <<>> THEN "commit" ELSE "drop")
  /\ UNCHANGED <<disk, db, writer, list, todo, bytes, added, open, stale, past>>

\* The write lock cannot be had: another process holds it for longer than the
\* busy timeout, or the snapshot is stale (SQLITE_BUSY_SNAPSHOT).  `?` returns
\* the error and the dropped transaction is rolled back.
Busy(p) ==
  /\ pc[p] \in {"delete", "drop"}
  /\ stale[p] \/ writer \notin {p, Gone}
  /\ EndPass(p) /\ stale' = [stale EXCEPT ![p] = FALSE]
  /\ UNCHANGED db

\* Changes become visible at once; a transaction that only read ends.
Commit(p) ==
  /\ pc[p] = "commit" /\ EndPass(p)
  /\ db' = IF writer = p THEN view[p] ELSE db
  /\ stale' = [q \in Proc |->
       IF q = p THEN FALSE ELSE stale[q] \/ (writer = p /\ open[q])]

\* Fault variant for the checks: the statements are no transaction, and those
\* made before the failure stay.
AbortKeeps(p) ==
  /\ Faults /\ pc[p] # "idle" /\ EndPass(p)
  /\ db' = IF writer = p THEN view[p] ELSE db
  /\ stale' = [stale EXCEPT ![p] = FALSE]

\* A statement fails, or the process is killed: SQLite rolls back.
Abort(p) ==
  /\ Faults /\ pc[p] # "idle" /\ EndPass(p)
  /\ stale' = [stale EXCEPT ![p] = FALSE]
  /\ UNCHANGED db

-----------------------------------------------------------------------------
(* Lookup.                                                                 *)

\* find_definition: the files that define d, from the symbols table alone.
Find(d) == {f \in File : d \in Range(db[f].defs)}

-----------------------------------------------------------------------------
(* The editor.                                                             *)

Edit(f, c) ==
  /\ edits < MaxEdits /\ c # disk[f]
  /\ disk' = [disk EXCEPT ![f] = c] /\ edits' = edits + 1
  /\ dirty' = [p \in Proc |-> IF pc[p] = "idle" THEN {} ELSE dirty[p] \cup {f}]
  /\ UNCHANGED <<db, writer, pc, list, todo, bytes, added, known, txn, skipped>>

Pass(p) ==
  \/ ReadFile(p) \/ SkipFile(p) \/ Compare(p)
  \/ DeleteSymbols(p) \/ UpsertFile(p) \/ InsertSymbol(p)
  \/ Sweep(p) \/ DropSymbols(p) \/ DropFile(p) \/ Busy(p) \/ Commit(p)

Next ==
  \/ \E p \in Proc : IndexAll(p) \/ IndexFiles(p) \/ Pass(p) \/ SelectFails(p) \/ Abort(p)
  \/ \E f \in File, c \in Content \cup {Gone} : Edit(f, c)

Spec == Init /\ [][Next]_vars

-----------------------------------------------------------------------------
(* What holds.                                                             *)

\* Whatever passes interleave, fail or are killed, and at whichever statement
\* of a replacement, a lookup sees of each file the definitions of one content,
\* the one its hash says, each once and as many as symbol_count says; of a file
\* without a row it sees none.
RowsAgree ==
  \A f \in File :
    db[f] = IF db[f].hash = Gone THEN NoRow ELSE Extracted(db[f].hash)

\* Several processes, while an editor works: a pass that changed the index, or
\* that no other commit overtook, leaves it in accord with every listed file
\* that it could read and nobody changed meanwhile, and without a row of any
\* file that is not there.  For a pass of index_all that is every file.  What
\* becomes of files that are there and not listed is left open.
PassFreshens ==
  [][\A p \in Proc : Commit(p) /\ (writer = p \/ ~stale[p]) =>
       \A f \in File \ (dirty[p] \cup skipped[p]) :
         f \in Range(list[p]) \/ disk[f] = Gone => db'[f].hash = disk[f]]_vars
=============================================================================
