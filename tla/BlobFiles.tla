----------------------------- MODULE BlobFiles -----------------------------
(***************************************************************************)
(* Content-addressed blob files, crates/ctx-store/src/blobs.rs.            *)
(*                                                                         *)
(* Every `ctx` process that captures output writes its bytes under         *)
(* .ctx/blobs/aa/bb/<blake3 hash>.  No lock orders the processes: what     *)
(* they share is the directory.  `put` is modelled system call by system   *)
(* call (exists, open with truncation, the writes, rename), `get` as the   *)
(* bytes a read finds.                                                     *)
(*                                                                         *)
(* Data abstraction.  A content stands for its own digest, so two contents *)
(* have two files (blake3 is taken to be collision-free).  A file is the   *)
(* set of its blocks that already hold the right bytes: writers of one     *)
(* path all write the same content, so a file differs from what its name   *)
(* promises only by the blocks it lacks.                                   *)
(***************************************************************************)
EXTENDS Naturals

CONSTANTS
  Proc,     \* processes that have opened the store
  Content,  \* byte strings that get captured
  Size,     \* Size[c]: number of blocks of c, 0 for the empty output
  Work,     \* Work[p]: the contents p may capture
  Absent,   \* no directory entry of that name
  Faulty    \* processes that may be killed and whose I/O calls may fail

ASSUME SizeAssumption   == Size \in [Content -> Nat]
ASSUME WorkAssumption   == Work \in [Proc -> SUBSET Content]
ASSUME FaultyAssumption == Faulty \subseteq Proc
ASSUME ContentAssumption == Content # {}

Blocks(c) == 1..Size[c]

ASSUME AbsentAssumption == \A c \in Content : \A f \in SUBSET Blocks(c) : f # Absent

VARIABLES
  blob,  \* blob[c]: the file at blob_path(c), or Absent
  tmp,   \* tmp[c]: the file at blob_path(c).with_extension("tmp"), or Absent
  pc,    \* pc[p]: where p is inside blobs::put
  cur,   \* cur[p]: the content p was last asked to put
  fd,    \* fd[p]: the file p's open descriptor refers to
  pos    \* pos[p]: the next block p writes through its descriptor

files == <<blob, tmp>>
vars  == <<blob, tmp, pc, cur, fd, pos>>

PutPhase == {"idle", "create", "write", "ok", "err"}
\* A descriptor follows its file, not its name: rename moves the file from
\* the temporary name to the blob name, and a file replaced by a rename lives
\* on without a name until its last descriptor is closed.
FdTarget == {"none", "tmp", "blob", "unlinked"}

\* Types of what blobs.rs keeps on disk and in its locals: a file never holds a
\* block beyond the end of its content.
TypeOK ==
  /\ \A c \in Content : blob[c] \in (SUBSET Blocks(c)) \cup {Absent}
  /\ \A c \in Content : tmp[c]  \in (SUBSET Blocks(c)) \cup {Absent}
  /\ DOMAIN blob = Content /\ DOMAIN tmp = Content
  /\ pc  \in [Proc -> PutPhase]
  /\ cur \in [Proc -> Content]
  /\ fd  \in [Proc -> FdTarget]
  /\ pos \in [Proc -> Nat \ {0}]

Init ==
  /\ blob = [c \in Content |-> Absent]
  /\ tmp  = [c \in Content |-> Absent]
  /\ pc   = [p \in Proc |-> "idle"]
  /\ cur  = [p \in Proc |-> CHOOSE c \in Content : TRUE]
  /\ fd   = [p \in Proc |-> "none"]
  /\ pos  = [p \in Proc |-> 1]

-----------------------------------------------------------------------------
(* The state functions of the module's readers.                            *)

\* blobs::exists, and the test `path.exists()` inside put.
Exists(c) == blob[c] # Absent

\* blobs::get: an error when there is no file, else whatever the file holds.
\* The bytes are those put under this name exactly when every block is there.
Whole(c) == Exists(c) /\ blob[c] = Blocks(c)
Torn(c)  == Exists(c) /\ blob[c] # Blocks(c)

-----------------------------------------------------------------------------
(* put, step by step.                                                      *)

\* `if path.exists() { return Ok(h) }`: whatever the file holds.
PutExisting(p, c) ==
  /\ pc[p] = "idle" /\ c \in Work[p] /\ Exists(c)
  /\ pc'  = [pc EXCEPT ![p] = "ok"]
  /\ cur' = [cur EXCEPT ![p] = c]
  /\ UNCHANGED <<blob, tmp, fd, pos>>

\* The name is free; what is decided here is acted on several calls later.
\* create_dir_all is idempotent and leaves no state this model tells apart.
PutMissing(p, c) ==
  /\ pc[p] = "idle" /\ c \in Work[p] /\ ~Exists(c)
  /\ pc'  = [pc EXCEPT ![p] = "create"]
  /\ cur' = [cur EXCEPT ![p] = c]
  /\ UNCHANGED <<blob, tmp, fd, pos>>

\* Fault variant for the checks: the blob is written under its final name.
CreateInPlace(p) ==
  /\ pc[p] = "create"
  /\ blob' = [blob EXCEPT ![cur[p]] = {}]
  /\ pc'  = [pc EXCEPT ![p] = "write"]
  /\ fd'  = [fd EXCEPT ![p] = "blob"]
  /\ pos' = [pos EXCEPT ![p] = 1]
  /\ UNCHANGED <<tmp, cur>>

\* fs::write, first half: open the temporary sibling, creating it or cutting
\* the one that is there to length zero, for every descriptor on it.  The
\* name depends on the content alone, so two writers of a content share it.
CreateTmp(p) ==
  /\ pc[p] = "create"
  /\ tmp' = [tmp EXCEPT ![cur[p]] = {}]
  /\ pc'  = [pc EXCEPT ![p] = "write"]
  /\ fd'  = [fd EXCEPT ![p] = "tmp"]
  /\ pos' = [pos EXCEPT ![p] = 1]
  /\ UNCHANGED <<blob, cur>>

\* Fault variants for the checks: one block too many; a short write taken for
\* a full one, so that a block is skipped.
WriteBeyond(p) ==
  /\ pc[p] = "write" /\ pos[p] <= Size[cur[p]] + 1
  /\ tmp' = [tmp EXCEPT ![cur[p]] = @ \cup {pos[p]}]
  /\ pos' = [pos EXCEPT ![p] = @ + 1]
  /\ UNCHANGED <<blob, pc, cur, fd>>

WriteShort(p) ==
  LET c == cur[p] IN
  /\ pc[p] = "write" /\ pos[p] <= Size[c]
  /\ tmp'  = IF fd[p] = "tmp"  THEN [tmp  EXCEPT ![c] = @ \cup {pos[p]}] ELSE tmp
  /\ blob' = IF fd[p] = "blob" THEN [blob EXCEPT ![c] = @ \cup {pos[p]}] ELSE blob
  /\ pos'  = [pos EXCEPT ![p] = @ + 2]
  /\ UNCHANGED <<pc, cur, fd>>

\* fs::write, second half: each block at the descriptor's own offset, into
\* the file the descriptor refers to by now.
WriteBlock(p) ==
  LET c == cur[p] IN
  /\ pc[p] = "write" /\ pos[p] <= Size[c]
  /\ tmp'  = IF fd[p] = "tmp"  THEN [tmp  EXCEPT ![c] = @ \cup {pos[p]}] ELSE tmp
  /\ blob' = IF fd[p] = "blob" THEN [blob EXCEPT ![c] = @ \cup {pos[p]}] ELSE blob
  /\ pos'  = [pos EXCEPT ![p] = @ + 1]
  /\ UNCHANGED <<pc, cur, fd>>

\* Where the descriptors on content c refer once its temporary is renamed.
FdsAfterRename(p, c) ==
  [q \in Proc |->
     IF q = p                           THEN "none"
     ELSE IF cur[q] # c                 THEN fd[q]
     ELSE IF fd[q] = "tmp"              THEN "blob"
     ELSE IF fd[q] = "blob"             THEN "unlinked"
     ELSE fd[q]]

\* Fault variants for the checks: the rename does not wait for the writes; the
\* rename is left out and put returns Ok all the same; a rename that finds no
\* source is retried for ever.
RenameEarly(p) ==
  LET c == cur[p] IN
  /\ pc[p] = "write" /\ tmp[c] # Absent
  /\ blob' = [blob EXCEPT ![c] = tmp[c]]
  /\ tmp'  = [tmp EXCEPT ![c] = Absent]
  /\ fd'   = FdsAfterRename(p, c)
  /\ pc'   = [pc EXCEPT ![p] = "ok"]
  /\ UNCHANGED <<cur, pos>>

RenameSkipped(p) ==
  /\ pc[p] = "write" /\ pos[p] > Size[cur[p]] /\ tmp[cur[p]] # Absent
  /\ fd' = [fd EXCEPT ![p] = "none"]
  /\ pc' = [pc EXCEPT ![p] = "ok"]
  /\ UNCHANGED <<blob, tmp, cur, pos>>

RenameRetried(p) ==
  /\ pc[p] = "write" /\ pos[p] > Size[cur[p]] /\ tmp[cur[p]] = Absent
  /\ UNCHANGED vars

\* fs::write has closed the descriptor; fs::rename takes whatever file now
\* bears the temporary name.
Rename(p) ==
  LET c == cur[p] IN
  /\ pc[p] = "write" /\ pos[p] > Size[c] /\ tmp[c] # Absent
  /\ blob' = [blob EXCEPT ![c] = tmp[c]]
  /\ tmp'  = [tmp EXCEPT ![c] = Absent]
  /\ fd'   = FdsAfterRename(p, c)
  /\ pc'   = [pc EXCEPT ![p] = "ok"]
  /\ UNCHANGED <<cur, pos>>

\* Another process has renamed the temporary away: fs::rename finds no source.
RenameMissing(p) ==
  /\ pc[p] = "write" /\ pos[p] > Size[cur[p]] /\ tmp[cur[p]] = Absent
  /\ pc' = [pc EXCEPT ![p] = "err"]
  /\ fd' = [fd EXCEPT ![p] = "none"]
  /\ UNCHANGED <<blob, tmp, cur, pos>>

\* put has returned to put_blob.
Return(p) ==
  /\ pc[p] \in {"ok", "err"}
  /\ pc' = [pc EXCEPT ![p] = "idle"]
  /\ UNCHANGED <<blob, tmp, cur, fd, pos>>

\* An open, write or rename fails (disk full, permission, I/O error): put
\* returns the error and leaves the temporary as it is.
IOError(p) ==
  /\ p \in Faulty /\ pc[p] \in {"create", "write"}
  /\ pc' = [pc EXCEPT ![p] = "err"]
  /\ fd' = [fd EXCEPT ![p] = "none"]
  /\ UNCHANGED <<blob, tmp, cur, pos>>

\* The process is killed; the next process of that name starts afresh on the
\* files it left.
Crash(p) ==
  /\ p \in Faulty /\ pc[p] # "idle"
  /\ pc' = [pc EXCEPT ![p] = "idle"]
  /\ fd' = [fd EXCEPT ![p] = "none"]
  /\ UNCHANGED <<blob, tmp, cur, pos>>

Advance(p) == CreateTmp(p) \/ WriteBlock(p) \/ Rename(p) \/ RenameMissing(p) \/ Return(p)

Next ==
  \E p \in Proc :
    \/ \E c \in Work[p] : PutExisting(p, c) \/ PutMissing(p, c)
    \/ Advance(p)
    \/ IOError(p)
    \/ Crash(p)

Spec == Init /\ [][Next]_vars

\* A process that is inside put runs on: nothing in put waits for another.
FairSpec == Spec /\ \A p \in Proc : WF_vars(Advance(p))

-----------------------------------------------------------------------------
(* What holds.                                                             *)

\* No two processes capture the same non-empty bytes.  The empty output, the
\* stderr of most commands, is left out: it has no block to lack.
DisjointWork ==
  \A p, q \in Proc : p # q =>
    \A c \in Work[p] \cap Work[q] : Size[c] = 0

\* A file that bears a blob's name holds every byte the name promises.  Holds
\* under DisjointWork, whatever is killed and whatever fails: the claim of
\* the comment at blobs.rs:36 for one writer per content.
VisibleWhole == \A c \in Content : Exists(c) => Whole(c)

\* p's descriptor refers to the file named n of c, and p is yet to write b.
Writing(p, c, n, b) ==
  pc[p] = "write" /\ cur[p] = c /\ fd[p] = n /\ pos[p] <= b

\* The contents that only processes without faults put.
Reliable == {c \in Content : \A p \in Faulty : c \notin Work[p]}

\* Any number of writers of one content, none of them killed and no I/O of
\* theirs failing: a block that a named file lacks will be written by a process
\* still at work on that very file, however the truncations and renames fell.
MissingIsPending ==
  \A c \in Reliable : \A b \in Blocks(c) :
    /\ Exists(c) /\ b \notin blob[c]        => \E p \in Proc : Writing(p, c, "blob", b)
    /\ tmp[c] # Absent /\ b \notin tmp[c]  => \E p \in Proc : Writing(p, c, "tmp", b)

\* A put that succeeded left its content under its name, also for the loser
\* of a race and also after kills: an Ok is never about a name that is free.
OkIsNamed == \A p \in Proc : pc[p] = "ok" => Exists(cur[p])

\* A blob whose writers have no faults, once visible, ends up whole and stays
\* so: a torn state between two writers' system calls is transient.
Heals == \A c \in Reliable : Exists(c) ~> []Whole(c)

\* What put promises its callers: AtomicBlobs, with a torn file made visible
\* as such so that the abstract specification forbids it.
View == [c \in Content |-> IF Whole(c) THEN "whole" ELSE IF Exists(c) THEN "torn" ELSE "missing"]
Atomic == INSTANCE AtomicBlobs WITH view <- View
\* blobs::put implements AtomicBlobs, whatever is killed and whatever fails,
\* under DisjointWork.
AtomicSpec == Atomic!Spec

-----------------------------------------------------------------------------
(* What a comment claims and overlapping writers of one content refute.     *)

\* blobs.rs:36: "so a crash mid-write cannot leave a truncated blob visible
\* under a hash that promises full content".
CrashLeavesNoTornBlob ==
  \A c \in Content : Torn(c) => \E p \in Proc : pc[p] = "write" /\ cur[p] = c
=============================================================================
