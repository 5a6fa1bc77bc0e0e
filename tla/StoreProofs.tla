---------------------------- MODULE StoreProofs ----------------------------
(***************************************************************************)
(* Theorems about blobs::put and the evidence store on top of it, for      *)
(* every set of processes, of contents of every size, of executions that   *)
(* are captured, and every interleaving of the steps.  What is proved of   *)
(* put in the first part carries over to the second, because a step of the *)
(* store is a step of put or leaves the files alone (StoreStepIsFileStep). *)
(***************************************************************************)
EXTENDS Store, FiniteSetTheorems, WellFoundedInduction, TLAPS

-----------------------------------------------------------------------------
(* put: type correctness.  It is not inductive alone: a write is well typed  *)
(* because the file its descriptor refers to is there.                       *)

\* An open descriptor on a named file keeps that name in use.
FdInv ==
  \A p \in Proc :
    /\ pc[p] # "write" => fd[p] = "none"
    /\ fd[p] = "tmp"  => tmp[cur[p]] # Absent
    /\ fd[p] = "blob" => blob[cur[p]] # Absent

TypeInv == TypeOK /\ FdInv

\* An empty store has its types.
LEMMA InitType == Init => TypeInv
  BY ContentAssumption DEF Init, TypeInv, TypeOK, FdInv, PutPhase, FdTarget

\* A block that fs::write writes lies within its content.
LEMMA WriteBlockType ==
  ASSUME TypeInv, NEW p \in Proc, WriteBlock(p)
  PROVE  TypeInv'
<1> DEFINE c == cur[p]
<1> USE DEF TypeInv, TypeOK, FdInv
<1>1. c \in Content /\ pos[p] \in Blocks(c) /\ fd[p] \in FdTarget
  BY SizeAssumption DEF WriteBlock, Blocks
<1>2. ASSUME NEW f \in (SUBSET Blocks(c)) \cup {Absent}, f # Absent
      PROVE  f \cup {pos[p]} \in SUBSET Blocks(c) /\ f \cup {pos[p]} # Absent
  BY <1>1, <1>2, AbsentAssumption
<1>3. fd[p] = "tmp" =>
        /\ tmp' = [tmp EXCEPT ![c] = @ \cup {pos[p]}]
        /\ tmp'[c] \in SUBSET Blocks(c) /\ tmp'[c] # Absent /\ blob' = blob
  BY <1>1, <1>2 DEF WriteBlock
<1>4. fd[p] = "blob" =>
        /\ blob' = [blob EXCEPT ![c] = @ \cup {pos[p]}]
        /\ blob'[c] \in SUBSET Blocks(c) /\ blob'[c] # Absent /\ tmp' = tmp
  BY <1>1, <1>2 DEF WriteBlock
<1>5. fd[p] \notin {"tmp", "blob"} => UNCHANGED files
  BY DEF WriteBlock, files
<1>6. UNCHANGED <<pc, cur, fd>> /\ pos' = [pos EXCEPT ![p] = @ + 1]
  BY DEF WriteBlock
<1>7. TypeOK'
  BY <1>1, <1>3, <1>4, <1>5, <1>6 DEF files
<1>8. FdInv'
  BY <1>1, <1>3, <1>4, <1>5, <1>6 DEF files
<1> QED BY <1>7, <1>8

\* Every step of put keeps the types.
LEMMA NextType == TypeInv /\ [Next]_vars => TypeInv'
<1> SUFFICES ASSUME TypeInv, [Next]_vars PROVE TypeInv'
  OBVIOUS
<1> USE DEF TypeInv, TypeOK, FdInv
<1>1. ASSUME NEW p \in Proc, NEW c \in Work[p], PutExisting(p, c) \/ PutMissing(p, c)
      PROVE  TypeInv'
  BY <1>1, WorkAssumption DEF PutExisting, PutMissing, PutPhase
<1>2. ASSUME NEW p \in Proc, CreateTmp(p) PROVE TypeInv'
  <2>1. {} \in SUBSET Blocks(cur[p]) /\ {} # Absent
    BY AbsentAssumption
  <2> QED
    BY <1>2, <2>1 DEF CreateTmp, PutPhase, FdTarget
<1>3. ASSUME NEW p \in Proc, WriteBlock(p) PROVE TypeInv'
  BY <1>3, WriteBlockType
<1>4. ASSUME NEW p \in Proc, Rename(p) PROVE TypeInv'
  BY <1>4 DEF Rename, FdsAfterRename, PutPhase, FdTarget
<1>5. ASSUME NEW p \in Proc, RenameMissing(p) \/ Return(p) \/ IOError(p) \/ Crash(p)
      PROVE  TypeInv'
  BY <1>5 DEF RenameMissing, Return, IOError, Crash, PutPhase, FdTarget
<1>6. CASE UNCHANGED vars
  BY <1>6 DEF vars
<1> QED
  BY <1>1, <1>2, <1>3, <1>4, <1>5, <1>6 DEF Next, Advance

\* The types of the blob files and of put hold in every reachable state, and an
\* open descriptor is on a file that bears a name.
THEOREM TypeInvariance == Spec => []TypeInv
<1> QED BY InitType, NextType, PTL DEF Spec

\* Every reachable state of blobs::put is well typed: no write goes past the
\* end of its content, and a file never holds a block its name does not promise.
THEOREM TypeCorrect == Spec => []TypeOK
<1>1. TypeInv => TypeOK
  BY DEF TypeInv
<1> QED BY <1>1, TypeInvariance, PTL

-----------------------------------------------------------------------------
(* put, one writer per content.  One that nobody disturbs has written just   *)
(* the blocks before its position, so what it renames is whole.              *)

OwnInv ==
  /\ \A p \in Proc : pc[p] # "idle" => cur[p] \in Work[p]
  /\ \A p \in Proc : pc[p] = "write" /\ Size[cur[p]] # 0 =>
       fd[p] = "tmp" /\ tmp[cur[p]] = 1..(pos[p] - 1)
  /\ VisibleWhole

WholeInv == TypeInv /\ OwnInv

\* An empty store has no file to be torn.
LEMMA InitOwn == Init => OwnInv
  BY DEF Init, OwnInv, VisibleWhole, Exists

\* Cutting the temporary to length zero: the only writer is at its start.
LEMMA CreateTmpOwn ==
  ASSUME DisjointWork, WholeInv, NEW p \in Proc, CreateTmp(p)
  PROVE  OwnInv'
<1> USE DEF WholeInv, OwnInv, TypeInv, TypeOK
<1>1. \A q \in Proc \ {p} : pc[q] = "write" /\ cur[q] = cur[p] => Size[cur[q]] = 0
  BY DEF DisjointWork, CreateTmp
<1>2. tmp'[cur[p]] = 1..(pos'[p] - 1) /\ fd'[p] = "tmp"
  BY DEF CreateTmp
<1>3. \A q \in Proc : pc'[q] = "write" /\ Size[cur'[q]] # 0 =>
        fd'[q] = "tmp" /\ tmp'[cur'[q]] = 1..(pos'[q] - 1)
  <2> SUFFICES ASSUME NEW q \in Proc, pc'[q] = "write", Size[cur'[q]] # 0
               PROVE  fd'[q] = "tmp" /\ tmp'[cur'[q]] = 1..(pos'[q] - 1)
    OBVIOUS
  <2>1. CASE q = p
    BY <1>2, <2>1 DEF CreateTmp
  <2>2. CASE q # p
    BY <1>1, <2>2 DEF CreateTmp
  <2> QED BY <2>1, <2>2
<1>4. VisibleWhole'
  BY DEF CreateTmp, VisibleWhole, Exists, Whole
<1>5. \A q \in Proc : pc'[q] # "idle" => cur'[q] \in Work[q]
  BY DEF CreateTmp
<1> QED BY <1>3, <1>4, <1>5

\* A write extends the writer's own temporary.
LEMMA WriteBlockOwn ==
  ASSUME DisjointWork, WholeInv, NEW p \in Proc, WriteBlock(p)
  PROVE  OwnInv'
<1> USE DEF WholeInv, OwnInv, TypeInv, TypeOK, FdInv
<1> DEFINE c == cur[p]
<1>1. /\ c \in Content /\ c \in Work[p] /\ pos[p] \in Blocks(c) /\ Size[c] # 0
      /\ UNCHANGED <<pc, cur, fd>>
  BY SizeAssumption DEF WriteBlock, Blocks
<1>2. fd[p] = "tmp" /\ tmp[c] = 1..(pos[p] - 1)
  BY <1>1 DEF WriteBlock
<1>3. /\ tmp' = [tmp EXCEPT ![c] = @ \cup {pos[p]}] /\ blob' = blob
      /\ pos' = [pos EXCEPT ![p] = @ + 1]
  BY <1>1, <1>2 DEF WriteBlock
<1>4. tmp'[c] = 1..(pos'[p] - 1)
  <2>1. 1..(pos[p] - 1) \cup {pos[p]} = 1..pos[p]
    OBVIOUS
  <2> QED BY <1>1, <1>2, <1>3, <2>1
<1>5. \A q \in Proc \ {p} : pc[q] = "write" /\ cur[q] = c => Size[cur[q]] = 0
  BY <1>1 DEF DisjointWork
<1>6. \A q \in Proc : pc'[q] = "write" /\ Size[cur'[q]] # 0 =>
        fd'[q] = "tmp" /\ tmp'[cur'[q]] = 1..(pos'[q] - 1)
  <2> SUFFICES ASSUME NEW q \in Proc, pc'[q] = "write", Size[cur'[q]] # 0
               PROVE  fd'[q] = "tmp" /\ tmp'[cur'[q]] = 1..(pos'[q] - 1)
    OBVIOUS
  <2>1. CASE q = p
    BY <1>1, <1>2, <1>4, <2>1
  <2>2. CASE q # p
    BY <1>1, <1>3, <1>5, <2>2
  <2> QED BY <2>1, <2>2
<1>7. VisibleWhole'
  BY <1>3 DEF VisibleWhole, Exists, Whole
<1> QED BY <1>1, <1>6, <1>7

\* A rename moves a temporary to which nothing is missing.
LEMMA RenameOwn ==
  ASSUME DisjointWork, WholeInv, NEW p \in Proc, Rename(p)
  PROVE  OwnInv'
<1> USE DEF WholeInv, OwnInv, TypeInv, TypeOK, FdInv
<1> DEFINE c == cur[p]
<1>1. /\ c \in Content /\ c \in Work[p] /\ pc[p] = "write" /\ pos[p] > Size[c]
      /\ Size[c] \in Nat /\ tmp[c] # Absent
      /\ blob' = [blob EXCEPT ![c] = tmp[c]] /\ tmp' = [tmp EXCEPT ![c] = Absent]
      /\ fd' = FdsAfterRename(p, c) /\ pc' = [pc EXCEPT ![p] = "ok"]
      /\ UNCHANGED <<cur, pos>>
  BY SizeAssumption DEF Rename
<1>2. tmp[c] = Blocks(c)
  <2>1. tmp[c] \in SUBSET Blocks(c)
    BY <1>1
  <2>2. CASE Size[c] = 0
    BY <2>1, <2>2 DEF Blocks
  <2>3. CASE Size[c] # 0
    <3>1. tmp[c] = 1..(pos[p] - 1)
      BY <1>1, <2>3
    <3>2. pos[p] - 1 \in Nat /\ Size[c] <= pos[p] - 1
      BY <1>1
    <3>3. Blocks(c) \subseteq tmp[c]
      BY <1>1, <3>1, <3>2 DEF Blocks
    <3> QED BY <2>1, <3>3
  <2> QED BY <2>2, <2>3
<1>3. VisibleWhole'
  <2> SUFFICES ASSUME NEW d \in Content, Exists(d)' PROVE Whole(d)'
    BY DEF VisibleWhole
  <2>1. CASE d = c
    BY <1>1, <1>2, <2>1 DEF Exists, Whole
  <2>2. CASE d # c
    BY <1>1, <2>2 DEF VisibleWhole, Exists, Whole
  <2> QED BY <2>1, <2>2
<1>4. \A q \in Proc \ {p} : pc[q] = "write" /\ cur[q] = c => Size[cur[q]] = 0
  BY <1>1 DEF DisjointWork
<1>5. \A q \in Proc : pc'[q] = "write" /\ Size[cur'[q]] # 0 =>
        fd'[q] = "tmp" /\ tmp'[cur'[q]] = 1..(pos'[q] - 1)
  <2> SUFFICES ASSUME NEW q \in Proc, pc'[q] = "write", Size[cur'[q]] # 0
               PROVE  fd'[q] = "tmp" /\ tmp'[cur'[q]] = 1..(pos'[q] - 1)
    OBVIOUS
  <2>1. q # p /\ pc[q] = "write" /\ Size[cur[q]] # 0 /\ cur[q] # c
    BY <1>1, <1>4
  <2> QED BY <1>1, <2>1 DEF FdsAfterRename
<1>6. \A q \in Proc : pc'[q] # "idle" => cur'[q] \in Work[q]
  BY <1>1
<1> QED BY <1>3, <1>5, <1>6

\* Every step of put keeps the invariant of writers with contents of their own.
LEMMA NextOwn == DisjointWork /\ WholeInv /\ [Next]_vars => OwnInv'
<1> SUFFICES ASSUME DisjointWork, WholeInv, [Next]_vars PROVE OwnInv'
  OBVIOUS
<1> USE DEF WholeInv, OwnInv, TypeInv, TypeOK
<1>1. ASSUME NEW p \in Proc, NEW c \in Work[p], PutExisting(p, c) \/ PutMissing(p, c)
      PROVE  OwnInv'
  BY <1>1 DEF PutExisting, PutMissing, VisibleWhole, Exists, Whole
<1>2. ASSUME NEW p \in Proc, CreateTmp(p) PROVE OwnInv'
  BY <1>2, CreateTmpOwn
<1>3. ASSUME NEW p \in Proc, WriteBlock(p) PROVE OwnInv'
  BY <1>3, WriteBlockOwn
<1>4. ASSUME NEW p \in Proc, Rename(p) PROVE OwnInv'
  BY <1>4, RenameOwn
<1>5. ASSUME NEW p \in Proc, RenameMissing(p) \/ Return(p) \/ IOError(p) \/ Crash(p)
      PROVE  OwnInv'
  BY <1>5 DEF RenameMissing, Return, IOError, Crash, VisibleWhole, Exists, Whole
<1>6. CASE UNCHANGED vars
  BY <1>6 DEF vars, VisibleWhole, Exists, Whole
<1> QED
  BY <1>1, <1>2, <1>3, <1>4, <1>5, <1>6 DEF Next, Advance

\* One writer per content: whatever is killed and whatever fails, a visible
\* blob holds every byte its hash promises (the comment at blobs.rs:36).
THEOREM VisibleBlobsAreWhole ==
  ASSUME DisjointWork
  PROVE  Spec => []VisibleWhole
<1>1. Init => WholeInv
  BY InitType, InitOwn DEF WholeInv
<1>2. WholeInv /\ [Next]_vars => WholeInv'
  BY NextType, NextOwn DEF WholeInv
<1>3. WholeInv => VisibleWhole
  BY DEF WholeInv, OwnInv
<1> QED BY <1>1, <1>2, <1>3, PTL DEF Spec

\* Under the same condition put implements the store it promises: a content
\* appears in full, in one step, and nothing stored is ever changed.
THEOREM PutIsAtomic ==
  ASSUME DisjointWork
  PROVE  Spec => AtomicSpec
<1>1. Init => WholeInv
  BY InitType, InitOwn DEF WholeInv
<1>2. WholeInv /\ [Next]_vars => WholeInv'
  BY NextType, NextOwn DEF WholeInv
<1>3. Init => Atomic!Init
  BY DEF Init, Atomic!Init, View, Whole, Exists
<1>4. WholeInv /\ WholeInv' /\ [Next]_vars => [Atomic!Next]_View
  <2> SUFFICES ASSUME WholeInv, WholeInv', [Next]_vars
               PROVE  UNCHANGED View \/ \E c \in Content : Atomic!Store(c)
    BY DEF Atomic!Next
  <2> USE DEF WholeInv, OwnInv, TypeInv, TypeOK
  <2>1. CASE UNCHANGED blob
    BY <2>1 DEF View, Whole, Exists
  <2>2. ASSUME NEW p \in Proc, WriteBlock(p) PROVE UNCHANGED blob
    BY <2>2 DEF WriteBlock
  <2>3. ASSUME NEW p \in Proc, Rename(p)
        PROVE  UNCHANGED View \/ \E c \in Content : Atomic!Store(c)
    <3>1. PICK c \in Content : blob' = [blob EXCEPT ![c] = tmp[c]] /\ tmp[c] # Absent
      BY <2>3 DEF Rename
    <3>2. Whole(c)'
      BY <3>1 DEF VisibleWhole, Exists
    <3>3. \A d \in Content \ {c} : (Whole(d)' <=> Whole(d)) /\ (Exists(d)' <=> Exists(d))
      BY <3>1 DEF Whole, Exists
    <3>4. View' = [View EXCEPT ![c] = "whole"]
      BY <3>2, <3>3 DEF View
    <3>5. View[c] = "missing" \/ View[c] = "whole"
      BY <3>1 DEF View, VisibleWhole
    <3>6. CASE View[c] = "missing"
      BY <3>1, <3>4, <3>6 DEF Atomic!Store
    <3>7. CASE View[c] = "whole"
      <4>1. View[c]' = View[c]
        BY <3>2, <3>7 DEF View
      <4>2. \A d \in Content : View[d]' = View[d]
        BY <3>3, <4>1 DEF View
      <4> QED BY <4>2 DEF View
    <3> QED BY <3>5, <3>6, <3>7
  <2> QED
    BY <2>1, <2>2, <2>3 DEF Next, Advance, vars, PutExisting, PutMissing,
       CreateTmp, RenameMissing, Return, IOError, Crash
<1> QED BY <1>1, <1>2, <1>3, <1>4, PTL DEF Spec, AtomicSpec, Atomic!Spec

-----------------------------------------------------------------------------
(* put, any number of writers of one content.                                *)

\* No step of put takes a blob's name away.
LEMMA NamesStay ==
  ASSUME TypeInv, [Next]_vars
  PROVE  \A c \in Content : Exists(c) => Exists(c)'
<1> USE DEF TypeInv, TypeOK, Exists
<1> SUFFICES ASSUME NEW c \in Content, Exists(c) PROVE Exists(c)'
  OBVIOUS
<1>1. ASSUME NEW p \in Proc, WriteBlock(p) PROVE Exists(c)'
  <2>1. cur[p] \in Content /\ pos[p] \in Blocks(cur[p])
    BY <1>1, SizeAssumption DEF WriteBlock, Blocks
  <2>2. CASE fd[p] = "blob"
    <3>1. blob[cur[p]] \in SUBSET Blocks(cur[p])
      BY <1>1, <2>1, <2>2 DEF FdInv
    <3>2. blob' = [blob EXCEPT ![cur[p]] = @ \cup {pos[p]}]
      BY <1>1, <2>2 DEF WriteBlock
    <3>3. blob[cur[p]] \cup {pos[p]} # Absent
      BY <2>1, <3>1, AbsentAssumption
    <3> QED BY <2>1, <3>2, <3>3
  <2>3. CASE fd[p] # "blob"
    BY <1>1, <2>3 DEF WriteBlock
  <2> QED BY <2>2, <2>3
<1>2. ASSUME NEW p \in Proc, Rename(p) PROVE Exists(c)'
  BY <1>2 DEF Rename
<1>3. CASE UNCHANGED blob
  BY <1>3
<1> QED
  BY <1>1, <1>2, <1>3 DEF Next, Advance, vars, PutExisting, PutMissing,
     CreateTmp, RenameMissing, Return, IOError, Crash

\* Every step of put keeps an Ok about a name that is there.
LEMMA NextOk == TypeInv /\ OkIsNamed /\ [Next]_vars => OkIsNamed'
<1> SUFFICES ASSUME TypeInv, OkIsNamed, [Next]_vars, NEW p \in Proc, pc'[p] = "ok"
             PROVE  Exists(cur[p])'
  BY DEF OkIsNamed, Exists
<1> USE DEF TypeInv, TypeOK
<1>1. CASE pc[p] = "ok" /\ cur'[p] = cur[p]
  BY <1>1, NamesStay DEF OkIsNamed, Exists
<1>2. ASSUME NEW q \in Proc, NEW c \in Work[q], PutExisting(q, c) \/ PutMissing(q, c)
      PROVE  Exists(cur[p])'
  <2>1. CASE p = q
    BY <1>2, <2>1, WorkAssumption DEF PutExisting, PutMissing, Exists
  <2>2. CASE p # q
    BY <1>1, <1>2, <2>2 DEF PutExisting, PutMissing
  <2> QED BY <2>1, <2>2
<1>3. ASSUME NEW q \in Proc, Rename(q) PROVE Exists(cur[p])'
  <2>1. CASE p = q
    BY <1>3, <2>1 DEF Rename, Exists
  <2>2. CASE p # q
    BY <1>1, <1>3, <2>2 DEF Rename
  <2> QED BY <2>1, <2>2
<1>4. ASSUME NEW q \in Proc,
             \/ CreateTmp(q) \/ WriteBlock(q) \/ RenameMissing(q)
             \/ Return(q) \/ IOError(q) \/ Crash(q)
      PROVE  Exists(cur[p])'
  BY <1>1, <1>4 DEF CreateTmp, WriteBlock, RenameMissing, Return, IOError, Crash
<1>5. CASE UNCHANGED vars
  BY <1>1, <1>5 DEF vars
<1> QED BY <1>2, <1>3, <1>4, <1>5 DEF Next, Advance

\* An Ok from put is never about a free name, for the loser of a race too.
THEOREM OkMeansNamed == Spec => []OkIsNamed
<1>1. Init => OkIsNamed
  BY DEF Init, OkIsNamed
<1> QED BY <1>1, NextOk, TypeInvariance, PTL DEF Spec

\* What a process is at work on is its own work.
WorkInv == \A p \in Proc : pc[p] # "idle" => cur[p] \in Work[p]

PendingInv == TypeInv /\ WorkInv /\ MissingIsPending

\* Every step of put leaves a process with its own work.
LEMMA NextWork == TypeInv /\ WorkInv /\ [Next]_vars => WorkInv'
<1> SUFFICES ASSUME TypeInv, WorkInv, [Next]_vars PROVE WorkInv'
  OBVIOUS
<1> USE DEF TypeInv, TypeOK, WorkInv
<1>1. ASSUME NEW p \in Proc, NEW c \in Work[p], PutExisting(p, c) \/ PutMissing(p, c)
      PROVE  WorkInv'
  BY <1>1 DEF PutExisting, PutMissing
<1>2. ASSUME NEW p \in Proc,
             \/ CreateTmp(p) \/ WriteBlock(p) \/ Rename(p) \/ RenameMissing(p)
             \/ Return(p) \/ IOError(p) \/ Crash(p)
      PROVE  WorkInv'
  BY <1>2 DEF CreateTmp, WriteBlock, Rename, RenameMissing, Return, IOError, Crash
<1>3. CASE UNCHANGED vars
  BY <1>3 DEF vars
<1> QED BY <1>1, <1>2, <1>3 DEF Next, Advance

\* A write fills its own block; what another block waits for is left alone.
LEMMA WriteBlockPending ==
  ASSUME TypeInv, MissingIsPending, NEW p \in Proc, WriteBlock(p)
  PROVE  MissingIsPending'
<1> USE DEF TypeInv, TypeOK, FdInv
<1>1. /\ cur[p] \in Content /\ pos[p] \in Nat /\ UNCHANGED <<pc, cur, fd>>
      /\ pos' = [pos EXCEPT ![p] = @ + 1]
  BY DEF WriteBlock
<1>2. fd[p] = "tmp" => tmp' = [tmp EXCEPT ![cur[p]] = @ \cup {pos[p]}] /\ blob' = blob
  BY DEF WriteBlock
<1>3. fd[p] = "blob" => blob' = [blob EXCEPT ![cur[p]] = @ \cup {pos[p]}] /\ tmp' = tmp
  BY DEF WriteBlock
<1>4. fd[p] \notin {"tmp", "blob"} => blob' = blob /\ tmp' = tmp
  BY DEF WriteBlock
<1>5. ASSUME NEW c \in Content, NEW b \in Blocks(c), NEW n \in {"tmp", "blob"},
             NEW q \in Proc, Writing(q, c, n, b),
             q = p => b # pos[p]
      PROVE  Writing(q, c, n, b)'
  <2>1. b \in Nat
    BY SizeAssumption DEF Blocks
  <2> QED BY <1>1, <1>5, <2>1 DEF Writing
<1> SUFFICES ASSUME NEW c \in Reliable, NEW b \in Blocks(c)
             PROVE  /\ blob'[c] # Absent /\ b \notin blob'[c] =>
                         \E q \in Proc : Writing(q, c, "blob", b)'
                    /\ tmp'[c] # Absent /\ b \notin tmp'[c] =>
                         \E q \in Proc : Writing(q, c, "tmp", b)'
  BY DEF MissingIsPending, Exists
<1> USE DEF Reliable
<1>6. ASSUME blob'[c] # Absent, b \notin blob'[c]
      PROVE  \E q \in Proc : Writing(q, c, "blob", b)'
  <2>1. blob[c] # Absent /\ b \notin blob[c]
    BY <1>1, <1>2, <1>3, <1>4, <1>6
  <2>2. PICK q \in Proc : Writing(q, c, "blob", b)
    BY <2>1 DEF MissingIsPending, Exists
  <2>3. q = p => b # pos[p]
    BY <1>1, <1>3, <1>6, <2>2 DEF Writing
  <2> QED BY <1>5, <2>2, <2>3
<1>7. ASSUME tmp'[c] # Absent, b \notin tmp'[c]
      PROVE  \E q \in Proc : Writing(q, c, "tmp", b)'
  <2>1. tmp[c] # Absent /\ b \notin tmp[c]
    BY <1>1, <1>2, <1>3, <1>4, <1>7
  <2>2. PICK q \in Proc : Writing(q, c, "tmp", b)
    BY <2>1 DEF MissingIsPending
  <2>3. q = p => b # pos[p]
    BY <1>1, <1>2, <1>7, <2>2 DEF Writing
  <2> QED BY <1>5, <2>2, <2>3
<1> QED BY <1>6, <1>7

\* A rename carries the writers of the temporary over to the blob's name.
LEMMA RenamePending ==
  ASSUME TypeInv, MissingIsPending, NEW p \in Proc, Rename(p)
  PROVE  MissingIsPending'
<1> USE DEF TypeInv, TypeOK
<1>1. PICK d \in Content :
        /\ cur[p] = d /\ pos[p] > Size[d] /\ pc' = [pc EXCEPT ![p] = "ok"]
        /\ blob' = [blob EXCEPT ![d] = tmp[d]] /\ tmp' = [tmp EXCEPT ![d] = Absent]
        /\ tmp[d] # Absent /\ fd' = FdsAfterRename(p, d) /\ UNCHANGED <<cur, pos>>
  BY DEF Rename
<1>2. ASSUME NEW c \in Content, NEW b \in Blocks(c), NEW n \in {"tmp", "blob"},
             NEW q \in Proc, Writing(q, c, n, b)
      PROVE  /\ c # d => Writing(q, c, n, b)'
             /\ c = d /\ n = "tmp" => Writing(q, c, "blob", b)'
  <2>1. c = d => q # p
    <3>1. b \in Nat /\ Size[c] \in Nat /\ b <= Size[c]
      BY SizeAssumption DEF Blocks
    <3>2. pos[q] <= b /\ pos[q] \in Nat
      BY <1>2 DEF Writing
    <3> QED BY <1>1, <3>1, <3>2
  <2>2. q # p
    BY <1>1, <1>2, <2>1 DEF Writing
  <2> QED BY <1>1, <1>2, <2>1, <2>2 DEF Writing, FdsAfterRename
<1> SUFFICES ASSUME NEW c \in Reliable, NEW b \in Blocks(c)
             PROVE  /\ blob'[c] # Absent /\ b \notin blob'[c] =>
                         \E q \in Proc : Writing(q, c, "blob", b)'
                    /\ tmp'[c] # Absent /\ b \notin tmp'[c] =>
                         \E q \in Proc : Writing(q, c, "tmp", b)'
  BY DEF MissingIsPending, Exists
<1> USE DEF Reliable
<1>3. CASE c # d
  BY <1>1, <1>2, <1>3 DEF MissingIsPending, Exists
<1>4. CASE c = d
  BY <1>1, <1>2, <1>4 DEF MissingIsPending
<1> QED BY <1>3, <1>4

\* Any number of writers of one content, none of them killed and no I/O of
\* theirs failing, whatever befalls the others: each block a visible file lacks
\* is still to be written by a live writer of it.
THEOREM MissingBlocksArePending == Spec => []MissingIsPending
<1> USE DEF Reliable
<1>1. Init => WorkInv /\ MissingIsPending
  BY DEF Init, WorkInv, MissingIsPending, Exists
<1>2. PendingInv /\ [Next]_vars => MissingIsPending'
  <2> SUFFICES ASSUME PendingInv, [Next]_vars PROVE MissingIsPending'
    OBVIOUS
  <2> USE DEF PendingInv, TypeInv, TypeOK
  <2>1. ASSUME NEW p \in Proc, NEW c \in Work[p], PutExisting(p, c) \/ PutMissing(p, c)
        PROVE  MissingIsPending'
    BY <2>1 DEF PutExisting, PutMissing, MissingIsPending, Exists, Writing
  <2>2. ASSUME NEW p \in Proc, CreateTmp(p) PROVE MissingIsPending'
    <3>1. \A c \in Content : \A b \in Blocks(c) : c = cur[p] => Writing(p, c, "tmp", b)'
      BY <2>2, SizeAssumption DEF CreateTmp, Writing, Blocks
    <3>2. \A q \in Proc, c \in Content, n \in {"tmp", "blob"} : \A b \in Blocks(c) :
            Writing(q, c, n, b) => Writing(q, c, n, b)'
      BY <2>2 DEF CreateTmp, Writing
    <3>3. blob' = blob /\ tmp' = [tmp EXCEPT ![cur[p]] = {}]
      BY <2>2 DEF CreateTmp
    <3> QED BY <3>1, <3>2, <3>3 DEF MissingIsPending, Exists
  <2>3. ASSUME NEW p \in Proc, WriteBlock(p) PROVE MissingIsPending'
    BY <2>3, WriteBlockPending
  <2>4. ASSUME NEW p \in Proc, Rename(p) PROVE MissingIsPending'
    BY <2>4, RenamePending
  <2>5. ASSUME NEW p \in Proc, RenameMissing(p) PROVE MissingIsPending'
    <3>1. \A q \in Proc, c \in Content, n \in {"tmp", "blob"} : \A b \in Blocks(c) :
            Writing(q, c, n, b) => Writing(q, c, n, b)'
      BY <2>5, SizeAssumption DEF RenameMissing, Writing, Blocks
    <3> QED BY <2>5, <3>1 DEF RenameMissing, MissingIsPending, Exists
  <2>6. ASSUME NEW p \in Proc, Return(p) PROVE MissingIsPending'
    BY <2>6 DEF Return, MissingIsPending, Exists, Writing
  <2>7. ASSUME NEW p \in Proc, IOError(p) \/ Crash(p) PROVE MissingIsPending'
    <3>1. pc[p] = "write" => cur[p] \notin Reliable
      BY <2>7 DEF IOError, Crash, WorkInv
    <3>2. \A q \in Proc, c \in Reliable, n \in {"tmp", "blob"} : \A b \in Blocks(c) :
            Writing(q, c, n, b) => Writing(q, c, n, b)'
      BY <2>7, <3>1 DEF IOError, Crash, Writing
    <3> QED BY <2>7, <3>2 DEF IOError, Crash, MissingIsPending, Exists
  <2>8. CASE UNCHANGED vars
    BY <2>8 DEF vars, MissingIsPending, Exists, Writing
  <2> QED
    BY <2>1, <2>2, <2>3, <2>4, <2>5, <2>6, <2>7, <2>8 DEF Next, Advance
<1>3. Init => PendingInv
  BY <1>1, InitType DEF PendingInv
<1>4. PendingInv /\ [Next]_vars => PendingInv'
  BY <1>2, NextType, NextWork DEF PendingInv
<1>5. PendingInv => MissingIsPending
  BY DEF PendingInv
<1> QED BY <1>3, <1>4, <1>5, PTL DEF Spec

-----------------------------------------------------------------------------
(* The store over the blob files.                                            *)

\* A step of the store moves the blob files by a step of put, or leaves them.
LEMMA StoreStepIsFileStep == [StoreNext]_storeVars => [Next]_vars
<1> SUFFICES ASSUME StoreNext PROVE [Next]_vars
  BY DEF storeVars
<1>1. ASSUME NEW p \in Proc, PutFile(p) PROVE [Next]_vars
  BY <1>1 DEF PutFile, Next, Advance, PutExisting, PutMissing
<1>2. ASSUME NEW p \in Proc,
             RegisterBlob(p) \/ PutBlobFails(p) \/ PutFault(p) \/ Kill(p)
      PROVE  [Next]_vars
  BY <1>2 DEF RegisterBlob, PutBlobFails, PutFault, Kill, Next, Advance
<1>3. ASSUME NEW p \in Proc,
             \/ \E e \in Captures[p] : BeginRun(p, e)
             \/ \E s \in Shows[p] : BeginShow(p, s)
             \/ CountRuns(p) \/ CountFails(p) \/ InsertRun(p) \/ InsertFails(p)
             \/ Stamp(p) \/ Upsert(p)
      PROVE  UNCHANGED vars
  BY <1>3 DEF BeginRun, BeginShow, CountRuns, CountFails, InsertRun, InsertFails,
              Stamp, Upsert
<1>4. CASE Tick
  BY <1>4 DEF Tick
<1> QED BY <1>1, <1>2, <1>3, <1>4 DEF StoreNext, Proceed

\* The store uses the blob files only the way put does.
THEOREM StoreUsesPut == StoreSpec => Spec
<1>1. StoreInit => Init
  BY DEF StoreInit
<1> QED BY <1>1, StoreStepIsFileStep, PTL DEF StoreSpec, Spec

-----------------------------------------------------------------------------
(* Where a process is, and what it has in hand.                              *)

BlobSteps == {"out", "err", "bytes"}

CallInv ==
  /\ step \in [Proc -> {"none"} \cup RunSteps \cup ShowSteps]
  /\ DOMAIN job = Proc
  /\ seq \in [Proc -> Nat] /\ IsFiniteSet(DOMAIN runs)
  /\ \A p \in Proc :
       /\ step[p] \in RunSteps  => job[p] \in Captures[p]
       /\ step[p] \in ShowSteps => job[p] \in Shows[p]
       /\ pc[p] # "idle" => step[p] \in BlobSteps /\ cur[p] = Want(p)

\* At the start nobody is in a call.
LEMMA InitCall == StoreInit => CallInv
<1> SUFFICES ASSUME StoreInit PROVE CallInv
  OBVIOUS
<1>1. IsFiniteSet(DOMAIN runs)
  BY FS_EmptySet DEF StoreInit
<1> QED BY <1>1 DEF StoreInit, Init, CallInv, RunSteps, ShowSteps

\* Every step of the store keeps calls and their puts in accord.
LEMMA NextCall == TypeInv /\ CallInv /\ [StoreNext]_storeVars => CallInv'
<1> SUFFICES ASSUME TypeInv, CallInv, [StoreNext]_storeVars PROVE CallInv'
  OBVIOUS
<1> USE DEF CallInv, RunSteps, ShowSteps, BlobSteps
<1>0. pc \in [Proc -> PutPhase] /\ cur \in [Proc -> Content]
  BY DEF TypeInv, TypeOK
<1>1. ASSUME NEW p \in Proc, NEW e \in Captures[p], BeginRun(p, e) PROVE CallInv'
  BY <1>1 DEF BeginRun, Goto, vars, tables, Want
<1>2. ASSUME NEW p \in Proc, NEW s \in Shows[p], BeginShow(p, s) PROVE CallInv'
  BY <1>2 DEF BeginShow, Goto, vars, tables, Want
<1>3. ASSUME NEW p \in Proc, PutFile(p) PROVE CallInv'
  <2>1. /\ step[p] \in BlobSteps /\ UNCHANGED <<step, job, seq, runs>>
        /\ \A q \in Proc \ {p} : pc'[q] = pc[q] /\ cur'[q] = cur[q]
    BY <1>0, <1>3 DEF PutFile, locals, tables, PutExisting, PutMissing, CreateTmp,
                      WriteBlock, Rename, RenameMissing
  <2>2. cur'[p] = Want(p)
    BY <1>0, <1>3 DEF PutFile, PutExisting, PutMissing, CreateTmp, WriteBlock,
                      Rename, RenameMissing
  <2>3. \A q \in Proc : Want(q)' = Want(q)
    BY <2>1 DEF Want
  <2> QED BY <2>1, <2>2, <2>3
<1>4. ASSUME NEW p \in Proc, RegisterBlob(p) PROVE CallInv'
  <2>1. /\ step[p] \in BlobSteps /\ step' = [step EXCEPT ![p] = AfterBlob(step[p])]
        /\ UNCHANGED <<job, seq, cur, runs>> /\ pc' = [pc EXCEPT ![p] = "idle"]
    BY <1>4 DEF RegisterBlob, Goto, Return
  <2>2. /\ step[p] \in RunSteps => AfterBlob(step[p]) \in RunSteps
        /\ step[p] \in ShowSteps => AfterBlob(step[p]) \in ShowSteps
        /\ step[p] \in RunSteps \/ step[p] \in ShowSteps
    BY <2>1 DEF AfterBlob
  <2>3. \A q \in Proc \ {p} : Want(q)' = Want(q)
    BY <2>1 DEF Want
  <2> QED BY <1>0, <2>1, <2>2, <2>3
<1>5. ASSUME NEW p \in Proc, PutBlobFails(p) PROVE CallInv'
  BY <1>0, <1>5 DEF PutBlobFails, Return, Leave, Goto, Want, tables
<1>6. ASSUME NEW p \in Proc, PutFault(p) PROVE CallInv'
  BY <1>0, <1>6 DEF PutFault, IOError, locals, Want, tables
<1>7. ASSUME NEW p \in Proc, CountRuns(p) \/ CountFails(p) PROVE CallInv'
  <2>1. /\ step[p] = "count" /\ step' = [step EXCEPT ![p] = "insert"]
        /\ UNCHANGED <<pc, cur, job, runs>>
    BY <1>7 DEF CountRuns, CountFails, Goto, vars, tables
  <2>2. Cardinality(DOMAIN runs) \in Nat
    BY FS_CardinalityType
  <2>3. seq' \in [Proc -> Nat]
    BY <1>7, <2>2 DEF CountRuns, CountFails
  <2> QED BY <2>1, <2>3 DEF Want
<1>8. ASSUME NEW p \in Proc, InsertRun(p) PROVE CallInv'
  <2>1. DOMAIN runs' = DOMAIN runs \cup {RunId(p)}
    BY <1>8 DEF InsertRun
  <2>2. IsFiniteSet(DOMAIN runs')
    BY <2>1, FS_AddElement
  <2> QED BY <1>8, <2>2 DEF InsertRun, Leave, Goto, Want, vars
<1>9. ASSUME NEW p \in Proc, InsertFails(p) \/ Upsert(p) PROVE CallInv'
  BY <1>9 DEF InsertFails, Upsert, Leave, Goto, Want, vars, tables
<1>10. ASSUME NEW p \in Proc, Stamp(p) PROVE CallInv'
  BY <1>10 DEF Stamp, Goto, Want, vars, tables
<1>11. ASSUME NEW p \in Proc, Kill(p) PROVE CallInv'
  <2>1. /\ step' = [step EXCEPT ![p] = "none"] /\ job' = [job EXCEPT ![p] = NoJob]
        /\ UNCHANGED <<seq, cur, runs>> /\ pc' = [pc EXCEPT ![p] = "idle"]
    BY <1>0, <1>11 DEF Kill, Leave, Goto, Crash, vars, tables
  <2> QED BY <1>0, <2>1 DEF Want
<1>12. CASE Tick \/ UNCHANGED storeVars
  BY <1>12 DEF Tick, storeVars, locals, vars, tables, Want
<1> QED
  BY <1>1, <1>2, <1>3, <1>4, <1>5, <1>6, <1>7, <1>8, <1>9, <1>10, <1>11, <1>12
  DEF StoreNext, Proceed

-----------------------------------------------------------------------------
(* Any number of writers: the tables and the files.                          *)

\* Only put_blob adds blobs rows, and only the insert of put_run touches runs.
LEMMA TableStep ==
  ASSUME [StoreNext]_storeVars
  PROVE  /\ \/ rows' = rows
            \/ \E p \in Proc : RegisterBlob(p)
         /\ \/ UNCHANGED <<runs, handed>>
            \/ \E p \in Proc : InsertRun(p)
<1> SUFFICES ASSUME StoreNext
             PROVE  /\ rows' = rows \/ \E p \in Proc : RegisterBlob(p)
                    /\ UNCHANGED <<runs, handed>> \/ \E p \in Proc : InsertRun(p)
  BY DEF storeVars, tables, history
<1> USE DEF tables, history
<1>1. ASSUME NEW p \in Proc, RegisterBlob(p) PROVE UNCHANGED <<runs, handed>>
  BY <1>1 DEF RegisterBlob
<1>2. ASSUME NEW p \in Proc, InsertRun(p) PROVE rows' = rows
  BY <1>2 DEF InsertRun
<1>3. ASSUME NEW p \in Proc,
             \/ \E e \in Captures[p] : BeginRun(p, e)
             \/ \E s \in Shows[p] : BeginShow(p, s)
             \/ PutFile(p) \/ PutBlobFails(p) \/ PutFault(p) \/ CountRuns(p)
             \/ CountFails(p) \/ InsertFails(p) \/ Stamp(p) \/ Upsert(p) \/ Kill(p)
      PROVE  UNCHANGED <<rows, runs, handed>>
  BY <1>3 DEF BeginRun, BeginShow, PutFile, PutBlobFails, PutFault, CountRuns,
              CountFails, InsertFails, Stamp, Upsert, Kill
<1>4. CASE Tick
  BY <1>4 DEF Tick
<1> QED BY <1>1, <1>2, <1>3, <1>4 DEF StoreNext, Proceed

RowsInv == rows \subseteq Content /\ RowsAreNamed

\* Every step keeps a file under every row of table blobs.
LEMMA NextRows ==
  ASSUME TypeInv, OkIsNamed, RowsInv, [StoreNext]_storeVars
  PROVE  RowsInv' /\ rows \subseteq rows'
<1>1. \A c \in rows : Exists(c)'
  BY StoreStepIsFileStep, NamesStay DEF RowsInv, RowsAreNamed
<1>2. CASE rows' = rows
  BY <1>1, <1>2 DEF RowsInv, RowsAreNamed
<1>3. ASSUME NEW p \in Proc, RegisterBlob(p) PROVE RowsInv' /\ rows \subseteq rows'
  <2>1. PICK c \in Content : c = cur[p] /\ Exists(c)
    BY <1>3 DEF TypeInv, TypeOK, RegisterBlob, OkIsNamed
  <2>2. Exists(c)'
    BY <2>1, StoreStepIsFileStep, NamesStay
  <2>3. rows' = rows \cup {c}
    BY <1>3, <2>1 DEF RegisterBlob
  <2> QED BY <1>1, <2>2, <2>3 DEF RowsInv, RowsAreNamed
<1> QED BY <1>2, <1>3, TableStep

\* What a process has put is registered; a stored run refers to rows that are
\* there; a handle given out names a stored run.
InHand(p) ==
  /\ step[p] = "err" => job[p].out \in rows
  /\ step[p] \in {"count", "insert"} => job[p].out \in rows /\ job[p].err \in rows

RefInv ==
  /\ \A p \in Proc : InHand(p)
  /\ \A id \in DOMAIN runs : References(id)
  /\ \A h \in handed : h.id \in DOMAIN runs

\* Every step keeps the rows that a call in progress has written.
LEMMA NextInHand ==
  ASSUME TypeInv, CallInv, RefInv, rows \subseteq rows', [StoreNext]_storeVars,
         NEW p \in Proc
  PROVE  InHand(p)'
<1> USE DEF CallInv, InHand, RefInv
<1>1. CASE step'[p] = step[p] /\ job'[p] = job[p]
  BY <1>1
<1>2. CASE step'[p] \notin {"err", "count", "insert"}
  BY <1>2
<1>3. ASSUME NEW q \in Proc, RegisterBlob(q) PROVE InHand(p)'
  <2>1. /\ step[q] \in BlobSteps /\ step' = [step EXCEPT ![q] = AfterBlob(step[q])]
        /\ job' = job /\ Want(q) \in rows'
    BY <1>3 DEF RegisterBlob, Goto, Return
  <2>2. CASE p = q
    BY <2>1, <2>2 DEF AfterBlob, Want, BlobSteps
  <2>3. CASE p # q
    BY <1>1, <2>1, <2>3
  <2> QED BY <2>2, <2>3
<1>4. ASSUME NEW q \in Proc, CountRuns(q) \/ CountFails(q) PROVE InHand(p)'
  <2>1. step[q] = "count" /\ step' = [step EXCEPT ![q] = "insert"] /\ job' = job
    BY <1>4 DEF CountRuns, CountFails, Goto
  <2> QED BY <2>1
<1>5. ASSUME NEW q \in Proc,
             \/ \E e \in Captures[q] : BeginRun(q, e)
             \/ \E s \in Shows[q] : BeginShow(q, s)
             \/ Stamp(q)
      PROVE  InHand(p)'
  BY <1>1, <1>2, <1>5 DEF BeginRun, BeginShow, Stamp, Goto
<1>6. ASSUME NEW q \in Proc,
             PutBlobFails(q) \/ InsertRun(q) \/ InsertFails(q) \/ Upsert(q) \/ Kill(q)
      PROVE  InHand(p)'
  <2>1. step' = [step EXCEPT ![q] = "none"] /\ job' = [job EXCEPT ![q] = NoJob]
    BY <1>6 DEF PutBlobFails, InsertRun, InsertFails, Upsert, Kill, Leave, Goto
  <2> QED BY <1>1, <1>2, <2>1
<1>7. ASSUME NEW q \in Proc, PutFile(q) \/ PutFault(q) PROVE InHand(p)'
  BY <1>1, <1>7 DEF PutFile, PutFault, locals
<1>8. CASE Tick \/ UNCHANGED storeVars
  BY <1>1, <1>8 DEF Tick, storeVars, locals
<1> QED
  BY <1>3, <1>4, <1>5, <1>6, <1>7, <1>8 DEF StoreNext, Proceed

\* Every step keeps the foreign keys of the stored runs.
LEMMA NextRef ==
  ASSUME TypeInv, CallInv, RefInv, rows \subseteq rows', [StoreNext]_storeVars
  PROVE  RefInv'
<1>1. \A p \in Proc : InHand(p)'
  BY NextInHand
<1>2. CASE UNCHANGED <<runs, handed>>
  BY <1>1, <1>2 DEF RefInv, References
<1>3. ASSUME NEW p \in Proc, InsertRun(p) PROVE RefInv'
  <2>1. PICK id : /\ References(id) /\ DOMAIN runs' = DOMAIN runs \cup {id}
                  /\ handed' = handed \cup {[id |-> id, meta |-> job[p].meta]}
    BY <1>3 DEF InsertRun
  <2> QED BY <1>1, <2>1 DEF RefInv, References
<1> QED BY <1>2, <1>3, TableStep

\* The counter of an id is below the number of runs, and so is, or equals it,
\* the counter a process holds.
CountInv ==
  /\ \A id \in DOMAIN runs : id.seq \in Nat
  /\ SeqBelowCount
  /\ \A p \in Proc : seq[p] <= Cardinality(DOMAIN runs)

\* An empty table has no counter to bound.
LEMMA InitCount == StoreInit => CountInv
<1> SUFFICES ASSUME StoreInit PROVE CountInv
  OBVIOUS
<1>1. Cardinality(DOMAIN runs) = 0 /\ DOMAIN runs = {}
  BY FS_EmptySet DEF StoreInit
<1> QED BY <1>1 DEF StoreInit, CountInv, SeqBelowCount

\* Every step keeps the counters, stored and read, below the count.
LEMMA NextCount ==
  ASSUME CallInv, CountInv, [StoreNext]_storeVars
  PROVE  CountInv'
<1> USE DEF CallInv, CountInv, SeqBelowCount
<1> DEFINE N == Cardinality(DOMAIN runs)
<1>0. N \in Nat
  BY FS_CardinalityType
<1>1. ASSUME NEW p \in Proc, InsertRun(p) PROVE CountInv'
  <2>1. PICK id : /\ id = RunId(p) /\ DOMAIN runs' = DOMAIN runs \cup {id}
                  /\ id.seq = seq[p] /\ seq' = seq
    BY <1>1 DEF InsertRun, RunId
  <2>2. IF id \in DOMAIN runs THEN N' = N ELSE N' = N + 1
    <3>1. Cardinality(DOMAIN runs \cup {id}) =
            IF id \in DOMAIN runs THEN N ELSE N + 1
      BY FS_AddElement
    <3> QED BY <2>1, <3>1
  <2>3. N' \in Nat /\ N <= N' /\ N' > seq[p] /\ seq[p] \in Nat
    <3>1. CASE id \in DOMAIN runs
      BY <1>0, <2>1, <2>2, <3>1
    <3>2. CASE id \notin DOMAIN runs
      BY <1>0, <2>1, <2>2, <3>2
    <3> QED BY <3>1, <3>2
  <2>4. \A i \in DOMAIN runs' : i.seq \in Nat /\ i.seq < N'
    BY <1>0, <2>1, <2>3
  <2>5. \A q \in Proc : seq'[q] <= N'
    BY <1>0, <2>1, <2>3
  <2> QED BY <2>4, <2>5
<1>2. ASSUME NEW p \in Proc, CountRuns(p) \/ CountFails(p) PROVE CountInv'
  <2>1. seq' = [seq EXCEPT ![p] = N] \/ seq' = [seq EXCEPT ![p] = 0]
    BY <1>2 DEF CountRuns, CountFails
  <2>2. runs' = runs
    BY <1>2 DEF CountRuns, CountFails, tables
  <2>3. \A q \in Proc : seq'[q] <= N
    BY <1>0, <2>1
  <2> QED BY <2>2, <2>3
<1>3. CASE UNCHANGED <<runs, seq>>
  BY <1>3
<1>4. ASSUME NEW p \in Proc,
             \/ \E e \in Captures[p] : BeginRun(p, e)
             \/ \E s \in Shows[p] : BeginShow(p, s)
             \/ PutFile(p) \/ PutBlobFails(p) \/ PutFault(p) \/ RegisterBlob(p)
             \/ InsertFails(p) \/ Stamp(p) \/ Upsert(p) \/ Kill(p)
      PROVE  UNCHANGED <<runs, seq>>
  BY <1>4 DEF BeginRun, BeginShow, PutFile, PutBlobFails, PutFault, RegisterBlob,
              InsertFails, Stamp, Upsert, Kill, tables, locals
<1>5. CASE Tick \/ UNCHANGED storeVars
  BY <1>3, <1>5 DEF Tick, storeVars, tables, locals
<1> QED BY <1>1, <1>2, <1>3, <1>4, <1>5 DEF StoreNext, Proceed

SnapRows == [bytes : rows, seen : 0..MaxClock]

\* What a snapshot says was shown has a blobs row, and what is about to be
\* recorded has one already; the types of the tables and of the clock.
SnapInv ==
  /\ snaps \in [Path -> Seq(SnapRows)] /\ DOMAIN runs \subseteq IdType
  /\ clock \in 0..MaxClock /\ stamp \in [Proc -> 0..MaxClock]
  /\ \A p \in Proc : step[p] \in {"stamp", "upsert"} => job[p].bytes \in rows

\* An upsert of a row for what has a blobs row keeps the table typed.
LEMMA UpsertTyped ==
  ASSUME NEW S, NEW f, snaps[f] \in Seq(S), NEW new \in S
  PROVE  Upserted(f, new) \in Seq(S)
<1>1. Append(snaps[f], new) \in Seq(S)
  OBVIOUS
<1>2. [i \in DOMAIN snaps[f] |-> IF i \in RowOf(f, new.bytes) THEN new ELSE snaps[f][i]] \in Seq(S)
  <2>1. PICK n \in Nat : DOMAIN snaps[f] = 1..n
    BY DEF Seq
  <2>2. \A i \in 1..n : snaps[f][i] \in S
    BY <2>1
  <2>3. [i \in 1..n |-> IF i \in RowOf(f, new.bytes) THEN new ELSE snaps[f][i]] \in [1..n -> S]
    BY <2>2
  <2> QED BY <2>1, <2>3 DEF Seq
<1> QED BY <1>1, <1>2 DEF Upserted

\* At the start nothing has been shown.
LEMMA InitSnap == StoreInit => SnapInv
<1> SUFFICES ASSUME StoreInit PROVE SnapInv
  OBVIOUS
<1>1. 0 \in 0..MaxClock
  BY BoundAssumption
<1>2. snaps \in [Path -> Seq(SnapRows)]
  <2>1. <<>> \in Seq(SnapRows)
    OBVIOUS
  <2> QED BY <2>1 DEF StoreInit
<1> QED BY <1>1, <1>2 DEF StoreInit, SnapInv

\* Every step keeps a blobs row for every snapshot, made and in the making.
LEMMA NextSnap ==
  ASSUME TypeInv, CallInv, RowsInv, SnapInv, rows \subseteq rows', [StoreNext]_storeVars
  PROVE  SnapInv'
<1> USE DEF SnapInv
<1>0. /\ step \in [Proc -> {"none"} \cup RunSteps \cup ShowSteps] /\ DOMAIN job = Proc
      /\ \A p \in Proc : /\ step[p] \in RunSteps => job[p] \in Captures[p]
                         /\ step[p] \in ShowSteps => job[p] \in Shows[p]
  BY DEF CallInv
<1>1. ASSUME NEW T, NEW g \in [Path -> Seq(SnapRows)], T = [bytes : rows', seen : 0..MaxClock]
      PROVE  g \in [Path -> Seq(T)]
  <2>1. SnapRows \subseteq T
    BY <1>1 DEF SnapRows
  <2>2. Seq(SnapRows) \subseteq Seq(T)
    BY <2>1 DEF Seq
  <2> QED BY <2>2
<1>2. snaps \in [Path -> Seq(SnapRows')]
  BY <1>1 DEF SnapRows
<1>3. ASSUME UNCHANGED <<snaps, runs, clock, stamp>>,
             \A p \in Proc : step'[p] \in {"stamp", "upsert"} =>
               step[p] \in {"stamp", "upsert"} /\ job'[p] = job[p]
      PROVE  SnapInv'
  BY <1>2, <1>3
<1>4. ASSUME NEW p \in Proc, RegisterBlob(p) PROVE SnapInv'
  <2>1. /\ step[p] \in BlobSteps /\ step' = [step EXCEPT ![p] = AfterBlob(step[p])]
        /\ job' = job /\ Want(p) \in rows' /\ UNCHANGED <<snaps, runs, clock, stamp>>
    BY <1>4 DEF RegisterBlob, Return, Goto, CallInv
  <2>2. AfterBlob(step[p]) \in {"stamp", "upsert"} => job[p].bytes = Want(p)
    BY <2>1 DEF AfterBlob, Want, BlobSteps
  <2> QED BY <1>0, <1>2, <2>1, <2>2
<1>5. ASSUME NEW p \in Proc, Stamp(p) PROVE SnapInv'
  BY <1>0, <1>2, <1>5 DEF Stamp, Goto, tables
<1>6. ASSUME NEW p \in Proc, InsertRun(p) PROVE SnapInv'
  <2>1. /\ step[p] = "insert" /\ References(RunId(p)) /\ DOMAIN runs' = DOMAIN runs \cup {RunId(p)}
        /\ step' = [step EXCEPT ![p] = "none"] /\ job' = [job EXCEPT ![p] = NoJob]
        /\ UNCHANGED <<snaps, clock, stamp>>
    BY <1>6 DEF InsertRun, Leave, Goto
  <2>2. RunId(p) \in IdType
    <3>1. job[p].cmd \in Commands
      BY <1>0, <2>1 DEF RunSteps, Commands
    <3>2. job[p].out \in Content /\ job[p].err \in Content
      BY <2>1 DEF References, RunId, RowsInv
    <3> QED BY <3>1, <3>2 DEF RunId, IdType, CallInv
  <2> QED BY <1>0, <1>2, <2>1, <2>2
<1>7. ASSUME NEW p \in Proc, Upsert(p) PROVE SnapInv'
  <2>1. /\ step[p] = "upsert" /\ step' = [step EXCEPT ![p] = "none"]
        /\ job' = [job EXCEPT ![p] = NoJob] /\ UNCHANGED <<rows, runs, clock, stamp>>
    BY <1>7 DEF Upsert, Leave, Goto
  <2>2. PICK new :
          /\ new = [bytes |-> job[p].bytes, seen |-> stamp[p]]
          /\ snaps' = [snaps EXCEPT ![job[p].path] = Upserted(job[p].path, new)]
    BY <1>7 DEF Upsert
  <2>3. new \in SnapRows
    BY <2>1, <2>2 DEF SnapRows
  <2>4. job[p].path \in Path
    BY <1>0, <2>1, JobAssumption DEF ShowSteps
  <2>5. Upserted(job[p].path, new) \in Seq(SnapRows)
    BY <2>3, <2>4, UpsertTyped
  <2>6. snaps' \in [Path -> Seq(SnapRows)] /\ SnapRows' = SnapRows
    BY <2>1, <2>2, <2>5 DEF SnapRows
  <2> QED BY <1>0, <2>1, <2>6
<1>8. ASSUME NEW p \in Proc,
             \/ \E e \in Captures[p] : BeginRun(p, e)
             \/ \E s \in Shows[p] : BeginShow(p, s)
             \/ CountRuns(p) \/ CountFails(p)
      PROVE  SnapInv'
  BY <1>0, <1>3, <1>8 DEF BeginRun, BeginShow, CountRuns, CountFails, Goto, tables
<1>9. ASSUME NEW p \in Proc, PutBlobFails(p) \/ InsertFails(p) \/ Kill(p) PROVE SnapInv'
  BY <1>0, <1>3, <1>9 DEF PutBlobFails, InsertFails, Kill, Leave, Goto, tables
<1>10. ASSUME NEW p \in Proc, PutFile(p) \/ PutFault(p) PROVE SnapInv'
  BY <1>3, <1>10 DEF PutFile, PutFault, tables, locals
<1>11. CASE Tick
  BY <1>2, <1>11, BoundAssumption DEF Tick, tables, locals
<1>12. CASE UNCHANGED storeVars
  BY <1>3, <1>12 DEF storeVars, tables, locals
<1> QED
  BY <1>4, <1>5, <1>6, <1>7, <1>8, <1>9, <1>10, <1>11, <1>12 DEF StoreNext, Proceed

\* Every recorded snapshot is about something that has a blobs row.
LEMMA SnapsAreRows ==
  ASSUME SnapInv, NEW f \in Path, NEW i \in DOMAIN snaps[f]
  PROVE  snaps[f][i].bytes \in rows /\ snaps[f][i].seen \in 0..MaxClock
<1>1. snaps[f] \in Seq(SnapRows)
  BY DEF SnapInv
<1>2. snaps[f][i] \in SnapRows
  BY <1>1
<1> QED BY <1>2 DEF SnapRows

StoreInv == TypeInv /\ OkIsNamed /\ CallInv /\ RowsInv /\ RefInv /\ CountInv /\ SnapInv

\* The invariant of the store for any number of writers.
LEMMA StoreInvariance == StoreSpec => []StoreInv
<1>1. StoreInit => StoreInv
  <2>1. StoreInit => TypeInv /\ OkIsNamed /\ RowsInv
    BY InitType DEF StoreInit, Init, OkIsNamed, RowsInv, RowsAreNamed
  <2>2. StoreInit => RefInv
    BY DEF StoreInit, RefInv, InHand
  <2> QED BY <2>1, <2>2, InitCall, InitCount, InitSnap DEF StoreInv
<1>2. StoreInv /\ [StoreNext]_storeVars => StoreInv'
  BY StoreStepIsFileStep, NextType, NextOk, NextCall, NextRows, NextRef, NextCount,
     NextSnap DEF StoreInv
<1> QED BY <1>1, <1>2, PTL DEF StoreSpec

\* The tables and the locals of the calls are well typed, and a process is inside
\* put only while its call waits for a blob.
THEOREM StoreTypeCorrect == StoreSpec => []StoreTypeOK
<1>1. ASSUME StoreInv PROVE StoreTypeOK
  <2>1. \A f \in Path : \A i \in DOMAIN snaps[f] :
          snaps[f][i].bytes \in Content /\ snaps[f][i].seen \in 0..MaxClock
    BY <1>1, SnapsAreRows DEF StoreInv, RowsInv
  <2>2. TypeOK /\ rows \in SUBSET Content /\ DOMAIN runs \subseteq IdType
    BY <1>1 DEF StoreInv, TypeInv, RowsInv, SnapInv
  <2>3. \A p \in Proc : step[p] \notin {"out", "err", "bytes"} => pc[p] = "idle"
    BY <1>1 DEF StoreInv, CallInv, BlobSteps
  <2> QED BY <1>1, <2>1, <2>2, <2>3 DEF StoreInv, CallInv, SnapInv, StoreTypeOK
<1> QED BY <1>1, StoreInvariance, PTL

\* Any number of writers, whatever is killed and whatever fails: no row of the
\* store precedes the file it is about.
THEOREM RowsNeverPrecedeFiles == StoreSpec => []NoRowPrecedesItsFile
<1>1. ASSUME StoreInv PROVE NoRowPrecedesItsFile
  <2>1. RowsAreNamed /\ \A id \in DOMAIN runs : References(id)
    BY <1>1 DEF StoreInv, RowsInv, RefInv
  <2>2. SnapshotsHaveRows
    BY <1>1, SnapsAreRows DEF StoreInv, SnapshotsHaveRows
  <2> QED BY <2>1, <2>2 DEF NoRowPrecedesItsFile
<1> QED BY <1>1, StoreInvariance, PTL

\* The counter hashed into an id is below the number of stored runs: a call
\* that overlaps no other gets an id no run has.
THEOREM CountersStayBelow == StoreSpec => []SeqBelowCount
<1>1. StoreInv => SeqBelowCount
  BY DEF StoreInv, CountInv
<1> QED BY <1>1, StoreInvariance, PTL

-----------------------------------------------------------------------------
(* Executions of its own for each process: ids are never taken twice.        *)

SameRun(id, e) == id.cmd = e.cmd /\ id.out = e.out /\ id.err = e.err

MetaInv ==
  /\ \A p \in Proc : step[p] = "insert" =>
       \A id \in DOMAIN runs : SameRun(id, job[p]) => id.seq < seq[p]
  /\ \A h \in handed : runs[h.id] = h.meta

\* With captures of one's own, the id of a run that was just counted is new.
LEMMA FreshId ==
  ASSUME StoreInv, MetaInv, NEW p \in Proc, step[p] = "insert"
  PROVE  RunId(p) \notin DOMAIN runs
<1>1. seq[p] \in Nat
  BY DEF StoreInv, CallInv
<1> QED BY <1>1 DEF MetaInv, SameRun, RunId

\* Every step keeps, for each handle, the metadata it was returned for.
LEMMA NextMeta ==
  ASSUME ~Misread, DisjointCaptures, StoreInv, MetaInv, [StoreNext]_storeVars
  PROVE  MetaInv'
<1> USE DEF MetaInv
<1>0. /\ step \in [Proc -> {"none"} \cup RunSteps \cup ShowSteps]
      /\ DOMAIN job = Proc /\ seq \in [Proc -> Nat]
      /\ \A p \in Proc : step[p] \in RunSteps => job[p] \in Captures[p]
      /\ \A h \in handed : h.id \in DOMAIN runs
  BY DEF StoreInv, CallInv, RefInv
<1>1. ASSUME NEW p \in Proc, InsertRun(p) PROVE MetaInv'
  <2>1. PICK id :
          /\ id = RunId(p) /\ step[p] = "insert"
          /\ runs' = [i \in DOMAIN runs \cup {id} |-> IF i = id THEN job[p].meta ELSE runs[i]]
          /\ handed' = handed \cup {[id |-> id, meta |-> job[p].meta]}
          /\ step' = [step EXCEPT ![p] = "none"] /\ seq' = seq
          /\ job' = [job EXCEPT ![p] = NoJob]
    BY <1>1 DEF InsertRun, Leave, Goto
  <2>2. id \notin DOMAIN runs
    BY <2>1, FreshId
  <2>3. \A h \in handed' : runs'[h.id] = h.meta
    BY <1>0, <2>1, <2>2
  <2>4. ASSUME NEW q \in Proc, step'[q] = "insert", NEW i \in DOMAIN runs',
               SameRun(i, job'[q])
        PROVE  i.seq < seq'[q]
    <3>1. q # p /\ step[q] = "insert" /\ job'[q] = job[q]
      BY <1>0, <2>1, <2>4
    <3>2. ~SameRun(id, job[q])
      <4>1. job[p] \in Captures[p] /\ job[q] \in Captures[q]
        BY <1>0, <2>1, <3>1 DEF RunSteps
      <4> QED BY <2>1, <3>1, <4>1 DEF DisjointCaptures, SameRun, RunId
    <3> QED BY <2>1, <2>4, <3>1, <3>2
  <2> QED BY <2>3, <2>4
<1>2. ASSUME NEW p \in Proc, CountRuns(p) PROVE MetaInv'
  <2>1. /\ step' = [step EXCEPT ![p] = "insert"] /\ UNCHANGED <<runs, job, handed>>
        /\ seq' = [seq EXCEPT ![p] = Cardinality(DOMAIN runs)]
    BY <1>2 DEF CountRuns, Goto, tables, history
  <2>2. \A id \in DOMAIN runs : id.seq < Cardinality(DOMAIN runs)
    BY DEF StoreInv, CountInv, SeqBelowCount
  <2> QED BY <1>0, <2>1, <2>2
<1>3. ASSUME UNCHANGED <<runs, handed, seq>>,
             \A q \in Proc : step'[q] = "insert" => step[q] = "insert" /\ job'[q] = job[q]
      PROVE  MetaInv'
  BY <1>3
<1>4. ASSUME NEW p \in Proc,
             \/ \E e \in Captures[p] : BeginRun(p, e)
             \/ \E s \in Shows[p] : BeginShow(p, s)
             \/ Stamp(p)
      PROVE  MetaInv'
  BY <1>0, <1>3, <1>4 DEF BeginRun, BeginShow, Stamp, Goto, tables, history
<1>5. ASSUME NEW p \in Proc, PutBlobFails(p) \/ InsertFails(p) \/ Upsert(p) \/ Kill(p)
      PROVE  MetaInv'
  BY <1>0, <1>3, <1>5 DEF PutBlobFails, InsertFails, Upsert, Kill, Leave, Goto, tables, history
<1>6. ASSUME NEW p \in Proc, RegisterBlob(p) PROVE MetaInv'
  <2>1. AfterBlob(step[p]) # "insert"
    BY DEF AfterBlob
  <2> QED BY <1>0, <1>3, <1>6, <2>1 DEF RegisterBlob, Goto, history
<1>7. ASSUME NEW p \in Proc, PutFile(p) \/ PutFault(p) PROVE MetaInv'
  BY <1>3, <1>7 DEF PutFile, PutFault, tables, locals, history
<1>8. CASE Tick \/ UNCHANGED storeVars
  BY <1>3, <1>8 DEF Tick, storeVars, tables, locals, history
<1> QED
  BY <1>1, <1>2, <1>4, <1>5, <1>6, <1>7, <1>8 DEF StoreNext, Proceed, CountFails

-----------------------------------------------------------------------------
(* What the store promises.                                                  *)

GoodInv == StoreInv /\ MetaInv /\ WholeInv

\* The invariant of the store whose processes capture things of their own.
LEMMA GoodInvariance ==
  ASSUME DisjointWork, DisjointCaptures, ~Misread
  PROVE  StoreSpec => []GoodInv
<1>1. StoreInit => StoreInv /\ MetaInv /\ WholeInv
  <2>1. StoreInit => TypeInv /\ OkIsNamed /\ RowsInv /\ WholeInv
    BY InitType, InitOwn DEF StoreInit, Init, OkIsNamed, RowsInv, RowsAreNamed, WholeInv
  <2>2. StoreInit => RefInv /\ MetaInv
    BY DEF StoreInit, RefInv, InHand, MetaInv
  <2> QED BY <2>1, <2>2, InitCall, InitCount, InitSnap DEF StoreInv
<1>2. GoodInv /\ [StoreNext]_storeVars => GoodInv'
  BY StoreStepIsFileStep, NextType, NextOk, NextCall, NextRows, NextRef, NextCount,
     NextSnap, NextMeta, NextOwn DEF StoreInv, GoodInv, WholeInv
<1>3. StoreInit => GoodInv
  BY <1>1 DEF GoodInv
<1> QED BY <1>2, <1>3, PTL DEF StoreSpec

AllRead == \A id \in DOMAIN runs : RunOutput(id) /\ References(id)

\* In it every stored run can be read back.
LEMMA GoodReads == GoodInv => AllRead
<1> SUFFICES ASSUME GoodInv, NEW id \in DOMAIN runs
             PROVE  RunOutput(id) /\ References(id)
  BY DEF AllRead
<1>1. id.out \in rows /\ id.err \in rows /\ References(id)
  BY DEF GoodInv, StoreInv, RefInv, References
<1>2. \A c \in rows : Whole(c)
  BY DEF GoodInv, StoreInv, RowsInv, RowsAreNamed, WholeInv, OwnInv, VisibleWhole
<1> QED BY <1>1, <1>2 DEF RunOutput

\* Invariant 1 of store.rs, for processes that do not capture the same bytes
\* nor the same execution at once, whatever is killed and whatever fails: a
\* handle gives back the run it was returned for, byte-exactly and for ever.
THEOREM EveryHandleResolves ==
  ASSUME DisjointWork, DisjointCaptures, ~Misread
  PROVE  StoreSpec => []HandlesResolve
<1>1. ASSUME GoodInv PROVE HandlesResolve
  <2>1. \A h \in handed : h.id \in DOMAIN runs /\ runs[h.id] = h.meta
    BY <1>1 DEF GoodInv, StoreInv, RefInv, MetaInv
  <2> QED BY <1>1, <2>1, GoodReads DEF HandlesResolve, GetRun, AllRead
<1> QED BY <1>1, GoodInvariance, PTL

\* Under the same conditions put_run implements the run log.
THEOREM StoreIsRunLog ==
  ASSUME DisjointWork, DisjointCaptures, ~Misread
  PROVE  StoreSpec => RunLogSpec
<1>1. StoreInit => Log!Init
  BY DEF StoreInit, Log!Init, Book
<1>2. GoodInv /\ AllRead /\ AllRead' /\ [StoreNext]_storeVars => [Log!Log]_Book
  <2> SUFFICES ASSUME GoodInv, AllRead, AllRead', [StoreNext]_storeVars
               PROVE  Log!Log \/ UNCHANGED Book
    OBVIOUS
  <2>1. Book = [i \in DOMAIN runs |-> [meta |-> runs[i], state |-> "readable"]]
    BY DEF Book, AllRead
  <2>2. Book' = [i \in DOMAIN runs' |-> [meta |-> runs'[i], state |-> "readable"]]
    BY DEF Book, AllRead
  <2>3. CASE UNCHANGED runs
    BY <2>1, <2>2, <2>3
  <2>4. ASSUME NEW p \in Proc, InsertRun(p) PROVE Log!Log
    <3>1. PICK id :
            /\ id = RunId(p) /\ step[p] = "insert"
            /\ runs' = [i \in DOMAIN runs \cup {id} |-> IF i = id THEN job[p].meta ELSE runs[i]]
      BY <2>4 DEF InsertRun
    <3>2. id \notin DOMAIN runs
      BY <3>1, FreshId DEF GoodInv
    <3>3. DOMAIN Book = DOMAIN runs /\ DOMAIN Book' = DOMAIN runs \cup {id}
      BY <2>1, <2>2, <3>1
    <3>4. Book'[id].state = "readable" /\ \A g \in DOMAIN Book : Book'[g] = Book[g]
      BY <2>1, <2>2, <3>1, <3>2, <3>3
    <3> QED BY <3>2, <3>3, <3>4 DEF Log!Log
  <2> QED BY <2>3, <2>4, TableStep
<1> QED BY <1>1, <1>2, GoodInvariance, GoodReads, PTL DEF StoreSpec, RunLogSpec, Log!Spec

-----------------------------------------------------------------------------
(* What was shown last.                                                      *)

\* A bounded set of numbers has a greatest one.
LEMMA LeastNat ==
  ASSUME NEW T \in SUBSET Nat, T # {}
  PROVE  \E x \in T : \A y \in T : x <= y
<1>1. PICK x \in T : \A y \in T : ~(<<y, x>> \in OpToRel(<, Nat))
  BY NatLessThanWellFounded, WFMin
<1>2. \A y \in T : ~(y < x)
  BY <1>1 DEF OpToRel
<1> QED BY <1>2

LEMMA GreatestNat ==
  ASSUME NEW T \in SUBSET Nat, T # {}, NEW n \in Nat, \A x \in T : x <= n
  PROVE  \E x \in T : \A y \in T : y <= x
<1> DEFINE Bounds == {k \in Nat : \A x \in T : x <= k}
<1>1. PICK k \in Bounds : \A j \in Bounds : k <= j
  BY LeastNat
<1>2. ASSUME k \notin T PROVE FALSE
  <2>1. PICK y \in T : TRUE
    OBVIOUS
  <2>2. k # 0
    BY <1>2, <2>1
  <2>3. k - 1 \in Bounds
    BY <1>2, <2>2
  <2> QED BY <1>1, <2>3
<1> QED BY <1>1, <1>2

\* No snapshot is from later than the clock says, and none of a path from later
\* than what is about to be recorded for it: nobody else shows the path between
\* the reading of the clock and the upsert.
TimeInv ==
  /\ \A f \in Path : \A i \in DOMAIN snaps[f] : snaps[f][i].seen <= clock
  /\ \A p \in Proc : stamp[p] <= clock
  /\ \A p \in Proc : step[p] = "upsert" =>
       \A i \in DOMAIN snaps[job[p].path] : snaps[job[p].path][i].seen <= stamp[p]

\* The row written last for a path is in the table, and none is later.
LastInv ==
  \A f \in Path : last[f] # NoJob =>
    \E i \in DOMAIN snaps[f] :
      snaps[f][i] = last[f] /\ \A j \in DOMAIN snaps[f] : snaps[f][j].seen <= last[f].seen

ShownInv == TimeInv /\ LastInv /\ DOMAIN last = Path

\* What an upsert leaves of a table: the new row, every other row as it was.
LEMMA UpsertKeeps ==
  ASSUME NEW S, NEW f, snaps[f] \in Seq(S), NEW new \in S, NEW t, t = Upserted(f, new)
  PROVE  /\ \E i \in DOMAIN t : t[i] = new
         /\ \A i \in DOMAIN t : t[i] = new \/ \E j \in DOMAIN snaps[f] : t[i] = snaps[f][j]
         /\ DOMAIN snaps[f] \subseteq DOMAIN t
         /\ \A j \in DOMAIN snaps[f] :
              t[j] = snaps[f][j] \/ (t[j] = new /\ snaps[f][j].bytes = new.bytes)
<1>1. PICK n \in Nat : DOMAIN snaps[f] = 1..n /\ Len(snaps[f]) = n
  OBVIOUS
<1>2. CASE RowOf(f, new.bytes) = {}
  <2>1. t = Append(snaps[f], new)
    BY <1>2 DEF Upserted
  <2>2. DOMAIN t = 1..(n + 1) /\ t[n + 1] = new /\ \A j \in 1..n : t[j] = snaps[f][j]
    BY <1>1, <2>1
  <2> QED BY <1>1, <2>2
<1>3. CASE RowOf(f, new.bytes) # {}
  <2>1. PICK k \in DOMAIN snaps[f] : k \in RowOf(f, new.bytes)
    BY <1>3 DEF RowOf
  <2>2. t = [i \in DOMAIN snaps[f] |-> IF i \in RowOf(f, new.bytes) THEN new ELSE snaps[f][i]]
    BY <1>3 DEF Upserted
  <2> QED BY <2>1, <2>2 DEF RowOf
<1> QED BY <1>2, <1>3

\* At the start nothing was shown.
LEMMA InitShown == StoreInit => ShownInv
<1> SUFFICES ASSUME StoreInit PROVE ShownInv
  OBVIOUS
<1>1. \A f \in Path : snaps[f] = <<>> /\ last[f] = NoJob
  BY DEF StoreInit
<1> QED BY <1>1 DEF StoreInit, ShownInv, TimeInv, LastInv

\* What an upsert does, as far as the snapshots go.
UpsertStep(p, f, new) ==
  /\ f \in Path /\ new \in SnapRows
  /\ step[p] = "upsert" /\ f = job[p].path /\ new = [bytes |-> job[p].bytes, seen |-> stamp[p]]
  /\ snaps' = [snaps EXCEPT ![f] = Upserted(f, new)] /\ last' = [last EXCEPT ![f] = new]
  /\ step' = [step EXCEPT ![p] = "none"] /\ job' = [job EXCEPT ![p] = NoJob]
  /\ UNCHANGED <<clock, stamp>>

LEMMA UpsertSteps ==
  ASSUME StoreInv, NEW p \in Proc, Upsert(p)
  PROVE  \E f, new : UpsertStep(p, f, new)
<1>1. step[p] = "upsert" /\ job[p] \in Shows[p]
  BY DEF Upsert, StoreInv, CallInv, ShowSteps
<1>2. job[p].path \in Path /\ job[p].bytes \in rows /\ stamp[p] \in 0..MaxClock
  BY <1>1, JobAssumption DEF StoreInv, SnapInv
<1> QED BY <1>1, <1>2 DEF Upsert, UpsertStep, Leave, Goto, SnapRows

\* Every step keeps the times of the snapshots in order, when each path is shown
\* by one process.
LEMMA NextShown ==
  ASSUME DisjointShows, StoreInv, ShownInv, [StoreNext]_storeVars
  PROVE  ShownInv'
<1> USE DEF ShownInv
<1>0. /\ step \in [Proc -> {"none"} \cup RunSteps \cup ShowSteps] /\ DOMAIN job = Proc
      /\ \A p \in Proc : step[p] \in ShowSteps => job[p] \in Shows[p]
      /\ clock \in 0..MaxClock /\ stamp \in [Proc -> 0..MaxClock]
      /\ snaps \in [Path -> Seq(SnapRows)] /\ MaxClock \in Nat
  BY BoundAssumption DEF StoreInv, CallInv, SnapInv
<1>1. ASSUME UNCHANGED <<snaps, clock, stamp, last>>,
             \A p \in Proc : step'[p] = "upsert" => step[p] = "upsert" /\ job'[p] = job[p]
      PROVE  ShownInv'
  BY <1>1 DEF TimeInv, LastInv
<1>2. ASSUME NEW p \in Proc, Upsert(p) PROVE ShownInv'
  <2>1. PICK f, new : UpsertStep(p, f, new)
    BY <1>2, UpsertSteps
  <2> DEFINE t == snaps'[f]
  <2>2. /\ f \in Path /\ new \in SnapRows /\ new.seen = stamp[p] /\ t = Upserted(f, new)
        /\ \A g \in Path \ {f} : snaps'[g] = snaps[g] /\ last'[g] = last[g]
        /\ last'[f] = new /\ DOMAIN last' = Path
    BY <1>0, <2>1 DEF UpsertStep
  <2>3. /\ \E i \in DOMAIN t : t[i] = new
        /\ \A i \in DOMAIN t : t[i] = new \/ \E j \in DOMAIN snaps[f] : t[i] = snaps[f][j]
    <3>1. snaps[f] \in Seq(SnapRows)
      BY <1>0, <2>2
    <3> HIDE DEF t
    <3> QED BY <2>2, <3>1, UpsertKeeps
  <2>4. \A j \in DOMAIN snaps[f] : snaps[f][j].seen <= stamp[p]
    BY <2>1 DEF TimeInv, UpsertStep
  <2>5. stamp[p] \in Nat /\ \A i \in DOMAIN t : t[i].seen <= stamp[p]
    BY <1>0, <2>2, <2>3, <2>4
  <2>6. LastInv'
    BY <2>2, <2>3, <2>5 DEF LastInv
  <2>7. clock \in Nat /\ stamp[p] <= clock /\ \A i \in DOMAIN t : t[i].seen \in Nat
    <3>1. \A j \in DOMAIN snaps[f] : snaps[f][j].seen \in 0..MaxClock
      BY <2>2, SnapsAreRows DEF StoreInv
    <3> QED BY <1>0, <2>2, <2>3, <3>1 DEF TimeInv
  <2>8. \A g \in Path : \A i \in DOMAIN snaps'[g] : snaps'[g][i].seen <= clock
    BY <2>2, <2>5, <2>7 DEF TimeInv
  <2>9. \A q \in Proc \ {p} : step[q] = "upsert" => job[q].path \in Path /\ job[q].path # f
    <3>1. job[p] \in Shows[p] /\ job[p].path = f
      BY <1>0, <2>1 DEF UpsertStep, ShowSteps
    <3>2. \A q \in Proc : step[q] = "upsert" => job[q] \in Shows[q]
      BY <1>0 DEF ShowSteps
    <3> QED BY <3>1, <3>2, JobAssumption DEF DisjointShows
  <2>10. \A q \in Proc : step'[q] = "upsert" =>
           \A i \in DOMAIN snaps'[job'[q].path] : snaps'[job'[q].path][i].seen <= stamp'[q]
    <3>1. \A q \in Proc : step'[q] = "upsert" => q # p /\ step[q] = "upsert" /\ job'[q] = job[q]
      BY <1>0, <2>1 DEF UpsertStep
    <3> QED BY <2>1, <2>2, <2>9, <3>1 DEF TimeInv, UpsertStep
  <2>11. TimeInv'
    BY <2>1, <2>8, <2>10 DEF TimeInv, UpsertStep
  <2> QED BY <2>2, <2>6, <2>11
<1>3. ASSUME NEW p \in Proc, Stamp(p) PROVE ShownInv'
  <2>1. /\ step[p] = "stamp" /\ stamp' = [stamp EXCEPT ![p] = clock]
        /\ step' = [step EXCEPT ![p] = "upsert"]
        /\ UNCHANGED <<snaps, clock, job, last>>
    BY <1>3 DEF Stamp, Goto, tables, history
  <2>2. job[p].path \in Path
    BY <1>0, <2>1, JobAssumption DEF ShowSteps
  <2>3. \A q \in Proc : stamp'[q] = IF q = p THEN clock ELSE stamp[q]
    BY <1>0, <2>1
  <2>4. \A q \in Proc : step'[q] = "upsert" => q = p \/ step[q] = "upsert"
    BY <1>0, <2>1
  <2>5. TimeInv'
    <3>1. \A q \in Proc : stamp'[q] <= clock
      BY <1>0, <2>3 DEF TimeInv
    <3>2. ASSUME NEW q \in Proc, step'[q] = "upsert", NEW i \in DOMAIN snaps[job[q].path]
          PROVE  snaps[job[q].path][i].seen <= stamp'[q]
      <4>1. CASE q = p
        BY <2>2, <2>3, <4>1 DEF TimeInv
      <4>2. CASE q # p
        BY <2>3, <2>4, <3>2, <4>2 DEF TimeInv
      <4> QED BY <4>1, <4>2
    <3> QED BY <2>1, <3>1, <3>2 DEF TimeInv
  <2> QED BY <2>1, <2>5 DEF LastInv
<1>4. CASE Tick
  <2>1. clock' = clock + 1 /\ UNCHANGED <<snaps, stamp, step, job, last>>
    BY <1>4 DEF Tick, tables, locals, history
  <2>2. \A f \in Path : \A i \in DOMAIN snaps[f] : snaps[f][i].seen \in 0..MaxClock
    BY SnapsAreRows DEF StoreInv
  <2> QED BY <1>0, <2>1, <2>2 DEF TimeInv, LastInv
<1>5. ASSUME NEW p \in Proc,
             \/ \E e \in Captures[p] : BeginRun(p, e)
             \/ \E s \in Shows[p] : BeginShow(p, s)
             \/ CountRuns(p) \/ CountFails(p)
      PROVE  ShownInv'
  BY <1>0, <1>1, <1>5 DEF BeginRun, BeginShow, CountRuns, CountFails, Goto, tables, history
<1>6. ASSUME NEW p \in Proc, PutBlobFails(p) \/ InsertFails(p) \/ Kill(p) PROVE ShownInv'
  BY <1>0, <1>1, <1>6 DEF PutBlobFails, InsertFails, Kill, Leave, Goto, tables, history
<1>7. ASSUME NEW p \in Proc, PutFile(p) \/ PutFault(p) PROVE ShownInv'
  BY <1>1, <1>7 DEF PutFile, PutFault, tables, locals, history
<1>8. ASSUME NEW p \in Proc, RegisterBlob(p) \/ InsertRun(p) PROVE ShownInv'
  <2>1. /\ UNCHANGED <<snaps, clock, stamp, last>>
        /\ \A q \in Proc : step'[q] = "upsert" => step[q] = "upsert" /\ job'[q] = job[q]
    BY <1>0, <1>8 DEF RegisterBlob, InsertRun, Goto, Leave, AfterBlob, history
  <2> QED BY <1>1, <2>1
<1>9. CASE UNCHANGED storeVars
  BY <1>1, <1>9 DEF storeVars, tables, locals, history
<1> QED
  BY <1>2, <1>3, <1>4, <1>5, <1>6, <1>7, <1>8, <1>9 DEF StoreNext, Proceed

\* The snapshots' invariant, when each path is shown by one process.
LEMMA ShownInvariance ==
  ASSUME DisjointShows
  PROVE  StoreSpec => [](StoreInv /\ ShownInv)
<1>1. StoreInv /\ ShownInv /\ [StoreNext]_storeVars => ShownInv'
  BY NextShown
<1> QED BY <1>1, InitShown, StoreInvariance, PTL DEF StoreSpec

\* When each path is shown by one process, whatever else runs and fails: the
\* last show is recorded, last_seen_hash answers with a content of its second,
\* and with its content when no content first shown after it was shown in that
\* second too.
THEOREM LastSeenIsCurrent ==
  ASSUME DisjointShows
  PROVE  StoreSpec => []SeenIsCurrent
<1>1. ASSUME StoreInv, ShownInv, NEW f \in Path, last[f] # NoJob
      PROVE  /\ LastSeen(f)[2].seen = last[f].seen
             /\ \E i \in DOMAIN snaps[f] :
                  /\ snaps[f][i] = last[f]
                  /\ (\A j \in DOMAIN snaps[f] : j > i => snaps[f][j].seen < last[f].seen)
                       => LastSeen(f)[2] = last[f]
  <2>1. PICK k \in DOMAIN snaps[f] :
          snaps[f][k] = last[f] /\ \A j \in DOMAIN snaps[f] : snaps[f][j].seen <= last[f].seen
    BY <1>1 DEF ShownInv, LastInv
  <2>2. PICK n \in Nat : DOMAIN snaps[f] = 1..n
    BY <1>1 DEF StoreInv, SnapInv
  <2>3. \A j \in DOMAIN snaps[f] : snaps[f][j].seen \in Nat
    BY <1>1, SnapsAreRows, BoundAssumption DEF StoreInv
  <2> DEFINE T == {i \in DOMAIN snaps[f] : snaps[f][i].seen = last[f].seen}
  <2>4. PICK i \in T : \A j \in T : j <= i
    <3>1. T \in SUBSET Nat /\ T # {} /\ \A j \in T : j <= n
      BY <2>1, <2>2
    <3> QED BY <3>1, GreatestNat
  <2> DEFINE Rows == {<<j, snaps[f][j]>> : j \in DOMAIN snaps[f]}
             First(r) == \A j \in DOMAIN snaps[f] :
                           \/ snaps[f][j].seen < r[2].seen
                           \/ snaps[f][j].seen = r[2].seen /\ j <= r[1]
  <2>5. \E r \in Rows : First(r)
    <3>1. First(<<i, snaps[f][i]>>)
      BY <2>1, <2>2, <2>3, <2>4
    <3> QED BY <2>4, <3>1
  <2>6. LastSeen(f) \in Rows /\ First(LastSeen(f))
    BY <2>5 DEF LastSeen
  <2>7. PICK j \in DOMAIN snaps[f] : LastSeen(f) = <<j, snaps[f][j]>>
    BY <2>6
  <2>8. last[f].seen <= snaps[f][j].seen
    BY <2>1, <2>3, <2>6, <2>7
  <2>9. snaps[f][j].seen = last[f].seen /\ LastSeen(f)[2] = snaps[f][j]
    BY <2>1, <2>3, <2>7, <2>8
  <2>10. k <= j
    <3>1. snaps[f][k].seen < LastSeen(f)[2].seen \/ k <= LastSeen(f)[1]
      BY <2>6
    <3> QED BY <2>1, <2>3, <2>7, <2>9, <3>1
  <2>11. ASSUME \A h \in DOMAIN snaps[f] : h > k => snaps[f][h].seen < last[f].seen
         PROVE  LastSeen(f)[2] = last[f]
    <3>1. ~(j > k)
      BY <2>3, <2>9, <2>11
    <3>2. j = k
      BY <2>2, <2>10, <3>1
    <3> QED BY <2>1, <2>9, <3>2
  <2> QED BY <2>1, <2>9, <2>11
<1>2. StoreInv /\ ShownInv => SeenIsCurrent
  BY <1>1 DEF SeenIsCurrent
<1> QED BY <1>2, ShownInvariance, PTL

\* When each path is shown by one process, "history is retained across edits"
\* (store.rs:46), and no content's last time goes back.
THEOREM HistoryIsRetained ==
  ASSUME DisjointShows
  PROVE  StoreSpec => SnapshotsKept
<1> DEFINE Kept == \A f \in Path : \A i \in DOMAIN snaps[f] : \E j \in DOMAIN snaps'[f] :
                     /\ snaps'[f][j].bytes = snaps[f][i].bytes
                     /\ snaps'[f][j].seen >= snaps[f][i].seen
<1>1. ASSUME StoreInv, ShownInv, StoreNext PROVE Kept
  <2>0. \A f \in Path : \A i \in DOMAIN snaps[f] : snaps[f][i].seen \in Nat
    BY <1>1, SnapsAreRows, BoundAssumption DEF StoreInv
  <2>1. CASE snaps' = snaps
    BY <2>0, <2>1
  <2>2. ASSUME NEW p \in Proc, Upsert(p) PROVE Kept
    <3>1. PICK f, new : UpsertStep(p, f, new)
      BY <1>1, <2>2, UpsertSteps
    <3> DEFINE t == snaps'[f]
    <3>2. /\ f \in Path /\ new \in SnapRows /\ new.seen = stamp[p] /\ t = Upserted(f, new)
          /\ snaps[f] \in Seq(SnapRows)
          /\ \A g \in Path \ {f} : snaps'[g] = snaps[g]
      BY <1>1, <3>1 DEF UpsertStep, StoreInv, SnapInv
    <3>3. /\ DOMAIN snaps[f] \subseteq DOMAIN t
          /\ \A j \in DOMAIN snaps[f] :
               t[j] = snaps[f][j] \/ (t[j] = new /\ snaps[f][j].bytes = new.bytes)
      <4> HIDE DEF t
      <4> QED BY <3>2, UpsertKeeps
    <3>4. new.seen \in Nat /\ \A j \in DOMAIN snaps[f] : snaps[f][j].seen <= new.seen
      BY <1>1, <3>1, <3>2, BoundAssumption DEF ShownInv, TimeInv, UpsertStep, SnapRows
    <3>5. \A j \in DOMAIN snaps[f] : t[j].bytes = snaps[f][j].bytes /\ t[j].seen >= snaps[f][j].seen
      BY <2>0, <3>2, <3>3, <3>4
    <3>6. ASSUME NEW g \in Path, NEW i \in DOMAIN snaps[g]
          PROVE  \E j \in DOMAIN snaps'[g] : /\ snaps'[g][j].bytes = snaps[g][i].bytes
                                             /\ snaps'[g][j].seen >= snaps[g][i].seen
      <4>1. CASE g = f
        BY <3>3, <3>5, <4>1
      <4>2. CASE g # f
        BY <2>0, <3>2, <4>2
      <4> QED BY <4>1, <4>2
    <3> QED BY <3>6
  <2>3. snaps' = snaps \/ \E p \in Proc : Upsert(p)
    <3>1. ASSUME NEW p \in Proc,
                 \/ \E e \in Captures[p] : BeginRun(p, e)
                 \/ \E s \in Shows[p] : BeginShow(p, s)
                 \/ CountRuns(p) \/ CountFails(p) \/ InsertRun(p) \/ InsertFails(p)
                 \/ Stamp(p) \/ RegisterBlob(p)
          PROVE  snaps' = snaps
      BY <3>1 DEF BeginRun, BeginShow, CountRuns, CountFails, InsertRun, InsertFails,
                  Stamp, RegisterBlob, tables
    <3>2. ASSUME NEW p \in Proc, PutBlobFails(p) \/ Kill(p) \/ PutFile(p) \/ PutFault(p)
          PROVE  snaps' = snaps
      BY <3>2 DEF PutBlobFails, Kill, PutFile, PutFault, tables
    <3>3. CASE Tick
      BY <3>3 DEF Tick, tables
    <3> QED BY <1>1, <3>1, <3>2, <3>3 DEF StoreNext, Proceed
  <2> QED BY <2>1, <2>2, <2>3
<1>2. StoreInv /\ ShownInv /\ [StoreNext]_storeVars => [Kept]_storeVars
  BY <1>1
<1> QED BY <1>2, ShownInvariance, PTL DEF StoreSpec, SnapshotsKept
=============================================================================
