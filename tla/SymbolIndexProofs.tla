------------------------- MODULE SymbolIndexProofs --------------------------
(***************************************************************************)
(* Theorems about SymbolIndex, for any number of processes, files,         *)
(* contents and edits, with and without faults.                            *)
(*                                                                         *)
(* The argument: RowsAgree speaks of the committed database, but a pass    *)
(* commits what it has built up in its own view, one statement at a time.  *)
(* So it is inductive only together with what every view holds at every    *)
(* statement (TablesAgree): all files but the one in hand are in accord    *)
(* with their hashes, and of the one in hand it is known how far its       *)
(* replacement has come (Half).  A pass that commits has none in hand.     *)
(*                                                                         *)
(* PassFreshens is about a whole pass: what it commits is in accord with   *)
(* the files because its view is, file by file, with those the loop is     *)
(* through with (Behind), and because the view of a transaction that may   *)
(* still write is the committed database (Following).                      *)
(***************************************************************************)
EXTENDS SymbolIndex, TLAPS, FiniteSetTheorems

\* A table that holds of each file, those of S apart, the definitions of one
\* content, or nothing.
Agrees(r) == r = IF r.hash = Gone THEN NoRow ELSE Extracted(r.hash)
TableBut(t, S) == DOMAIN t = File /\ \A f \in File : t[f] \in Row /\ (f \notin S => Agrees(t[f]))
Table(t) == TableBut(t, {})

\* The phases in which the loop is at a file, and in which it has read it.
Looping == {"read", "compare", "delete", "upsert", "insert"}
HasRead == {"compare", "delete", "upsert", "insert"}

\* The file that a pass has begun to replace or to drop.
InHand(p) ==
  CASE pc[p] \in {"upsert", "insert"} -> {Current(p)}
    [] pc[p] = "forget"               -> {Head(known[p])}
    [] OTHER                          -> {}

\* How far its replacement has come.
Half(p) ==
  /\ pc[p] = "upsert" => view[p][Current(p)].defs = <<>>
  /\ pc[p] = "insert" =>
       /\ added[p] < Len(Defs[bytes[p]])
       /\ view[p][Current(p)] = [hash  |-> bytes[p],
                                 count |-> Len(Defs[bytes[p]]),
                                 defs  |-> SubSeq(Defs[bytes[p]], 1, added[p])]

ViewOf(p) == TableBut(view[p], InHand(p)) /\ Half(p)

TablesAgree == Table(db) /\ DOMAIN view = Proc /\ \A p \in Proc : ViewOf(p)

\* Where a pass is in its list, and what it has read.
Passes ==
  /\ disk \in [File -> Content \cup {Gone}]
  /\ pc \in [Proc -> Phase] /\ bytes \in [Proc -> Content \cup {Gone}]
  /\ added \in [Proc -> Nat] /\ DOMAIN known = Proc /\ DOMAIN list = Proc /\ DOMAIN todo = Proc
  /\ \A p \in Proc : list[p] \in Seq(File) /\ todo[p] \in 0..Len(list[p])
  /\ \A p \in Proc : pc[p] \in Looping => todo[p] < Len(list[p])
  /\ \A p \in Proc : pc[p] \in HasRead => bytes[p] \in Content
  /\ \A p \in Proc : pc[p] = "idle" => todo[p] = 0
  /\ \A p \in Proc : pc[p] # "insert" => added[p] = 0
  /\ \A p \in Proc : known[p] \in Seq(File) /\ (pc[p] \in {"drop", "forget"} => known[p] # <<>>)

\* Who holds the write lock: a transaction whose snapshot is current, and
\* whoever is between two writes.
Locks ==
  /\ writer \in Proc \cup {Gone}
  /\ open \in [Proc -> BOOLEAN] /\ stale \in [Proc -> BOOLEAN]
  /\ writer # Gone => open[writer] /\ ~stale[writer]
Holding == \A p \in Proc : pc[p] \in {"upsert", "insert", "forget"} => writer = p

History ==
  edits \in 0..MaxEdits /\ dirty \in [Proc -> SUBSET File] /\ skipped \in [Proc -> SUBSET File]

\* A pass that is through with its list has fixed its snapshot.
Opened == \A p \in Proc : pc[p] \in {"drop", "commit"} => open[p]

IInv == TablesAgree /\ Passes /\ Locks /\ Holding /\ History /\ Opened

-----------------------------------------------------------------------------
(* Tables.                                                                 *)

\* The definitions of a content are a list of definitions.
LEMMA DefsAreDefinitions ==
  ASSUME NEW c \in Content
  PROVE  Defs[c] \in Seq(Definition) /\ Len(Defs[c]) \in Nat
<1>1. Defs[c] \in Seq(Range(Defs[c])) /\ Range(Defs[c]) \subseteq Definition
  BY DefsAssumption DEF Definition
<1> QED
  BY <1>1

\* The first definitions of a content, and all of them.
LEMMA FirstDefs ==
  ASSUME NEW c \in Content, NEW k \in Nat, k < Len(Defs[c])
  PROVE  /\ SubSeq(Defs[c], 1, 0) = <<>>
         /\ SubSeq(Defs[c], 1, Len(Defs[c])) = Defs[c]
         /\ SubSeq(Defs[c], 1, k) \in Seq(Definition)
         /\ SubSeq(Defs[c], 1, k + 1) \in Seq(Definition)
         /\ Append(SubSeq(Defs[c], 1, k), Defs[c][k + 1]) = SubSeq(Defs[c], 1, k + 1)
BY DefsAreDefinitions

\* A file without a row is a row in accord.
LEMMA NoRowAgrees == NoRow \in Row /\ Agrees(NoRow)
BY DEF NoRow, Row, Agrees

\* What index_files writes of a file is in accord.
LEMMA ExtractedAgrees ==
  ASSUME NEW c \in Content
  PROVE  Extracted(c) \in Row /\ Agrees(Extracted(c)) /\ Extracted(c).hash = c
<1>1. Extracted(c).hash = c /\ c # Gone
  BY ContentAssumption DEF Extracted
<1> QED
  BY <1>1, DefsAreDefinitions DEF Extracted, Row, Agrees

\* The empty index is in accord.
LEMMA EmptyTable == Table([f \in File |-> NoRow])
BY NoRowAgrees DEF Table, TableBut

\* A table in accord is so whatever file is in hand.
LEMMA TableIsBut ==
  ASSUME NEW t, Table(t), NEW S
  PROVE  TableBut(t, S)
BY DEF Table, TableBut

\* A write to the file in hand leaves the others in accord.
Written(t, f, r, u) ==
  /\ DOMAIN u = DOMAIN t /\ u[f] = r
  /\ \A g \in File : g # f => u[g] = t[g]

LEMMA WrittenTable ==
  ASSUME NEW t, NEW u, NEW f \in File, NEW r \in Row, TableBut(t, {f}), Written(t, f, r, u)
  PROVE  /\ TableBut(u, {f}) /\ u[f] = r
         /\ Agrees(r) => Table(u)
BY DEF Table, TableBut, Written

\* What the statements write of a row.
LEMMA ClearedRow ==
  ASSUME NEW r \in Row
  PROVE  [r EXCEPT !.defs = <<>>] \in Row /\ [r EXCEPT !.defs = <<>>].defs = <<>>
<1>1. <<>> \in Seq(Definition)
  OBVIOUS
<1> QED
  BY <1>1 DEF Row

LEMMA InsertedRow ==
  ASSUME NEW r \in Row, NEW e
  PROVE  [r EXCEPT !.defs = e] = [hash |-> r.hash, count |-> r.count, defs |-> e]
<1>1. DOMAIN r = {"hash", "count", "defs"}
  BY DEF Row
<1> QED
  BY <1>1, Z3

\* What a transaction reads is in accord, when it has no file in hand.
LEMMA SnapshotTable ==
  ASSUME TablesAgree, NEW p \in Proc, InHand(p) = {}
  PROVE  Table(Snapshot(p))
BY DEF TablesAgree, Snapshot, ViewOf, Table

\* What a step of p leaves alone of every other process's pass.
Apart(p) ==
  \A q \in Proc \ {p} :
    /\ pc'[q] = pc[q] /\ list'[q] = list[q] /\ todo'[q] = todo[q] /\ bytes'[q] = bytes[q]
    /\ added'[q] = added[q] /\ known'[q] = known[q] /\ view'[q] = view[q]

\* Then it is p's own view that has to be looked at.
LEMMA TablesStep ==
  ASSUME TablesAgree, NEW p \in Proc, Apart(p), Table(db'), DOMAIN view' = Proc, ViewOf(p)'
  PROVE  TablesAgree'
<1> SUFFICES ASSUME NEW q \in Proc, q # p PROVE ViewOf(q)'
  BY DEF TablesAgree, Table, TableBut
<1>1. /\ pc'[q] = pc[q] /\ bytes'[q] = bytes[q] /\ added'[q] = added[q]
      /\ view'[q] = view[q] /\ Current(q)' = Current(q) /\ known'[q] = known[q]
  BY DEF Apart, Current
<1>2. InHand(q)' = InHand(q) /\ (Half(q) => Half(q)')
  BY <1>1 DEF InHand, Half
<1> QED
  BY <1>1, <1>2 DEF TablesAgree, ViewOf, TableBut

\* A pass without a file in hand.
LEMMA NothingInHand ==
  ASSUME NEW p \in Proc, pc[p] \notin {"upsert", "insert", "forget"}
  PROVE  InHand(p) = {} /\ Half(p)
BY DEF InHand, Half

\* It goes on without one, and its view is in accord.
LEMMA EmptyHand ==
  ASSUME NEW p \in Proc, pc'[p] \notin {"upsert", "insert", "forget"}, Table(view'[p])
  PROVE  ViewOf(p)'
BY DEF InHand, Half, ViewOf, Table, TableBut
-----------------------------------------------------------------------------

\* The invariant holds of an empty index.
LEMMA InitInv == Init => IInv
<1> SUFFICES ASSUME Init PROVE IInv
  OBVIOUS
<1>1. TablesAgree
  <2>1. \A p \in Proc : pc[p] = "idle" /\ Table(view[p])
    BY EmptyTable DEF Init
  <2> QED BY <2>1, EmptyTable, NothingInHand DEF Init, TablesAgree, ViewOf, Table
<1>2. Passes
  BY DEF Init, Passes, Phase, Looping, HasRead
<1>3. Locks /\ Holding /\ Opened
  BY DEF Init, Locks, Holding, Opened
<1>4. History
  BY FaultsAssumption DEF Init, History
<1> QED
  BY <1>1, <1>2, <1>3, <1>4 DEF IInv

\* A pass that begins.
LEMMA StepBegin ==
  ASSUME NEW p \in Proc, NEW l \in Seq(File)
  PROVE  IInv /\ Begin(p, l) => IInv'
<1> SUFFICES ASSUME IInv, Begin(p, l) PROVE IInv'
  OBVIOUS
<1>1. Locks' /\ Holding' /\ History' /\ Opened'
  BY DEF IInv, Begin, Locks, Holding, History, Opened, Passes, Goto, txn, past
<1>2. Passes'
  <2>1. Len(l) \in Nat /\ (l # <<>> => 0 < Len(l))
    OBVIOUS
  <2> QED BY <2>1 DEF IInv, Begin, Passes, Goto, Phase, Looping, HasRead
<1>3. TablesAgree'
  <2>1. Apart(p) /\ DOMAIN view' = Proc /\ Table(db')
    BY DEF IInv, Begin, Apart, Passes, Goto, TablesAgree, txn, Table
  <2>2. Table(view'[p]) /\ pc'[p] \notin {"upsert", "insert", "forget"}
    BY NothingInHand DEF IInv, Begin, Passes, Goto, TablesAgree, ViewOf, txn, Table
  <2> QED BY <2>1, <2>2, EmptyHand, TablesStep DEF IInv
<1> QED
  BY <1>1, <1>2, <1>3 DEF IInv

\* The files of a repository are finitely many.
LEMMA FilesAreFinite == IsFiniteSet(File)
<1>1. Files \in Seq(File)
  BY FilesAssumption DEF File
<1>2. Len(Files) \in Nat /\ IsFiniteSet(1..Len(Files))
  BY <1>1, FS_Interval
<1>3. Files \in Surjection(1..Len(Files), File)
  BY <1>1 DEF File, Range, Surjection
<1> QED BY <1>2, <1>3, FS_Surjection

\* A sorted list of files is a list of files, and of those files.
LEMMA SortedIsList ==
  ASSUME NEW S \in SUBSET File, NEW l \in Sorted(S)
  PROVE  l \in Seq(File) /\ Range(l) = S
<1>1. Cardinality(S) \in Nat
  BY FilesAreFinite, FS_Subset, FS_CardinalityType
<1> QED
  BY <1>1 DEF Sorted

\* The next file to drop, and those after it.
LEMMA NextToDrop ==
  ASSUME NEW s \in Seq(File), s # <<>>
  PROVE  /\ Head(s) \in Range(s) /\ Head(s) \in File /\ Tail(s) \in Seq(File)
         /\ Range(s) \subseteq {Head(s)} \cup Range(Tail(s))
         /\ Range(Tail(s)) \subseteq Range(s)
<1>1. Len(s) \in Nat \ {0} /\ Len(Tail(s)) = Len(s) - 1 /\ Tail(s) \in Seq(File)
  OBVIOUS
<1>2. \A i \in 1..Len(s) - 1 : Tail(s)[i] = s[i + 1]
  OBVIOUS
<1>3. Head(s) = s[1] /\ s[1] \in File
  BY <1>1
<1>6. DOMAIN s = 1..Len(s) /\ DOMAIN Tail(s) = 1..Len(s) - 1
  BY <1>1
<1>4. ASSUME NEW i \in 1..Len(s) PROVE s[i] \in {Head(s)} \cup Range(Tail(s))
  <2>1. CASE i = 1
    BY <1>3, <2>1
  <2>2. CASE i # 1
    <3>1. PICK j \in 1..Len(s) - 1 : j = i - 1
      BY <1>1, <2>2
    <3>2. Tail(s)[j] = s[i]
      BY <1>2, <3>1
    <3>3. Tail(s)[j] \in Range(Tail(s))
      BY <1>6 DEF Range
    <3> QED BY <3>2, <3>3
  <2> QED BY <2>1, <2>2
<1>5. ASSUME NEW i \in 1..Len(s) - 1 PROVE Tail(s)[i] \in Range(s)
  BY <1>1, <1>2, <1>5, <1>6 DEF Range
<1>7. Range(s) \subseteq {Head(s)} \cup Range(Tail(s)) /\ Range(Tail(s)) \subseteq Range(s)
  BY <1>4, <1>5, <1>6 DEF Range
<1>8. Head(s) \in Range(s)
  BY <1>1, <1>3, <1>6 DEF Range
<1> QED BY <1>1, <1>3, <1>7, <1>8

-----------------------------------------------------------------------------
(* The steps of a pass.                                                    *)

\* The file the loop is at is one of the list.
LEMMA CurrentIsFile ==
  ASSUME Passes, NEW p \in Proc, pc[p] \in Looping
  PROVE  Current(p) \in File
<1>1. list[p] \in Seq(File) /\ todo[p] \in 0..Len(list[p]) /\ todo[p] < Len(list[p])
  BY DEF Passes
<1> QED
  BY <1>1 DEF Current

\* Going on to the next file, or to the sweep.
LEMMA AdvanceKeeps ==
  ASSUME Passes, NEW p \in Proc, pc[p] \in Looping, Advance(p),
         UNCHANGED <<disk, list, bytes, known>>,
         added' \in [Proc -> Nat], added'[p] = 0, \A q \in Proc \ {p} : added'[q] = added[q]
  PROVE  Passes'
<1>1. /\ todo' = [todo EXCEPT ![p] = @ + 1]
      /\ pc' = [pc EXCEPT ![p] = IF todo[p] + 1 = Len(list[p]) THEN "sweep" ELSE "read"]
  BY DEF Advance, Goto
<1>2. /\ pc' \in [Proc -> Phase] /\ DOMAIN todo' = Proc
      /\ list[p] \in Seq(File) /\ todo[p] \in 0..Len(list[p]) /\ todo[p] < Len(list[p])
  BY <1>1 DEF Passes, Phase
<1>3. todo'[p] = todo[p] + 1 /\ \A q \in Proc \ {p} : todo'[q] = todo[q] /\ pc'[q] = pc[q]
  BY <1>1 DEF Passes
<1>4. pc'[p] = IF todo[p] + 1 = Len(list[p]) THEN "sweep" ELSE "read"
  BY <1>1 DEF Passes
<1>5. ASSUME NEW q \in Proc
      PROVE  todo'[q] \in 0..Len(list[q]) /\ (pc'[q] \in Looping => todo'[q] < Len(list[q]))
  <2>1. CASE q = p
    <3>1. Len(list[p]) \in Nat
      BY <1>2
    <3> QED BY <1>2, <1>3, <1>4, <2>1, <3>1 DEF Looping
  <2>2. CASE q # p
    BY <1>3, <2>2 DEF Passes
  <2> QED BY <2>1, <2>2
<1>7. \A q \in Proc : pc'[q] # "insert" => added'[q] = 0
  BY <1>3 DEF Passes
<1> QED
  BY <1>2, <1>3, <1>4, <1>5, <1>7 DEF Passes, HasRead

\* What going on leaves alone of the other passes.
LEMMA AdvanceApart ==
  ASSUME Passes, NEW p \in Proc, Advance(p), NEW q \in Proc \ {p}
  PROVE  pc'[q] = pc[q] /\ todo'[q] = todo[q] /\ pc'[p] \in {"sweep", "read"}
BY DEF Passes, Advance, Goto

\* fs::read keeps the invariant.
LEMMA StepReadFile == ASSUME NEW p \in Proc PROVE IInv /\ ReadFile(p) => IInv'
<1> SUFFICES ASSUME IInv, ReadFile(p) PROVE IInv'
  OBVIOUS
<1>1. Locks' /\ Holding' /\ History' /\ Opened'
  BY DEF IInv, ReadFile, Locks, Holding, History, Opened, Passes, Goto, txn, past
<1>2. Current(p) \in File
  BY CurrentIsFile DEF IInv, ReadFile, Looping
<1>3. disk[Current(p)] \in Content
  BY <1>2 DEF IInv, ReadFile, Passes
<1>4. Passes'
  BY <1>3 DEF IInv, ReadFile, Passes, Goto, Phase, Looping, HasRead
<1>5. TablesAgree'
  <2>1. Apart(p) /\ DOMAIN view' = Proc /\ Table(db')
    BY DEF IInv, ReadFile, Apart, Passes, Goto, TablesAgree, txn, Table
  <2>2. Table(view'[p]) /\ pc'[p] \notin {"upsert", "insert", "forget"}
    BY NothingInHand DEF IInv, ReadFile, Passes, Goto, TablesAgree, ViewOf, txn, Table
  <2> QED BY <2>1, <2>2, EmptyHand, TablesStep DEF IInv
<1> QED
  BY <1>1, <1>4, <1>5 DEF IInv

\* So does passing over a file that cannot be read.
LEMMA StepSkipFile == ASSUME NEW p \in Proc PROVE IInv /\ SkipFile(p) => IInv'
<1> SUFFICES ASSUME IInv, SkipFile(p) PROVE IInv'
  OBVIOUS
<1>1. Locks' /\ Holding' /\ Opened'
  BY DEF IInv, SkipFile, Locks, Holding, Opened, Passes, Advance, Goto, txn
<1>2. Current(p) \in File
  BY CurrentIsFile DEF IInv, SkipFile, Looping
<1>3. History'
  BY <1>2 DEF IInv, SkipFile, History
<1>4. Passes'
  <2>1. added \in [Proc -> Nat] /\ added[p] = 0
    BY DEF IInv, SkipFile, Passes
  <2> QED BY <2>1, AdvanceKeeps DEF IInv, SkipFile, Looping
<1>5. TablesAgree'
  <2>1. Apart(p) /\ DOMAIN view' = Proc /\ Table(db')
    BY AdvanceApart DEF IInv, SkipFile, Apart, TablesAgree, txn, Table
  <2>2. Table(view'[p]) /\ pc'[p] \notin {"upsert", "insert", "forget"}
    BY NothingInHand DEF IInv, SkipFile, Passes, Advance, Goto, TablesAgree, ViewOf, txn, Table
  <2> QED BY <2>1, <2>2, EmptyHand, TablesStep DEF IInv
<1> QED
  BY <1>1, <1>3, <1>4, <1>5 DEF IInv

\* A SELECT: p's view becomes its snapshot.
LEMMA SelectKeeps ==
  ASSUME TablesAgree, Locks, NEW p \in Proc, InHand(p) = {}, UNCHANGED <<db, writer>>,
         view' = [view EXCEPT ![p] = Snapshot(p)],
         open' = [open EXCEPT ![p] = TRUE],
         stale' = [stale EXCEPT ![p] = open[p] /\ stale[p]]
  PROVE  Locks' /\ Table(db') /\ DOMAIN view' = Proc /\ Table(view'[p])
<1>1. Table(db') /\ DOMAIN view' = Proc /\ Table(view'[p])
  BY SnapshotTable DEF TablesAgree, Table
<1>2. /\ open' \in [Proc -> BOOLEAN] /\ stale' \in [Proc -> BOOLEAN]
      /\ \A q \in Proc : open[q] => open'[q]
      /\ \A q \in Proc : ~stale[q] => ~stale'[q]
  BY ZenonT(30) DEF Locks
<1> QED
  BY <1>1, <1>2 DEF Locks

\* So does the SELECT of a file's hash.
LEMMA StepCompare == ASSUME NEW p \in Proc PROVE IInv /\ Compare(p) => IInv'
<1> SUFFICES ASSUME IInv, Compare(p) PROVE IInv'
  OBVIOUS
<1>1. Locks' /\ Table(db') /\ DOMAIN view' = Proc /\ Table(view'[p])
  BY SelectKeeps, NothingInHand DEF IInv, Compare
<1>2. History'
  BY DEF IInv, Compare, History, past
<1>3. Opened' /\ Holding'
  BY DEF IInv, Compare, Advance, Opened, Holding, Passes, Locks, Goto
<1>4. Passes' /\ Apart(p) /\ pc'[p] \notin {"upsert", "insert", "forget"}
  <2>1. CASE Advance(p)
    <3>1. added \in [Proc -> Nat] /\ added[p] = 0 /\ added' = added
      BY DEF IInv, Compare, Passes
    <3>2. Passes'
      BY <2>1, <3>1, AdvanceKeeps DEF IInv, Compare, Looping
    <3>3. Apart(p)
      BY <2>1, AdvanceApart DEF IInv, Compare, Apart, TablesAgree
    <3> QED BY <2>1, <3>2, <3>3 DEF Advance, Goto, IInv, Passes
  <2>2. CASE Goto(p, "delete") /\ UNCHANGED todo
    BY <2>2 DEF IInv, Compare, Passes, Goto, Phase, Looping, HasRead, Apart, TablesAgree
  <2> QED BY <2>1, <2>2 DEF Compare
<1> QED
  BY <1>1, <1>2, <1>3, <1>4, EmptyHand, TablesStep DEF IInv

\* So does the SELECT that fails.
LEMMA StepSelectFails == ASSUME NEW p \in Proc PROVE IInv /\ SelectFails(p) => IInv'
<1> SUFFICES ASSUME IInv, SelectFails(p) PROVE IInv'
  OBVIOUS
<1>1. Locks' /\ Holding' /\ History' /\ Opened'
  BY DEF IInv, SelectFails, Locks, Holding, History, Opened, Passes, Goto, txn, past
<1>2. Passes'
  BY DEF IInv, SelectFails, Passes, Goto, Phase, Looping, HasRead
<1>3. TablesAgree'
  <2>1. Apart(p) /\ DOMAIN view' = Proc /\ Table(db')
    BY DEF IInv, SelectFails, Apart, Passes, Goto, TablesAgree, txn, Table
  <2>2. Table(view'[p]) /\ pc'[p] \notin {"upsert", "insert", "forget"}
    BY NothingInHand DEF IInv, SelectFails, Passes, Goto, TablesAgree, ViewOf, txn, Table
  <2> QED BY <2>1, <2>2, EmptyHand, TablesStep DEF IInv
<1> QED
  BY <1>1, <1>2, <1>3 DEF IInv

\* Whoever may write has a current snapshot.
LEMMA WriterIsCurrent ==
  ASSUME Locks, NEW p \in Proc, MayWrite(p)
  PROVE  ~stale[p] /\ \A q \in Proc \ {p} : writer # q
BY ProcAssumption DEF MayWrite, Locks

\* The DELETE that a replacement begins with.
LEMMA StepDeleteSymbols == ASSUME NEW p \in Proc PROVE IInv /\ DeleteSymbols(p) => IInv'
<1> SUFFICES ASSUME IInv, DeleteSymbols(p) PROVE IInv'
  OBVIOUS
<1> DEFINE f == Current(p)
           t == Snapshot(p)
           r == [t[f] EXCEPT !.defs = <<>>]
<1>1. f \in File
  BY CurrentIsFile DEF IInv, DeleteSymbols, Looping
<1>2. Table(t)
  BY SnapshotTable, NothingInHand DEF IInv, DeleteSymbols
<1>3. TableBut(t, {f}) /\ t[f] \in Row
  BY <1>1, <1>2, TableIsBut DEF TableBut
<1>9. r \in Row /\ r.defs = <<>>
  BY <1>3, ClearedRow
<1>4. pc[p] = "delete" /\ view'[p] = [t EXCEPT ![f] = r] /\ DOMAIN view' = Proc
  BY DEF DeleteSymbols, IInv, TablesAgree
<1>5. Passes' /\ pc'[p] = "upsert" /\ f' = f
  BY DEF IInv, DeleteSymbols, Passes, Goto, Phase, Looping, HasRead, Current
<1>6. TablesAgree'
  <2>1. TableBut(view'[p], {f}) /\ view'[p][f] = r
    <3>1. Written(t, f, r, view'[p])
      BY <1>1, <1>3, <1>4 DEF Written, TableBut
    <3> QED BY <1>1, <1>3, <1>9, <3>1 DEF Written, Table, TableBut
  <2>2. view'[p][f].defs = <<>>
    BY <1>9, <2>1
  <2>3. ViewOf(p)'
    BY <1>5, <2>1, <2>2 DEF ViewOf, InHand, Half
  <2>4. Apart(p) /\ Table(db')
    BY DEF DeleteSymbols, IInv, TablesAgree, Table, Apart, Passes, Goto
  <2> QED BY <1>4, <2>3, <2>4, TablesStep DEF IInv
<1>7. Locks' /\ Holding' /\ Opened'
  <2>1. MayWrite(p) /\ ~stale[p] /\ \A q \in Proc \ {p} : writer # q
    BY WriterIsCurrent DEF IInv, DeleteSymbols
  <2> QED BY <2>1, ProcAssumption DEF IInv, DeleteSymbols, Locks, Holding, Opened, Goto, Passes
<1>8. History'
  BY DEF IInv, DeleteSymbols, History, past
<1> QED
  BY <1>5, <1>6, <1>7, <1>8 DEF IInv

\* The upsert of the file's row: all of the replacement, when there is nothing
\* to insert.
LEMMA StepUpsertFile == ASSUME NEW p \in Proc PROVE IInv /\ UpsertFile(p) => IInv'
<1> SUFFICES ASSUME IInv, UpsertFile(p) PROVE IInv'
  OBVIOUS
<1> DEFINE f == Current(p)
           c == bytes[p]
           t == view[p]
           r == [hash |-> c, count |-> Len(Defs[c]), defs |-> t[f].defs]
<1>1. f \in File /\ c \in Content /\ Defs[c] \in Seq(Definition) /\ Len(Defs[c]) \in Nat
  BY CurrentIsFile, DefsAreDefinitions DEF IInv, UpsertFile, Looping, HasRead, Passes
<1>2. pc[p] = "upsert" /\ TableBut(t, {f}) /\ t[f].defs = <<>>
  BY DEF IInv, UpsertFile, TablesAgree, ViewOf, InHand, Half
<1>3. r \in Row /\ r = [hash |-> c, count |-> Len(Defs[c]), defs |-> <<>>]
  <2>3. <<>> \in Seq(Definition)
    OBVIOUS
  <2>4. [hash |-> c, count |-> Len(Defs[c]), defs |-> <<>>] \in Row
    BY <1>1, <2>3 DEF Row
  <2> QED BY <1>2, <2>4
<1>12. view'[p] = [t EXCEPT ![f] = r] /\ DOMAIN view' = Proc
  BY DEF UpsertFile, IInv, TablesAgree
<1>4. DOMAIN view' = Proc /\ view'[p][f] = r /\ TableBut(view'[p], {f}) /\ (Agrees(r) => Table(view'[p]))
  <2>1. Written(t, f, r, view'[p])
    BY <1>1, <1>2, <1>12 DEF Written, TableBut
  <2> HIDE DEF f, t, r, c
  <2> QED BY <1>1, <1>2, <1>3, <1>12, <2>1 DEF Written, Table, TableBut
<1>5. Locks' /\ History'
  BY DEF IInv, UpsertFile, Locks, History, past
<1>6. writer = p /\ open[p] /\ added[p] = 0 /\ added \in [Proc -> Nat] /\ added' = added
  BY <1>2, ProcAssumption DEF IInv, Holding, Locks, Passes, UpsertFile
<1>7. Holding' /\ Opened'
  BY <1>6 DEF IInv, UpsertFile, Holding, Opened, Advance, Goto, Passes
<1>9. Table(db')
  BY DEF UpsertFile, IInv, TablesAgree
<1>10. CASE Defs[c] = <<>>
  <2>1. Advance(p)
    BY <1>10 DEF UpsertFile
  <2>2. Passes'
    BY <1>2, <1>6, <2>1, AdvanceKeeps DEF IInv, UpsertFile, Looping
  <2>3. Apart(p) /\ pc'[p] \in {"sweep", "read"}
    BY <2>1, AdvanceApart DEF UpsertFile, Apart, IInv, TablesAgree, Advance, Goto, Passes
  <2>4. Agrees(r)
    BY <1>1, <1>3, <1>10, ExtractedAgrees DEF Extracted
  <2>5. Table(view'[p])
    BY <1>4, <2>4
  <2> QED BY <1>4, <1>5, <1>7, <1>9, <2>2, <2>3, <2>5, EmptyHand, TablesStep DEF IInv
<1>11. CASE Defs[c] # <<>>
  <2>1. pc'[p] = "insert" /\ f' = f /\ bytes' = bytes
    BY <1>11 DEF UpsertFile, Goto, IInv, Passes, Current
  <2>2. Passes' /\ Apart(p)
    BY <1>2, <1>6, <1>11 DEF UpsertFile, Goto, IInv, Passes, Phase, Looping, HasRead, Apart, TablesAgree
  <2>3. Half(p)'
    BY <1>1, <1>3, <1>4, <1>6, <1>11, <2>1 DEF Half
  <2>4. ViewOf(p)'
    BY <1>4, <2>1, <2>3 DEF ViewOf, InHand
  <2> QED BY <1>4, <1>5, <1>7, <1>9, <2>2, <2>4, TablesStep DEF IInv
<1> QED
  BY <1>10, <1>11

\* An INSERT of a definition; the last one completes the replacement.
LEMMA StepInsertSymbol == ASSUME NEW p \in Proc PROVE IInv /\ InsertSymbol(p) => IInv'
<1> SUFFICES ASSUME IInv, InsertSymbol(p) PROVE IInv'
  OBVIOUS
<1> DEFINE f == Current(p)
           c == bytes[p]
           t == view[p]
           k == added[p]
           r == [hash |-> c, count |-> Len(Defs[c]), defs |-> SubSeq(Defs[c], 1, k + 1)]
<1>1. f \in File /\ c \in Content /\ Defs[c] \in Seq(Definition) /\ Len(Defs[c]) \in Nat /\ k \in Nat
  BY CurrentIsFile, DefsAreDefinitions DEF IInv, InsertSymbol, Looping, HasRead, Passes
<1>2. /\ pc[p] = "insert" /\ TableBut(t, {f}) /\ k < Len(Defs[c])
      /\ t[f] = [hash |-> c, count |-> Len(Defs[c]), defs |-> SubSeq(Defs[c], 1, k)]
  BY DEF IInv, InsertSymbol, TablesAgree, ViewOf, InHand, Half
<1>3. /\ SubSeq(Defs[c], 1, Len(Defs[c])) = Defs[c]
      /\ SubSeq(Defs[c], 1, k + 1) \in Seq(Definition)
      /\ Append(SubSeq(Defs[c], 1, k), Defs[c][k + 1]) = SubSeq(Defs[c], 1, k + 1)
  BY <1>1, <1>2, FirstDefs
<1>4. r \in Row
  BY <1>1, <1>3 DEF Row
<1>12. view'[p] = [t EXCEPT ![f] = r] /\ DOMAIN view' = Proc
  <2>1. view'[p] = [t EXCEPT ![f] = [t[f] EXCEPT !.defs = Append(t[f].defs, Defs[c][k + 1])]]
    BY DEF InsertSymbol, IInv, TablesAgree
  <2>3. t[f] \in Row /\ Append(t[f].defs, Defs[c][k + 1]) = SubSeq(Defs[c], 1, k + 1)
    BY <1>1, <1>2, <1>3 DEF TableBut
  <2>2. [t[f] EXCEPT !.defs = Append(t[f].defs, Defs[c][k + 1])] = r
    <3>1. t[f].hash = c /\ t[f].count = Len(Defs[c])
      BY <1>2
    <3> QED BY <2>3, <3>1, InsertedRow
  <2> QED BY <2>1, <2>2 DEF InsertSymbol, IInv, TablesAgree
<1>5. DOMAIN view' = Proc /\ view'[p][f] = r /\ TableBut(view'[p], {f}) /\ (Agrees(r) => Table(view'[p]))
  <2>1. Written(t, f, r, view'[p])
    BY <1>1, <1>2, <1>12 DEF Written, TableBut
  <2> HIDE DEF f, t, r, c, k
  <2> QED BY <1>1, <1>2, <1>4, <1>12, <2>1, WrittenTable
<1>6. Locks' /\ History'
  BY DEF IInv, InsertSymbol, Locks, History, past
<1>7. writer = p /\ open[p] /\ added \in [Proc -> Nat]
  BY <1>2, ProcAssumption DEF IInv, Holding, Locks, Passes
<1>9. Table(db')
  BY DEF InsertSymbol, IInv, TablesAgree
<1>10. CASE k + 1 < Len(Defs[c])
  <2>1. /\ added' = [added EXCEPT ![p] = k + 1] /\ added'[p] = k + 1 /\ pc' = pc /\ todo' = todo
        /\ f' = f /\ bytes' = bytes
    BY <1>7, <1>10 DEF InsertSymbol, Current
  <2>2. Passes' /\ Apart(p)
    BY <1>1, <1>2, <1>7, <2>1 DEF InsertSymbol, IInv, Passes, Apart, TablesAgree
  <2>3. Holding' /\ Opened'
    BY <2>1 DEF IInv, InsertSymbol, Holding, Opened
  <2>4. Half(p)'
    BY <1>2, <1>5, <1>10, <2>1 DEF Half
  <2>5. ViewOf(p)'
    BY <1>2, <1>5, <2>1, <2>4 DEF ViewOf, InHand
  <2> QED BY <1>5, <1>6, <1>9, <2>2, <2>3, <2>5, TablesStep DEF IInv
<1>11. CASE ~(k + 1 < Len(Defs[c]))
  <2>1. Advance(p) /\ added' = [added EXCEPT ![p] = 0]
    BY <1>11 DEF InsertSymbol
  <2>2. Passes'
    BY <1>2, <1>7, <2>1, AdvanceKeeps DEF IInv, InsertSymbol, Looping
  <2>3. Apart(p) /\ pc'[p] \in {"sweep", "read"}
    BY <1>7, <2>1, AdvanceApart DEF InsertSymbol, Apart, IInv, TablesAgree, Advance, Goto, Passes
  <2>4. Holding' /\ Opened'
    BY <1>7, <2>1, <2>3 DEF IInv, InsertSymbol, Holding, Opened, Advance, Goto, Passes
  <2>5. k + 1 = Len(Defs[c])
    BY <1>1, <1>2, <1>11
  <2>6. Agrees(r)
    BY <1>1, <1>3, <2>5, ExtractedAgrees DEF Extracted
  <2>7. Table(view'[p])
    BY <1>5, <2>6
  <2> QED BY <1>5, <1>6, <1>9, <2>2, <2>3, <2>4, <2>7, EmptyHand, TablesStep DEF IInv
<1> QED
  BY <1>10, <1>11

\* The SELECT of all files keeps the invariant.
LEMMA StepSweep == ASSUME NEW p \in Proc PROVE IInv /\ Sweep(p) => IInv'
<1> SUFFICES ASSUME IInv, Sweep(p) PROVE IInv'
  OBVIOUS
<1>1. Locks' /\ Table(db') /\ DOMAIN view' = Proc /\ Table(view'[p])
  BY SelectKeeps, NothingInHand DEF IInv, Sweep
<1>2. PICK read \in SUBSET Missing(p) :
        /\ \E l \in Sorted(read) : known' = [known EXCEPT ![p] = l]
        /\ skipped' = [skipped EXCEPT ![p] = @ \cup (Missing(p) \ read)]
        /\ Goto(p, IF read = {} THEN "commit" ELSE "drop")
  BY DEF Sweep
<1>3. PICK l \in Sorted(read) : known' = [known EXCEPT ![p] = l]
  BY <1>2
<1>4. read \in SUBSET File /\ l \in Seq(File) /\ Range(l) = read
  BY <1>3, SortedIsList DEF Missing
<1>5. l = <<>> => read = {}
  BY <1>4 DEF Range
<1>6. pc'[p] = IF read = {} THEN "commit" ELSE "drop"
  BY <1>2 DEF Goto, IInv, Passes
<1>7. Passes' /\ Apart(p)
  BY <1>2, <1>3, <1>4, <1>5, <1>6 DEF IInv, Sweep, Passes, Goto, Phase, Looping, HasRead, Apart, TablesAgree
<1>8. History'
  BY <1>2 DEF IInv, Sweep, History, Missing
<1>9. Opened' /\ Holding'
  BY <1>2 DEF IInv, Sweep, Opened, Holding, Passes, Locks, Goto
<1> QED
  BY <1>1, <1>6, <1>7, <1>8, <1>9, EmptyHand, TablesStep DEF IInv

\* So does the DELETE of a dropped file's symbols.
LEMMA StepDropSymbols == ASSUME NEW p \in Proc PROVE IInv /\ DropSymbols(p) => IInv'
<1> SUFFICES ASSUME IInv, DropSymbols(p) PROVE IInv'
  OBVIOUS
<1> DEFINE f == Head(known[p])
           t == view[p]
           r == [t[f] EXCEPT !.defs = <<>>]
<1>1. known[p] \in Seq(File) /\ known[p] # <<>> /\ f \in File
  BY NextToDrop DEF IInv, Passes, DropSymbols
<1>2. Table(t)
  BY NothingInHand DEF IInv, DropSymbols, TablesAgree, ViewOf, Table
<1>3. TableBut(t, {f}) /\ t[f] \in Row
  BY <1>1, <1>2, TableIsBut DEF TableBut
<1>9. r \in Row
  BY <1>3, ClearedRow
<1>4. view'[p] = [t EXCEPT ![f] = r] /\ DOMAIN view' = Proc
  BY DEF DropSymbols, IInv, TablesAgree
<1>5. Passes' /\ pc'[p] = "forget" /\ f' = f
  BY DEF IInv, DropSymbols, Passes, Goto, Phase, Looping, HasRead
<1>6. TablesAgree'
  <2>1. TableBut(view'[p], {f})
    <3>1. Written(t, f, r, view'[p])
      BY <1>1, <1>3, <1>4 DEF Written, TableBut
    <3> QED BY <1>1, <1>3, <1>9, <3>1 DEF Written, Table, TableBut
  <2>2. ViewOf(p)'
    BY <1>5, <2>1 DEF ViewOf, InHand, Half
  <2>3. Apart(p) /\ Table(db')
    BY DEF DropSymbols, IInv, TablesAgree, Table, Apart, Passes, Goto
  <2> QED BY <1>4, <2>2, <2>3, TablesStep DEF IInv
<1>7. Locks' /\ Holding' /\ Opened'
  <2>1. MayWrite(p) /\ ~stale[p] /\ (\A q \in Proc \ {p} : writer # q) /\ open[p]
    BY WriterIsCurrent DEF IInv, DropSymbols, Opened
  <2> QED BY <2>1, ProcAssumption DEF IInv, DropSymbols, Locks, Holding, Opened, Goto, Passes
<1>8. History'
  BY DEF IInv, DropSymbols, History, past
<1> QED
  BY <1>5, <1>6, <1>7, <1>8 DEF IInv

\* So does the DELETE of its row.
LEMMA StepDropFile == ASSUME NEW p \in Proc PROVE IInv /\ DropFile(p) => IInv'
<1> SUFFICES ASSUME IInv, DropFile(p) PROVE IInv'
  OBVIOUS
<1> DEFINE f == Head(known[p])
           t == view[p]
<1>1. known[p] \in Seq(File) /\ known[p] # <<>> /\ f \in File /\ Tail(known[p]) \in Seq(File)
  BY NextToDrop DEF IInv, Passes, DropFile
<1>2. TableBut(t, {f}) /\ pc[p] = "forget"
  BY DEF IInv, DropFile, TablesAgree, ViewOf, InHand
<1>3. Table([t EXCEPT ![f] = NoRow])
  BY <1>1, <1>2, NoRowAgrees DEF Table, TableBut
<1>4. view'[p] = [t EXCEPT ![f] = NoRow] /\ DOMAIN view' = Proc
  BY DEF DropFile, IInv, TablesAgree
<1>5. Passes' /\ pc'[p] \in {"commit", "drop"}
  BY <1>1 DEF IInv, DropFile, Passes, Goto, Phase, Looping, HasRead
<1>6. Apart(p) /\ Table(db')
  BY DEF DropFile, IInv, TablesAgree, Table, Apart, Passes, Goto
<1>7. Locks' /\ History'
  BY DEF IInv, DropFile, Locks, History, past
<1>8. Holding' /\ Opened'
  <2>1. open[p]
    BY <1>2, ProcAssumption DEF IInv, Holding, Locks
  <2> QED BY <1>5, <2>1 DEF IInv, DropFile, Holding, Opened, Goto, Passes
<1> QED
  BY <1>3, <1>4, <1>5, <1>6, <1>7, <1>8, EmptyHand, TablesStep DEF IInv

\* What a pass that ends leaves of itself.
LEMMA PassEnds ==
  ASSUME IInv, NEW p \in Proc, EndPass(p)
  PROVE  /\ Passes' /\ Apart(p) /\ Holding' /\ History' /\ Opened'
         /\ DOMAIN view' = Proc /\ Table(view'[p]) /\ pc'[p] = "idle"
<1>1. <<>> \in Seq(File) /\ Len(<<>>) = 0
  OBVIOUS
<1>2. Passes'
  BY <1>1 DEF IInv, EndPass, Passes, Goto, Phase, Looping, HasRead
<1>3. Apart(p) /\ DOMAIN view' = Proc /\ Table(view'[p]) /\ pc'[p] = "idle"
  BY EmptyTable DEF IInv, EndPass, Passes, Goto, Apart, TablesAgree
<1>4. Holding' /\ Opened'
  BY ProcAssumption DEF IInv, EndPass, Holding, Opened, Goto, Passes, Locks
<1>5. History'
  BY DEF IInv, EndPass, History
<1> QED BY <1>2, <1>3, <1>4, <1>5

\* A transaction that ends without a commit.
LEMMA RollbackKeeps ==
  ASSUME IInv, NEW p \in Proc, EndPass(p),
         stale' = [stale EXCEPT ![p] = FALSE], UNCHANGED db
  PROVE  IInv'
<1>1. Table(db')
  BY DEF IInv, TablesAgree
<1>2. Locks'
  <2>1. open' = [open EXCEPT ![p] = FALSE] /\ writer' = IF writer = p THEN Gone ELSE writer
    BY DEF EndPass
  <2> QED BY <2>1, ProcAssumption DEF IInv, Locks
<1> QED
  BY <1>1, <1>2, PassEnds, EmptyHand, TablesStep DEF IInv

\* So does a commit: nothing is in hand.
LEMMA StepCommit == ASSUME NEW p \in Proc PROVE IInv /\ Commit(p) => IInv'
<1> SUFFICES ASSUME IInv, Commit(p) PROVE IInv'
  OBVIOUS
<1>1. Table(db')
  BY NothingInHand DEF IInv, Commit, TablesAgree, ViewOf, Table
<1>2. Locks'
  <2>1. /\ open' = [open EXCEPT ![p] = FALSE]
        /\ writer' = IF writer = p THEN Gone ELSE writer
        /\ stale' = [q \in Proc |->
             IF q = p THEN FALSE ELSE stale[q] \/ (writer = p /\ open[q])]
    BY DEF Commit, EndPass
  <2>2. stale' \in [Proc -> BOOLEAN] /\ open' \in [Proc -> BOOLEAN]
    BY <2>1 DEF IInv, Locks
  <2>3. ASSUME writer' # Gone PROVE open'[writer'] /\ ~stale'[writer']
    <3>1. writer # p /\ writer' = writer /\ writer \in Proc /\ open[writer] /\ ~stale[writer]
      BY <2>1, <2>3 DEF IInv, Locks
    <3> QED BY <2>1, <3>1 DEF IInv, Locks
  <2> QED BY <2>1, <2>2, <2>3 DEF IInv, Locks
<1>3. EndPass(p)
  BY DEF Commit
<1> QED
  BY <1>1, <1>2, <1>3, PassEnds, EmptyHand, TablesStep DEF IInv

\* So does the editor.
LEMMA StepEdit == ASSUME NEW f \in File, NEW c \in Content \cup {Gone} PROVE IInv /\ Edit(f, c) => IInv'
<1> SUFFICES ASSUME IInv, Edit(f, c) PROVE IInv'
  OBVIOUS
<1>1. Locks' /\ Opened' /\ Holding'
  BY DEF IInv, Edit, Locks, Opened, Holding, txn
<1>2. TablesAgree'
  BY DEF IInv, Edit, TablesAgree, ViewOf, InHand, Half, Current, txn, Table, TableBut
<1>3. Passes'
  BY DEF IInv, Edit, Passes
<1>4. History'
  BY FaultsAssumption DEF IInv, Edit, History
<1> QED
  BY <1>1, <1>2, <1>3, <1>4 DEF IInv

\* So does every step.
LEMMA StepInv == IInv /\ [Next]_vars => IInv'
<1> SUFFICES ASSUME IInv, [Next]_vars PROVE IInv'
  OBVIOUS
<1>1. CASE UNCHANGED vars
  <2>1. TablesAgree' /\ Passes'
    BY <1>1 DEF IInv, vars, txn, past, TablesAgree, ViewOf, InHand, Half, Current, Passes, Table, TableBut
  <2>2. Locks' /\ Holding' /\ History' /\ Opened'
    BY <1>1 DEF IInv, vars, txn, past, Locks, Holding, History, Opened
  <2> QED BY <2>1, <2>2 DEF IInv
<1>2. ASSUME NEW p \in Proc, IndexAll(p) PROVE IInv'
  <2>1. PICK l \in Sorted({f \in File : disk[f] # Gone}) : Begin(p, l)
    BY <1>2 DEF IndexAll
  <2>2. l \in Seq(File)
    BY SortedIsList
  <2> QED BY <2>1, <2>2, StepBegin
<1>3. ASSUME NEW p \in Proc, IndexFiles(p) PROVE IInv'
  BY <1>3, ListsAssumption, StepBegin DEF IndexFiles
<1>4. ASSUME NEW p \in Proc, Busy(p) PROVE IInv'
  BY <1>4, RollbackKeeps DEF Busy
<1>5. ASSUME NEW p \in Proc, Abort(p) PROVE IInv'
  BY <1>5, RollbackKeeps DEF Abort
<1>6. ASSUME NEW p \in Proc, Pass(p) \/ SelectFails(p) PROVE IInv'
  BY <1>4, <1>6, StepReadFile, StepSkipFile, StepCompare, StepDeleteSymbols, StepUpsertFile,
     StepInsertSymbol, StepSweep, StepDropSymbols, StepDropFile, StepCommit, StepSelectFails DEF Pass
<1>7. CASE Next
  BY <1>2, <1>3, <1>5, <1>6, <1>7, StepEdit DEF Next
<1> QED
  BY <1>1, <1>7

\* The invariant holds in every reachable state.
LEMMA Invariance == Spec => []IInv
<1>1. Init => IInv
  BY InitInv
<1>2. IInv /\ [Next]_vars => IInv'
  BY StepInv
<1> QED
  BY <1>1, <1>2, PTL DEF Spec

-----------------------------------------------------------------------------

\* The type invariant: among the rest, the write lock is only ever held by a
\* transaction whose snapshot is the last committed database.
THEOREM TypeCorrect == Spec => []IndexTypeOK
<1>1. IInv => IndexTypeOK
  BY DEF IInv, TablesAgree, ViewOf, Table, TableBut, Passes, Locks, History, IndexTypeOK
<1> QED
  BY <1>1, Invariance, PTL

\* However passes interleave, fail or are killed, and at whichever statement, the
\* committed index holds of each file the definitions of one content, or nothing.
THEOREM CommittedRowsAgree == Spec => []RowsAgree
<1>1. IInv => RowsAgree
  BY DEF IInv, TablesAgree, Table, TableBut, Agrees, RowsAgree
<1> QED
  BY <1>1, Invariance, PTL

-----------------------------------------------------------------------------
(* Passes freshen.                                                           *)

\* What a transaction that may still write sees is the committed database.
Following(p) == open[p] /\ ~stale[p] /\ writer # p => view[p] = db

\* The pass's view is in accord with the files the loop is through with, save
\* those changed or not read, and after the sweep has no others.
Behind(p) ==
  \A i \in 1..todo[p] : list[p][i] \notin dirty[p] \cup skipped[p] =>
    open[p] /\ view[p][list[p][i]].hash = disk[list[p][i]]
AtFile(p) == pc[p] \in HasRead /\ Current(p) \notin dirty[p] => bytes[p] = disk[Current(p)]
Ended(p) == pc[p] \in {"sweep", "drop", "forget", "commit"} => todo[p] = Len(list[p])

\* What the sweep knows of is not listed, and whatever else is not listed it did
\* not get to know of, or it has no row.
Swept(p) ==
  pc[p] \in {"drop", "forget", "commit"} =>
    /\ \A f \in Range(known[p]) : f \notin Range(list[p])
    /\ \A f \in File : f \notin Range(list[p]) /\ f \notin skipped[p] /\ f \notin Range(known[p]) =>
         view[p][f].hash = Gone
    /\ pc[p] = "commit" => Range(known[p]) = {}

\* Nothing of a transaction outlasts its pass.
Shut(p) == pc[p] = "idle" => ~open[p]

Fresh(p) == Shut(p) /\ Following(p) /\ Behind(p) /\ AtFile(p) /\ Ended(p) /\ Swept(p)
FreshInv == \A p \in Proc : Fresh(p)

\* What the steps of another process leave alone.
LEMMA OthersFresh ==
  ASSUME NEW q \in Proc, Fresh(q), disk' = disk,
         pc'[q] = pc[q], list'[q] = list[q], todo'[q] = todo[q], bytes'[q] = bytes[q],
         known'[q] = known[q], view'[q] = view[q], open'[q] = open[q], dirty'[q] = dirty[q], skipped'[q] = skipped[q],
         open[q] /\ ~stale'[q] /\ writer' # q => ~stale[q] /\ writer # q /\ db' = db
  PROVE  Fresh(q)'
<1>1. Following(q)'
  BY DEF Fresh, Following
<1>2. Current(q)' = Current(q)
  BY DEF Current
<1>3. Shut(q)' /\ Behind(q)' /\ AtFile(q)' /\ Ended(q)' /\ Swept(q)'
  BY <1>2 DEF Fresh, Shut, Behind, AtFile, Ended, Swept
<1> QED BY <1>1, <1>3 DEF Fresh

\* A pass that begins or is over.
LEMMA NewPassFresh ==
  ASSUME NEW q \in Proc, todo'[q] = 0, ~open'[q],
         pc'[q] \in {"idle", "read", "sweep"}, pc'[q] = "sweep" => list'[q] = <<>>
  PROVE  Fresh(q)'
<1>1. 1..0 = {} /\ Len(<<>>) = 0
  OBVIOUS
<1> QED BY <1>1 DEF Fresh, Shut, Following, Behind, AtFile, Ended, Swept, HasRead

\* The loop goes on: the file it was at is in accord, or changed or not read.
LEMMA OneMore ==
  ASSUME Passes, NEW p \in Proc, Behind(p), pc[p] \in Looping, Advance(p),
         disk' = disk, list' = list,
         \A f \in File : f # Current(p) /\ f \notin dirty[p] \cup skipped[p] /\ open[p] =>
           open'[p] /\ view'[p][f].hash = view[p][f].hash,
         dirty[p] \subseteq dirty'[p], skipped[p] \subseteq skipped'[p],
         Current(p) \notin dirty'[p] \cup skipped'[p] =>
           open'[p] /\ view'[p][Current(p)].hash = disk[Current(p)]
  PROVE  Behind(p)' /\ AtFile(p)' /\ Ended(p)' /\ Swept(p)'
<1>1. /\ todo'[p] = todo[p] + 1
      /\ pc'[p] = IF todo[p] + 1 = Len(list[p]) THEN "sweep" ELSE "read"
  BY DEF Advance, Goto, Passes
<1>2. list[p] \in Seq(File) /\ todo[p] \in 0..Len(list[p]) /\ todo[p] < Len(list[p])
      /\ Len(list[p]) \in Nat
  BY DEF Passes
<1>3. AtFile(p)' /\ Ended(p)' /\ Swept(p)'
  BY <1>1 DEF AtFile, Ended, Swept, HasRead
<1>4. Behind(p)'
  <2> SUFFICES ASSUME NEW i \in 1..todo'[p], list[p][i] \notin dirty'[p] \cup skipped'[p]
               PROVE  open'[p] /\ view'[p][list[p][i]].hash = disk[list[p][i]]
    BY DEF Behind
  <2>1. CASE list[p][i] = Current(p)
    BY <2>1
  <2>2. CASE list[p][i] # Current(p)
    <3>1. i \in 1..todo[p]
      <4>1. i # todo[p] + 1
        BY <2>2 DEF Current
      <4> QED BY <1>1, <1>2, <4>1
    <3>2. list[p][i] \in File
      BY <1>2, <3>1
    <3>3. open[p] /\ view[p][list[p][i]].hash = disk[list[p][i]]
      BY <3>1 DEF Behind
    <3> QED BY <2>2, <3>2, <3>3
  <2> QED BY <2>1, <2>2
<1> QED BY <1>3, <1>4

\* No pass has begun.
LEMMA FreshInit == Init => FreshInv
<1> SUFFICES ASSUME Init, NEW p \in Proc PROVE Fresh(p)
  BY DEF FreshInv
<1>1. pc[p] = "idle" /\ todo[p] = 0 /\ ~open[p]
  BY DEF Init
<1>2. 1..0 = {}
  OBVIOUS
<1> QED BY <1>1, <1>2 DEF Fresh, Shut, Following, Behind, AtFile, Ended, Swept, HasRead

\* What a step of p leaves alone of every other process.
Others(p) ==
  /\ disk' = disk
  /\ \A q \in Proc \ {p} :
       /\ pc'[q] = pc[q] /\ list'[q] = list[q] /\ todo'[q] = todo[q] /\ bytes'[q] = bytes[q]
       /\ known'[q] = known[q] /\ view'[q] = view[q] /\ open'[q] = open[q] /\ dirty'[q] = dirty[q] /\ skipped'[q] = skipped[q]
       /\ open[q] /\ ~stale'[q] /\ writer' # q => ~stale[q] /\ writer # q /\ db' = db

\* A step of one process: it keeps its own pass fresh, and leaves the others.
LEMMA OneFresh ==
  ASSUME FreshInv, NEW p \in Proc, Others(p), Fresh(p)'
  PROVE  FreshInv'
BY OthersFresh DEF FreshInv, Others

\* A pass that begins is behind with everything.
LEMMA FreshBegin ==
  ASSUME IInv, FreshInv, NEW p \in Proc, NEW l \in Seq(File), Begin(p, l)
  PROVE  FreshInv'
<1>1. Others(p)
  BY DEF Begin, Others, Goto, IInv, Passes, txn, past
<1>2. Fresh(p)'
  <2>1. todo'[p] = 0 /\ ~open'[p]
    BY DEF IInv, Begin, Passes, FreshInv, Fresh, Shut, txn
  <2>2. pc'[p] = IF l = <<>> THEN "sweep" ELSE "read"
    BY DEF IInv, Begin, Passes, Goto
  <2>3. list'[p] = l
    BY DEF IInv, Begin, Passes
  <2> QED BY <2>1, <2>2, <2>3, NewPassFresh
<1> QED BY <1>1, <1>2, OneFresh

\* fs::read has the content there is.
LEMMA FreshRead ==
  ASSUME IInv, FreshInv, NEW p \in Proc, ReadFile(p)
  PROVE  FreshInv'
<1>1. Others(p)
  BY DEF ReadFile, Others, Goto, IInv, Passes, txn, past
<1>2. Fresh(p)
  BY DEF FreshInv
<1>3. pc'[p] = "compare" /\ bytes'[p] = disk[Current(p)] /\ Current(p)' = Current(p)
  BY DEF ReadFile, Goto, IInv, Passes, Current
<1>4. Shut(p)' /\ Following(p)' /\ Behind(p)' /\ AtFile(p)' /\ Ended(p)' /\ Swept(p)'
  BY <1>2, <1>3 DEF ReadFile, Fresh, Shut, Following, Behind, AtFile, Ended, Swept, HasRead, txn, past
<1> QED BY <1>1, <1>4, OneFresh DEF Fresh

\* A file that cannot be read is a file skipped.
LEMMA FreshSkip ==
  ASSUME IInv, FreshInv, NEW p \in Proc, SkipFile(p)
  PROVE  FreshInv'
<1>1. Others(p)
  BY DEF SkipFile, Others, Advance, Goto, IInv, Passes, History, txn
<1>2. Fresh(p)
  BY DEF FreshInv
<1>3. skipped'[p] = skipped[p] \cup {Current(p)} /\ dirty'[p] = dirty[p]
  BY DEF SkipFile, IInv, History
<1>4. Behind(p)' /\ AtFile(p)' /\ Ended(p)' /\ Swept(p)'
  BY <1>2, <1>3, OneMore DEF SkipFile, IInv, Fresh, Looping, txn
<1>5. Shut(p)' /\ Following(p)'
  BY <1>2 DEF SkipFile, Advance, Goto, IInv, Passes, Fresh, Shut, Following, txn
<1> QED BY <1>1, <1>4, <1>5, OneFresh DEF Fresh

\* What a SELECT leaves of the pass: its view is its snapshot, which follows the
\* committed database and has what it had.
LEMMA Selected ==
  ASSUME IInv, NEW p \in Proc, Fresh(p), UNCHANGED <<db, writer>>,
         view' = [view EXCEPT ![p] = Snapshot(p)],
         open' = [open EXCEPT ![p] = TRUE],
         stale' = [stale EXCEPT ![p] = open[p] /\ stale[p]]
  PROVE  /\ Following(p)' /\ open'[p] /\ view'[p] = Snapshot(p)
         /\ open[p] => view'[p] = view[p]
<1>1. open'[p] /\ view'[p] = Snapshot(p)
  BY DEF IInv, TablesAgree, Locks
<1>2. open[p] => view'[p] = view[p]
  BY <1>1 DEF Snapshot
<1>3. Following(p)'
  <2>1. CASE open[p]
    <3>1. ~stale'[p] => ~stale[p]
      BY <2>1, ZenonT(30) DEF IInv, Locks
    <3> QED BY <1>2, <2>1, <3>1 DEF Fresh, Following
  <2>2. CASE ~open[p]
    BY <1>1, <2>2 DEF Following, Snapshot
  <2> QED BY <2>1, <2>2
<1> QED BY <1>1, <1>2, <1>3

\* An equal hash means that the row is in accord.
LEMMA FreshCompare ==
  ASSUME IInv, FreshInv, NEW p \in Proc, Compare(p)
  PROVE  FreshInv'
<1>1. Others(p)
  <2>1. \A q \in Proc \ {p} : pc'[q] = pc[q] /\ todo'[q] = todo[q]
    BY DEF Compare, Advance, Goto, IInv, Passes
  <2>2. \A q \in Proc \ {p} : view'[q] = view[q] /\ open'[q] = open[q] /\ stale'[q] = stale[q]
    BY DEF Compare, IInv, TablesAgree, Locks
  <2> QED BY <2>1, <2>2 DEF Compare, Others, past
<1>2. Fresh(p)
  BY DEF FreshInv
<1>3. /\ Following(p)' /\ open'[p] /\ view'[p] = Snapshot(p)
      /\ open[p] => view'[p] = view[p]
  BY <1>2, Selected DEF Compare
<1>4. dirty' = dirty /\ skipped' = skipped /\ disk' = disk /\ list' = list /\ bytes' = bytes
  BY DEF Compare, past
<1>5. CASE Snapshot(p)[Current(p)].hash = bytes[p]
  <2>1. Advance(p) /\ pc[p] = "compare"
    BY <1>5 DEF Compare
  <2>2. Current(p) \notin dirty[p] => view'[p][Current(p)].hash = disk[Current(p)]
    BY <1>2, <1>3, <1>5, <2>1 DEF Fresh, AtFile, HasRead
  <2>3. Behind(p)' /\ AtFile(p)' /\ Ended(p)' /\ Swept(p)'
    BY <1>2, <1>3, <1>4, <2>1, <2>2, OneMore DEF IInv, Fresh, Looping
  <2>4. Shut(p)'
    BY <2>1 DEF Advance, Goto, IInv, Passes, Shut
  <2> QED BY <1>1, <1>3, <2>3, <2>4, OneFresh DEF Fresh
<1>6. CASE Snapshot(p)[Current(p)].hash # bytes[p]
  <2>1. pc'[p] = "delete" /\ pc[p] = "compare" /\ todo' = todo
    BY <1>6 DEF Compare, Goto, IInv, Passes
  <2>2. Current(p)' = Current(p)
    BY <1>4, <2>1 DEF Current
  <2>3. Behind(p)'
    BY <1>2, <1>3, <1>4, <2>1 DEF Fresh, Behind
  <2>4. AtFile(p)' /\ Ended(p)' /\ Swept(p)' /\ Shut(p)'
    BY <1>2, <1>4, <2>1, <2>2 DEF Fresh, AtFile, Ended, Swept, Shut, HasRead
  <2> QED BY <1>1, <1>3, <2>3, <2>4, OneFresh DEF Fresh
<1> QED BY <1>5, <1>6

\* A SELECT that fails leaves the view.
LEMMA FreshSelectFails ==
  ASSUME IInv, FreshInv, NEW p \in Proc, SelectFails(p)
  PROVE  FreshInv'
<1>1. Others(p)
  BY DEF SelectFails, Others, Goto, IInv, Passes, txn, past
<1>2. Fresh(p)
  BY DEF FreshInv
<1>3. pc'[p] = "delete" /\ pc[p] = "compare" /\ Current(p)' = Current(p)
  BY DEF SelectFails, Goto, IInv, Passes, Current
<1>4. Shut(p)' /\ Following(p)' /\ Behind(p)' /\ AtFile(p)' /\ Ended(p)' /\ Swept(p)'
  BY <1>2, <1>3 DEF SelectFails, Fresh, Shut, Following, Behind, AtFile, Ended, Swept, HasRead, txn, past
<1> QED BY <1>1, <1>4, OneFresh DEF Fresh

\* A replacement begins: no hash has changed yet.
LEMMA FreshDelete ==
  ASSUME IInv, FreshInv, NEW p \in Proc, DeleteSymbols(p)
  PROVE  FreshInv'
<1>1. Others(p)
  <2>1. \A q \in Proc \ {p} : pc'[q] = pc[q] /\ view'[q] = view[q] /\ open'[q] = open[q] /\ writer # q
    BY WriterIsCurrent DEF DeleteSymbols, Goto, IInv, Passes, TablesAgree, Locks
  <2> QED BY <2>1 DEF DeleteSymbols, Others, past
<1>2. Fresh(p)
  BY DEF FreshInv
<1>3. /\ pc[p] = "delete" /\ pc'[p] = "upsert" /\ open'[p] /\ writer' = p /\ Current(p)' = Current(p)
      /\ UNCHANGED <<disk, list, todo, bytes, dirty, skipped>>
      /\ view'[p] = [Snapshot(p) EXCEPT ![Current(p)].defs = <<>>]
  BY DEF DeleteSymbols, Goto, IInv, Passes, TablesAgree, Locks, Current, past
<1>4. Table(Snapshot(p)) /\ Current(p) \in File
  BY <1>3, SnapshotTable, NothingInHand, CurrentIsFile DEF IInv, Looping
<1>5. \A f \in File : view'[p][f].hash = Snapshot(p)[f].hash
  BY <1>3, <1>4 DEF Table, TableBut, Row
<1>6. Behind(p)'
  <2> SUFFICES ASSUME NEW i \in 1..todo[p], list[p][i] \notin dirty[p] \cup skipped[p]
               PROVE  open'[p] /\ view'[p][list[p][i]].hash = disk[list[p][i]]
    BY <1>3 DEF Behind
  <2>1. open[p] /\ view[p][list[p][i]].hash = disk[list[p][i]]
    BY <1>2 DEF Fresh, Behind
  <2>2. list[p][i] \in File
    BY DEF IInv, Passes
  <2> QED BY <1>3, <1>5, <2>1, <2>2 DEF Snapshot
<1>7. Shut(p)' /\ Following(p)' /\ AtFile(p)' /\ Ended(p)' /\ Swept(p)'
  BY <1>2, <1>3 DEF Fresh, Shut, Following, AtFile, Ended, Swept, HasRead
<1> QED BY <1>1, <1>6, <1>7, OneFresh DEF Fresh

\* The row of the file in hand is written from what was read of it.
LEMMA FreshUpsert ==
  ASSUME IInv, FreshInv, NEW p \in Proc, UpsertFile(p)
  PROVE  FreshInv'
<1>1. Others(p)
  <2>1. \A q \in Proc \ {p} : pc'[q] = pc[q] /\ todo'[q] = todo[q] /\ view'[q] = view[q]
    BY DEF UpsertFile, Advance, Goto, IInv, Passes, TablesAgree
  <2> QED BY <2>1 DEF UpsertFile, Others, past
<1>2. Fresh(p)
  BY DEF FreshInv
<1>3. /\ pc[p] = "upsert" /\ open[p] /\ writer = p
      /\ UNCHANGED <<disk, list, bytes, open, writer, dirty, skipped>>
  BY ProcAssumption DEF UpsertFile, IInv, Holding, Locks, past
<1>4. Current(p) \in File /\ DOMAIN view[p] = File
  BY <1>3, CurrentIsFile DEF IInv, Looping, TablesAgree, ViewOf, TableBut
<1>5. /\ view'[p][Current(p)].hash = bytes[p]
      /\ \A f \in File : f # Current(p) => view'[p][f].hash = view[p][f].hash
  <2>1. view'[p] = [view[p] EXCEPT ![Current(p)] =
                      [hash |-> bytes[p], count |-> Len(Defs[bytes[p]]), defs |-> view[p][Current(p)].defs]]
    BY DEF UpsertFile, IInv, TablesAgree
  <2> QED BY <1>4, <2>1
<1>6. Current(p) \notin dirty[p] => view'[p][Current(p)].hash = disk[Current(p)]
  BY <1>2, <1>3, <1>5 DEF Fresh, AtFile, HasRead
<1>7. CASE Defs[bytes[p]] = <<>>
  <2>1. Advance(p)
    BY <1>7 DEF UpsertFile
  <2>2. Behind(p)' /\ AtFile(p)' /\ Ended(p)' /\ Swept(p)'
    BY <1>2, <1>3, <1>5, <1>6, <2>1, OneMore DEF IInv, Fresh, Looping
  <2>3. Shut(p)' /\ Following(p)'
    BY <1>3, <2>1 DEF Advance, Goto, IInv, Passes, Shut, Following
  <2> QED BY <1>1, <2>2, <2>3, OneFresh DEF Fresh
<1>8. CASE Defs[bytes[p]] # <<>>
  <2>1. pc'[p] = "insert" /\ todo' = todo
    BY <1>8 DEF UpsertFile, Goto, IInv, Passes
  <2>2. Current(p)' = Current(p)
    BY <1>3, <2>1 DEF Current
  <2>3. Behind(p)'
    <3> SUFFICES ASSUME NEW i \in 1..todo[p], list[p][i] \notin dirty[p] \cup skipped[p]
                 PROVE  view'[p][list[p][i]].hash = disk[list[p][i]]
      BY <1>3, <2>1 DEF Behind
    <3>1. list[p][i] \in File /\ view[p][list[p][i]].hash = disk[list[p][i]]
      BY <1>2 DEF IInv, Passes, Fresh, Behind
    <3> QED BY <1>5, <1>6, <3>1
  <2>4. Shut(p)' /\ Following(p)' /\ AtFile(p)' /\ Ended(p)' /\ Swept(p)'
    BY <1>2, <1>3, <2>1, <2>2 DEF Fresh, Shut, Following, AtFile, Ended, Swept, HasRead
  <2> QED BY <1>1, <2>3, <2>4, OneFresh DEF Fresh
<1> QED BY <1>7, <1>8

\* An INSERT of a definition changes no hash; with the last one the loop goes on.
LEMMA FreshInsert ==
  ASSUME IInv, FreshInv, NEW p \in Proc, InsertSymbol(p)
  PROVE  FreshInv'
<1>1. Others(p)
  <2>1. \A q \in Proc \ {p} : pc'[q] = pc[q] /\ todo'[q] = todo[q] /\ view'[q] = view[q]
    BY DEF InsertSymbol, Advance, Goto, IInv, Passes, TablesAgree
  <2> QED BY <2>1 DEF InsertSymbol, Others, past
<1>2. Fresh(p)
  BY DEF FreshInv
<1>3. /\ pc[p] = "insert" /\ open[p] /\ writer = p
      /\ UNCHANGED <<disk, list, bytes, open, writer, dirty, skipped>>
  BY ProcAssumption DEF InsertSymbol, IInv, Holding, Locks, past
<1>4. Current(p) \in File /\ TableBut(view[p], {Current(p)}) /\ view[p][Current(p)].hash = bytes[p]
  <2>1. Current(p) \in File
    BY <1>3, CurrentIsFile DEF IInv, Looping
  <2>2. TableBut(view[p], {Current(p)})
    BY <1>3 DEF IInv, TablesAgree, ViewOf, InHand
  <2>3. Half(p)
    BY DEF IInv, TablesAgree, ViewOf
  <2> QED BY <1>3, <2>1, <2>2, <2>3 DEF Half
<1>5. \A f \in File : view'[p][f].hash = view[p][f].hash
  <2>1. view'[p] = [view[p] EXCEPT ![Current(p)].defs =
                      Append(view[p][Current(p)].defs, Defs[bytes[p]][added[p] + 1])]
    BY DEF InsertSymbol, IInv, TablesAgree
  <2> QED BY <1>4, <2>1 DEF TableBut, Row
<1>6. Current(p) \notin dirty[p] => view'[p][Current(p)].hash = disk[Current(p)]
  BY <1>2, <1>3, <1>4, <1>5 DEF Fresh, AtFile, HasRead
<1>7. CASE Advance(p)
  <2>1. Behind(p)' /\ AtFile(p)' /\ Ended(p)' /\ Swept(p)'
    BY <1>2, <1>3, <1>5, <1>6, <1>7, OneMore DEF IInv, Fresh, Looping
  <2>2. Shut(p)' /\ Following(p)'
    BY <1>3, <1>7 DEF Advance, Goto, IInv, Passes, Shut, Following
  <2> QED BY <1>1, <2>1, <2>2, OneFresh DEF Fresh
<1>8. CASE UNCHANGED <<pc, todo>>
  <2>1. Current(p)' = Current(p)
    BY <1>3, <1>8 DEF Current
  <2>2. Behind(p)'
    <3> SUFFICES ASSUME NEW i \in 1..todo[p], list[p][i] \notin dirty[p] \cup skipped[p]
                 PROVE  view'[p][list[p][i]].hash = disk[list[p][i]]
      BY <1>3, <1>8 DEF Behind
    <3>1. list[p][i] \in File /\ view[p][list[p][i]].hash = disk[list[p][i]]
      BY <1>2 DEF IInv, Passes, Fresh, Behind
    <3> QED BY <1>5, <3>1
  <2>3. Shut(p)' /\ Following(p)' /\ AtFile(p)' /\ Ended(p)' /\ Swept(p)'
    BY <1>2, <1>3, <1>8, <2>1 DEF Fresh, Shut, Following, AtFile, Ended, Swept, HasRead
  <2> QED BY <1>1, <2>2, <2>3, OneFresh DEF Fresh
<1> QED BY <1>7, <1>8 DEF InsertSymbol

\* The SELECT of all files leaves the view, or takes the snapshot, and knows of
\* every row that is not listed but those it could not read.
LEMMA FreshSweep ==
  ASSUME IInv, FreshInv, NEW p \in Proc, Sweep(p)
  PROVE  FreshInv'
<1>1. PICK read \in SUBSET Missing(p) :
        /\ \E l \in Sorted(read) : known' = [known EXCEPT ![p] = l]
        /\ skipped' = [skipped EXCEPT ![p] = @ \cup (Missing(p) \ read)]
        /\ Goto(p, IF read = {} THEN "commit" ELSE "drop")
  BY DEF Sweep
<1>2. PICK l \in Sorted(read) : known' = [known EXCEPT ![p] = l]
  BY <1>1
<1>3. Others(p)
  <2>1. \A q \in Proc \ {p} : pc'[q] = pc[q] /\ known'[q] = known[q] /\ skipped'[q] = skipped[q]
    BY <1>1, <1>2 DEF Goto, IInv, Passes, History
  <2>2. \A q \in Proc \ {p} : view'[q] = view[q] /\ open'[q] = open[q] /\ stale'[q] = stale[q]
    BY DEF Sweep, IInv, TablesAgree, Locks
  <2> QED BY <2>1, <2>2 DEF Sweep, Others
<1>4. Fresh(p)
  BY DEF FreshInv
<1>5. /\ Following(p)' /\ open'[p] /\ view'[p] = Snapshot(p)
      /\ open[p] => view'[p] = view[p]
  BY <1>4, Selected DEF Sweep
<1>6. /\ known'[p] = l /\ skipped'[p] = skipped[p] \cup (Missing(p) \ read)
      /\ pc[p] = "sweep" /\ pc'[p] = IF read = {} THEN "commit" ELSE "drop"
      /\ UNCHANGED <<disk, list, todo, dirty>>
  BY <1>1, <1>2 DEF Sweep, Goto, IInv, Passes, History
<1>7. Range(l) = read
  BY <1>2, SortedIsList DEF Missing
<1>8. Behind(p)'
  BY <1>4, <1>5, <1>6 DEF Fresh, Behind
<1>9. Swept(p)'
  BY <1>5, <1>6, <1>7 DEF Swept, Missing
<1>10. AtFile(p)' /\ Ended(p)' /\ Shut(p)'
  BY <1>4, <1>6 DEF Fresh, AtFile, Ended, Shut, HasRead
<1> QED BY <1>3, <1>5, <1>8, <1>9, <1>10, OneFresh DEF Fresh

\* A drop begins: no hash has changed yet.
LEMMA FreshDropSymbols ==
  ASSUME IInv, FreshInv, NEW p \in Proc, DropSymbols(p)
  PROVE  FreshInv'
<1>1. Others(p)
  <2>1. \A q \in Proc \ {p} : pc'[q] = pc[q] /\ view'[q] = view[q] /\ writer # q
    BY WriterIsCurrent DEF DropSymbols, Goto, IInv, Passes, TablesAgree
  <2> QED BY <2>1 DEF DropSymbols, Others, past
<1>2. Fresh(p)
  BY DEF FreshInv
<1>3. /\ pc[p] = "drop" /\ pc'[p] = "forget" /\ open[p] /\ writer' = p
      /\ UNCHANGED <<disk, list, todo, known, open, dirty, skipped>>
      /\ view'[p] = [view[p] EXCEPT ![Head(known[p])].defs = <<>>]
  BY DEF DropSymbols, Goto, IInv, Passes, TablesAgree, Opened, past
<1>4. Table(view[p])
  BY <1>3, NothingInHand DEF IInv, TablesAgree, ViewOf, Table
<1>5. \A f \in File : view'[p][f].hash = view[p][f].hash
  BY <1>3, <1>4 DEF Table, TableBut, Row
<1>6. Behind(p)'
  <2> SUFFICES ASSUME NEW i \in 1..todo[p], list[p][i] \notin dirty[p] \cup skipped[p]
               PROVE  view'[p][list[p][i]].hash = disk[list[p][i]]
    BY <1>3 DEF Behind
  <2>1. list[p][i] \in File /\ view[p][list[p][i]].hash = disk[list[p][i]]
    BY <1>2 DEF IInv, Passes, Fresh, Behind
  <2> QED BY <1>5, <2>1
<1>7. Shut(p)' /\ Following(p)' /\ AtFile(p)' /\ Ended(p)' /\ Swept(p)'
  BY <1>2, <1>3, <1>5 DEF Fresh, Shut, Following, AtFile, Ended, Swept, HasRead
<1> QED BY <1>1, <1>6, <1>7, OneFresh DEF Fresh

\* A row is dropped; it is not one of a listed file.
LEMMA FreshDropFile ==
  ASSUME IInv, FreshInv, NEW p \in Proc, DropFile(p)
  PROVE  FreshInv'
<1>1. Others(p)
  <2>1. \A q \in Proc \ {p} : pc'[q] = pc[q] /\ view'[q] = view[q] /\ known'[q] = known[q]
    BY DEF DropFile, Goto, IInv, Passes, TablesAgree
  <2> QED BY <2>1 DEF DropFile, Others, past
<1>2. Fresh(p)
  BY DEF FreshInv
<1>3. /\ pc[p] = "forget" /\ open[p] /\ writer = p
      /\ pc'[p] = IF Tail(known[p]) = <<>> THEN "commit" ELSE "drop"
      /\ UNCHANGED <<disk, list, todo, open, writer, dirty, skipped>>
      /\ known'[p] = Tail(known[p])
      /\ view'[p] = [view[p] EXCEPT ![Head(known[p])] = NoRow]
  BY ProcAssumption DEF DropFile, Goto, IInv, Passes, TablesAgree, Holding, Locks, past
<1>4. /\ Head(known[p]) \in Range(known[p]) /\ Head(known[p]) \in File
      /\ Range(known[p]) \subseteq {Head(known[p])} \cup Range(Tail(known[p]))
      /\ Range(Tail(known[p])) \subseteq Range(known[p])
  BY <1>3, NextToDrop DEF IInv, Passes
<1>5. DOMAIN view[p] = File
  BY DEF IInv, TablesAgree, ViewOf, TableBut
<1>6. /\ view'[p][Head(known[p])].hash = Gone
      /\ \A f \in File : f # Head(known[p]) => view'[p][f] = view[p][f]
  BY <1>3, <1>4, <1>5 DEF NoRow
<1>7. Behind(p)'
  <2> SUFFICES ASSUME NEW i \in 1..todo[p], list[p][i] \notin dirty[p] \cup skipped[p]
               PROVE  view'[p][list[p][i]].hash = disk[list[p][i]]
    BY <1>3 DEF Behind
  <2>1. list[p][i] \in File /\ view[p][list[p][i]].hash = disk[list[p][i]]
    BY <1>2 DEF IInv, Passes, Fresh, Behind
  <2>2. list[p][i] \in Range(list[p])
    BY DEF IInv, Passes, Range
  <2>3. list[p][i] # Head(known[p])
    BY <1>2, <1>3, <1>4, <2>2 DEF Fresh, Swept
  <2> QED BY <1>6, <2>1, <2>3
<1>8. Swept(p)'
  <2>1. \A f \in Range(Tail(known[p])) : f \notin Range(list[p])
    BY <1>2, <1>3, <1>4 DEF Fresh, Swept
  <2>2. ASSUME NEW f \in File, f \notin Range(list[p]), f \notin skipped[p], f \notin Range(Tail(known[p]))
        PROVE  view'[p][f].hash = Gone
    BY <1>2, <1>3, <1>4, <1>6, <2>2 DEF Fresh, Swept
  <2>3. Range(<<>>) = {}
    BY DEF Range
  <2> QED BY <1>3, <2>1, <2>2, <2>3 DEF Swept
<1>9. Shut(p)' /\ Following(p)' /\ AtFile(p)' /\ Ended(p)'
  BY <1>2, <1>3 DEF Fresh, Shut, Following, AtFile, Ended, HasRead
<1> QED BY <1>1, <1>7, <1>8, <1>9, OneFresh DEF Fresh

\* A pass that is rolled back is over, and the others do not notice.
LEMMA FreshRollback ==
  ASSUME IInv, FreshInv, NEW p \in Proc, EndPass(p),
         stale' = [stale EXCEPT ![p] = FALSE], UNCHANGED db
  PROVE  FreshInv'
<1>1. Others(p)
  <2>1. \A q \in Proc \ {p} :
          /\ pc'[q] = pc[q] /\ list'[q] = list[q] /\ todo'[q] = todo[q] /\ bytes'[q] = bytes[q]
          /\ known'[q] = known[q] /\ view'[q] = view[q] /\ dirty'[q] = dirty[q] /\ skipped'[q] = skipped[q]
    BY DEF EndPass, Goto, IInv, Passes, TablesAgree, History
  <2>2. \A q \in Proc \ {p} : open'[q] = open[q] /\ stale'[q] = stale[q] /\ (writer' # q => writer # q)
    BY DEF EndPass, IInv, Locks
  <2> QED BY <2>1, <2>2 DEF EndPass, Others
<1>2. todo'[p] = 0 /\ ~open'[p] /\ pc'[p] = "idle"
  BY DEF EndPass, Goto, IInv, Passes, Locks
<1> QED BY <1>1, <1>2, NewPassFresh, OneFresh

\* So is one that commits; an open transaction of another process is stale by it.
LEMMA FreshCommit ==
  ASSUME IInv, FreshInv, NEW p \in Proc, Commit(p)
  PROVE  FreshInv'
<1>1. Others(p)
  <2>1. \A q \in Proc \ {p} :
          /\ pc'[q] = pc[q] /\ list'[q] = list[q] /\ todo'[q] = todo[q] /\ bytes'[q] = bytes[q]
          /\ known'[q] = known[q] /\ view'[q] = view[q] /\ dirty'[q] = dirty[q] /\ skipped'[q] = skipped[q]
    BY DEF Commit, EndPass, Goto, IInv, Passes, TablesAgree, History
  <2>2. \A q \in Proc \ {p} : open'[q] = open[q] /\ (writer' # q => writer # q)
    BY DEF Commit, EndPass, IInv, Locks
  <2>3. \A q \in Proc \ {p} : open[q] /\ ~stale'[q] => ~stale[q] /\ db' = db
    BY DEF Commit
  <2> QED BY <2>1, <2>2, <2>3 DEF Commit, EndPass, Others
<1>2. todo'[p] = 0 /\ ~open'[p] /\ pc'[p] = "idle"
  BY DEF Commit, EndPass, Goto, IInv, Passes, Locks
<1> QED BY <1>1, <1>2, NewPassFresh, OneFresh

\* A file that the editor changes is dirty for every pass there is.
LEMMA FreshEdit ==
  ASSUME IInv, FreshInv, NEW f \in File, NEW c \in Content \cup {Gone}, Edit(f, c)
  PROVE  FreshInv'
<1> SUFFICES ASSUME NEW p \in Proc PROVE Fresh(p)'
  BY DEF FreshInv
<1>1. /\ UNCHANGED <<db, writer, pc, list, todo, bytes, known, view, open, stale, skipped>>
      /\ dirty'[p] = IF pc[p] = "idle" THEN {} ELSE dirty[p] \cup {f}
      /\ \A g : g # f => disk'[g] = disk[g]
  BY DEF Edit, txn, IInv, Passes
<1>2. Fresh(p)
  BY DEF FreshInv
<1>3. CASE pc[p] = "idle"
  <2>1. todo'[p] = 0 /\ ~open'[p] /\ pc'[p] = "idle"
    BY <1>1, <1>2, <1>3 DEF IInv, Passes, Fresh, Shut
  <2> QED BY <2>1, NewPassFresh
<1>4. CASE pc[p] # "idle"
  <2>1. dirty'[p] = dirty[p] \cup {f} /\ Current(p)' = Current(p)
    BY <1>1, <1>4 DEF Current
  <2>2. Behind(p)'
    BY <1>1, <1>2, <2>1 DEF Fresh, Behind
  <2>3. AtFile(p)'
    BY <1>1, <1>2, <2>1 DEF Fresh, AtFile
  <2>4. Shut(p)' /\ Following(p)' /\ Ended(p)' /\ Swept(p)'
    BY <1>1, <1>2 DEF Fresh, Shut, Following, Ended, Swept
  <2> QED BY <2>2, <2>3, <2>4 DEF Fresh
<1> QED BY <1>3, <1>4

\* So every step keeps all passes fresh.
LEMMA FreshStep == IInv /\ FreshInv /\ [Next]_vars => FreshInv'
<1> SUFFICES ASSUME IInv, FreshInv, [Next]_vars PROVE FreshInv'
  OBVIOUS
<1>1. CASE UNCHANGED vars
  BY <1>1 DEF vars, txn, past, FreshInv, Fresh, Shut, Following, Behind, AtFile, Ended, Swept, Current
<1>2. ASSUME NEW p \in Proc, IndexAll(p) PROVE FreshInv'
  <2>1. PICK l \in Sorted({f \in File : disk[f] # Gone}) : Begin(p, l)
    BY <1>2 DEF IndexAll
  <2>2. l \in Seq(File)
    BY SortedIsList
  <2> QED BY <2>1, <2>2, FreshBegin
<1>3. ASSUME NEW p \in Proc, IndexFiles(p) PROVE FreshInv'
  BY <1>3, ListsAssumption, FreshBegin DEF IndexFiles
<1>4. ASSUME NEW p \in Proc, Busy(p) PROVE FreshInv'
  BY <1>4, FreshRollback DEF Busy
<1>5. ASSUME NEW p \in Proc, Abort(p) PROVE FreshInv'
  BY <1>5, FreshRollback DEF Abort
<1>6. ASSUME NEW p \in Proc, Pass(p) \/ SelectFails(p) PROVE FreshInv'
  BY <1>4, <1>6, FreshRead, FreshSkip, FreshCompare, FreshDelete, FreshUpsert, FreshInsert,
     FreshSweep, FreshDropSymbols, FreshDropFile, FreshCommit, FreshSelectFails DEF Pass
<1>7. CASE Next
  BY <1>2, <1>3, <1>5, <1>6, <1>7, FreshEdit DEF Next
<1> QED
  BY <1>1, <1>7

\* A pass that changed the index, or that no other commit overtook, leaves it in
\* accord with every listed file it could read and nobody changed meanwhile, and
\* without a row of any file that is not there (index_files).
THEOREM IndexIsFreshened == Spec => PassFreshens
<1> DEFINE Freshens ==
      \A p \in Proc : Commit(p) /\ (writer = p \/ ~stale[p]) =>
        \A f \in File \ (dirty[p] \cup skipped[p]) :
          f \in Range(list[p]) \/ disk[f] = Gone => db'[f].hash = disk[f]
<1>1. IInv /\ FreshInv => Freshens
  <2> SUFFICES ASSUME IInv, FreshInv, NEW p \in Proc, Commit(p), writer = p \/ ~stale[p],
                      NEW f \in File, f \notin dirty[p] \cup skipped[p],
                      f \in Range(list[p]) \/ disk[f] = Gone
               PROVE  db'[f].hash = disk[f]
    OBVIOUS
  <2>1. Fresh(p) /\ pc[p] = "commit"
    BY DEF FreshInv, Commit
  <2>2. db' = view[p]
    <3>1. CASE writer = p
      BY <3>1 DEF Commit
    <3>2. CASE writer # p
      BY <2>1, <3>2 DEF Commit, Fresh, Following, IInv, Opened
    <3> QED BY <3>1, <3>2
  <2>3. CASE f \in Range(list[p])
    <3>1. list[p] \in Seq(File) /\ todo[p] = Len(list[p])
      BY <2>1 DEF IInv, Passes, Fresh, Ended
    <3>2. PICK i \in 1..todo[p] : list[p][i] = f
      BY <2>3, <3>1 DEF Range
    <3>3. view[p][f].hash = disk[f]
      BY <2>1, <3>2 DEF Fresh, Behind
    <3> QED BY <2>2, <2>3, <3>3
  <2>4. CASE f \notin Range(list[p])
    <3>1. view[p][f].hash = Gone
      BY <2>1, <2>4 DEF Fresh, Swept
    <3> QED BY <2>2, <2>4, <3>1
  <2> QED BY <2>3, <2>4
<1>2. Spec => []FreshInv
  BY FreshInit, FreshStep, Invariance, PTL DEF Spec
<1>3. [Next]_vars /\ IInv /\ FreshInv => [Freshens]_vars
  BY <1>1
<1> QED
  BY <1>2, <1>3, Invariance, PTL DEF Spec, PassFreshens
=============================================================================
