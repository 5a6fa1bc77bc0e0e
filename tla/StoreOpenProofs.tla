-------------------------- MODULE StoreOpenProofs --------------------------
(***************************************************************************)
(* What StoreOpen promises, for any number of processes and versions.      *)
(*                                                                         *)
(* The argument: nobody but the first INSERT writes the version, so what a *)
(* process has selected is the version still when it compares, and a       *)
(* refusal, which Begin takes back, outlives nothing it was based on.      *)
(***************************************************************************)
EXTENDS StoreOpen, TLAPS

\* What a process knows at each step of open.
Knows(p) ==
  /\ pc[p] \in {"select", "insert", "compare", "open"} => Tables[Version[p]] \subseteq tables
  /\ pc[p] = "insert" => found[p] = Unset
  /\ pc[p] = "compare" => found[p] # Unset /\ found[p] = version
  /\ pc[p] = "open" => version # Unset /\ version <= Version[p]
  /\ pc[p] \notin {"closed", "failed"} => refusal[p] = "none"
  /\ refusal[p] = "newer" => version # Unset /\ version > Version[p]
  /\ refusal[p] = "unique" => version # Unset /\ found[p] = Unset

OpenInv == TypeOK /\ \A p \in Proc : Knows(p)

LEMMA VersionsAreNumbers == Versions \subseteq Nat /\ Unset \notin Versions
BY VersionAssumption, UnsetAssumption DEF Versions

LEMMA InitOpen == Init => OpenInv
BY DEF Init, OpenInv, TypeOK, Knows, Phase, Refusal

LEMMA TypedStep == ASSUME TypeOK, Next PROVE TypeOK'
<1> USE DEF TypeOK, Phase, Refusal
<1> SUFFICES ASSUME NEW p \in Proc, Begin(p) \/ OpenStep(p) \/ OpenFault(p) \/ Close(p)
             PROVE  TypeOK'
  BY DEF Next
<1>1. Version[p] \in Versions BY DEF Versions
<1>2. CASE Begin(p) BY <1>2 DEF Begin, Goto
<1>3. CASE CreateTables(p)
  <2>1. Tables[Version[p]] \subseteq UNION {Tables[v] : v \in Versions} BY <1>1
  <2>2. tables' \subseteq UNION {Tables[v] : v \in Versions} BY <1>3, <2>1 DEF CreateTables
  <2> QED BY <1>3, <2>2 DEF CreateTables, Goto
<1>4. CASE SelectVersion(p) BY <1>4 DEF SelectVersion, Goto
<1>5. CASE InsertVersion(p) BY <1>5, <1>1 DEF InsertVersion, Goto, Refuse
<1>6. CASE CompareVersion(p) BY <1>6 DEF CompareVersion, Goto, Refuse
<1>7. CASE OpenFault(p) BY <1>7 DEF OpenFault, Goto, Refuse
<1>8. CASE Close(p) BY <1>8 DEF Close, Goto
<1> QED BY <1>2, <1>3, <1>4, <1>5, <1>6, <1>7, <1>8 DEF OpenStep

\* The version is only ever written when there is none.
LEMMA WrittenOnce == ASSUME NEW p \in Proc, OpenInv,
                            Begin(p) \/ OpenStep(p) \/ OpenFault(p) \/ Close(p)
                     PROVE  /\ tables \subseteq tables'
                            /\ version # Unset => version' = version
BY DEF Begin, OpenStep, CreateTables, SelectVersion, InsertVersion, CompareVersion, OpenFault, Close

\* Whoever does not move knows afterwards what it knew.
LEMMA OthersKnow ==
  ASSUME NEW p \in Proc, NEW q \in Proc, q # p, OpenInv,
         Begin(p) \/ OpenStep(p) \/ OpenFault(p) \/ Close(p)
  PROVE  Knows(q)'
<1>1. /\ tables \subseteq tables'
      /\ version # Unset => version' = version
  BY WrittenOnce
<1>2. pc'[q] = pc[q] /\ found'[q] = found[q] /\ refusal'[q] = refusal[q]
  BY DEF OpenInv, TypeOK, Begin, OpenStep, CreateTables, SelectVersion, InsertVersion,
         CompareVersion, OpenFault, Close, Goto, Refuse
<1> QED BY <1>1, <1>2 DEF OpenInv, Knows

\* Whoever moves knows what its step has told it.
LEMMA MoverKnows ==
  ASSUME NEW p \in Proc, OpenInv, Begin(p) \/ OpenStep(p) \/ OpenFault(p) \/ Close(p)
  PROVE  Knows(p)'
<1> USE DEF OpenInv, TypeOK, Phase, Refusal, Goto, Refuse, Knows
<1>1. Version[p] \in Nat /\ Version[p] # Unset /\ (version # Unset => version \in Nat)
  BY VersionAssumption, UnsetAssumption, VersionsAreNumbers
<1>2. CASE Begin(p) BY <1>1, <1>2 DEF Begin
<1>3. CASE CreateTables(p) BY <1>1, <1>3 DEF CreateTables
<1>4. CASE SelectVersion(p) BY <1>1, <1>4 DEF SelectVersion
<1>5. CASE InsertVersion(p) BY <1>1, <1>5 DEF InsertVersion
<1>6. CASE CompareVersion(p) BY <1>1, <1>6 DEF CompareVersion
<1>7. CASE OpenFault(p) BY <1>1, <1>7 DEF OpenFault
<1>8. CASE Close(p) BY <1>1, <1>8 DEF Close
<1> QED BY <1>2, <1>3, <1>4, <1>5, <1>6, <1>7, <1>8 DEF OpenStep

LEMMA NextOpen == OpenInv /\ [Next]_vars => OpenInv'
<1>1. ASSUME OpenInv, Next PROVE OpenInv'
  <2>1. TypeOK' BY <1>1, TypedStep DEF OpenInv
  <2>2. ASSUME NEW q \in Proc PROVE Knows(q)'
    <3>1. PICK p \in Proc : Begin(p) \/ OpenStep(p) \/ OpenFault(p) \/ Close(p) BY <1>1 DEF Next
    <3>2. CASE q = p BY <1>1, <3>1, <3>2, MoverKnows
    <3>3. CASE q # p BY <1>1, <3>1, <3>3, OthersKnow
    <3> QED BY <3>2, <3>3
  <2> QED BY <2>1, <2>2 DEF OpenInv
<1>2. ASSUME OpenInv, UNCHANGED vars PROVE OpenInv'
  BY <1>2 DEF OpenInv, TypeOK, Knows, vars
<1> QED BY <1>1, <1>2

LEMMA OpenInvHolds == Spec => []OpenInv
BY InitOpen, NextOpen, PTL DEF Spec

-----------------------------------------------------------------------------

\* The schema is well typed: the version recorded is one that a binary has.
THEOREM TypeCorrect == Spec => []TypeOK
<1>1. OpenInv => TypeOK BY DEF OpenInv
<1> QED BY <1>1, OpenInvHolds, PTL

\* "open refuses to run against a newer schema than it understands": whoever is let
\* in knows the version, and has its tables, whoever raced it.
THEOREM NobodyMisreads == Spec => []OnlyUnderstood
<1>1. OpenInv => OnlyUnderstood BY DEF OpenInv, Knows, OnlyUnderstood
<1> QED BY <1>1, OpenInvHolds, PTL

\* An open is refused only for a newer store, a race that was lost, or a fault.
THEOREM NoIdleRefusal == Spec => []RefusedForCause
<1>1. OpenInv => RefusedForCause BY DEF OpenInv, Knows, RefusedForCause
<1> QED BY <1>1, OpenInvHolds, PTL

\* The recorded version is written once.
THEOREM VersionIsForEver == Spec => VersionFixed
<1>1. OpenInv /\ [Next]_vars => [version # Unset => version' = version]_vars
  BY WrittenOnce DEF Next, vars
<1> QED BY <1>1, OpenInvHolds, PTL DEF Spec, VersionFixed
=============================================================================
