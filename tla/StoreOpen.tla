----------------------------- MODULE StoreOpen -----------------------------
(***************************************************************************)
(* Store::open and check_schema_version, crates/ctx-store/src/store.rs:    *)
(* what happens when binaries of several versions open one .ctx directory, *)
(* one after another or at once.                                           *)
(*                                                                         *)
(* The database is its set of tables and the schema_version row of meta.   *)
(* Every statement is a transaction of its own, so between the SELECT and  *)
(* the INSERT of the version another process may open the store too.       *)
(***************************************************************************)
EXTENDS Naturals

CONSTANTS
  Proc,     \* processes that open the store
  Version,  \* Version[p]: SCHEMA_VERSION of the binary p runs
  Tables,   \* Tables[v]: the tables SCHEMA of version v creates
  Unset,    \* no schema_version row
  Faults    \* whether a process may be killed, or a statement may fail

Versions == {Version[p] : p \in Proc}

ASSUME VersionAssumption == \A p \in Proc : Version[p] \in Nat \ {0}
ASSUME UnsetAssumption   == Unset \notin Nat
ASSUME FaultsAssumption  == Faults \in BOOLEAN

VARIABLES
  tables,   \* tables that exist in ctx.sqlite
  version,  \* meta.schema_version, or Unset
  pc,       \* pc[p]: where p is inside open
  found,    \* found[p]: what p's SELECT returned
  refusal   \* refusal[p]: why p's open returned an error

vars == <<tables, version, pc, found, refusal>>

Phase   == {"closed", "schema", "select", "insert", "compare", "open", "failed"}
Refusal == {"none", "newer", "unique", "fault"}

\* Types of the store's schema: the recorded version is one a binary has.
TypeOK ==
  /\ tables \subseteq UNION {Tables[v] : v \in Versions}
  /\ version \in Versions \cup {Unset}
  /\ pc \in [Proc -> Phase]
  /\ found \in [Proc -> Versions \cup {Unset}]
  /\ refusal \in [Proc -> Refusal]

Init ==
  /\ tables = {} /\ version = Unset
  /\ pc = [p \in Proc |-> "closed"]
  /\ found = [p \in Proc |-> Unset]
  /\ refusal = [p \in Proc |-> "none"]

Goto(p, s)   == pc' = [pc EXCEPT ![p] = s]
Refuse(p, r) == Goto(p, "failed") /\ refusal' = [refusal EXCEPT ![p] = r]

\* create_dir_all, Connection::open and the three pragmas: all of them leave
\* alike what they find already done.
Begin(p) ==
  /\ pc[p] = "closed" /\ Goto(p, "schema")
  /\ refusal' = [refusal EXCEPT ![p] = "none"]
  /\ UNCHANGED <<tables, version, found>>

\* execute_batch(SCHEMA), before any version is read: CREATE ... IF NOT EXISTS of
\* one table after another, each a transaction of its own, in any order.
CreateTables(p) ==
  LET missing == Tables[Version[p]] \ tables IN
  /\ pc[p] = "schema"
  /\ IF missing = {} THEN Goto(p, "select") /\ UNCHANGED tables
     ELSE (\E t \in missing : tables' = tables \cup {t}) /\ UNCHANGED pc
  /\ UNCHANGED <<version, found, refusal>>

SelectVersion(p) ==
  /\ pc[p] = "select"
  /\ found' = [found EXCEPT ![p] = version]
  /\ Goto(p, IF version = Unset THEN "insert" ELSE "compare")
  /\ UNCHANGED <<tables, version, refusal>>

\* Fault variant for the checks: INSERT OR REPLACE.
ReplaceVersion(p) ==
  /\ pc[p] = "insert"
  /\ version' = Version[p] /\ Goto(p, "open") /\ UNCHANGED refusal
  /\ UNCHANGED <<tables, found>>

\* None: a store nobody has versioned yet.  The row is inserted, unless another
\* process has inserted its own since the SELECT: the key is unique.
InsertVersion(p) ==
  /\ pc[p] = "insert"
  /\ IF version = Unset
     THEN version' = Version[p] /\ Goto(p, "open") /\ UNCHANGED refusal
     ELSE Refuse(p, "unique") /\ UNCHANGED version
  /\ UNCHANGED <<tables, found>>

\* Fault variants for the checks: no comparison; a strict one.
CompareIgnored(p) ==
  /\ pc[p] = "compare" /\ Goto(p, "open")
  /\ UNCHANGED <<tables, version, found, refusal>>

CompareStrict(p) ==
  /\ pc[p] = "compare"
  /\ IF found[p] < Version[p]
     THEN Goto(p, "open") /\ UNCHANGED refusal
     ELSE Refuse(p, "newer")
  /\ UNCHANGED <<tables, version, found>>

\* Some(v): refused when v is newer than the binary; an older v is let in, and
\* stays what it is.
CompareVersion(p) ==
  /\ pc[p] = "compare"
  /\ IF found[p] <= Version[p]
     THEN Goto(p, "open") /\ UNCHANGED refusal
     ELSE Refuse(p, "newer")
  /\ UNCHANGED <<tables, version, found>>

\* A statement fails.
OpenFault(p) ==
  /\ Faults /\ pc[p] \in {"schema", "select", "insert"} /\ Refuse(p, "fault")
  /\ UNCHANGED <<tables, version, found>>

\* The process is done with the store, has reported its error, or is killed;
\* the next one of its name opens anew.
Close(p) ==
  /\ pc[p] \in {"open", "failed"} \/ (Faults /\ pc[p] # "closed")
  /\ Goto(p, "closed")
  /\ UNCHANGED <<tables, version, found, refusal>>

OpenStep(p) == CreateTables(p) \/ SelectVersion(p) \/ InsertVersion(p) \/ CompareVersion(p)

Next == \E p \in Proc : Begin(p) \/ OpenStep(p) \/ OpenFault(p) \/ Close(p)

Spec == Init /\ [][Next]_vars

-----------------------------------------------------------------------------
(* What holds.                                                             *)

\* "open refuses to run against a newer schema than it understands"
\* (store.rs:17), also when processes of several versions race to create it, and
\* whoever is let in finds every table its statements name, whichever process
\* versioned the store.
OnlyUnderstood == \A p \in Proc : pc[p] = "open" =>
  version # Unset /\ version <= Version[p] /\ Tables[Version[p]] \subseteq tables

\* The recorded version is written once: no open lowers or raises it, and so a
\* store does not lose the version that keeps older binaries out.
VersionFixed == [][version # Unset => version' = version]_vars

\* "creating if absent" (store.rs:84): an open is refused for nothing but a newer
\* store, a race to create the store that another process has won, or a fault.
RefusedForCause ==
  \A p \in Proc :
    /\ refusal[p] = "newer"  => version # Unset /\ version > Version[p]
    /\ refusal[p] = "unique" => version # Unset /\ found[p] = Unset
=============================================================================
