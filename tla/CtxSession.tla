----------------------------- MODULE CtxSession -----------------------------
(***************************************************************************)
(* What the agent does with a handle: ctx run, then ctx output, each a     *)
(* process of its own with nothing between them but the store.             *)
(*                                                                         *)
(* The store holds one older run beside the one that CtxRun captures; a    *)
(* mark of CtxRun is a stored line of CtxOutput.                           *)
(***************************************************************************)
EXTENDS CtxRun, SequencesExt

CONSTANTS
  NewId, OldId, \* the ids of the two runs: sequences of words
  OldText,      \* the two streams of the older one
  Bytes(_), Typed, Query, MaxLimit

ASSUME IdAssumption == NewId # OldId
ASSUME IdsAreWords == NewId \in Seq(Range(NewId)) /\ OldId \in Seq(Range(OldId))
ASSUME TypedAssumption == \A t \in Typed : t \in Seq(Range(t))
ASSUME TextAssumption == \A s \in {1, 2} : OldText[s] \in Seq(Range(OldText[s]))
ASSUME LimitAssumption == MaxLimit \in Nat

VARIABLES typed, grep, limit, body, opc, at, shown, matched, lines, more

outputVars  == <<typed, grep, limit, body, opc, at, shown, matched, lines, more>>
sessionVars == <<vars, outputVars>>

\* The runs in the store, as ctx output finds them.
Stored ==
  [id \in {OldId} \cup IF row.stored THEN {NewId} ELSE {} |->
     IF id = OldId THEN OldText ELSE <<row.output["stdout"], row.output["stderr"]>>]

O == INSTANCE CtxOutput WITH stored <- Stored, pc <- opc, printed <- lines

SessionInit == Init /\ O!Init

\* ctx output is typed when ctx run has ended and nobody it started is left.
Over == pc \in {"done", "failed"} /\ holders = {}

SessionNext ==
  \/ Next /\ UNCHANGED outputVars
  \/ Over /\ UNCHANGED vars /\ O!Next

\* The scheduler runs both of our threads; the command writes what it has to
\* and exits.  Nothing makes a helper end.
SessionSpec ==
  /\ SessionInit /\ [][SessionNext]_sessionVars
  /\ WF_sessionVars(Main /\ UNCHANGED outputVars)
  /\ WF_sessionVars(LoaderEnds /\ UNCHANGED outputVars)
  /\ WF_sessionVars(CommandExits /\ UNCHANGED outputVars)
  /\ WF_sessionVars((\E s \in Stream : Write("command", s)) /\ UNCHANGED outputVars)

-----------------------------------------------------------------------------

\* Types of both commands.
SessionTypeOK == TypeOK /\ O!TypeOK

\* "Read captured output back by handle" (main.rs:49): what ctx output prints of
\* a run are the lines that the command and its helper wrote into the pipes, each
\* in its stream and at its number, the matching ones in order up to the limit,
\* and the rest announced.  A line is printed as text and so not always "the
\* original bytes" (main.rs:43): without its carriage return, and with U+FFFD for
\* bytes that are no UTF-8.
NothingIsDropped ==
  opc \in {"lines", "done"} =>
    \/ typed = O!Display(O!OutputRun(OldId)) /\ O!ShowsAll(O!Text(OldText))
    \/ /\ typed = O!Display(O!OutputRun(NewId)) /\ row.stored
       /\ O!ShowsAll(O!Text(<<written["stdout"], written["stderr"]>>))

\* A line is only printed of the run whose handle was typed.
TheRunNamedAnswers == O!TheRunNamedAnswers
=============================================================================
