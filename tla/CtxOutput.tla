----------------------------- MODULE CtxOutput ------------------------------
(***************************************************************************)
(* ctx output, crates/ctx-cli/src/main.rs: cmd_output; with the handles of *)
(* crates/ctx-core/src/handle.rs and run_id and run_output of store.rs.    *)
(*                                                                         *)
(* The handle typed is parsed, the run it names is looked up, and of the   *)
(* lines of both streams that contain the query the first `limit` are      *)
(* printed, each with its stream and its number.                           *)
(*                                                                         *)
(* Data abstraction.  A handle is a sequence of words, the colon and the   *)
(* slash being words of their own; the stored streams are sequences of     *)
(* lines, each ended by a line feed, and of a line as it is printed only   *)
(* matters whether it contains the query.                                  *)
(***************************************************************************)
EXTENDS Naturals, FiniteSets, Sequences, SequencesExt

CONSTANTS
  Typed,     \* the handles that are typed: sequences of words
  Bytes(_),  \* the bytes of a stored line, up to its line feed
  Query,     \* the lines, as they are printed, that contain the query
  MaxLimit   \* --limit is at most this, a number

VARIABLES
  stored,  \* the runs in the store: id -> its two streams, sequences of lines
  typed,   \* the handle typed
  grep,    \* whether there is a query
  limit,
  body,    \* the lines of the two streams of the run that was found, as text
  pc, at,  \* where the loop is: the stream and the line
  shown, matched,
  printed, \* the lines printed: <<stream, number, line>>
  more     \* the number in "... more matching lines", 0 when there is no such line

args == <<stored, typed, grep, limit>>
vars == <<args, body, pc, at, shown, matched, printed, more>>

-----------------------------------------------------------------------------
(* Handles.                                                                *)

Schemes == {"output", "file-snapshot", "tool", "git"}
Separator == <<":", "/", "/">>

\* Handle's Display.
Display(h) == <<h.kind>> \o Separator \o h.path

NotAHandle == [kind |-> "none", path |-> <<>>]

\* split_once: the first separator.
SplitsAt(t, i) ==
  /\ SubSeq(t, i, i + 2) = Separator
  /\ \A j \in 1..(i - 1) : SubSeq(t, j, j + 2) # Separator

\* Handle::from_str: a known scheme and a path that is not empty.
Parse(t) ==
  IF Len(t) > 4 /\ t[1] \in Schemes /\ SplitsAt(t, 2)
  THEN [kind |-> t[1], path |-> SubSeq(t, 5, Len(t))] ELSE NotAHandle

OutputRun(id) == [kind |-> "output", path |-> <<"run", "/">> \o id]

\* Fault variant for the checks: the kind is not looked at.
RunIdOfAny(h) ==
  IF IsPrefix(<<"run", "/">>, h.path) THEN {SubSeq(h.path, 3, Len(h.path))} ELSE {}

\* run_id: an output handle, whose path starts with "run/".
RunIdOf(h) ==
  IF h.kind = "output" /\ IsPrefix(<<"run", "/">>, h.path)
  THEN {SubSeq(h.path, 3, Len(h.path))} ELSE {}

\* run_output finds the row.
Found(t) == RunIdOf(Parse(t)) \cap DOMAIN stored

-----------------------------------------------------------------------------
(* The stored bytes as lines of text.                                      *)

\* String::from_utf8_lossy: bytes that are no UTF-8 become U+FFFD.
Lossy(bytes) == [k \in DOMAIN bytes |-> IF bytes[k] = "not UTF-8" THEN "U+FFFD" ELSE bytes[k]]

\* lines(): a carriage return before the line feed goes with it.
Trimmed(chars) ==
  IF chars # <<>> /\ chars[Len(chars)] = "CR" THEN SubSeq(chars, 1, Len(chars) - 1) ELSE chars

\* The line that is printed of a stored one, and the text of a run.
Shown(line) == Trimmed(Lossy(Bytes(line)))
Lines(stream) == [i \in DOMAIN stream |-> Shown(stream[i])]
Text(run) == <<Lines(run[1]), Lines(run[2])>>

-----------------------------------------------------------------------------
(* cmd_output.                                                             *)

Init ==
  /\ typed = <<>> /\ grep = FALSE /\ limit = 0 /\ body = <<<<>>, <<>>>>
  /\ pc = "none" /\ at = <<1, 1>> /\ shown = 0 /\ matched = 0 /\ printed = <<>> /\ more = 0

\* The command is typed.
Ask ==
  /\ pc = "none" /\ pc' = "parse"
  /\ typed' \in Typed /\ grep' \in BOOLEAN /\ limit' \in 0..MaxLimit
  /\ UNCHANGED <<stored, body, at, shown, matched, printed, more>>

\* The handle does not parse, or is not one of a run, or names no run.
NoSuchRun ==
  /\ pc = "parse" /\ Found(typed) = {}
  /\ pc' = "failed"
  /\ UNCHANGED <<args, body, at, shown, matched, printed, more>>

FindRun ==
  /\ pc = "parse" /\ pc' = "lines"
  /\ \E id \in Found(typed) : body' = Text(stored[id])
  /\ UNCHANGED <<args, at, shown, matched, printed, more>>

\* The store cannot read one of the two blobs.
BlobIsGone ==
  /\ pc = "parse" /\ Found(typed) # {}
  /\ pc' = "failed"
  /\ UNCHANGED <<args, body, at, shown, matched, printed, more>>

\* The loop is at a line, and whether that line is a hit.
AtLine == pc = "lines" /\ at[1] <= 2 /\ at[2] <= Len(body[at[1]])
This   == body[at[1]][at[2]]
Hit    == grep => This \in Query

PassOver ==
  /\ AtLine /\ ~Hit
  /\ at' = <<at[1], at[2] + 1>>
  /\ UNCHANGED <<args, body, pc, shown, matched, printed, more>>

PrintHit ==
  /\ AtLine /\ Hit /\ shown < limit
  /\ printed' = Append(printed, <<at[1], at[2], This>>) /\ shown' = shown + 1 /\ matched' = matched + 1
  /\ at' = <<at[1], at[2] + 1>>
  /\ UNCHANGED <<args, body, pc, more>>

CountHit ==
  /\ AtLine /\ Hit /\ shown >= limit
  /\ matched' = matched + 1
  /\ at' = <<at[1], at[2] + 1>>
  /\ UNCHANGED <<args, body, pc, shown, printed, more>>

\* Fault variant for the checks: the limit counts for each stream.
NextStreamAfresh ==
  /\ pc = "lines" /\ at[1] = 1 /\ at[2] > Len(body[1])
  /\ at' = <<2, 1>> /\ shown' = 0
  /\ UNCHANGED <<args, body, pc, matched, printed, more>>

NextStream ==
  /\ pc = "lines" /\ at[1] = 1 /\ at[2] > Len(body[1])
  /\ at' = <<2, 1>>
  /\ UNCHANGED <<args, body, pc, shown, matched, printed, more>>

Finish ==
  /\ pc = "lines" /\ at[1] = 2 /\ at[2] > Len(body[2])
  /\ more' = IF matched > shown THEN matched - shown ELSE 0
  /\ pc' = "done"
  /\ UNCHANGED <<args, body, at, shown, matched, printed>>

\* println! fails: nobody reads.
PrintFails ==
  /\ pc = "lines"
  /\ pc' = "failed"
  /\ UNCHANGED <<args, body, at, shown, matched, printed, more>>

Next ==
  \/ Ask \/ NoSuchRun \/ FindRun \/ BlobIsGone
  \/ PassOver \/ PrintHit \/ CountHit \/ NextStream \/ Finish \/ PrintFails

-----------------------------------------------------------------------------

\* What a sequence has at the positions I, in its order.
Kept(s, I) ==
  [k \in 1..Cardinality(I) |-> s[CHOOSE i \in I : Cardinality({j \in I : j <= i}) = k]]

\* The lines of two streams, stdout first, and the matching ones of them.
Numbered(s, lines) == [i \in DOMAIN lines |-> <<s, i, lines[i]>>]
BothStreams(text)  == Numbered(1, text[1]) \o Numbered(2, text[2])
Matching(text) ==
  LET all == BothStreams(text) IN Kept(all, {i \in DOMAIN all : grep => all[i][3] \in Query})

\* Types of cmd_output's locals; no more lines are shown than --limit says.
TypeOK ==
  /\ typed \in Typed \cup {<<>>} /\ grep \in BOOLEAN /\ limit \in 0..MaxLimit
  /\ pc \in {"none", "parse", "lines", "done", "failed"}
  /\ at[1] \in 1..2 /\ at[2] \in 1..(Len(body[at[1]]) + 1)
  /\ shown \in 0..limit /\ shown <= matched /\ more \in 0..matched

\* The lines printed of a run of which `text` is what was written are the
\* beginning of the matching ones, at most limit of them, and what is not printed
\* is announced.
ShowsAll(text) ==
  /\ IsPrefix(printed, Matching(text)) /\ Len(printed) <= limit
  /\ pc = "done" => /\ Len(printed) + more = Len(Matching(text))
                    /\ more # 0 => Len(printed) = limit

\* Lines are only printed of the run whose handle was typed, and the handle of
\* a stored run finds that run and no other.
TheRunNamedAnswers ==
  /\ pc \in {"lines", "done"} => \E id \in DOMAIN stored : typed = Display(OutputRun(id))
  /\ \A id \in DOMAIN stored : typed = Display(OutputRun(id)) => Found(typed) = {id}
=============================================================================
