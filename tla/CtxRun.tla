------------------------------- MODULE CtxRun -------------------------------
(***************************************************************************)
(* ctx run, crates/ctx-cli/src/main.rs: cmd_run.                           *)
(*                                                                         *)
(* The main thread opens the store, starts a thread that loads the         *)
(* vocabulary, runs the command to its end with both of its streams piped  *)
(* back, stores what it wrote, joins the loader, and prints a summary and  *)
(* the handle.  The command may leave a helper behind that holds the pipes *)
(* open.                                                                   *)
(*                                                                         *)
(* Data abstraction.  What is written is a sequence of marks; a pipe holds *)
(* PipeSize of them.  put_run is Store's: here it stores the run whole and *)
(* answers a handle, or it fails.                                          *)
(***************************************************************************)
EXTENDS Naturals, Sequences

CONSTANTS
  MaxWrites, \* how often each process writes at most
  PipeSize

ASSUME BoundsAssumption == MaxWrites \in Nat /\ PipeSize \in Nat \ {0}

Stream  == {"stdout", "stderr"}
Process == {"command", "helper"}
Line    == {"command line", "exit", "captured", "raw"}

VARIABLES
  pc,       \* where the main thread is
  loader,   \* the thread that loads the vocabulary
  status,   \* how the command ended
  holders,  \* the processes that hold the write ends of the pipes
  written,  \* written[s]: all that was written to s
  writes,   \* how often each process has written
  pipe,     \* pipe[s]: what is in the pipe
  captured, \* captured[s]: what output() has read of s
  row,      \* the stored run
  printed   \* the lines printed

child  == <<status, holders, written, writes>>
vars   == <<pc, loader, child, pipe, captured, row, printed>>

Empty == [s \in Stream |-> <<>>]
NoRow == [stored |-> FALSE]

Init ==
  /\ pc = "open" /\ loader = "none" /\ status = "none" /\ holders = {}
  /\ written = Empty /\ writes = [p \in Process |-> 0]
  /\ pipe = Empty /\ captured = Empty /\ row = NoRow /\ printed = <<>>

-----------------------------------------------------------------------------
(* The command, and the pipes to it.                                       *)

\* Fault variant for the checks: a write does not wait for room.
WriteUnchecked(p, s) ==
  /\ p \in holders /\ writes[p] < MaxWrites
  /\ LET mark == <<p, writes[p]>> IN
     /\ written' = [written EXCEPT ![s] = Append(@, mark)]
     /\ pipe' = [pipe EXCEPT ![s] = Append(@, mark)]
  /\ writes' = [writes EXCEPT ![p] = @ + 1]
  /\ UNCHANGED <<pc, loader, status, holders, captured, row, printed>>

\* A write waits until the pipe has room.
Write(p, s) ==
  /\ p \in holders /\ writes[p] < MaxWrites /\ Len(pipe[s]) < PipeSize
  /\ LET mark == <<p, writes[p]>> IN
     /\ written' = [written EXCEPT ![s] = Append(@, mark)]
     /\ pipe' = [pipe EXCEPT ![s] = Append(@, mark)]
  /\ writes' = [writes EXCEPT ![p] = @ + 1]
  /\ UNCHANGED <<pc, loader, status, holders, captured, row, printed>>

\* The command starts a helper, which inherits the pipes.
Fork ==
  /\ status = "running" /\ writes["helper"] = 0 /\ holders = {"command"}
  /\ holders' = Process
  /\ UNCHANGED <<pc, loader, status, written, writes, pipe, captured, row, printed>>

\* The command has nothing to write any more and exits, or is killed before.
CommandExits ==
  /\ status = "running" /\ writes["command"] = MaxWrites
  /\ status' = "exited" /\ holders' = holders \ {"command"}
  /\ UNCHANGED <<pc, loader, written, writes, pipe, captured, row, printed>>

CommandKilled ==
  /\ status = "running"
  /\ status' = "signal" /\ holders' = holders \ {"command"}
  /\ UNCHANGED <<pc, loader, written, writes, pipe, captured, row, printed>>

HelperEnds ==
  /\ "helper" \in holders
  /\ holders' = holders \ {"helper"}
  /\ UNCHANGED <<pc, loader, status, written, writes, pipe, captured, row, printed>>

-----------------------------------------------------------------------------
(* The main thread.                                                        *)

\* An error leaves cmd_run; the process ends, and its loader with it.
Fail == pc' = "failed"

OpenStore ==
  /\ pc = "open" /\ (pc' = "load" \/ Fail)
  /\ UNCHANGED <<loader, child, pipe, captured, row, printed>>

StartLoader ==
  /\ pc = "load" /\ pc' = "spawn" /\ loader' = "loading"
  /\ UNCHANGED <<child, pipe, captured, row, printed>>

StartCommand ==
  /\ pc = "spawn" /\ pc' = "output" /\ status' = "running" /\ holders' = {"command"}
  /\ UNCHANGED <<loader, written, writes, pipe, captured, row, printed>>

\* The program is not there.
CannotStart ==
  /\ pc = "spawn" /\ Fail
  /\ UNCHANGED <<loader, child, pipe, captured, row, printed>>

\* Fault variant for the checks: stderr is read when stdout has ended.
DrainableLater(s) == pipe[s] # <<>> /\ (s = "stderr" => holders = {})

\* Command::output reads whichever pipe has something.
Drainable(s) == pipe[s] # <<>>

Drain(s) ==
  /\ pc = "output" /\ Drainable(s)
  /\ captured' = [captured EXCEPT ![s] = @ \o pipe[s]]
  /\ pipe' = [pipe EXCEPT ![s] = <<>>]
  /\ UNCHANGED <<pc, loader, child, row, printed>>

\* Fault variant for the checks: it waits for the command only.
EndedEarly == status # "running"

\* Both pipes are at their end: nobody holds them, nothing is left in them.
\* Then it waits for the command.
Ended == holders = {} /\ pipe = Empty /\ status # "running"

Reap ==
  /\ pc = "output" /\ Ended
  /\ pc' = "put"
  /\ UNCHANGED <<loader, child, pipe, captured, row, printed>>

PutRun ==
  /\ pc = "put" /\ pc' = "join"
  /\ row' = [stored |-> TRUE, output |-> captured, status |-> status]
  /\ UNCHANGED <<loader, child, pipe, captured, printed>>

\* Fault variant for the checks: the error of put_run is dropped.
PutRunGoesOn ==
  /\ pc = "put" /\ pc' = "join"
  /\ UNCHANGED <<loader, child, pipe, captured, row, printed>>

PutRunFails ==
  /\ pc = "put" /\ Fail
  /\ UNCHANGED <<loader, child, pipe, captured, row, printed>>

\* The loader ends at any time while the process lives.
LoaderEnds ==
  /\ loader = "loading" /\ pc \notin {"done", "failed"}
  /\ loader' \in {"loaded", "error", "panicked"}
  /\ UNCHANGED <<pc, child, pipe, captured, row, printed>>

\* Fault variant for the checks: only what the loader delivers is waited for.
JoinLoaded ==
  /\ pc = "join" /\ loader = "loaded" /\ pc' = "print"
  /\ UNCHANGED <<loader, child, pipe, captured, row, printed>>

\* join() answers once the loader has ended; an error of it, or its panic, is
\* ours.
JoinLoader ==
  /\ pc = "join" /\ loader # "loading"
  /\ IF loader = "loaded" THEN pc' = "print" ELSE Fail
  /\ UNCHANGED <<loader, child, pipe, captured, row, printed>>

Summary == <<"command line", "exit", "captured", "raw">>

PrintLine ==
  /\ pc = "print"
  /\ printed' = Append(printed, Summary[Len(printed) + 1])
  /\ pc' = IF Len(printed') = Len(Summary) THEN "done" ELSE "print"
  /\ UNCHANGED <<loader, child, pipe, captured, row>>

\* Nobody reads our output: println! panics.
PrintFails ==
  /\ pc = "print" /\ Fail
  /\ UNCHANGED <<loader, child, pipe, captured, row, printed>>

Main ==
  \/ OpenStore \/ StartLoader \/ StartCommand \/ CannotStart
  \/ \E s \in Stream : Drain(s)
  \/ Reap \/ PutRun \/ PutRunFails \/ JoinLoader \/ PrintLine \/ PrintFails

Child ==
  \/ \E p \in Process, s \in Stream : Write(p, s)
  \/ Fork \/ CommandExits \/ CommandKilled \/ HelperEnds

Next == Main \/ LoaderEnds \/ Child

-----------------------------------------------------------------------------

Marks == Process \X (0..MaxWrites)

\* Types of cmd_run's state; a pipe never holds more than it has room for.
TypeOK ==
  /\ pc \in {"open", "load", "spawn", "output", "put", "join", "print", "done", "failed"}
  /\ loader \in {"none", "loading", "loaded", "error", "panicked"}
  /\ status \in {"none", "running", "exited", "signal"} /\ holders \subseteq Process
  /\ writes \in [Process -> 0..MaxWrites]
  /\ \A s \in Stream :
       /\ written[s] \in Seq(Marks) /\ captured[s] \in Seq(Marks)
       /\ pipe[s] \in Seq(Marks) /\ Len(pipe[s]) <= PipeSize
  /\ printed \in Seq(Line) /\ Len(printed) <= Len(Summary)

\* "The full stdout/stderr is stored locally" (main.rs:42): what is stored is
\* all the command and whoever it left behind wrote, stream by stream, with
\* how the command ended; and "not shown" is only said of output that is stored.
StoredIsWhole ==
  /\ row.stored => row.output = written /\ row.status = status /\ status \in {"exited", "signal"}
  /\ printed # <<>> => row.stored

\* The command is never stuck on a full pipe for good.
PipesDrain == \A s \in Stream : Len(pipe[s]) = PipeSize ~> Len(pipe[s]) < PipeSize

\* Once the command and all it left behind are gone, ctx run ends.
RunEnds == (status # "none" /\ holders = {}) ~> pc \in {"done", "failed"}
=============================================================================
