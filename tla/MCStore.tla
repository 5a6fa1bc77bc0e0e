------------------------------ MODULE MCStore ------------------------------
(* Small instances of Store: two processes with a log of their own each and *)
(* the empty stderr both have, or three with one log.                        *)
EXTENDS Store, TLC

CONSTANTS p1, p2, p3, log1, log2, empty, test, build, fileA, fileB, m1, m2

MCSize   == (log1 :> 1) @@ (log2 :> 1) @@ (empty :> 0)
TwoBlocks == (log1 :> 2) @@ (log2 :> 1) @@ (empty :> 0)

Exec(c, o, m) == [cmd |-> c, out |-> o, err |-> empty, meta |-> m]
Page(f, c)    == [path |-> f, bytes |-> c]

NoShows == [p \in {p1, p2} |-> {}]

\* p1 repeats one command with the same output and other metadata; p2 captures
\* another command.
OwnWork     == (p1 :> {log1, empty}) @@ (p2 :> {log2, empty})
OwnCaptures ==
  (p1 :> {Exec(test, log1, m1), Exec(test, log1, m2)}) @@ (p2 :> {Exec(build, log2, m1)})

\* p2 also shows a file with two contents: what it captured, and nothing.
OwnShows == (p1 :> {}) @@ (p2 :> {Page(fileA, log2), Page(fileA, empty)})

\* p1 and p2 run the same command and get the same output, of two blocks; p3
\* shows a file that holds just what they have captured.
SharedWork     == [p \in {p1, p2} |-> {log1, empty}] @@ (p3 :> {log1})
SharedCaptures ==
  (p1 :> {Exec(test, log1, m1)}) @@ (p2 :> {Exec(test, log1, m2)}) @@ (p3 :> {})
SharedShows    == [p \in {p1, p2} |-> {}] @@ (p3 :> {Page(fileA, log1)})

\* Without the file.
RaceWork     == [p \in {p1, p2} |-> {log1, empty}]
RaceCaptures == (p1 :> {Exec(test, log1, m1)}) @@ (p2 :> {Exec(test, log1, m2)})

\* One process shows a file with two contents.
TwiceWork     == (p1 :> {log1, empty})
TwiceCaptures == (p1 :> {})
TwiceShows    == (p1 :> {Page(fileA, log1), Page(fileA, empty)})
=============================================================================
