------------------------------- MODULE RunLog -------------------------------
(***************************************************************************)
(* What the store promises about captured runs (invariant 1 of store.rs:   *)
(* "Anything withheld from the model is retrievable byte-exactly later").  *)
(* A handle, once it names a run, names that run and no other for ever,    *)
(* and both of its streams can be read back in full from the start.        *)
(***************************************************************************)
VARIABLE book  \* book[h]: the run handle h names and whether its bytes are there

Init == book = [h \in {} |-> "none"]

\* One run more, readable at once; what was logged before stays as it was.
Log ==
  \E h \in DOMAIN book' :
    /\ h \notin DOMAIN book
    /\ DOMAIN book' = DOMAIN book \cup {h}
    /\ book'[h].state = "readable"
    /\ \A g \in DOMAIN book : book'[g] = book[g]

Spec == Init /\ [][Log]_book
=============================================================================
