---------------------------- MODULE AtomicBlobs ----------------------------
(***************************************************************************)
(* What the blob store promises: a content is missing, then it is stored   *)
(* in full in one step, and it is never removed or damaged.                *)
(* The state "torn" (a visible file with missing bytes) exists so that an  *)
(* implementation can be seen to enter it; no step below leads there.      *)
(***************************************************************************)
CONSTANT Content
VARIABLE view  \* what a reader of the content's name finds

State == {"missing", "whole", "torn"}

Init == view = [c \in Content |-> "missing"]

Store(c) ==
  /\ view[c] = "missing"
  /\ view' = [view EXCEPT ![c] = "whole"]

Next == \E c \in Content : Store(c)

Spec == Init /\ [][Next]_view
=============================================================================
