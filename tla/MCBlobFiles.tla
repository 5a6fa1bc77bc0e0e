---------------------------- MODULE MCBlobFiles ----------------------------
(* A small instance of BlobFiles: two processes that capture the same      *)
(* output, of two blocks, so that a file can be cut short.                 *)
EXTENDS BlobFiles, TLC

CONSTANTS p1, p2, log1

MCSize   == log1 :> 2
SameWork == [p \in {p1, p2} |-> {log1}]
=============================================================================
