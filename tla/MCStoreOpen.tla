---------------------------- MODULE MCStoreOpen ----------------------------
(* Two processes of the version in the source and one of a later version     *)
(* that has one table more.                                                  *)
EXTENDS StoreOpen, TLC

CONSTANTS p1, p2, p3

MixedVersion == (p1 :> 1) @@ (p2 :> 1) @@ (p3 :> 2)

Now == {"meta", "blobs", "runs", "snapshots"}
MCTables == <<Now, Now \cup {"later"}>>
=============================================================================
