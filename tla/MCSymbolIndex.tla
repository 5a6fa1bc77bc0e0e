--------------------------- MODULE MCSymbolIndex ---------------------------
(* Small instances of SymbolIndex: two files, one content with two           *)
(* definitions and one with none, two indexing processes and an editor.      *)
EXTENDS SymbolIndex, TLC

CONSTANTS p1, p2, fileA, fileB, full, bare, main, helper

MCFiles == <<fileA, fileB>>
MCDefs  == (full :> <<main, helper>>) @@ (bare :> <<>>)

\* index_files is also called with the first file alone.
MCLists == {<<fileA>>}

\* The processes are interchangeable.
MCProcs == Permutations({p1, p2})
=============================================================================
