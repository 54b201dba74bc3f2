---------------------------- MODULE MCFolderTree ----------------------------
(***************************************************************************)
(* A small tree for TLC: a chain of two folders, a file at the bottom.     *)
(***************************************************************************)
EXTENDS FolderTree, TLC

CONSTANTS d1, d2, f1, root

ChainUp == d1 :> root @@ d2 :> d1 @@ f1 :> d2
ChainName == d1 :> "x" @@ d2 :> "x" @@ f1 :> "x"

Symmetry == Permutations(Client) \cup Permutations(Worker)
=============================================================================
