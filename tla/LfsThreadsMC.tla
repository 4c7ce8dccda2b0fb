----------------------------- MODULE LfsThreadsMC ----------------------------
(***************************************************************************)
(* Instances of LfsThreads for TLC.  Pieces of memory are alike; names are *)
(* but for their hashes, of which there are all assignments.               *)
(***************************************************************************)
EXTENDS LfsThreads

Alike == Permutations(Node)
=============================================================================
