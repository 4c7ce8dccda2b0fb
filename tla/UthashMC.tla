------------------------------ MODULE UthashMC ------------------------------
(***************************************************************************)
(* Instances of Uthash for TLC: a table that begins with one bucket and    *)
(* expands it at three elements.  The elements are alike but for their     *)
(* hashes, of which there are all assignments.                             *)
(***************************************************************************)
EXTENDS Uthash, UthashSort

Alike == Permutations(Elem)

(* HASH_SORT is a stable sort of lists of up to seven elements, whatever   *)
(* they are compared by.                                                   *)
ASSUME HASH_SRTSortsStably ==
  \A n \in 0..7 : \A key \in [1..n -> 0..2] :
    LET list == [i \in 1..n |-> i]
    IN StablySorted(list, key, HASH_SRT(list, key))
=============================================================================
