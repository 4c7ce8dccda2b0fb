----------------------------- MODULE OrderedSet -----------------------------
(***************************************************************************)
(* What lfs.c relies on from its hash table of files: a set of elements    *)
(* that is iterated over in the order in which they were added.            *)
(***************************************************************************)
EXTENDS Naturals, Sequences, SequencesExt

CONSTANT Elem

VARIABLE items \* the elements, in the order of iteration

Init == items = <<>>

Add(e) ==
  /\ e \notin ToSet(items)
  /\ items' = Append(items, e)

Delete(e) ==
  \E i \in DOMAIN items : items[i] = e /\ items' = RemoveAt(items, i)

Next == \E e \in Elem : Add(e) \/ Delete(e)

Spec == Init /\ [][Next]_items
=============================================================================
