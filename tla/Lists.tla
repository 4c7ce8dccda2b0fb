------------------------------- MODULE Lists -------------------------------
(***************************************************************************)
(* Taking members out of a list, and lists that are linked.                *)
(***************************************************************************)
EXTENDS Naturals, Sequences

(* The list s without the members of gone, in the same order.              *)
Without(s, gone) ==
  LET kept[n \in 0..Len(s)] ==
        IF n = 0 THEN <<>>
        ELSE IF s[n] \in gone THEN kept[n - 1]
        ELSE Append(kept[n - 1], s[n])
  IN kept[Len(s)]

(* The first len elements of the list that begins with head and goes on    *)
(* with what is next in link.                                              *)
Linked(head, link, len) ==
  LET nth[i \in 1..len] == IF i = 1 THEN head ELSE link[nth[i - 1]].next
  IN nth
=============================================================================
