----------------------------- MODULE UthashSort -----------------------------
(***************************************************************************)
(* HASH_SORT of uthash.h, a merge sort of the list of a hash table, as a   *)
(* function of the list and of the numbers its elements are compared by.   *)
(* lfs.c does not sort.                                                    *)
(***************************************************************************)
EXTENDS Naturals, Sequences

(* One merge: of equal elements the one of the first run goes first.       *)
Merged(first, second, key) ==
  LET Elems == {first[i] : i \in DOMAIN first} \union {second[i] : i \in DOMAIN second}
      merge[p \in Seq(Elems), q \in Seq(Elems)] ==
        IF p = <<>> THEN q
        ELSE IF q # <<>> /\ key[q[1]] < key[p[1]]
             THEN <<q[1]>> \o merge[p, Tail(q)]
             ELSE <<p[1]>> \o merge[Tail(p), q]
  IN merge[first, second]

(* Runs of n elements are merged in pairs, for n = 1, 2, 4, ..., until one *)
(* merge is left.  The last run may be short, or missing.                  *)
RunFrom(s, i, n) == SubSeq(s, i, IF i + n - 1 < Len(s) THEN i + n - 1 ELSE Len(s))

HASH_SRT(list, key) ==
  LET Elems == {list[i] : i \in DOMAIN list}
      pass[s \in Seq(Elems), i \in Nat, n \in Nat] ==
        IF i > Len(s) THEN <<>>
        ELSE Merged(RunFrom(s, i, n), RunFrom(s, i + n, n), key) \o pass[s, i + 2 * n, n]
      sort[s \in Seq(Elems), n \in Nat] ==
        IF Len(s) <= 2 * n THEN pass[s, 1, n] ELSE sort[pass[s, 1, n], 2 * n]
  IN sort[list, 1]

(* What a stable sort returns: the same elements, ordered by their keys    *)
(* and, where these are equal, by their places in the list.                *)
StablySorted(list, key, result) ==
  LET place(e) == CHOOSE i \in DOMAIN list : list[i] = e
  IN /\ Len(result) = Len(list)
     /\ {result[i] : i \in DOMAIN result} = {list[i] : i \in DOMAIN list}
     /\ \A j \in DOMAIN result : \A i \in 1..j - 1 :
          \/ key[result[i]] < key[result[j]]
          \/ /\ key[result[i]] = key[result[j]]
             /\ place(result[i]) < place(result[j])
=============================================================================
