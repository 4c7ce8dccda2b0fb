---------------------------- MODULE UthashProofs ----------------------------
(***************************************************************************)
(* Theorems about Uthash: the list and the chains of the buckets are       *)
(* linked both ways and hold the same elements after any number of         *)
(* additions, deletions and expansions, for any hash function, and the     *)
(* table is the set in order of addition that OrderedSet describes.        *)
(***************************************************************************)
EXTENDS Uthash, ListProofs

-----------------------------------------------------------------------------
(* The doubly linked list, as a list.                                      *)

(* What is at place i of s, or NULL before its head and after its end.     *)
At(s, i) == IF i \in 1..Len(s) THEN s[i] ELSE NULL

(* The n elements of s are linked both ways, from hd to tl.                *)
ListOf(s, hd, tl, lk, n) ==
  /\ s \in Seq(Elem) /\ IsInjective(s) /\ Len(s) = n
  /\ hd = At(s, 1) /\ tl = At(s, n)
  /\ \A i \in 1..n : lk[s[i]].prev = At(s, i - 1) /\ lk[s[i]].next = At(s, i + 1)

(* The places of a list and what is there.                                 *)
LEMMA Places ==
  ASSUME NEW s \in Seq(Elem), IsInjective(s), NEW i \in Nat
  PROVE  /\ At(s, i) \in Ptr
         /\ At(s, i) = NULL <=> ~(i \in 1..Len(s))
         /\ \A j \in 1..Len(s) : At(s, i) = s[j] <=> i = j
<1>1. /\ Len(s) \in Nat /\ \A j \in 1..Len(s) : s[j] \in Elem
      /\ \A j, k \in 1..Len(s) : s[j] = s[k] => j = k
  BY Members
<1>2. NULL \notin Elem
  BY ConstantTypes
<1> QED BY <1>1, <1>2 DEF At, Ptr

(* The list of no elements.                                                *)
LEMMA ListEmpty ==
  ASSUME NEW lk
  PROVE  ListOf(<<>>, NULL, NULL, lk, 0)
<1>1. <<>> \in Seq(Elem) /\ Len(<<>>) = 0 /\ IsInjective(<<>>)
  BY DEF IsInjective
<1> QED BY <1>1 DEF ListOf, At

(* The list of one element.                                                *)
LEMMA ListFirst ==
  ASSUME NEW lk, NEW e \in Elem, lk[e] = Unlinked
  PROVE  ListOf(<<e>>, e, e, lk, 1)
<1> DEFINE s == <<e>>
<1>1. s \in Seq(Elem) /\ Len(s) = 1 /\ s[1] = e /\ DOMAIN s = 1..1
  OBVIOUS
<1> HIDE DEF s
<1>2. IsInjective(s)
  BY <1>1 DEF IsInjective
<1>3. At(s, 1) = e /\ At(s, 1 - 1) = NULL /\ At(s, 1 + 1) = NULL
  BY <1>1 DEF At
<1>4. lk[e].prev = NULL /\ lk[e].next = NULL
  BY DEF Unlinked
<1>5. ListOf(s, e, e, lk, 1)
  BY <1>1, <1>2, <1>3, <1>4 DEF ListOf
<1> QED BY <1>5 DEF s

(* The element e is linked behind the tail.                                *)
Links(e, tl, lk, lk2) ==
  /\ lk2[e].prev = tl /\ lk2[e].next = NULL
  /\ \A x \in Elem \ {e} : /\ lk2[x].prev = lk[x].prev
                           /\ lk2[x].next = IF x = tl THEN e ELSE lk[x].next

(* One more element, at the end of the list.                               *)
LEMMA ListMore ==
  ASSUME NEW s, NEW hd, NEW tl, NEW lk, NEW n, ListOf(s, hd, tl, lk, n), n # 0,
         NEW e \in Elem \ ToSet(s), NEW lk2, Links(e, tl, lk, lk2)
  PROVE  ListOf(Append(s, e), hd, e, lk2, n + 1)
<1> DEFINE t == Append(s, e)
<1>1. /\ s \in Seq(Elem) /\ IsInjective(s) /\ Len(s) = n
      /\ hd = At(s, 1) /\ tl = At(s, n)
      /\ \A i \in 1..n : /\ lk[s[i]].prev = At(s, i - 1)
                         /\ lk[s[i]].next = At(s, i + 1)
  BY DEF ListOf
<1>2. /\ n \in Nat
      /\ \A i \in 1..n : s[i] \in Elem \ {e}
      /\ \A i, j \in 1..n : s[i] = s[j] => i = j
  BY <1>1, Members
<1>3. t \in Seq(Elem) /\ IsInjective(t) /\ Len(t) = n + 1
  BY <1>1, AppendMembers
<1>4. t[n + 1] = e /\ \A i \in 1..n : t[i] = s[i]
  BY <1>1, AppendProperties
<1> HIDE DEF t
<1>5. ASSUME NEW i \in Nat PROVE At(t, i) = IF i = n + 1 THEN e ELSE At(s, i)
  BY <1>1, <1>2, <1>3, <1>4 DEF At
<1>6. hd = At(t, 1) /\ e = At(t, n + 1)
  BY <1>1, <1>2, <1>5
<1>7. tl = s[n] /\ n \in 1..n
  BY <1>1, <1>2 DEF At
<1>8. ASSUME NEW i \in 1..n + 1
      PROVE  lk2[t[i]].prev = At(t, i - 1) /\ lk2[t[i]].next = At(t, i + 1)
  <2>1. CASE i = n + 1
    <3>1. At(t, n) = tl
      BY <1>1, <1>2, <1>5
    <3>2. At(t, n + 2) = NULL
      BY <1>2, <1>3 DEF At
    <3>3. i - 1 = n /\ i + 1 = n + 2
      BY <1>2, <2>1
    <3> QED BY <1>4, <2>1, <3>1, <3>2, <3>3 DEF Links
  <2>2. CASE i \in 1..n
    <3>1. t[i] = s[i] /\ s[i] \in Elem \ {e}
      BY <1>2, <1>4, <2>2
    <3>2. /\ lk2[s[i]].prev = At(s, i - 1)
          /\ lk2[s[i]].next = IF s[i] = tl THEN e ELSE At(s, i + 1)
      BY <1>1, <2>2, <3>1 DEF Links
    <3>3. s[i] = tl <=> i = n
      BY <1>2, <1>7, <2>2
    <3>4. At(t, i - 1) = At(s, i - 1)
      BY <1>2, <1>5, <2>2
    <3>5. At(t, i + 1) = IF i = n THEN e ELSE At(s, i + 1)
      BY <1>2, <1>5, <2>2
    <3> QED BY <3>1, <3>2, <3>3, <3>4, <3>5
  <2> QED BY <1>2, <2>1, <2>2
<1>9. ListOf(t, hd, e, lk2, n + 1)
  BY <1>3, <1>6, <1>8 DEF ListOf
<1> QED BY <1>9 DEF t

(* The neighbours of e are linked to each other.                           *)
Unlinks(e, hd, tl, lk, hd2, tl2, lk2) ==
  /\ tl2 = IF e = tl THEN lk[e].prev ELSE tl
  /\ hd2 = IF lk[e].prev = NULL THEN lk[e].next ELSE hd
  /\ \A x \in Elem \ {e} :
       /\ lk2[x].prev = IF x = lk[e].next THEN lk[e].prev ELSE lk[x].prev
       /\ lk2[x].next = IF x = lk[e].prev THEN lk[e].next ELSE lk[x].next

(* One element less.                                                       *)
LEMMA ListLess ==
  ASSUME NEW s, NEW hd, NEW tl, NEW lk, NEW n, ListOf(s, hd, tl, lk, n),
         NEW e \in ToSet(s), NEW hd2, NEW tl2, NEW lk2,
         Unlinks(e, hd, tl, lk, hd2, tl2, lk2)
  PROVE  ListOf(Without(s, {e}), hd2, tl2, lk2, n - 1)
<1> DEFINE t == Without(s, {e})
<1>1. /\ s \in Seq(Elem) /\ IsInjective(s) /\ Len(s) = n
      /\ hd = At(s, 1) /\ tl = At(s, n)
      /\ \A i \in 1..n : /\ lk[s[i]].prev = At(s, i - 1)
                         /\ lk[s[i]].next = At(s, i + 1)
  BY DEF ListOf
<1>2. PICK k \in 1..n : s[k] = e
  BY <1>1, Members
<1>3. /\ n \in Nat
      /\ \A i \in 1..n : s[i] \in Elem /\ (s[i] = e <=> i = k)
  BY <1>1, <1>2, Members
<1>4. /\ t \in Seq(Elem) /\ IsInjective(t) /\ Len(t) = n - 1
      /\ \A i \in 1..n - 1 : t[i] = IF i < k THEN s[i] ELSE s[i + 1]
  BY <1>1, <1>2, WithoutMembers, WithoutOne
<1> HIDE DEF t
<1>5. ASSUME NEW i \in Nat
      PROVE  At(t, i) = IF i < k THEN At(s, i) ELSE At(s, i + 1)
  <2>1. CASE i \in 1..n - 1
    BY <1>1, <1>2, <1>3, <1>4, <2>1 DEF At
  <2>2. CASE i \notin 1..n - 1
    <3>1. At(t, i) = NULL
      BY <1>4, <2>2 DEF At
    <3>2. CASE i < k
      <4>1. i \notin 1..n
        BY <1>2, <1>3, <2>2, <3>2
      <4> QED BY <1>1, <3>1, <3>2, <4>1 DEF At
    <3>3. CASE ~(i < k)
      <4>1. i + 1 \notin 1..n
        BY <1>2, <1>3, <2>2, <3>3
      <4> QED BY <1>1, <3>1, <3>3, <4>1 DEF At
    <3> QED BY <3>2, <3>3
  <2> QED BY <2>1, <2>2
<1>6. /\ lk[e].prev = At(s, k - 1) /\ lk[e].next = At(s, k + 1)
      /\ k - 1 \in Nat /\ k + 1 \in Nat
  BY <1>1, <1>2, <1>3
<1>7. ASSUME NEW j \in 1..n
      PROVE  /\ s[j] = lk[e].next <=> j = k + 1
             /\ s[j] = lk[e].prev <=> j = k - 1
  <2>1. At(s, k + 1) = s[j] <=> k + 1 = j
    BY <1>1, <1>6, Places
  <2>2. At(s, k - 1) = s[j] <=> k - 1 = j
    BY <1>1, <1>6, Places
  <2> QED BY <1>6, <2>1, <2>2
<1>8. hd2 = At(t, 1)
  <2>1. lk[e].prev = NULL <=> k = 1
    <3>1. At(s, k - 1) = NULL <=> ~(k - 1 \in 1..n)
      BY <1>1, <1>6, Places
    <3> QED BY <1>2, <1>3, <1>6, <3>1
  <2>2. At(t, 1) = IF 1 < k THEN At(s, 1) ELSE At(s, 2)
    BY <1>5
  <2> QED BY <1>1, <1>2, <1>3, <1>6, <2>1, <2>2 DEF Unlinks
<1>9. tl2 = At(t, n - 1)
  <2>1. e = tl <=> k = n
    BY <1>1, <1>2, <1>3 DEF At
  <2>2. At(t, n - 1) = IF n - 1 < k THEN At(s, n - 1) ELSE At(s, n)
    <3>1. n - 1 \in Nat /\ (n - 1) + 1 = n
      BY <1>2, <1>3
    <3> QED BY <1>5, <3>1
  <2>3. n - 1 < k <=> k = n
    BY <1>2, <1>3
  <2> QED BY <1>1, <1>6, <2>1, <2>2, <2>3 DEF Unlinks
<1>10. ASSUME NEW i \in 1..n - 1
       PROVE  lk2[t[i]].prev = At(t, i - 1) /\ lk2[t[i]].next = At(t, i + 1)
  <2> DEFINE j == IF i < k THEN i ELSE i + 1
  <2>1. j \in 1..n /\ t[i] = s[j] /\ j # k
    BY <1>2, <1>3, <1>4
  <2>2. /\ s[j] \in Elem \ {e}
        /\ lk[s[j]].prev = At(s, j - 1) /\ lk[s[j]].next = At(s, j + 1)
    <3> HIDE DEF j
    <3> QED BY <1>1, <1>3, <2>1
  <2>3. /\ lk2[s[j]].prev = IF j = k + 1 THEN At(s, k - 1) ELSE At(s, j - 1)
        /\ lk2[s[j]].next = IF j = k - 1 THEN At(s, k + 1) ELSE At(s, j + 1)
    <3> HIDE DEF j
    <3> QED BY <1>6, <1>7, <2>1, <2>2 DEF Unlinks
  <2>4. At(t, i - 1) = IF i - 1 < k THEN At(s, i - 1) ELSE At(s, i)
    <3>1. i - 1 \in Nat /\ (i - 1) + 1 = i
      BY <1>3
    <3> QED BY <1>5, <3>1
  <2>5. At(t, i + 1) = IF i + 1 < k THEN At(s, i + 1) ELSE At(s, i + 2)
    <3>1. i + 1 \in Nat /\ (i + 1) + 1 = i + 2
      BY <1>3
    <3> QED BY <1>5, <3>1
  <2>6. CASE i < k
    <3>1. j = i /\ i - 1 < k /\ j # k + 1 /\ (j = k - 1 <=> ~(i + 1 < k))
      BY <1>2, <1>3, <2>6
    <3>2. j = k - 1 => k + 1 = i + 2
      BY <1>2, <1>3, <3>1
    <3> HIDE DEF j
    <3> QED BY <2>1, <2>3, <2>4, <2>5, <3>1, <3>2
  <2>7. CASE ~(i < k)
    <3>1. j = i + 1 /\ j # k - 1 /\ ~(i + 1 < k) /\ (j = k + 1 <=> i - 1 < k)
      BY <1>2, <1>3, <2>7
    <3>2. /\ j - 1 = i /\ j + 1 = i + 2
          /\ j = k + 1 => k - 1 = i - 1
      BY <1>2, <1>3, <3>1
    <3> HIDE DEF j
    <3> QED BY <2>1, <2>3, <2>4, <2>5, <3>1, <3>2
  <2> QED BY <2>6, <2>7
<1>11. ListOf(t, hd2, tl2, lk2, n - 1)
  BY <1>4, <1>8, <1>9, <1>10 DEF ListOf
<1> QED BY <1>11 DEF t

(* Following the links gives the list.                                     *)
LEMMA ListIs ==
  ASSUME NEW s, NEW hd, NEW tl, NEW lk, NEW n, ListOf(s, hd, tl, lk, n)
  PROVE  Followed(hd, lk) = s
<1> DEFINE orNull == [p \in Ptr |-> IF p = NULL THEN Unlinked ELSE lk[p]]
           N == Cardinality(Elem) + 1
           met == Linked(hd, orNull, N)
           I == {i \in Nat : i + 1 <= N => met[i + 1] = At(s, i + 1)}
<1>1. /\ s \in Seq(Elem) /\ IsInjective(s) /\ Len(s) = n /\ hd = At(s, 1)
      /\ \A i \in 1..n : lk[s[i]].next = At(s, i + 1)
  BY DEF ListOf
<1>2. n \in Nat /\ \A i \in 1..n : s[i] \in Elem
  BY <1>1, Members
<1>3. N \in Nat /\ n < N
  <2>1. Cardinality(Elem) \in Nat /\ n <= Cardinality(Elem)
    BY <1>1, ConstantTypes, LenOfDifferent, FS_CardinalityType
  <2> QED BY <1>2, <2>1
<1>4. \A i \in Nat : At(s, i) \in Ptr /\ (At(s, i) = NULL <=> ~(i \in 1..n))
  BY <1>1, Places
<1>5. ASSUME NEW i \in Nat, i # 0 PROVE orNull[At(s, i)].next = At(s, i + 1)
  <2>1. CASE i \in 1..n
    <3>1. At(s, i) = s[i] /\ s[i] \in Ptr /\ s[i] # NULL
      BY <1>1, <1>4, <2>1 DEF At
    <3> QED BY <1>1, <2>1, <3>1
  <2>2. CASE i \notin 1..n
    <3>1. i + 1 \in Nat /\ i + 1 \notin 1..n
      BY <1>2, <1>5, <2>2
    <3>2. At(s, i) = NULL /\ At(s, i + 1) = NULL
      BY <1>4, <2>2, <3>1
    <3> QED BY <3>2 DEF Unlinked, Ptr
  <2> QED BY <2>1, <2>2
<1> HIDE DEF N, orNull
<1>6. /\ DOMAIN met = 1..N
      /\ \A i \in 1..N : met[i] = IF i = 1 THEN hd ELSE orNull[met[i - 1]].next
  BY <1>3, LinkedFollows
<1> HIDE DEF met
<1>7. 0 \in I
  BY <1>1, <1>3, <1>6
<1>8. ASSUME NEW i \in I PROVE i + 1 \in I
  <2> SUFFICES ASSUME (i + 1) + 1 <= N PROVE met[(i + 1) + 1] = At(s, (i + 1) + 1)
    OBVIOUS
  <2>1. met[i + 1] = At(s, i + 1)
    BY <1>3
  <2>2. met[(i + 1) + 1] = orNull[met[i + 1]].next
    <3>1. (i + 1) + 1 \in 1..N /\ (i + 1) + 1 # 1 /\ ((i + 1) + 1) - 1 = i + 1
      BY <1>3
    <3> QED BY <1>6, <3>1
  <2>3. i + 1 \in Nat /\ i + 1 # 0
    OBVIOUS
  <2> QED BY <1>5, <2>1, <2>2, <2>3
<1>9. ASSUME NEW i \in 1..N PROVE met[i] = At(s, i)
  <2>1. i - 1 \in Nat /\ (i - 1) + 1 = i
    OBVIOUS
  <2>2. i - 1 \in I
    <3> HIDE DEF I
    <3>1. I \in SUBSET Nat
      BY DEF I
    <3>2. I = Nat
      BY <1>7, <1>8, <3>1, Induction
    <3> QED BY <2>1, <3>2
  <2> QED BY <1>3, <2>1, <2>2
<1>10. {i \in DOMAIN met : met[i] # NULL} = 1..n
  BY <1>2, <1>3, <1>4, <1>6, <1>9
<1>11. Cardinality({i \in DOMAIN met : met[i] # NULL}) = n
  <2>1. Cardinality(1..n) = IF 1 > n THEN 0 ELSE n - 1 + 1
    <3>1. 1 \in Int /\ n \in Int
      BY <1>2
    <3> QED BY <3>1, FS_Interval
  <2>2. Cardinality(1..n) = n
    BY <1>2, <2>1
  <2> QED BY <1>10, <2>2
<1>12. \A i \in 1..n : met[i] = s[i] /\ met[i] \in Elem
  BY <1>1, <1>2, <1>3, <1>9 DEF At
<1>13. SubSeq(met, 1, n) = s
  <2>1. /\ SubSeq(met, 1, n) \in Seq(Elem) /\ Len(SubSeq(met, 1, n)) = n
        /\ \A i \in 1..n : SubSeq(met, 1, n)[i] = met[i]
    <3>1. /\ SubSeq(met, 1, n) \in Seq(Elem)
          /\ Len(SubSeq(met, 1, n)) = IF 1 <= n THEN n - 1 + 1 ELSE 0
          /\ \A i \in 1..n - 1 + 1 : SubSeq(met, 1, n)[i] = met[1 + i - 1]
      <4>1. 1 \in Int /\ n \in Int
        BY <1>2
      <4> QED BY <1>12, <4>1, SubSeqProperties
    <3> QED BY <1>2, <3>1
  <2> QED BY <1>1, <1>12, <2>1, SeqEqual
<1> QED BY <1>11, <1>13 DEF Followed, met, orNull, N

(* The links of other elements are of no account.                          *)
LEMMA ListSame ==
  ASSUME NEW s, NEW hd, NEW tl, NEW lk, NEW n, ListOf(s, hd, tl, lk, n),
         NEW lk2, \A x \in ToSet(s) : lk2[x] = lk[x]
  PROVE  ListOf(s, hd, tl, lk2, n)
<1>1. s \in Seq(Elem) /\ Len(s) = n
  BY DEF ListOf
<1>2. \A i \in 1..n : s[i] \in ToSet(s)
  BY <1>1, Members
<1> QED BY <1>2 DEF ListOf

(* What is linked before the first of a chain.                             *)
LEMMA PushedLinks ==
  ASSUME NEW lk \in [Elem -> Link], NEW e \in Elem, NEW hd \in Ptr, hd # e
  PROVE  /\ Pushed(lk, e, hd) \in [Elem -> Link]
         /\ \A x \in Elem :
              /\ Pushed(lk, e, hd)[x].prev = IF x = e THEN NULL
                                             ELSE IF x = hd THEN e ELSE lk[x].prev
              /\ Pushed(lk, e, hd)[x].next = IF x = e THEN hd ELSE lk[x].next
              /\ x # e /\ x # hd => Pushed(lk, e, hd)[x] = lk[x]
<1> DEFINE l == [prev |-> NULL, next |-> hd]
           first == [lk EXCEPT ![e] = l]
<1>1. l \in Link /\ l.prev = NULL /\ l.next = hd
  BY DEF Link, Ptr
<1> HIDE DEF l
<1>2. /\ first \in [Elem -> Link] /\ first[e] = l
      /\ \A x \in Elem : x # e => first[x] = lk[x]
  BY <1>1
<1> HIDE DEF first
<1>3. CASE hd = NULL
  <2>1. Pushed(lk, e, hd) = first
    BY <1>3 DEF Pushed, first, l
  <2> QED BY <1>1, <1>2, <1>3, <2>1, ConstantTypes
<1>4. CASE hd # NULL
  <2> DEFINE h == [first[hd] EXCEPT !.prev = e]
  <2>1. hd \in Elem
    BY <1>4 DEF Ptr
  <2>2. Pushed(lk, e, hd) = [first EXCEPT ![hd] = h]
    BY <1>4 DEF Pushed, first, l
  <2>3. h \in Link /\ h.prev = e /\ h.next = first[hd].next
    BY <1>2, <2>1 DEF Link, Ptr
  <2> HIDE DEF h
  <2> QED BY <1>1, <1>2, <2>1, <2>2, <2>3
<1> QED BY <1>3, <1>4

(* One more element, at the head of the list.                              *)
LEMMA ListPushed ==
  ASSUME NEW s, NEW hd, NEW lk \in [Elem -> Link], NEW n,
         ListOf(s, hd, At(s, n), lk, n), NEW e \in Elem \ ToSet(s)
  PROVE  ListOf(<<e>> \o s, e, At(<<e>> \o s, n + 1), Pushed(lk, e, hd), n + 1)
<1> DEFINE t == <<e>> \o s
           lk2 == Pushed(lk, e, hd)
<1>1. /\ s \in Seq(Elem) /\ IsInjective(s) /\ Len(s) = n /\ hd = At(s, 1)
      /\ \A i \in 1..n : /\ lk[s[i]].prev = At(s, i - 1)
                         /\ lk[s[i]].next = At(s, i + 1)
  BY DEF ListOf
<1>2. n \in Nat /\ \A i \in 1..n : s[i] \in Elem /\ s[i] # e
  BY <1>1, Members
<1>3. /\ t \in Seq(Elem) /\ IsInjective(t) /\ Len(t) = n + 1
      /\ t[1] = e /\ \A i \in 1..n : t[i + 1] = s[i]
  BY <1>1, Prepended
<1> HIDE DEF t
<1>4. \A i \in Nat : /\ At(t, i + 1) = IF i = 0 THEN e ELSE At(s, i)
                     /\ At(t, 0) = NULL
  <2> TAKE i \in Nat
  <2>1. At(t, 0) = NULL
    BY DEF At
  <2>2. At(t, i + 1) = IF i = 0 THEN e ELSE At(s, i)
    BY <1>1, <1>2, <1>3 DEF At
  <2> QED BY <2>1, <2>2
<1>5. hd \in Ptr /\ \A j \in 1..n : hd = s[j] <=> j = 1
  BY <1>1, Places
<1>6. hd # e
  BY <1>1, <1>2, ConstantTypes DEF At
<1>7. \A x \in Elem : /\ lk2[x].prev = IF x = e THEN NULL
                                       ELSE IF x = hd THEN e ELSE lk[x].prev
                      /\ lk2[x].next = IF x = e THEN hd ELSE lk[x].next
  BY <1>5, <1>6, PushedLinks
<1> HIDE DEF lk2
<1>8. ASSUME NEW i \in 1..n + 1
      PROVE  lk2[t[i]].prev = At(t, i - 1) /\ lk2[t[i]].next = At(t, i + 1)
  <2>1. CASE i = 1
    <3>1. At(t, i - 1) = NULL /\ At(t, i + 1) = hd
      <4>1. 1 \in Nat /\ 1 # 0
        OBVIOUS
      <4> QED BY <1>1, <1>4, <2>1, <4>1
    <3> QED BY <1>3, <1>7, <2>1, <3>1
  <2>2. CASE i # 1
    <3> DEFINE j == i - 1
    <3>1. j \in 1..n /\ i = j + 1 /\ j \in Nat /\ j # 0
      BY <1>2, <2>2
    <3>2. t[i] = s[j] /\ s[j] \in Elem /\ s[j] # e
      <4> HIDE DEF j
      <4> QED BY <1>2, <1>3, <3>1
    <3>3. At(t, i - 1) = IF j = 1 THEN e ELSE At(s, j - 1)
      <4>1. j - 1 \in Nat /\ i - 1 = (j - 1) + 1
        BY <3>1
      <4> QED BY <1>4, <4>1
    <3>4. At(t, i + 1) = At(s, j + 1)
      <4>1. i \in Nat /\ i # 0 /\ i = j + 1
        BY <3>1
      <4> QED BY <1>4, <4>1
    <3> HIDE DEF j
    <3>5. hd = s[j] <=> j = 1
      BY <1>5, <3>1
    <3> QED BY <1>1, <1>7, <3>1, <3>2, <3>3, <3>4, <3>5
  <2> QED BY <2>1, <2>2
<1>9. e = At(t, 1)
  BY <1>2, <1>3 DEF At
<1>10. ListOf(t, e, At(t, n + 1), lk2, n + 1)
  BY <1>3, <1>8, <1>9 DEF ListOf
<1> QED BY <1>10 DEF t, lk2

(* The recursion of Pushes() has a solution, which Pushes() follows.       *)
LEMMA PushesFollows ==
  ASSUME NEW lk, NEW S, NEW s \in Seq(S)
  PROVE  \E k : /\ \A i \in 0..Len(s) :
                     k[i] = IF i = 0 THEN lk
                            ELSE Pushed(k[i - 1], s[i], IF i = 1 THEN NULL ELSE s[i - 1])
                /\ Pushes(lk, s) = k[Len(s)]
<1> DEFINE Following(k, i) ==
             IF i = 0 THEN lk
             ELSE Pushed(k[i - 1], s[i], IF i = 1 THEN NULL ELSE s[i - 1])
           I == {m \in Nat : \E g : g = [i \in 0..m |-> Following(g, i)]}
<1>1. 0 \in I
  <2> DEFINE g == [i \in 0..0 |-> lk]
  <2>1. g = [i \in 0..0 |-> Following(g, i)]
    OBVIOUS
  <2> QED BY <2>1
<1>2. ASSUME NEW m \in I PROVE m + 1 \in I
  <2>1. PICK g : g = [i \in 0..m |-> Following(g, i)]
    OBVIOUS
  <2> DEFINE h == [i \in 0..m + 1 |-> IF i <= m THEN g[i] ELSE Following(g, i)]
  <2> HIDE DEF Following
  <2>2. \A i \in 0..m + 1 : h[i] = IF i <= m THEN g[i] ELSE Following(g, i)
    OBVIOUS
  <2>3. \A i \in 0..m + 1 : Following(h, i) = Following(g, i)
    <3> TAKE i \in 0..m + 1
    <3>1. CASE i = 0
      BY <3>1 DEF Following
    <3>2. CASE i # 0
      <4>1. i - 1 \in 0..m + 1 /\ i - 1 <= m
        BY <3>2
      <4>2. h[i - 1] = g[i - 1]
        BY <4>1, <2>2
      <4> QED BY <4>2 DEF Following
    <3> QED BY <3>1, <3>2
  <2>4. \A i \in 0..m : g[i] = Following(g, i)
    BY <2>1
  <2>5. \A i \in 0..m + 1 : h[i] = Following(h, i)
    BY <2>2, <2>3, <2>4
  <2>6. h = [i \in 0..m + 1 |-> Following(h, i)]
    BY <2>5
  <2> HIDE DEF h
  <2> QED BY <2>6
<1>3. I = Nat
  <2> HIDE DEF I
  <2>1. I \in SUBSET Nat
    BY DEF I
  <2> QED BY <1>1, <1>2, <2>1, Induction
<1>4. Len(s) \in Nat
  BY LenProperties
<1>5. \E g : g = [i \in 0..Len(s) |-> Following(g, i)]
  BY <1>3, <1>4
<1> DEFINE k == CHOOSE g : g = [i \in 0..Len(s) |-> Following(g, i)]
<1>6. k = [i \in 0..Len(s) |-> Following(k, i)]
  BY <1>5
<1>7. Pushes(lk, s) = k[Len(s)]
  BY DEF Pushes
<1> HIDE DEF k
<1>8. \A i \in 0..Len(s) : k[i] = Following(k, i)
  BY <1>6
<1> QED BY <1>7, <1>8

(* Put at the head of a chain one by one, the elements of s are linked in  *)
(* the other order.                                                        *)
LEMMA PushesLinks ==
  ASSUME NEW lk \in [Elem -> Link], NEW s \in Seq(Elem), IsInjective(s)
  PROVE  /\ Pushes(lk, s) \in [Elem -> Link]
         /\ \A j \in 1..Len(s) : /\ Pushes(lk, s)[s[j]].prev = At(s, j + 1)
                                 /\ Pushes(lk, s)[s[j]].next = At(s, j - 1)
<1> DEFINE Done(f, i) ==
             /\ f \in [Elem -> Link]
             /\ \A j \in 1..i : /\ f[s[j]].prev = IF j = i THEN NULL ELSE s[j + 1]
                                /\ f[s[j]].next = At(s, j - 1)
<1>1. PICK k : /\ \A i \in 0..Len(s) :
                    k[i] = IF i = 0 THEN lk
                           ELSE Pushed(k[i - 1], s[i], IF i = 1 THEN NULL ELSE s[i - 1])
               /\ Pushes(lk, s) = k[Len(s)]
  BY PushesFollows
<1> DEFINE I == {i \in Nat : i <= Len(s) => Done(k[i], i)}
<1>2. /\ Len(s) \in Nat
      /\ \A i \in 1..Len(s) : s[i] \in Elem
      /\ \A i, j \in 1..Len(s) : s[i] = s[j] => i = j
  BY Members
<1>3. 0 \in I
  <2>1. k[0] = lk
    BY <1>1, <1>2
  <2> QED BY <2>1
<1>4. ASSUME NEW i \in I PROVE i + 1 \in I
  <2> SUFFICES ASSUME i + 1 <= Len(s) PROVE Done(k[i + 1], i + 1)
    OBVIOUS
  <2> DEFINE f == k[i]
             e == s[i + 1]
             hd == At(s, i)
  <2>1. Done(f, i)
    BY <1>2
  <2>2. k[i + 1] = Pushed(f, e, hd)
    <3>1. /\ i + 1 \in 0..Len(s) /\ i + 1 # 0 /\ (i + 1) - 1 = i
          /\ (i + 1 = 1 <=> i = 0)
      BY <1>2
    <3>2. hd = IF i = 0 THEN NULL ELSE s[i]
      BY <1>2 DEF At
    <3> QED BY <1>1, <3>1, <3>2
  <2>3. e \in Elem /\ \A j \in 1..i : s[j] # e /\ s[j] \in Elem
    BY <1>2
  <2>4. hd \in Ptr /\ hd # e /\ \A j \in 1..i : s[j] = hd <=> j = i
    <3>1. hd \in Ptr /\ \A j \in 1..Len(s) : hd = s[j] <=> i = j
      BY Places
    <3> QED BY <1>2, <3>1
  <2>5. /\ k[i + 1] \in [Elem -> Link]
        /\ \A x \in Elem : /\ k[i + 1][x].prev = IF x = e THEN NULL
                                                 ELSE IF x = hd THEN e ELSE f[x].prev
                           /\ k[i + 1][x].next = IF x = e THEN hd ELSE f[x].next
    <3> HIDE DEF f, e, hd
    <3> QED BY <2>1, <2>2, <2>3, <2>4, PushedLinks
  <2>6. ASSUME NEW j \in 1..i + 1
        PROVE  /\ k[i + 1][s[j]].prev = IF j = i + 1 THEN NULL ELSE s[j + 1]
               /\ k[i + 1][s[j]].next = At(s, j - 1)
    <3>1. CASE j = i + 1
      <4>1. s[j] = e /\ At(s, j - 1) = hd
        BY <3>1
      <4> HIDE DEF e, hd
      <4> QED BY <2>3, <2>5, <3>1, <4>1
    <3>2. CASE j \in 1..i
      <4>1. j # i + 1 /\ (j = i => s[j + 1] = e)
        BY <3>2
      <4> HIDE DEF f, e, hd
      <4> QED BY <2>1, <2>3, <2>4, <2>5, <3>2, <4>1
    <3> QED BY <3>1, <3>2
  <2> QED BY <2>5, <2>6
<1>5. Done(Pushes(lk, s), Len(s))
  <2>1. Len(s) \in I
    <3> HIDE DEF I
    <3>1. I \in SUBSET Nat
      BY DEF I
    <3> QED BY <1>2, <1>3, <1>4, <3>1, Induction
  <2> QED BY <1>1, <1>2, <2>1
<1>6. \A j \in 1..Len(s) : At(s, j + 1) = IF j = Len(s) THEN NULL ELSE s[j + 1]
  BY <1>2 DEF At
<1> QED BY <1>5, <1>6

-----------------------------------------------------------------------------
(* The chains.                                                             *)

(* The elements of s are linked both ways in the chain of the bucket k.    *)
Chained(s, k, ch) == ListOf(s, k.hh_head, At(s, k.count), ch, k.count)

(* The buckets bs, of which there are 2^l, hold each element of T in the   *)
(* chain of its hash value, once, and count them.                          *)
Filled(bs, ch, l, T, h) ==
  /\ bs \in [Index(l) -> Bucket]
  /\ ch \in [Elem -> Link]
  /\ \A b \in Index(l) :
       \E s : Chained(s, bs[b], ch) /\ ToSet(s) = {e \in T : ToBucket(h[e], l) = b}

(* What is said of each chain.                                             *)
LEMMA ChainedParts ==
  ASSUME NEW s, NEW k, NEW ch, Chained(s, k, ch)
  PROVE  /\ s \in Seq(Elem) /\ IsInjective(s) /\ Len(s) = k.count /\ k.count \in Nat
         /\ k.hh_head = At(s, 1) /\ k.hh_head \in Ptr
         /\ k.hh_head # NULL => k.hh_head \in ToSet(s)
         /\ Followed(k.hh_head, ch) = s
<1>1. /\ s \in Seq(Elem) /\ IsInjective(s) /\ Len(s) = k.count
      /\ k.hh_head = At(s, 1)
  BY DEF Chained, ListOf
<1>2. k.count \in Nat
  BY <1>1, LenProperties
<1>3. Followed(k.hh_head, ch) = s
  BY ListIs DEF Chained
<1>4. k.hh_head \in Ptr
  BY <1>1, Places
<1>5. k.hh_head # NULL => k.hh_head \in ToSet(s)
  <2>1. k.hh_head # NULL => 1 \in 1..Len(s) /\ k.hh_head = s[1]
    BY <1>1 DEF At
  <2> QED BY <1>1, <2>1, Members
<1> QED BY <1>1, <1>2, <1>3, <1>4, <1>5

(* The buckets of a new table.                                             *)
LEMMA FilledEmpty ==
  ASSUME NEW l \in Nat, NEW h, NEW ch \in [Elem -> Link]
  PROVE  Filled([b \in Index(l) |-> EmptyBucket], ch, l, {}, h)
<1>1. EmptyBucket \in Bucket
  BY DEF EmptyBucket, Bucket, Ptr
<1>2. Chained(<<>>, EmptyBucket, ch)
  <2>1. ListOf(<<>>, NULL, NULL, ch, 0)
    BY ListEmpty
  <2>2. At(<<>>, 0) = NULL
    BY DEF At
  <2> QED BY <2>1, <2>2 DEF Chained, EmptyBucket
<1>3. ToSet(<<>>) = {}
  BY DEF ToSet
<1> QED BY <1>1, <1>2, <1>3 DEF Filled

(* The members of a bucket.                                                *)
LEMMA BucketParts ==
  ASSUME NEW k \in Bucket
  PROVE  k.hh_head \in Ptr /\ k.count \in Nat /\ k.expand_mult \in Nat
BY DEF Bucket

(* The buckets with the head p and the count n for bucket b.               *)
Rechain(bs, b, p, n) == [bs EXCEPT ![b].hh_head = p, ![b].count = n]

(* One bucket has another chain then.                                      *)
LEMMA Rechained ==
  ASSUME NEW I, NEW bs \in [I -> Bucket], NEW b \in I, NEW p \in Ptr, NEW n \in Nat
  PROVE  /\ Rechain(bs, b, p, n) \in [I -> Bucket]
         /\ Rechain(bs, b, p, n)[b].hh_head = p
         /\ Rechain(bs, b, p, n)[b].count = n
         /\ \A a \in I : a # b => Rechain(bs, b, p, n)[a] = bs[a]
<1> DEFINE new == Rechain(bs, b, p, n)
<1>0. new = [bs EXCEPT ![b].hh_head = p, ![b].count = n]
  BY DEF Rechain
<1> HIDE DEF new
<1>1. new[b] = [hh_head |-> p, count |-> n, expand_mult |-> bs[b].expand_mult]
  BY <1>0 DEF Bucket
<1>2. \A a \in I : a # b => new[a] = bs[a]
  BY <1>0
<1>3. new = [a \in I |-> new[a]]
  BY <1>0
<1>4. new[b] \in Bucket
  BY <1>1, BucketParts DEF Bucket
<1>5. \A a \in I : new[a] \in Bucket
  BY <1>2, <1>4
<1>6. new \in [I -> Bucket]
  BY <1>3, <1>5
<1> QED BY <1>1, <1>2, <1>6 DEF new

(* The elements of the bucket b, which has one chain.                      *)
InBucket(T, h, l, b) == {e \in T : ToBucket(h[e], l) = b}

(* A chain of the table.                                                   *)
LEMMA ChainIn ==
  ASSUME NEW bs, NEW ch, NEW l, NEW T, NEW h, Filled(bs, ch, l, T, h),
         NEW b \in Index(l)
  PROVE  \E s : Chained(s, bs[b], ch) /\ ToSet(s) = InBucket(T, h, l, b)
BY DEF Filled, InBucket

(* One more element, at the head of its chain.                             *)
LEMMA FilledMore ==
  ASSUME NEW l \in Nat, NEW T, NEW h, NEW bs, NEW ch, Filled(bs, ch, l, T, h),
         NEW e \in Elem \ T, h[e] \in Nat,
         NEW b, b = ToBucket(h[e], l),
         NEW added, added = [bs EXCEPT ![b].hh_head = e, ![b].count = @ + 1]
  PROVE  Filled(added, Pushed(ch, e, bs[b].hh_head), l, T \union {e}, h)
<1> DEFINE hd == bs[b].hh_head
           ch2 == Pushed(ch, e, hd)
<1>1. b \in Index(l)
  BY BucketTypes
<1>2. bs \in [Index(l) -> Bucket] /\ ch \in [Elem -> Link]
  BY DEF Filled
<1>3. PICK c : Chained(c, bs[b], ch) /\ ToSet(c) = InBucket(T, h, l, b)
  BY <1>1, ChainIn
<1>4. /\ c \in Seq(Elem) /\ Len(c) = bs[b].count /\ bs[b].count \in Nat
      /\ hd \in Ptr /\ (hd # NULL => hd \in ToSet(c))
  BY <1>3, ChainedParts
<1>5. e \notin ToSet(c) /\ hd # e
  BY <1>3, <1>4, ConstantTypes DEF InBucket
<1>6. /\ ch2 \in [Elem -> Link]
      /\ \A x \in Elem : x # e /\ x # hd => ch2[x] = ch[x]
  BY <1>2, <1>4, <1>5, PushedLinks
<1>7. /\ added \in [Index(l) -> Bucket]
      /\ added[b].hh_head = e /\ added[b].count = bs[b].count + 1
      /\ \A a \in Index(l) : a # b => added[a] = bs[a]
  <2> DEFINE n == bs[b].count + 1
  <2>1. added = Rechain(bs, b, e, n)
    BY DEF Rechain
  <2>2. n \in Nat /\ e \in Ptr
    BY <1>4 DEF Ptr
  <2> HIDE DEF n
  <2>3. /\ Rechain(bs, b, e, n) \in [Index(l) -> Bucket]
        /\ Rechain(bs, b, e, n)[b].hh_head = e
        /\ Rechain(bs, b, e, n)[b].count = n
        /\ \A a \in Index(l) : a # b => Rechain(bs, b, e, n)[a] = bs[a]
    BY ONLY <1>1, <1>2, <2>2, Rechained
  <2> QED BY <2>1, <2>3 DEF n
<1>8. ASSUME NEW a \in Index(l)
      PROVE  \E s : Chained(s, added[a], ch2) /\ ToSet(s) = InBucket(T \union {e}, h, l, a)
  <2>1. CASE a = b
    <3> DEFINE s == <<e>> \o c
    <3>1. Chained(s, added[a], ch2)
      <4>1. ListOf(c, hd, At(c, bs[b].count), ch, bs[b].count)
        BY <1>3 DEF Chained
      <4> HIDE DEF hd
      <4>2. ListOf(s, e, At(s, bs[b].count + 1), ch2, bs[b].count + 1)
        BY <1>2, <1>5, <4>1, ListPushed
      <4> HIDE DEF s, ch2
      <4> QED BY <1>7, <2>1, <4>2 DEF Chained
    <3>2. ToSet(s) = ToSet(c) \union {e}
      BY <1>4, Prepended
    <3>3. InBucket(T \union {e}, h, l, a) = InBucket(T, h, l, b) \union {e}
      BY <2>1 DEF InBucket
    <3> HIDE DEF s
    <3> QED BY <1>3, <3>1, <3>2, <3>3
  <2>2. CASE a # b
    <3>1. PICK s : Chained(s, bs[a], ch) /\ ToSet(s) = InBucket(T, h, l, a)
      BY ChainIn
    <3>2. \A x \in ToSet(s) : x \in Elem /\ x # e /\ x # hd
      <4>1. s \in Seq(Elem)
        BY <3>1, ChainedParts
      <4>2. \A x \in ToSet(s) : x \in Elem
        BY <4>1, Members
      <4>3. \A x \in ToSet(s) : x \notin ToSet(c) /\ x # e
        BY <1>3, <2>2, <3>1 DEF InBucket
      <4> QED BY <1>4, <4>2, <4>3, ConstantTypes
    <3>3. Chained(s, bs[a], ch2)
      <4>1. \A x \in ToSet(s) : ch2[x] = ch[x]
        BY <1>6, <3>2
      <4> HIDE DEF ch2
      <4> QED BY <3>1, <4>1, ListSame DEF Chained
    <3>4. added[a] = bs[a]
      BY <1>7, <2>2
    <3>5. InBucket(T \union {e}, h, l, a) = InBucket(T, h, l, a)
      BY <2>2 DEF InBucket
    <3> QED BY <3>1, <3>3, <3>4, <3>5
  <2> QED BY <2>1, <2>2
<1> HIDE DEF ch2
<1>9. Filled(added, ch2, l, T \union {e}, h)
  BY <1>6, <1>7, <1>8 DEF Filled, InBucket
<1> QED BY <1>9 DEF ch2

(* A link is replaced, if there is an element that has it.                 *)
NextTo(lk, p, v) == IF p = NULL THEN lk ELSE [lk EXCEPT ![p].next = v]
PrevTo(lk, p, v) == IF p = NULL THEN lk ELSE [lk EXCEPT ![p].prev = v]

(* The other links are kept.                                               *)
LEMMA Relinked ==
  ASSUME NEW lk \in [Elem -> Link], NEW p \in Ptr, NEW v \in Ptr
  PROVE  /\ NextTo(lk, p, v) \in [Elem -> Link]
         /\ PrevTo(lk, p, v) \in [Elem -> Link]
         /\ \A x \in Elem :
              /\ NextTo(lk, p, v)[x].prev = lk[x].prev
              /\ NextTo(lk, p, v)[x].next = IF x = p THEN v ELSE lk[x].next
              /\ PrevTo(lk, p, v)[x].next = lk[x].next
              /\ PrevTo(lk, p, v)[x].prev = IF x = p THEN v ELSE lk[x].prev
<1>1. CASE p = NULL
  BY <1>1, ConstantTypes DEF NextTo, PrevTo
<1>2. CASE p # NULL
  <2>1. p \in Elem
    BY <1>2 DEF Ptr
  <2>2. \A x \in Elem : lk[x].prev \in Ptr /\ lk[x].next \in Ptr
    BY DEF Link
  <2> QED BY <1>2, <2>1, <2>2 DEF NextTo, PrevTo, Link
<1> QED BY <1>1, <1>2

(* What is linked to what when e is left out.                              *)
LEMMA BypassedLinks ==
  ASSUME NEW lk \in [Elem -> Link], NEW e \in Elem
  PROVE  /\ Bypassed(lk, e) \in [Elem -> Link]
         /\ lk[e].prev \in Ptr /\ lk[e].next \in Ptr
         /\ \A x \in Elem \ {e} :
              /\ Bypassed(lk, e)[x].prev = IF x = lk[e].next THEN lk[e].prev
                                           ELSE lk[x].prev
              /\ Bypassed(lk, e)[x].next = IF x = lk[e].prev THEN lk[e].next
                                           ELSE lk[x].next
              /\ x # lk[e].prev /\ x # lk[e].next => Bypassed(lk, e)[x] = lk[x]
<1> DEFINE l == lk[e]
           before == NextTo(lk, l.prev, l.next)
           after == PrevTo(before, l.next, l.prev)
           new == Bypassed(lk, e)
<1>1. new = [after EXCEPT ![e] = Unlinked]
  BY DEF Bypassed, NextTo, PrevTo
<1>2. l.prev \in Ptr /\ l.next \in Ptr
  BY DEF Link
<1> HIDE DEF l, new
<1>3. /\ before \in [Elem -> Link]
      /\ \A x \in Elem : /\ before[x].prev = lk[x].prev
                         /\ before[x].next = IF x = l.prev THEN l.next ELSE lk[x].next
  BY <1>2, Relinked
<1> HIDE DEF before
<1>4. /\ after \in [Elem -> Link]
      /\ \A x \in Elem : /\ after[x].next = before[x].next
                         /\ after[x].prev = IF x = l.next THEN l.prev ELSE before[x].prev
  BY <1>2, <1>3, Relinked
<1> HIDE DEF after
<1>5. Unlinked \in Link
  BY DEF Unlinked, Link, Ptr
<1>6. new \in [Elem -> Link] /\ \A x \in Elem \ {e} : new[x] = after[x]
  BY <1>1, <1>4, <1>5
<1>7. \A x \in Elem \ {e} :
        /\ new[x].prev = IF x = l.next THEN l.prev ELSE lk[x].prev
        /\ new[x].next = IF x = l.prev THEN l.next ELSE lk[x].next
  BY <1>3, <1>4, <1>6
<1>8. ASSUME NEW x \in Elem \ {e}, x # l.prev, x # l.next PROVE new[x] = lk[x]
  <2>1. new[x].prev = lk[x].prev /\ new[x].next = lk[x].next
    BY <1>7, <1>8
  <2>2. new[x] \in Link /\ lk[x] \in Link
    BY <1>6
  <2> QED BY <2>1, <2>2 DEF Link
<1> QED BY <1>2, <1>6, <1>7, <1>8 DEF l, new

(* The buckets without the element e of bucket b.                          *)
LessOf(bs, ch, b, e) ==
  [bs EXCEPT ![b].hh_head = IF @ = e THEN ch[e].next ELSE @, ![b].count = @ - 1]

(* One element less.                                                       *)
LEMMA FilledLess ==
  ASSUME NEW l \in Nat, NEW T \in SUBSET Elem, NEW h, NEW bs, NEW ch,
         Filled(bs, ch, l, T, h), NEW e \in T, h[e] \in Nat,
         NEW b, b = ToBucket(h[e], l)
  PROVE  Filled(LessOf(bs, ch, b, e), Bypassed(ch, e), l, T \ {e}, h)
<1> DEFINE ch2 == Bypassed(ch, e)
           left == LessOf(bs, ch, b, e)
           hd == bs[b].hh_head
           hd2 == IF hd = e THEN ch[e].next ELSE hd
           n == bs[b].count
<1>1. b \in Index(l)
  BY BucketTypes
<1>2. bs \in [Index(l) -> Bucket] /\ ch \in [Elem -> Link]
  BY DEF Filled
<1>3. PICK c : Chained(c, bs[b], ch) /\ ToSet(c) = InBucket(T, h, l, b)
  BY <1>1, ChainIn
<1>4. c \in Seq(Elem) /\ IsInjective(c) /\ Len(c) = n /\ n \in Nat /\ hd = At(c, 1) /\ hd \in Ptr
  BY <1>3, ChainedParts
<1>5. /\ \A i \in 1..n : /\ ch[c[i]].prev = At(c, i - 1)
                         /\ ch[c[i]].next = At(c, i + 1)
  BY <1>3, <1>4 DEF Chained, ListOf
<1>6. e \in ToSet(c)
  BY <1>3 DEF InBucket
<1>7. PICK k \in 1..n : c[k] = e
  BY <1>4, <1>6, Members
<1>8. n - 1 \in Nat /\ k - 1 \in Nat /\ k + 1 \in Nat
  BY <1>4, <1>7
<1>9. /\ ch[e].prev = NULL <=> hd = e
      /\ ch[e].prev # NULL => ch[e].prev \in ToSet(c)
      /\ ch[e].next # NULL => ch[e].next \in ToSet(c)
  <2>1. ch[e].prev = At(c, k - 1) /\ ch[e].next = At(c, k + 1)
    BY <1>5, <1>7
  <2>2. At(c, k - 1) = NULL <=> ~(k - 1 \in 1..n)
    BY <1>4, <1>8, Places
  <2>3. At(c, 1) = c[k] <=> 1 = k
    BY <1>4, <1>7, Places
  <2>4. \A i \in Nat : At(c, i) # NULL => At(c, i) \in ToSet(c)
    BY <1>4, Members DEF At
  <2> QED BY <1>4, <1>7, <1>8, <2>1, <2>2, <2>3, <2>4
<1>10. /\ ch2 \in [Elem -> Link] /\ ch[e].prev \in Ptr /\ ch[e].next \in Ptr
       /\ \A x \in Elem \ {e} :
            /\ ch2[x].prev = IF x = ch[e].next THEN ch[e].prev ELSE ch[x].prev
            /\ ch2[x].next = IF x = ch[e].prev THEN ch[e].next ELSE ch[x].next
            /\ x # ch[e].prev /\ x # ch[e].next => ch2[x] = ch[x]
  BY <1>2, BypassedLinks
<1> HIDE DEF ch2
<1>11. /\ left \in [Index(l) -> Bucket]
       /\ left[b].hh_head = hd2 /\ left[b].count = n - 1
       /\ \A a \in Index(l) : a # b => left[a] = bs[a]
  <2>1. left = Rechain(bs, b, hd2, n - 1)
    BY DEF Rechain, LessOf
  <2> DEFINE m == n - 1
  <2>2. m \in Nat /\ hd2 \in Ptr
    BY <1>4, <1>8, <1>10
  <2> HIDE DEF left, hd2, m
  <2>3. /\ Rechain(bs, b, hd2, m) \in [Index(l) -> Bucket]
        /\ Rechain(bs, b, hd2, m)[b].hh_head = hd2
        /\ Rechain(bs, b, hd2, m)[b].count = m
        /\ \A a \in Index(l) : a # b => Rechain(bs, b, hd2, m)[a] = bs[a]
    BY ONLY <1>1, <1>2, <2>2, Rechained
  <2> QED BY <2>1, <2>3 DEF m
<1> HIDE DEF left
<1>12. ASSUME NEW a \in Index(l)
       PROVE  \E s : Chained(s, left[a], ch2) /\ ToSet(s) = InBucket(T \ {e}, h, l, a)
  <2>1. CASE a = b
    <3> DEFINE s == Without(c, {e})
               tl == At(c, n)
               tl2 == IF e = tl THEN ch[e].prev ELSE tl
    <3>1. ListOf(s, hd2, tl2, ch2, n - 1)
      <4>1. ListOf(c, hd, tl, ch, n)
        BY <1>3 DEF Chained
      <4>2. Unlinks(e, hd, tl, ch, hd2, tl2, ch2)
        BY <1>9, <1>10 DEF Unlinks
      <4> HIDE DEF hd, hd2, tl, tl2, n
      <4> QED BY <1>6, <4>1, <4>2, ListLess
    <3>2. tl2 = At(s, n - 1)
      <4> HIDE DEF tl2, s, n
      <4> QED BY <3>1 DEF ListOf
    <3>3. Chained(s, left[a], ch2)
      <4> HIDE DEF tl2, s, n, hd2
      <4> QED BY <1>11, <2>1, <3>1, <3>2 DEF Chained
    <3>4. ToSet(s) = ToSet(c) \ {e}
      BY <1>4, WithoutMembers
    <3>5. InBucket(T \ {e}, h, l, a) = InBucket(T, h, l, b) \ {e}
      BY <2>1 DEF InBucket
    <3> HIDE DEF s
    <3> QED BY <1>3, <3>3, <3>4, <3>5
  <2>2. CASE a # b
    <3>1. PICK s : Chained(s, bs[a], ch) /\ ToSet(s) = InBucket(T, h, l, a)
      BY ChainIn
    <3>2. \A x \in ToSet(s) : x \in Elem /\ x \notin ToSet(c)
      BY <1>3, <2>2, <3>1 DEF InBucket
    <3>3. \A x \in ToSet(s) : ch2[x] = ch[x]
      BY <1>6, <1>9, <1>10, <3>2, ConstantTypes
    <3>4. Chained(s, bs[a], ch2)
      BY <3>1, <3>3, ListSame DEF Chained
    <3>5. left[a] = bs[a]
      BY <1>11, <2>2
    <3>6. InBucket(T \ {e}, h, l, a) = InBucket(T, h, l, a)
      BY <2>2 DEF InBucket
    <3> QED BY <3>1, <3>4, <3>5, <3>6
  <2> QED BY <2>1, <2>2
<1>13. Filled(left, ch2, l, T \ {e}, h)
  BY <1>10, <1>11, <1>12 DEF Filled, InBucket
<1> QED BY <1>13 DEF left, ch2

(* The elements that a new bucket gets.                                    *)
LEMMA MovedIs ==
  ASSUME NEW l \in Nat, NEW T \in SUBSET Elem, NEW bs, NEW ch,
         Filled(bs, ch, l, T, hashv), \A e \in T : hashv[e] \in Nat,
         NEW b \in Index(l + 1)
  PROVE  /\ Moved(b, l, bs, ch) \in Seq(Elem) /\ IsInjective(Moved(b, l, bs, ch))
         /\ ToSet(Moved(b, l, bs, ch)) = InBucket(T, hashv, l + 1, b)
<1> DEFINE a == ToBucket(b, l)
           c == Followed(bs[a].hh_head, ch)
           gone == {e \in ToSet(c) : BucketOf(e, l + 1) # b}
           d == Without(c, gone)
<1>1. a \in Index(l)
  <2>1. b \in Nat
    BY Halves, BucketTypes DEF Index
  <2> QED BY <2>1, BucketTypes
<1>2. /\ c \in Seq(Elem) /\ IsInjective(c)
      /\ ToSet(c) = InBucket(T, hashv, l, a)
  <2> HIDE DEF a
  <2>1. PICK s : Chained(s, bs[a], ch) /\ ToSet(s) = InBucket(T, hashv, l, a)
    BY <1>1, ChainIn
  <2> QED BY <2>1, ChainedParts
<1>3. Moved(b, l, bs, ch) = d
  BY DEF Moved
<1>4. ToSet(c) \ gone = InBucket(T, hashv, l + 1, b)
  <2>1. ASSUME NEW e \in T, ToBucket(hashv[e], l + 1) = b
        PROVE  ToBucket(hashv[e], l) = a
    BY <2>1, Halves
  <2> HIDE DEF a, c
  <2> QED BY <1>2, <2>1 DEF BucketOf, InBucket
<1> HIDE DEF a, c, gone
<1>5. d \in Seq(Elem) /\ IsInjective(d) /\ ToSet(d) = ToSet(c) \ gone
  BY <1>2, WithoutMembers
<1> HIDE DEF d
<1> QED BY <1>3, <1>4, <1>5

(* A new bucket and its chain.                                             *)
LEMMA NewBucketIs ==
  ASSUME NEW d \in Seq(Elem), IsInjective(d), NEW ideal \in Nat \ {0},
         NEW ch \in [Elem -> Link], NEW ch2,
         \A x \in ToSet(d) : ch2[x] = Pushes(ch, d)[x]
  PROVE  /\ NewBucket(d, ideal) \in Bucket
         /\ \E s : Chained(s, NewBucket(d, ideal), ch2) /\ ToSet(s) = ToSet(d)
<1> DEFINE n == Len(d)
           k == NewBucket(d, ideal)
           r == Reverse(d)
<1>1. /\ n \in Nat /\ \A i \in 1..n : d[i] \in Elem /\ d[i] \in ToSet(d)
  BY Members
<1>2. k = [hh_head |-> IF d = <<>> THEN NULL ELSE d[n], count |-> n,
           expand_mult |-> IF n > ideal THEN n \div ideal ELSE 0]
  BY DEF NewBucket
<1> HIDE DEF k
<1>3. k.hh_head = At(d, n) /\ k.hh_head \in Ptr /\ k.count = n
  <2>1. d = <<>> <=> n = 0
    BY EmptySeq
  <2>2. At(d, n) = IF d = <<>> THEN NULL ELSE d[n]
    BY <1>1, <2>1 DEF At
  <2>3. At(d, n) \in Ptr
    BY <1>1, Places
  <2> HIDE DEF n
  <2> QED BY <1>2, <2>2, <2>3
<1>4. k \in Bucket
  <2>1. n \div ideal \in Nat
    BY <1>1, Remainder
  <2> DEFINE m == IF n > ideal THEN n \div ideal ELSE 0
             p == IF d = <<>> THEN NULL ELSE d[n]
  <2>2. m \in Nat /\ k.hh_head = p
    BY <1>2, <2>1
  <2>3. k = [hh_head |-> p, count |-> n, expand_mult |-> m]
    BY <1>2
  <2> HIDE DEF m, n, p
  <2> QED BY <1>1, <1>3, <2>2, <2>3 DEF Bucket
<1>5. /\ r \in Seq(Elem) /\ Len(r) = n /\ ToSet(r) = ToSet(d) /\ IsInjective(r)
      /\ \A i \in 1..n : r[i] = d[(n - i) + 1]
  <2>1. \A i \in 1..n : r[i] = d[(n - i) + 1]
    BY <1>1 DEF Reverse
  <2> QED BY <2>1, Reversed
<1> HIDE DEF r
<1>6. \A i \in 1..n : /\ ch2[d[i]].prev = At(d, i + 1)
                      /\ ch2[d[i]].next = At(d, i - 1)
  BY <1>1, PushesLinks
<1>7. ASSUME NEW i \in Int PROVE At(r, i) = At(d, (n - i) + 1)
  <2>1. i \in 1..n <=> (n - i) + 1 \in 1..n
    BY <1>1
  <2> QED BY <1>5, <2>1 DEF At
<1> HIDE DEF n
<1>8. ASSUME NEW i \in 1..n
      PROVE  ch2[r[i]].prev = At(r, i - 1) /\ ch2[r[i]].next = At(r, i + 1)
  <2> DEFINE j == (n - i) + 1
  <2>1. /\ j \in 1..n /\ r[i] = d[j]
        /\ (n - (i - 1)) + 1 = j + 1 /\ (n - (i + 1)) + 1 = j - 1
        /\ i - 1 \in Int /\ i + 1 \in Int
    BY <1>1, <1>5
  <2>2. At(r, i - 1) = At(d, j + 1) /\ At(r, i + 1) = At(d, j - 1)
    BY <1>7, <2>1
  <2> HIDE DEF j
  <2> QED BY <1>6, <2>1, <2>2
<1>9. k.hh_head = At(r, 1)
  <2>1. (n - 1) + 1 = n /\ 1 \in Int
    BY <1>1
  <2> QED BY <1>3, <1>7, <2>1
<1>10. Chained(r, k, ch2)
  BY <1>3, <1>5, <1>8, <1>9 DEF Chained, ListOf
<1> QED BY <1>4, <1>5, <1>10 DEF k

(* Each of the elements, in twice as many chains.                          *)
LEMMA FilledExpanded ==
  ASSUME NEW l \in Nat, NEW T \in SUBSET Elem, NEW bs, NEW ch,
         Filled(bs, ch, l, T, hashv), \A e \in Elem : hashv[e] \in Nat,
         NEW ideal \in Nat \ {0},
         NEW moved, moved = [b \in Index(l + 1) |-> Moved(b, l, bs, ch)],
         NEW new, new = [b \in Index(l + 1) |-> NewBucket(moved[b], ideal)],
         NEW ch2, ch2 = [e \in Elem |-> Pushes(ch, moved[BucketOf(e, l + 1)])[e]]
  PROVE  Filled(new, ch2, l + 1, T, hashv)
<1>1. ch \in [Elem -> Link] /\ l + 1 \in Nat
  BY DEF Filled
<1>2. ASSUME NEW b \in Index(l + 1)
      PROVE  /\ moved[b] \in Seq(Elem) /\ IsInjective(moved[b])
             /\ ToSet(moved[b]) = InBucket(T, hashv, l + 1, b)
  <2>1. moved[b] = Moved(b, l, bs, ch)
    OBVIOUS
  <2> QED BY <2>1, MovedIs
<1>3. ASSUME NEW e \in Elem
      PROVE  /\ BucketOf(e, l + 1) \in Index(l + 1)
             /\ ch2[e] = Pushes(ch, moved[BucketOf(e, l + 1)])[e]
  BY <1>1, BucketTypes DEF BucketOf
<1>4. ch2 \in [Elem -> Link]
  <2>1. \A e \in Elem : ch2[e] \in Link
    <3> TAKE e \in Elem
    <3> DEFINE d == moved[BucketOf(e, l + 1)]
    <3>1. d \in Seq(Elem) /\ IsInjective(d)
      BY <1>2, <1>3
    <3> HIDE DEF d
    <3>2. Pushes(ch, d) \in [Elem -> Link]
      BY <1>1, <3>1, PushesLinks
    <3>3. ch2[e] = Pushes(ch, d)[e]
      BY <1>3 DEF d
    <3> QED BY <3>2, <3>3
  <2>2. ch2 = [e \in Elem |-> ch2[e]]
    OBVIOUS
  <2> QED BY <2>1, <2>2
<1>5. ASSUME NEW b \in Index(l + 1)
      PROVE  /\ new[b] \in Bucket
             /\ \E s : Chained(s, new[b], ch2) /\ ToSet(s) = InBucket(T, hashv, l + 1, b)
  <2> DEFINE d == moved[b]
  <2>1. new[b] = NewBucket(d, ideal)
    OBVIOUS
  <2>2. d \in Seq(Elem) /\ IsInjective(d) /\ ToSet(d) = InBucket(T, hashv, l + 1, b)
    BY <1>2
  <2>3. \A x \in ToSet(d) : ch2[x] = Pushes(ch, d)[x]
    <3> TAKE x \in ToSet(d)
    <3>1. x \in Elem /\ BucketOf(x, l + 1) = b
      BY <2>2 DEF InBucket, BucketOf
    <3> QED BY <1>3, <3>1
  <2> HIDE DEF d
  <2>4. /\ NewBucket(d, ideal) \in Bucket
        /\ \E s : Chained(s, NewBucket(d, ideal), ch2) /\ ToSet(s) = ToSet(d)
    <3>1. ideal \in Nat \ {0}
      OBVIOUS
    <3> QED BY ONLY <1>1, <2>2, <2>3, <3>1, NewBucketIs
  <2> QED BY <2>1, <2>2, <2>4
<1>6. new \in [Index(l + 1) -> Bucket]
  BY <1>5
<1> QED BY <1>4, <1>5, <1>6 DEF Filled, InBucket

(* What the buckets count, added up, is the number of the elements.        *)
LEMMA CountedAll ==
  ASSUME NEW l \in Nat, NEW T, IsFiniteSet(T), NEW h, NEW bs, NEW ch,
         Filled(bs, ch, l, T, h), \A e \in T : h[e] \in Nat
  PROVE  Counted(bs, NumBuckets[l]) = Cardinality(T)
<1> DEFINE n == NumBuckets[l]
           Below(i) == {e \in T : ToBucket(h[e], l) < i}
<1>1. n \in Nat /\ Index(l) = 0..n - 1
  BY BucketTypes DEF Index
<1> HIDE DEF n
<1>2. PICK k : /\ \A i \in 0..n : k[i] = IF i = 0 THEN 0 ELSE k[i - 1] + bs[i - 1].count
               /\ Counted(bs, n) = k[n]
  BY <1>1, CountedFollows
<1> DEFINE I == {i \in Nat : i <= n => k[i] = Cardinality(Below(i))}
<1>3. \A e \in T : ToBucket(h[e], l) \in 0..n - 1
  BY <1>1, BucketTypes
<1>4. 0 \in I
  <2>1. Below(0) = {}
    BY <1>1, <1>3
  <2>2. k[0] = 0
    BY <1>1, <1>2
  <2> HIDE DEF Below
  <2> QED BY <2>1, <2>2, FS_EmptySet
<1>5. ASSUME NEW i \in I PROVE i + 1 \in I
  <2> SUFFICES ASSUME i + 1 <= n PROVE k[i + 1] = Cardinality(Below(i + 1))
    OBVIOUS
  <2> DEFINE Here == {e \in T : ToBucket(h[e], l) = i}
  <2>1. i \in Index(l) /\ i <= n
    BY <1>1
  <2>2. k[i + 1] = k[i] + bs[i].count
    <3>1. i + 1 \in 0..n /\ i + 1 # 0 /\ (i + 1) - 1 = i
      BY <1>1
    <3> QED BY <1>2, <3>1
  <2>3. k[i] = Cardinality(Below(i))
    BY <2>1
  <2>4. bs[i].count = Cardinality(Here)
    <3>1. PICK c : Chained(c, bs[i], ch) /\ ToSet(c) = Here
      BY <2>1, ChainIn DEF InBucket
    <3> HIDE DEF Here
    <3>2. c \in Seq(Elem) /\ IsInjective(c) /\ bs[i].count = Len(c)
      BY <3>1, ChainedParts
    <3> QED BY <3>1, <3>2, SizeOfDifferent
  <2>5. /\ Below(i + 1) = Below(i) \union Here
        /\ Below(i) \cap Here = {}
        /\ Below(i) \subseteq T /\ Here \subseteq T
    BY <1>1, <1>3
  <2> HIDE DEF Below, Here, I
  <2>6. /\ IsFiniteSet(Below(i)) /\ IsFiniteSet(Here)
        /\ Cardinality(Below(i)) \in Nat /\ Cardinality(Here) \in Nat
    BY <2>5, FS_Subset, FS_CardinalityType
  <2>7. Cardinality(Below(i + 1)) = Cardinality(Below(i)) + Cardinality(Here)
    <3>1. Cardinality(Below(i) \cap Here) = 0
      BY <2>5, FS_EmptySet
    <3>2. Cardinality(Below(i) \union Here)
            = Cardinality(Below(i)) + Cardinality(Here) - Cardinality(Below(i) \cap Here)
      BY ONLY <2>6, FS_Union
    <3>3. Cardinality(Below(i + 1)) = Cardinality(Below(i) \union Here)
      BY <2>5, Zenon
    <3>4. Cardinality(Below(i) \union Here) = Cardinality(Below(i)) + Cardinality(Here)
      BY ONLY <2>6, <3>1, <3>2
    <3> QED BY ONLY <3>3, <3>4
  <2> QED BY <2>2, <2>3, <2>4, <2>7
<1>6. n \in I
  <2> HIDE DEF I
  <2>1. I \in SUBSET Nat
    BY DEF I
  <2> QED BY <1>1, <1>4, <1>5, <2>1, Induction
<1>7. Below(n) = T
  BY <1>1, <1>3
<1>8. Counted(bs, n) = Cardinality(T)
  <2> HIDE DEF Below
  <2> QED BY <1>1, <1>2, <1>6, <1>7
<1> QED BY <1>8 DEF n

-----------------------------------------------------------------------------
(* The invariant: the list that HASH_ITER meets is linked both ways, and   *)
(* the chains hold its elements and no others.                             *)

Typed ==
  /\ link \in [Elem -> Link]
  /\ hashv \in [Elem -> HashValue]
  /\ log2_num_buckets \in Nat
  /\ ineff_expands \in Nat
  /\ noexpand \in BOOLEAN

Listed == ListOf(order, head, tail, link, num_items)

InChains == Filled(buckets, chain, log2_num_buckets, ToSet(order), hashv)

(* A table that is not there has nothing left of the last one.             *)
Fresh == head = NULL => log2_num_buckets = InitialLog2

Inv == Typed /\ Listed /\ InChains /\ Fresh

(* What the invariant says of the list and of the hash values.             *)
LEMMA InvParts ==
  ASSUME Inv
  PROVE  /\ order \in Seq(Elem) /\ IsInjective(order) /\ Len(order) = num_items
         /\ num_items \in Nat
         /\ head = NULL <=> num_items = 0
         /\ head = NULL => order = <<>>
         /\ head # NULL => tail = order[num_items] /\ num_items \in 1..num_items
         /\ head \in Ptr /\ tail \in Ptr
         /\ ToSet(order) \subseteq Elem
         /\ \A e \in Elem : hashv[e] \in Nat
<1>1. /\ order \in Seq(Elem) /\ IsInjective(order) /\ Len(order) = num_items
      /\ head = At(order, 1) /\ tail = At(order, num_items)
  BY DEF Inv, Listed, ListOf
<1> HIDE DEF order
<1>2. num_items \in Nat
  BY <1>1, LenProperties
<1>3. /\ head \in Ptr /\ tail \in Ptr
      /\ head = NULL <=> ~(1 \in 1..num_items)
  BY <1>1, <1>2, Places
<1>4. head = NULL <=> num_items = 0
  BY <1>2, <1>3
<1>5. head = NULL => order = <<>>
  BY <1>1, <1>4, EmptySeq
<1>6. head # NULL => tail = order[num_items] /\ num_items \in 1..num_items
  BY <1>1, <1>2, <1>4 DEF At
<1>7. ToSet(order) \subseteq Elem
  BY <1>1, Members
<1>8. \A e \in Elem : hashv[e] \in Nat
  BY ConstantTypes DEF Inv, Typed
<1> QED BY <1>1, <1>2, <1>3, <1>4, <1>5, <1>6, <1>7, <1>8

(* HASH_FIND finds what is in the list.                                    *)
LEMMA FoundIs ==
  ASSUME Inv, NEW e \in Elem
  PROVE  Found(e) <=> e \in ToSet(order)
<1> DEFINE b == BucketOf(e, log2_num_buckets)
<1>1. log2_num_buckets \in Nat /\ hashv[e] \in Nat
  BY InvParts DEF Inv, Typed
<1>2. b \in Index(log2_num_buckets)
  BY <1>1, BucketTypes DEF BucketOf
<1>3. e \in ToSet(Followed(buckets[b].hh_head, chain)) <=> e \in ToSet(order)
  <2> HIDE DEF b
  <2> DEFINE T == ToSet(order)
  <2>1. PICK c : /\ Chained(c, buckets[b], chain)
                 /\ ToSet(c) = InBucket(T, hashv, log2_num_buckets, b)
    BY <1>2, ChainIn DEF Inv, InChains
  <2>2. Followed(buckets[b].hh_head, chain) = c
    BY <2>1, ChainedParts
  <2>3. b = ToBucket(hashv[e], log2_num_buckets)
    BY DEF b, BucketOf
  <2> HIDE DEF T
  <2>4. e \in ToSet(c) <=> e \in T
    BY <2>1, <2>3 DEF InBucket
  <2> QED BY <2>2, <2>4 DEF T
<1>4. head = NULL => ToSet(order) = {}
  BY InvParts DEF ToSet
<1> QED BY <1>3, <1>4 DEF Found

(* The element is put in its chain, and the chains may be divided.         *)
LEMMA AddedToBucket ==
  ASSUME Typed, NEW T \in SUBSET Elem, NEW e \in Elem \ T, NEW n \in Nat \ {0},
         NEW bs, Filled(bs, chain, log2_num_buckets, T, hashv),
         AddToBucket(e, n, log2_num_buckets, bs), hashv' = hashv
  PROVE  /\ num_items' = n
         /\ log2_num_buckets' \in Nat /\ ineff_expands' \in Nat /\ noexpand' \in BOOLEAN
         /\ Filled(buckets', chain', log2_num_buckets', T \union {e}, hashv')
<1> DEFINE l == log2_num_buckets
           b == BucketOf(e, l)
           links == Pushed(chain, e, bs[b].hh_head)
           added == [bs EXCEPT ![b].hh_head = e, ![b].count = @ + 1]
           U == T \union {e}
<1>1. l \in Nat /\ (\A x \in Elem : hashv[x] \in Nat) /\ U \in SUBSET Elem
  BY ConstantTypes DEF Typed
<1>2. Filled(added, links, l, U, hashv)
  <2>1. b = ToBucket(hashv[e], l)
    BY DEF BucketOf
  <2> HIDE DEF b, l
  <2> QED BY <1>1, <2>1, FilledMore DEF l
<1>3. /\ num_items' = n
      /\ \/ Expand(n, l, added, links)
         \/ /\ buckets' = added /\ chain' = links
            /\ UNCHANGED <<log2_num_buckets, ineff_expands, noexpand>>
  BY DEF AddToBucket
<1> HIDE DEF added, links, U
<1>4. CASE Expand(n, l, added, links)
  <2> DEFINE ideal == Ceil(n, NumBuckets[l + 1])
             moved == [a \in Index(l + 1) |-> Moved(a, l, added, links)]
             new == [a \in Index(l + 1) |-> NewBucket(moved[a], ideal)]
             ch2 == [x \in Elem |-> Pushes(links, moved[BucketOf(x, l + 1)])[x]]
  <2>1. /\ buckets' = new /\ chain' = ch2
        /\ log2_num_buckets' = l + 1
        /\ ineff_expands' \in {0, ineff_expands + 1}
        /\ noexpand' = (noexpand \/ ineff_expands' > 1)
    BY <1>4 DEF Expand
  <2>2. ineff_expands' \in Nat /\ noexpand' \in BOOLEAN
    BY <2>1 DEF Typed
  <2>3. ideal \in Nat \ {0}
    <3>1. NumBuckets[l + 1] \in Nat \ {0}
      BY <1>1, BucketTypes
    <3> QED BY <3>1, CeilPos DEF Ceil
  <2>4. Filled(new, ch2, l + 1, U, hashv)
    <3>1. /\ moved = [a \in Index(l + 1) |-> Moved(a, l, added, links)]
          /\ new = [a \in Index(l + 1) |-> NewBucket(moved[a], ideal)]
          /\ ch2 = [x \in Elem |-> Pushes(links, moved[BucketOf(x, l + 1)])[x]]
      OBVIOUS
    <3> HIDE DEF ideal, l, moved, new, ch2
    <3> QED BY ONLY <1>1, <1>2, <2>3, <3>1, FilledExpanded
  <2> HIDE DEF new, ch2
  <2>5. Filled(buckets', chain', l + 1, U, hashv')
    BY <2>1, <2>4
  <2> QED BY <1>1, <1>3, <2>1, <2>2, <2>5 DEF U
<1>5. CASE /\ buckets' = added /\ chain' = links
           /\ UNCHANGED <<log2_num_buckets, ineff_expands, noexpand>>
  <2>1. Filled(buckets', chain', log2_num_buckets', U, hashv')
    BY <1>2, <1>5
  <2> QED BY <1>1, <1>3, <1>5, <2>1 DEF Typed, U
<1> QED BY <1>3, <1>4, <1>5

(* No table at first.                                                      *)
LEMMA InitInv == Init => Inv /\ order = <<>>
<1> SUFFICES ASSUME Init PROVE Inv /\ order = <<>>
  OBVIOUS
<1>0. chain \in [Elem -> Link]
  BY DEF Init, Link, Unlinked, Ptr
<1>1. Typed
  BY ConstantTypes DEF Init, Typed, Link, Unlinked, Ptr
<1>2. ListOf(<<>>, head, tail, link, num_items)
  BY ListEmpty DEF Init
<1>3. order = <<>>
  BY <1>2, ListIs DEF order
<1> HIDE DEF order
<1>4. Listed
  BY <1>2, <1>3 DEF Listed
<1>5. InChains
  <2>1. ToSet(<<>>) = {}
    BY DEF ToSet
  <2>2. Filled(buckets, chain, log2_num_buckets, {}, hashv)
    BY <1>0, ConstantTypes, FilledEmpty DEF Init
  <2> QED BY <1>3, <2>1, <2>2 DEF InChains
<1> QED BY <1>1, <1>3, <1>4, <1>5 DEF Inv, Fresh, Init

(* Once the list is known, the invariant holds in parts.                   *)
LEMMA InvNext ==
  ASSUME NEW s, ListOf(s, head', tail', link', num_items'), Typed',
         Filled(buckets', chain', log2_num_buckets', ToSet(s), hashv'), Fresh'
  PROVE  Inv' /\ order' = s
<1>1. order' = s
  BY ListIs DEF order
<1> HIDE DEF order
<1>2. Listed' /\ InChains'
  BY <1>1 DEF Listed, InChains
<1> QED BY <1>1, <1>2 DEF Inv

(* The first element.                                                      *)
LEMMA StepAddFirst ==
  ASSUME Inv, NEW e \in Elem, AddFirst(e)
  PROVE  Inv' /\ order = <<>> /\ order' = <<e>>
<1>1. /\ head = NULL /\ head' = e /\ tail' = e
      /\ link' = [link EXCEPT ![e] = Unlinked]
      /\ AddToBucket(e, 1, InitialLog2, [b \in Index(InitialLog2) |-> EmptyBucket])
      /\ hashv' = hashv
  BY DEF AddFirst
<1>2. Typed /\ log2_num_buckets = InitialLog2
  BY <1>1 DEF Inv, Fresh
<1>3. /\ num_items' = 1
      /\ log2_num_buckets' \in Nat /\ ineff_expands' \in Nat /\ noexpand' \in BOOLEAN
      /\ Filled(buckets', chain', log2_num_buckets', {e}, hashv')
  <2> DEFINE bs == [b \in Index(InitialLog2) |-> EmptyBucket]
  <2>1. Filled(bs, chain, log2_num_buckets, {}, hashv)
    <3>1. chain \in [Elem -> Link]
      BY DEF Inv, InChains, Filled
    <3> QED BY <1>2, <3>1, ConstantTypes, FilledEmpty
  <2>2. AddToBucket(e, 1, log2_num_buckets, bs)
    BY <1>1, <1>2
  <2> HIDE DEF bs
  <2>3. /\ num_items' = 1
        /\ log2_num_buckets' \in Nat /\ ineff_expands' \in Nat
        /\ noexpand' \in BOOLEAN
        /\ Filled(buckets', chain', log2_num_buckets', {} \union {e}, hashv')
    <3>1. Typed /\ hashv' = hashv
      BY <1>1, <1>2
    <3>2. {} \in SUBSET Elem /\ e \in Elem \ {} /\ 1 \in Nat \ {0}
      OBVIOUS
    <3> QED BY ONLY <3>1, <3>2, <2>1, <2>2, AddedToBucket
  <2>4. {} \union {e} = {e}
    OBVIOUS
  <2> QED BY <2>3, <2>4
<1>4. link' \in [Elem -> Link] /\ link'[e] = Unlinked
  BY <1>1, <1>2 DEF Typed, Link, Unlinked, Ptr
<1>5. Typed'
  BY <1>1, <1>2, <1>3, <1>4 DEF Typed
<1>6. ListOf(<<e>>, head', tail', link', num_items')
  BY <1>1, <1>3, <1>4, ListFirst
<1>7. ToSet(<<e>>) = {e}
  BY DEF ToSet
<1>8. Fresh'
  BY <1>1, ConstantTypes DEF Fresh
<1>9. Inv' /\ order' = <<e>>
  BY <1>3, <1>5, <1>6, <1>7, <1>8, InvNext
<1>10. order = <<>>
  BY <1>1, InvParts
<1> QED BY <1>9, <1>10

(* One more element.                                                       *)
LEMMA StepAddLast ==
  ASSUME Inv, NEW e \in Elem, AddLast(e)
  PROVE  Inv' /\ e \notin ToSet(order) /\ order' = Append(order, e)
<1> DEFINE l == [prev |-> tail, next |-> NULL]
<1>1. /\ head # NULL /\ ~Found(e) /\ head' = head /\ tail' = e
      /\ link' = [link EXCEPT ![tail].next = e, ![e] = l]
      /\ AddToBucket(e, num_items + 1, log2_num_buckets, buckets)
      /\ hashv' = hashv
  BY DEF AddLast
<1>2. Typed /\ Listed /\ InChains
  BY DEF Inv
<1>3. e \notin ToSet(order)
  BY <1>1, FoundIs
<1>4. /\ order \in Seq(Elem) /\ ToSet(order) \subseteq Elem
      /\ num_items \in Nat \ {0}
      /\ tail \in ToSet(order)
  <2>1. /\ order \in Seq(Elem) /\ Len(order) = num_items /\ num_items \in Nat \ {0}
        /\ tail = order[num_items] /\ num_items \in 1..num_items
        /\ ToSet(order) \subseteq Elem
    BY <1>1, InvParts
  <2> HIDE DEF order
  <2> QED BY <2>1, Members
<1> HIDE DEF order
<1>5. tail \in Elem /\ tail # e
  BY <1>3, <1>4
<1>6. /\ link' \in [Elem -> Link] /\ link'[e] = l
      /\ \A x \in Elem \ {e} : /\ link'[x].prev = link[x].prev
                               /\ link'[x].next = IF x = tail THEN e ELSE link[x].next
  <2> DEFINE t == [link[tail] EXCEPT !.next = e]
  <2>1. link \in [Elem -> Link] /\ l \in Link /\ t \in Link
    BY <1>2, <1>5 DEF Typed, Link, Ptr
  <2>2. t.prev = link[tail].prev /\ t.next = e
    BY <1>5, <2>1 DEF Link
  <2>3. link' = [[link EXCEPT ![tail] = t] EXCEPT ![e] = l]
    BY <1>1
  <2> HIDE DEF t, l
  <2> QED BY <1>5, <2>1, <2>2, <2>3
<1>7. Links(e, tail, link, link')
  BY <1>6 DEF Links
<1>8. /\ num_items' = num_items + 1
      /\ log2_num_buckets' \in Nat /\ ineff_expands' \in Nat /\ noexpand' \in BOOLEAN
      /\ Filled(buckets', chain', log2_num_buckets', ToSet(order) \union {e}, hashv')
  <2>1. num_items + 1 \in Nat \ {0}
    BY <1>4
  <2>2. Filled(buckets, chain, log2_num_buckets, ToSet(order), hashv)
    BY <1>2 DEF InChains
  <2>3. /\ Typed /\ hashv' = hashv
        /\ AddToBucket(e, num_items + 1, log2_num_buckets, buckets)
        /\ ToSet(order) \in SUBSET Elem /\ e \in Elem \ ToSet(order)
    BY <1>1, <1>2, <1>3, <1>4
  <2> QED BY ONLY <2>1, <2>2, <2>3, AddedToBucket
<1>9. ListOf(Append(order, e), head', tail', link', num_items')
  BY <1>1, <1>2, <1>3, <1>4, <1>7, <1>8, ListMore DEF Listed
<1>10. ToSet(Append(order, e)) = ToSet(order) \union {e}
  BY <1>4, AppendMembers
<1>11. Typed'
  BY <1>1, <1>2, <1>6, <1>8 DEF Typed
<1>12. Fresh'
  BY <1>1 DEF Fresh
<1>13. Inv' /\ order' = Append(order, e)
  BY <1>8, <1>9, <1>10, <1>11, <1>12, InvNext
<1> QED BY <1>3, <1>13

(* The last element, and the table.                                        *)
LEMMA StepDeleteOnly ==
  ASSUME Inv, NEW e \in Elem, DeleteOnly(e)
  PROVE  Inv' /\ e \in ToSet(order) /\ order' = Without(order, {e})
<1>1. /\ Found(e) /\ link[e] = Unlinked
      /\ head' = NULL /\ tail' = NULL
      /\ num_items' = 0 /\ log2_num_buckets' = InitialLog2
      /\ buckets' = [b \in Index(InitialLog2) |-> EmptyBucket]
      /\ ineff_expands' = 0 /\ noexpand' = FALSE
      /\ link' = link /\ chain' = chain /\ hashv' = hashv
  BY DEF DeleteOnly
<1>2. /\ e \in ToSet(order) /\ order \in Seq(Elem) /\ IsInjective(order)
      /\ Len(order) = num_items /\ num_items \in Nat
  BY <1>1, FoundIs, InvParts
<1>3. PICK k \in 1..num_items : order[k] = e
  <2> HIDE DEF order
  <2> QED BY <1>2, Members
<1>4. At(order, k - 1) = NULL /\ At(order, k + 1) = NULL
  <2>1. link[e].prev = NULL /\ link[e].next = NULL
    BY <1>1 DEF Unlinked
  <2> HIDE DEF order
  <2> QED BY <1>3, <2>1 DEF Inv, Listed, ListOf
<1>5. num_items = 1
  <2> HIDE DEF order
  <2>1. k - 1 \in Nat /\ k + 1 \in Nat
    BY <1>2, <1>3
  <2>2. ~(k - 1 \in 1..num_items) /\ ~(k + 1 \in 1..num_items)
    BY <1>2, <1>4, <2>1, Places
  <2> QED BY <1>2, <1>3, <2>2
<1>6. Without(order, {e}) = <<>>
  <2> HIDE DEF order
  <2>1. Without(order, {e}) \in Seq(Elem) /\ Len(Without(order, {e})) = 0
    BY <1>2, <1>3, <1>5, WithoutOne, WithoutMembers
  <2> QED BY <2>1, EmptySeq
<1>7. ListOf(<<>>, head', tail', link', num_items')
  BY <1>1, ListEmpty
<1>8. Filled(buckets', chain', log2_num_buckets', ToSet(<<>>), hashv')
  <2>1. ToSet(<<>>) = {}
    BY DEF ToSet
  <2>2. chain \in [Elem -> Link]
    BY DEF Inv, InChains, Filled
  <2> QED BY <1>1, <2>1, <2>2, ConstantTypes, FilledEmpty
<1>9. Typed' /\ Fresh'
  BY <1>1, ConstantTypes DEF Inv, Typed, Fresh
<1>10. Inv' /\ order' = <<>>
  BY <1>7, <1>8, <1>9, InvNext
<1> QED BY <1>2, <1>6, <1>10

(* An element that is not the only one.                                    *)
LEMMA StepDeleteFrom ==
  ASSUME Inv, NEW e \in Elem, DeleteFrom(e)
  PROVE  Inv' /\ e \in ToSet(order) /\ order' = Without(order, {e})
<1> DEFINE l == link[e]
           b == BucketOf(e, log2_num_buckets)
<1>1. /\ Found(e) /\ l # Unlinked
      /\ tail' = IF e = tail THEN l.prev ELSE tail
      /\ head' = IF l.prev = NULL THEN l.next ELSE head
      /\ link' = Bypassed(link, e) /\ chain' = Bypassed(chain, e)
      /\ buckets' = LessOf(buckets, chain, b, e)
      /\ num_items' = num_items - 1
      /\ hashv' = hashv /\ log2_num_buckets' = log2_num_buckets
      /\ ineff_expands' = ineff_expands /\ noexpand' = noexpand
  BY DEF DeleteFrom, LessOf
<1>2. /\ e \in ToSet(order) /\ order \in Seq(Elem) /\ IsInjective(order)
      /\ Len(order) = num_items /\ num_items \in Nat
      /\ \A x \in Elem : hashv[x] \in Nat
      /\ head \in Ptr /\ ToSet(order) \in SUBSET Elem
  BY <1>1, FoundIs, InvParts
<1>3. Typed /\ Listed /\ InChains /\ Fresh
  BY DEF Inv
<1> HIDE DEF order
<1>4. /\ link' \in [Elem -> Link]
      /\ \A x \in Elem \ {e} :
           /\ link'[x].prev = IF x = l.next THEN l.prev ELSE link[x].prev
           /\ link'[x].next = IF x = l.prev THEN l.next ELSE link[x].next
  <2>1. link \in [Elem -> Link]
    BY <1>3 DEF Typed
  <2> QED BY <1>1, <2>1, BypassedLinks
<1>5. ListOf(Without(order, {e}), head', tail', link', num_items')
  <2>1. Unlinks(e, head, tail, link, head', tail', link')
    BY <1>1, <1>4 DEF Unlinks
  <2> QED BY <1>1, <1>2, <1>3, <2>1, ListLess DEF Listed
<1>6. ToSet(Without(order, {e})) = ToSet(order) \ {e}
  BY <1>2, WithoutMembers
<1>7. Filled(buckets', chain', log2_num_buckets', ToSet(order) \ {e}, hashv')
  <2> DEFINE T == ToSet(order)
  <2>1. b = ToBucket(hashv[e], log2_num_buckets) /\ log2_num_buckets \in Nat
    BY <1>3 DEF BucketOf, Typed
  <2>2. /\ Filled(buckets, chain, log2_num_buckets, T, hashv)
        /\ T \in SUBSET Elem /\ e \in T /\ hashv[e] \in Nat
    BY <1>2, <1>3 DEF InChains
  <2> HIDE DEF b, T
  <2>3. Filled(LessOf(buckets, chain, b, e), Bypassed(chain, e), log2_num_buckets,
               T \ {e}, hashv)
    BY <2>1, <2>2, FilledLess
  <2> QED BY <1>1, <2>3 DEF T
<1>8. Typed'
  BY <1>1, <1>3, <1>4 DEF Typed
<1>9. Fresh'
  <2>1. PICK k \in 1..num_items : order[k] = e
    BY <1>2, Members
  <2>2. l.prev = At(order, k - 1) /\ l.next = At(order, k + 1)
    BY <1>3, <2>1 DEF Listed, ListOf
  <2>3. head # NULL
    BY <1>1 DEF Found
  <2>4. l.prev = NULL => l.next # NULL
    <3>1. l = [prev |-> l.prev, next |-> l.next]
      BY <1>3 DEF Typed, Link
    <3> HIDE DEF l
    <3> QED BY <1>1, <3>1 DEF Unlinked
  <2>5. head' # NULL
    <3> HIDE DEF l
    <3> QED BY <1>1, <2>3, <2>4
  <2> QED BY <2>5 DEF Fresh
<1>10. Inv' /\ order' = Without(order, {e})
  BY <1>5, <1>6, <1>7, <1>8, <1>9, InvNext
<1> QED BY <1>2, <1>10

(* Every step keeps the invariant and is a step of the ordered set.        *)
LEMMA InvStep ==
  ASSUME Inv, [Next]_vars
  PROVE  Inv' /\ [Ordered!Next]_order
<1>1. ASSUME NEW e \in Elem, AddFirst(e) PROVE Inv' /\ Ordered!Next
  <2>1. Inv' /\ order = <<>> /\ order' = <<e>>
    BY <1>1, StepAddFirst
  <2>2. e \notin ToSet(<<>>) /\ <<e>> = Append(<<>>, e)
    BY DEF ToSet
  <2>3. Ordered!Add(e)
    BY <2>1, <2>2 DEF Ordered!Add, Ordered!ToSet, ToSet
  <2> QED BY <2>1, <2>3 DEF Ordered!Next
<1>2. ASSUME NEW e \in Elem, AddLast(e) PROVE Inv' /\ Ordered!Next
  <2>1. Inv' /\ e \notin ToSet(order) /\ order' = Append(order, e)
    BY <1>2, StepAddLast
  <2>2. Ordered!Add(e)
    BY <2>1 DEF Ordered!Add, Ordered!ToSet, ToSet
  <2> QED BY <2>1, <2>2 DEF Ordered!Next
<1>3. ASSUME NEW e \in Elem, DeleteOnly(e) \/ DeleteFrom(e)
      PROVE  Inv' /\ Ordered!Next
  <2>1. Inv' /\ e \in ToSet(order) /\ order' = Without(order, {e})
    BY <1>3, StepDeleteOnly, StepDeleteFrom
  <2>2. order \in Seq(Elem) /\ IsInjective(order)
    BY InvParts
  <2>3. Ordered!Delete(e)
    <3> HIDE DEF order
    <3>1. PICK k \in 1..Len(order) : order[k] = e
      BY <2>1, <2>2, Members
    <3>2. order' = RemoveAt(order, k) /\ k \in DOMAIN order
      BY <2>1, <2>2, <3>1, RemovedAt, LenProperties
    <3> QED BY <3>1, <3>2 DEF Ordered!Delete, Ordered!RemoveAt, RemoveAt
  <2> QED BY <2>1, <2>3 DEF Ordered!Next
<1>4. CASE UNCHANGED vars
  <2>1. order' = order
    BY <1>4 DEF vars, tbl, order
  <2>2. Inv'
    BY <1>4, <2>1 DEF vars, tbl, Inv, Typed, Listed, InChains, Fresh
  <2> QED BY <2>1, <2>2
<1> QED BY <1>1, <1>2, <1>3, <1>4 DEF Next

(* The invariant holds in every reachable state.                           *)
LEMMA Invariant == Spec => []Inv
<1>1. Inv /\ [Next]_vars => Inv'
  BY InvStep
<1> QED BY InitInv, <1>1, PTL DEF Spec

-----------------------------------------------------------------------------
(* Theorems.                                                               *)

(* Types, whatever the hash function and the thresholds.                   *)
THEOREM TypeSafe == Spec => []TypeOK
<1>1. Inv => TypeOK
  <2> SUFFICES ASSUME Inv PROVE TypeOK
    OBVIOUS
  <2>1. num_items \in 0..Cardinality(Elem)
    <3>1. order \in Seq(Elem) /\ IsInjective(order) /\ Len(order) = num_items
      BY InvParts
    <3> HIDE DEF order
    <3>2. Len(order) \in Nat /\ Len(order) <= Cardinality(Elem)
      BY <3>1, ConstantTypes, LenOfDifferent, LenProperties
    <3>3. Cardinality(Elem) \in Nat
      BY ConstantTypes, FS_CardinalityType
    <3> QED BY <3>1, <3>2, <3>3
  <2>2. (head = NULL) = (tail = NULL)
    <3>1. /\ order \in Seq(Elem) /\ IsInjective(order) /\ Len(order) = num_items
          /\ num_items \in Nat
          /\ head = NULL <=> num_items = 0
          /\ tail = At(order, num_items)
      BY InvParts DEF Inv, Listed, ListOf
    <3> HIDE DEF order
    <3>2. tail = NULL <=> ~(num_items \in 1..num_items)
      BY <3>1, Places
    <3>3. tail = NULL <=> head = NULL
      BY <3>1, <3>2
    <3> QED BY <3>3
  <2>3. buckets \in [Index(log2_num_buckets) -> Bucket] /\ chain \in [Elem -> Link]
    BY DEF Inv, InChains, Filled
  <2> QED BY <2>1, <2>2, <2>3, InvParts DEF Inv, Typed, TypeOK
<1> QED BY <1>1, Invariant, PTL

(* What HASH_FSCK checks under HASH_DEBUG always holds: the list and every *)
(* chain are linked both ways and have as many elements as are counted.    *)
THEOREM TableIntegrity == Spec => []HASH_FSCK
<1>1. Inv => HASH_FSCK
  <2> SUFFICES ASSUME Inv PROVE HASH_FSCK
    OBVIOUS
  <2>1. ASSUME NEW s, NEW hd, NEW tl, NEW lk, NEW n, ListOf(s, hd, tl, lk, n)
        PROVE  LinkedBack(s, lk)
    <3>1. /\ s \in Seq(Elem) /\ Len(s) = n /\ n \in Nat /\ DOMAIN s = 1..n
          /\ \A i \in 1..n : lk[s[i]].prev = At(s, i - 1)
      BY <2>1, LenProperties DEF ListOf
    <3>2. \A i \in 1..n : At(s, i - 1) = IF i = 1 THEN NULL ELSE s[i - 1]
      BY <3>1 DEF At
    <3> QED BY <3>1, <3>2 DEF LinkedBack
  <2>2. ASSUME NEW b \in DOMAIN buckets
        PROVE  LET c == Followed(buckets[b].hh_head, chain)
               IN LinkedBack(c, chain) /\ buckets[b].count = Len(c)
    <3> DEFINE T == ToSet(order)
    <3>1. b \in Index(log2_num_buckets)
      BY DEF Inv, InChains, Filled
    <3>2. Filled(buckets, chain, log2_num_buckets, T, hashv)
      BY DEF Inv, InChains
    <3> HIDE DEF T
    <3>3. PICK s : Chained(s, buckets[b], chain)
      BY <3>1, <3>2, ChainIn
    <3>4. Followed(buckets[b].hh_head, chain) = s /\ Len(s) = buckets[b].count
      BY <3>3, ChainedParts
    <3>5. LinkedBack(s, chain)
      BY <2>1, <3>3 DEF Chained
    <3> QED BY <3>4, <3>5
  <2>3. /\ order \in Seq(Elem) /\ IsInjective(order) /\ Len(order) = num_items
        /\ num_items \in Nat
        /\ ToSet(order) \subseteq Elem
        /\ \A e \in Elem : hashv[e] \in Nat
        /\ head # NULL => order[num_items] = tail
    BY InvParts
  <2>4. num_items = Counted(buckets, NumBuckets[log2_num_buckets])
    <3>1. log2_num_buckets \in Nat
      BY DEF Inv, Typed
    <3>2. Filled(buckets, chain, log2_num_buckets, ToSet(order), hashv)
      BY DEF Inv, InChains
    <3> HIDE DEF order
    <3>3. IsFiniteSet(ToSet(order)) /\ Cardinality(ToSet(order)) = num_items
      BY <2>3, SizeOfDifferent
    <3> QED BY <2>3, <3>1, <3>2, <3>3, CountedAll
  <2>5. LinkedBack(order, link)
    BY <2>1 DEF Inv, Listed
  <2> QED BY <2>2, <2>3, <2>4, <2>5 DEF HASH_FSCK
<1> QED BY <1>1, Invariant, PTL

(* HASH_FIND finds exactly what HASH_ITER meets.                           *)
THEOREM FindAndIterate == Spec => []FoundIffListed
<1>1. Inv => FoundIffListed
  BY FoundIs DEF FoundIffListed
<1> QED BY <1>1, Invariant, PTL

(* The table is a set that is iterated over in the order of addition:      *)
(* neither an expansion nor a deletion changes the order of the others.    *)
THEOREM ImplementsOrderedSet == Spec => OrderedSetSpec
<1>1. Init => Ordered!Init
  BY InitInv DEF Ordered!Init
<1>2. Inv /\ [Next]_vars => [Ordered!Next]_order
  BY InvStep
<1> QED BY <1>1, <1>2, Invariant, PTL DEF Spec, OrderedSetSpec, Ordered!Spec
=============================================================================
