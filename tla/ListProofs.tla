----------------------------- MODULE ListProofs -----------------------------
(***************************************************************************)
(* Lemmas about natural numbers, finite sets and lists that the proofs of  *)
(* several components need.  Induction is used as a fact about sets of     *)
(* numbers: a set that holds 0 and the successor of each of its members    *)
(* holds every number.                                                     *)
(***************************************************************************)
EXTENDS Lists, HashBuckets, Integers, SequencesExt, SequenceTheorems, FiniteSetTheorems,
        WellFoundedInduction, TLAPS

(* A set of numbers that is not empty has a least member.                  *)
LEMMA Least ==
  ASSUME NEW T \in SUBSET Nat, T # {}
  PROVE  \E m \in T : \A n \in T : m <= n
<1> DEFINE R == {x \in Nat \X Nat : x[1] < x[2]}
<1>1. IsWellFoundedOn(R, Nat)
  BY NatLessThanWellFounded DEF OpToRel
<1>2. \A x, y \in Nat : y < x => <<y, x>> \in R
  OBVIOUS
<1> HIDE DEF R
<1>3. PICK m \in T : \A n \in T : <<n, m>> \notin R
  BY <1>1, WFMin
<1>4. \A n \in T : ~(n < m)
  BY <1>2, <1>3
<1> QED BY <1>4

(* Induction.                                                              *)
LEMMA Induction ==
  ASSUME NEW I \in SUBSET Nat, 0 \in I, \A n \in I : n + 1 \in I
  PROVE  I = Nat
<1> SUFFICES ASSUME Nat \ I # {} PROVE FALSE
  OBVIOUS
<1>1. PICK m \in Nat \ I : \A n \in Nat \ I : m <= n
  BY Least
<1>2. m - 1 \in Nat /\ m - 1 \notin Nat \ I
  BY <1>1
<1> QED BY <1>1, <1>2

(* The recursion of Without() has a solution, which Without() follows.     *)
LEMMA WithoutFollows ==
  ASSUME NEW S, NEW s \in Seq(S), NEW gone
  PROVE  \E k : /\ \A n \in 0..Len(s) :
                     k[n] = IF n = 0 THEN <<>>
                            ELSE IF s[n] \in gone THEN k[n - 1]
                            ELSE Append(k[n - 1], s[n])
                /\ Without(s, gone) = k[Len(s)]
<1> DEFINE Next(k, n) == IF n = 0 THEN <<>>
                         ELSE IF s[n] \in gone THEN k[n - 1]
                         ELSE Append(k[n - 1], s[n])
           I == {m \in Nat : \E g : g = [n \in 0..m |-> Next(g, n)]}
<1>1. 0 \in I
  <2> DEFINE g == [n \in 0..0 |-> <<>>]
  <2>1. g = [n \in 0..0 |-> Next(g, n)]
    OBVIOUS
  <2> QED BY <2>1
<1>2. ASSUME NEW m \in I PROVE m + 1 \in I
  <2>1. PICK g : g = [n \in 0..m |-> Next(g, n)]
    OBVIOUS
  <2> DEFINE h == [n \in 0..m + 1 |-> IF n <= m THEN g[n] ELSE Next(g, n)]
  <2> HIDE DEF Next
  <2>2. \A n \in 0..m + 1 : h[n] = IF n <= m THEN g[n] ELSE Next(g, n)
    OBVIOUS
  <2>3. \A n \in 0..m + 1 : Next(h, n) = Next(g, n)
    <3> TAKE n \in 0..m + 1
    <3>1. CASE n = 0
      BY <3>1 DEF Next
    <3>2. CASE n # 0
      <4>1. n - 1 \in 0..m + 1 /\ n - 1 <= m
        BY <3>2
      <4>2. h[n - 1] = g[n - 1]
        BY <4>1, <2>2
      <4> QED BY <4>2 DEF Next
    <3> QED BY <3>1, <3>2
  <2>4. \A n \in 0..m : g[n] = Next(g, n)
    BY <2>1
  <2>5. \A n \in 0..m + 1 : h[n] = Next(h, n)
    BY <2>2, <2>3, <2>4
  <2>6. h = [n \in 0..m + 1 |-> Next(h, n)]
    BY <2>5
  <2> HIDE DEF h
  <2> QED BY <2>6
<1>3. I = Nat
  <2> HIDE DEF I
  <2>1. I \in SUBSET Nat
    BY DEF I
  <2> QED BY <1>1, <1>2, <2>1, Induction
<1>4. \E g : g = [n \in 0..Len(s) |-> Next(g, n)]
  BY <1>3
<1> DEFINE k == CHOOSE g : g = [n \in 0..Len(s) |-> Next(g, n)]
<1>5. k = [n \in 0..Len(s) |-> Next(k, n)]
  BY <1>4
<1>6. Without(s, gone) = k[Len(s)]
  BY DEF Without
<1> HIDE DEF k
<1>7. \A n \in 0..Len(s) : k[n] = Next(k, n)
  BY <1>5
<1> QED BY <1>6, <1>7

(* Members of a list.                                                      *)
LEMMA Members ==
  ASSUME NEW T, NEW s \in Seq(T)
  PROVE  /\ Len(s) \in Nat /\ DOMAIN s = 1..Len(s)
         /\ \A i \in 1..Len(s) : s[i] \in T /\ s[i] \in ToSet(s)
         /\ \A x \in ToSet(s) : x \in T /\ \E i \in 1..Len(s) : s[i] = x
         /\ IsInjective(s) <=> \A i, j \in 1..Len(s) : s[i] = s[j] => i = j
<1>1. Len(s) \in Nat /\ DOMAIN s = 1..Len(s)
  BY LenProperties
<1>2. \A i \in 1..Len(s) : s[i] \in T
  BY ElementOfSeq
<1>3. \A x : x \in ToSet(s) <=> \E i \in 1..Len(s) : s[i] = x
  BY <1>1 DEF ToSet
<1> QED BY <1>1, <1>2, <1>3 DEF IsInjective

(* The members of a list after one more is appended.                       *)
LEMMA AppendMembers ==
  ASSUME NEW S, NEW s \in Seq(S), NEW e \in S
  PROVE  /\ Append(s, e) \in Seq(S)
         /\ ToSet(Append(s, e)) = ToSet(s) \union {e}
         /\ Len(Append(s, e)) = Len(s) + 1
         /\ IsInjective(s) /\ e \notin ToSet(s) => IsInjective(Append(s, e))
<1> DEFINE t == Append(s, e)
<1>1. /\ t \in Seq(S) /\ Len(t) = Len(s) + 1
      /\ \A i \in 1..Len(s) : t[i] = s[i]
      /\ t[Len(s) + 1] = e
  BY AppendProperties
<1>2. /\ Len(s) \in Nat /\ DOMAIN s = 1..Len(s) /\ DOMAIN t = 1..Len(s) + 1
      /\ \A i \in 1..Len(s) : s[i] \in S
  BY <1>1, LenProperties, ElementOfSeq
<1> HIDE DEF t
<1>3. 1..Len(s) + 1 = 1..Len(s) \union {Len(s) + 1}
  BY <1>2
<1>4. ToSet(t) = ToSet(s) \union {e}
  BY <1>1, <1>2, <1>3 DEF ToSet
<1>5. ASSUME IsInjective(s), e \notin ToSet(s) PROVE IsInjective(t)
  BY <1>1, <1>2, <1>3, <1>5 DEF ToSet, IsInjective
<1> QED BY <1>1, <1>4, <1>5 DEF t

(* What remains are the members that were not taken out, each once if each *)
(* was there once.                                                         *)
LEMMA WithoutMembers ==
  ASSUME NEW S, NEW s \in Seq(S), NEW gone
  PROVE  /\ Without(s, gone) \in Seq(S)
         /\ ToSet(Without(s, gone)) = ToSet(s) \ gone
         /\ Len(Without(s, gone)) <= Len(s)
         /\ IsInjective(s) => IsInjective(Without(s, gone))
<1>1. PICK k : /\ \A n \in 0..Len(s) :
                    k[n] = IF n = 0 THEN <<>>
                           ELSE IF s[n] \in gone THEN k[n - 1]
                           ELSE Append(k[n - 1], s[n])
               /\ Without(s, gone) = k[Len(s)]
  BY WithoutFollows
<1>2. /\ Len(s) \in Nat /\ DOMAIN s = 1..Len(s)
      /\ \A i \in 1..Len(s) : s[i] \in S
  BY LenProperties, ElementOfSeq
<1> DEFINE Done(n) == {s[i] : i \in 1..n}
           Right(n) ==
             /\ k[n] \in Seq(S)
             /\ ToSet(k[n]) = Done(n) \ gone
             /\ Len(k[n]) <= n
             /\ IsInjective(s) => IsInjective(k[n])
           I == {n \in Nat : n <= Len(s) => Right(n)}
<1>3. 0 \in I
  <2>1. k[0] = <<>>
    BY <1>1, <1>2
  <2>2. /\ <<>> \in Seq(S) /\ Len(<<>>) = 0 /\ ToSet(<<>>) = {}
        /\ IsInjective(<<>>) /\ Done(0) = {}
    BY DEF ToSet, IsInjective
  <2>3. Right(0)
    BY <2>1, <2>2
  <2> QED BY <2>3
<1>4. ASSUME NEW n \in I PROVE n + 1 \in I
  <2> SUFFICES ASSUME n + 1 <= Len(s) PROVE Right(n + 1)
    OBVIOUS
  <2>1. Right(n)
    BY <1>2
  <2>2. k[n + 1] = IF s[n + 1] \in gone THEN k[n] ELSE Append(k[n], s[n + 1])
    <3>1. n + 1 \in 0..Len(s) /\ n + 1 # 0 /\ (n + 1) - 1 = n
      BY <1>2
    <3> QED BY <1>1, <3>1
  <2>3. s[n + 1] \in S
    BY <1>2
  <2>4. Done(n + 1) = Done(n) \union {s[n + 1]}
    <3>1. 1..n + 1 = 1..n \union {n + 1}
      OBVIOUS
    <3> QED BY <3>1
  <2>5. CASE s[n + 1] \in gone
    BY <2>1, <2>2, <2>4, <2>5
  <2>6. CASE s[n + 1] \notin gone
    <3>1. k[n + 1] = Append(k[n], s[n + 1])
      BY <2>2, <2>6
    <3>2. /\ k[n + 1] \in Seq(S)
          /\ ToSet(k[n + 1]) = ToSet(k[n]) \union {s[n + 1]}
          /\ Len(k[n + 1]) = Len(k[n]) + 1
          /\ IsInjective(k[n]) /\ s[n + 1] \notin ToSet(k[n])
               => IsInjective(k[n + 1])
      BY <3>1, <2>1, <2>3, AppendMembers
    <3>3. IsInjective(s) => s[n + 1] \notin Done(n)
      BY <1>2 DEF IsInjective
    <3>4. Len(k[n]) \in Nat
      BY <2>1, LenProperties
    <3> QED BY <2>1, <2>4, <2>6, <3>2, <3>3, <3>4
  <2> QED BY <2>5, <2>6
<1>5. Len(s) \in I
  <2> HIDE DEF I
  <2>1. I \in SUBSET Nat
    BY DEF I
  <2> QED BY <1>2, <1>3, <1>4, <2>1, Induction
<1>6. Done(Len(s)) = ToSet(s)
  BY <1>2 DEF ToSet
<1> QED BY <1>1, <1>5, <1>6

(* A list whose members are different is no longer than its set is large.  *)
LEMMA LenOfDifferent ==
  ASSUME NEW S, IsFiniteSet(S), NEW s \in Seq(S), IsInjective(s)
  PROVE  Len(s) <= Cardinality(S)
<1>1. /\ Len(s) \in Nat /\ DOMAIN s = 1..Len(s) /\ s \in [1..Len(s) -> S]
  BY LenProperties, ElementOfSeq
<1>2. s \in Injection(1..Len(s), S)
  BY <1>1 DEF Injection, IsInjective
<1>3. Cardinality(1..Len(s)) <= Cardinality(S)
  BY <1>2, FS_Injection
<1>4. Cardinality(1..Len(s)) = Len(s)
  BY <1>1, FS_Interval
<1> QED BY <1>3, <1>4

(* A finite set of numbers that is not empty has a greatest member.        *)
LEMMA Greatest ==
  ASSUME NEW T \in SUBSET Nat, T # {}, IsFiniteSet(T)
  PROVE  Max(T) \in T /\ \A n \in T : n <= Max(T)
<1> DEFINE I == {c \in Nat : \A U \in SUBSET Nat :
                   IsFiniteSet(U) /\ Cardinality(U) = c
                     => \E b \in Nat : \A n \in U : n <= b}
<1>1. 0 \in I
  <2>1. \A U \in SUBSET Nat : IsFiniteSet(U) /\ Cardinality(U) = 0 => U = {}
    BY FS_EmptySet
  <2> QED BY <2>1
<1>2. ASSUME NEW c \in I PROVE c + 1 \in I
  <2> SUFFICES ASSUME NEW U \in SUBSET Nat, IsFiniteSet(U),
                      Cardinality(U) = c + 1
               PROVE  \E b \in Nat : \A n \in U : n <= b
    OBVIOUS
  <2>1. U # {}
    BY FS_EmptySet
  <2>2. PICK x \in U : TRUE
    BY <2>1
  <2>3. IsFiniteSet(U \ {x}) /\ Cardinality(U \ {x}) = c
    <3>1. IsFiniteSet(U \ {x}) /\ Cardinality(U \ {x}) = Cardinality(U) - 1
      BY FS_RemoveElement
    <3> QED BY <3>1
  <2>4. PICK b \in Nat : \A n \in U \ {x} : n <= b
    BY <2>3
  <2> DEFINE d == IF x <= b THEN b ELSE x
  <2>5. d \in Nat /\ \A n \in U : n <= d
    BY <2>4
  <2> QED BY <2>5
<1>3. I = Nat
  <2> HIDE DEF I
  <2>1. I \in SUBSET Nat
    BY DEF I
  <2> QED BY <1>1, <1>2, <2>1, Induction
<1>4. \E b \in Nat : \A n \in T : n <= b
  <2>1. Cardinality(T) \in Nat
    BY FS_CardinalityType
  <2>2. Cardinality(T) \in I
    <3> HIDE DEF I
    <3> QED BY <1>3, <2>1
  <2> QED BY <2>2
<1> DEFINE B == {b \in Nat : \A n \in T : n <= b}
<1>5. PICK m \in B : \A b \in B : m <= b
  <2> B \in SUBSET Nat /\ B # {}
    BY <1>4
  <2> HIDE DEF B
  <2> QED BY Least
<1>6. m \in T
  <2> SUFFICES ASSUME m \notin T PROVE FALSE
    OBVIOUS
  <2>1. \A n \in T : n <= m - 1
    BY <1>5
  <2>2. PICK n \in T : TRUE
    OBVIOUS
  <2>3. m - 1 \in B
    BY <2>1, <2>2
  <2> QED BY <1>5, <2>3
<1>7. Max(T) \in T /\ \A n \in T : Max(T) >= n
  <2>1. \E x \in T : \A n \in T : x >= n
    BY <1>5, <1>6
  <2> QED BY <2>1 DEF Max
<1> QED BY <1>7

(* The recursion of Linked() has a solution, which Linked() is.            *)
LEMMA LinkedFollows ==
  ASSUME NEW head, NEW link, NEW len \in Nat
  PROVE  /\ DOMAIN Linked(head, link, len) = 1..len
         /\ Linked(head, link, len) = [i \in 1..len |-> Linked(head, link, len)[i]]
         /\ \A i \in 1..len :
              Linked(head, link, len)[i] =
                IF i = 1 THEN head ELSE link[Linked(head, link, len)[i - 1]].next
<1> DEFINE Next(k, i) == IF i = 1 THEN head ELSE link[k[i - 1]].next
           I == {m \in Nat : \E g : g = [i \in 1..m |-> Next(g, i)]}
<1>1. 0 \in I
  <2> DEFINE g == [i \in 1..0 |-> head]
  <2>1. g = [i \in 1..0 |-> Next(g, i)]
    OBVIOUS
  <2> QED BY <2>1
<1>2. ASSUME NEW m \in I PROVE m + 1 \in I
  <2>1. PICK g : g = [i \in 1..m |-> Next(g, i)]
    OBVIOUS
  <2> DEFINE h == [i \in 1..m + 1 |-> IF i <= m THEN g[i] ELSE Next(g, i)]
  <2> HIDE DEF Next
  <2>2. \A i \in 1..m + 1 : h[i] = IF i <= m THEN g[i] ELSE Next(g, i)
    OBVIOUS
  <2>3. \A i \in 1..m + 1 : Next(h, i) = Next(g, i)
    <3> TAKE i \in 1..m + 1
    <3>1. CASE i = 1
      BY <3>1 DEF Next
    <3>2. CASE i # 1
      <4>1. i - 1 \in 1..m + 1 /\ i - 1 <= m
        BY <3>2
      <4>2. h[i - 1] = g[i - 1]
        BY <4>1, <2>2
      <4> QED BY <4>2 DEF Next
    <3> QED BY <3>1, <3>2
  <2>4. \A i \in 1..m : g[i] = Next(g, i)
    BY <2>1
  <2>5. \A i \in 1..m + 1 : h[i] = Next(h, i)
    BY <2>2, <2>3, <2>4
  <2>6. h = [i \in 1..m + 1 |-> Next(h, i)]
    BY <2>5
  <2> HIDE DEF h
  <2> QED BY <2>6
<1>3. I = Nat
  <2> HIDE DEF I
  <2>1. I \in SUBSET Nat
    BY DEF I
  <2> QED BY <1>1, <1>2, <2>1, Induction
<1>4. \E g : g = [i \in 1..len |-> Next(g, i)]
  BY <1>3
<1> DEFINE k == CHOOSE g : g = [i \in 1..len |-> Next(g, i)]
<1>5. k = [i \in 1..len |-> Next(k, i)]
  BY <1>4
<1>6. Linked(head, link, len) = k
  BY DEF Linked
<1> HIDE DEF k
<1>7. DOMAIN k = 1..len /\ \A i \in 1..len : k[i] = Next(k, i)
  BY <1>5
<1>8. k = [i \in 1..len |-> k[i]]
  <2> HIDE DEF Next
  <2> QED BY <1>5, <1>7
<1> QED BY <1>6, <1>7, <1>8

(* A list whose links are those of the table is what is found by following *)
(* them.                                                                   *)
LEMMA LinkedIs ==
  ASSUME NEW S, NEW s \in Seq(S), NEW head, NEW link,
         s # <<>> => s[1] = head,
         \A i \in 1..Len(s) : i < Len(s) => link[s[i]].next = s[i + 1]
  PROVE  Linked(head, link, Len(s)) = s
<1> DEFINE k == Linked(head, link, Len(s))
           I == {n \in Nat : n <= Len(s) => \A i \in 1..n : k[i] = s[i]}
<1>1. Len(s) \in Nat /\ DOMAIN s = 1..Len(s) /\ s = [i \in 1..Len(s) |-> s[i]]
  BY LenProperties, ElementOfSeq
<1>2. /\ DOMAIN k = 1..Len(s) /\ k = [i \in 1..Len(s) |-> k[i]]
      /\ \A i \in 1..Len(s) : k[i] = IF i = 1 THEN head ELSE link[k[i - 1]].next
  BY <1>1, LinkedFollows
<1> HIDE DEF k
<1>3. 0 \in I
  OBVIOUS
<1>4. ASSUME NEW n \in I PROVE n + 1 \in I
  <2> SUFFICES ASSUME n + 1 <= Len(s), NEW i \in 1..n + 1 PROVE k[i] = s[i]
    OBVIOUS
  <2>1. CASE i <= n
    BY <2>1, <1>1
  <2>2. CASE i = 1
    <3>1. 1 \in 1..Len(s) /\ s # <<>>
      BY <2>2, <1>1
    <3> QED BY <2>2, <1>2, <3>1
  <2>3. CASE i = n + 1 /\ i # 1
    <3>1. n \in 1..Len(s) /\ n < Len(s) /\ k[n] = s[n]
      BY <2>3, <1>1
    <3>2. k[n + 1] = link[k[n]].next
      <4>1. n + 1 \in 1..Len(s) /\ n + 1 # 1 /\ (n + 1) - 1 = n
        BY <2>3, <1>1
      <4> QED BY <1>2, <4>1
    <3> QED BY <2>3, <3>1, <3>2
  <2> QED BY <2>1, <2>2, <2>3
<1>5. Len(s) \in I
  <2> HIDE DEF I
  <2>1. I \in SUBSET Nat
    BY DEF I
  <2> QED BY <1>1, <1>3, <1>4, <2>1, Induction
<1>6. \A i \in 1..Len(s) : k[i] = s[i]
  BY <1>5
<1> QED BY <1>1, <1>2, <1>6 DEF k

(* A list whose members are different is as long as its set is large.      *)
LEMMA SizeOfDifferent ==
  ASSUME NEW S, NEW s \in Seq(S), IsInjective(s)
  PROVE  IsFiniteSet(ToSet(s)) /\ Cardinality(ToSet(s)) = Len(s)
<1>1. Len(s) \in Nat /\ DOMAIN s = 1..Len(s)
  BY LenProperties
<1>2. IsFiniteSet(1..Len(s)) /\ Cardinality(1..Len(s)) = Len(s)
  BY <1>1, FS_Interval
<1>3. s \in Bijection(1..Len(s), ToSet(s))
  <2>1. s \in [1..Len(s) -> ToSet(s)]
    BY <1>1, ElementOfSeq DEF ToSet
  <2>2. \A t \in ToSet(s) : \E i \in 1..Len(s) : s[i] = t
    BY <1>1 DEF ToSet
  <2>3. IsInjective(s)
    OBVIOUS
  <2> QED BY <2>1, <2>2, <2>3 DEF Bijection, Injection, Surjection
<1>4. ExistsBijection(1..Len(s), ToSet(s))
  BY <1>3 DEF ExistsBijection
<1> QED BY <1>2, <1>4, FS_Bijection

(* One more at the head of a list.                                         *)
LEMMA Prepended ==
  ASSUME NEW S, NEW s \in Seq(S), NEW e \in S
  PROVE  /\ <<e>> \o s \in Seq(S)
         /\ Len(<<e>> \o s) = Len(s) + 1
         /\ ToSet(<<e>> \o s) = ToSet(s) \union {e}
         /\ (<<e>> \o s)[1] = e
         /\ \A i \in 1..Len(s) : (<<e>> \o s)[i + 1] = s[i]
         /\ IsInjective(s) /\ e \notin ToSet(s) => IsInjective(<<e>> \o s)
<1> DEFINE t == <<e>> \o s
<1>1. <<e>> \in Seq(S) /\ Len(<<e>>) = 1 /\ <<e>>[1] = e
  OBVIOUS
<1>2. /\ Len(s) \in Nat /\ DOMAIN s = 1..Len(s)
      /\ \A i \in 1..Len(s) : s[i] \in S
  BY LenProperties, ElementOfSeq
<1>3. /\ t \in Seq(S) /\ Len(t) = Len(s) + 1 /\ t[1] = e
      /\ \A i \in 1..Len(s) : t[i + 1] = s[i]
  <2>1. /\ t \in Seq(S) /\ Len(t) = 1 + Len(s)
        /\ \A i \in 1..1 + Len(s) :
             t[i] = IF i <= 1 THEN <<e>>[i] ELSE s[i - 1]
    BY <1>1, ConcatProperties
  <2>2. t[1] = e
    <3>1. 1 \in 1..1 + Len(s)
      BY <1>2
    <3> QED BY <1>1, <2>1, <3>1
  <2>3. ASSUME NEW i \in 1..Len(s) PROVE t[i + 1] = s[i]
    <3>1. i + 1 \in 1..1 + Len(s) /\ ~(i + 1 <= 1) /\ (i + 1) - 1 = i
      BY <1>2
    <3> QED BY <2>1, <3>1
  <2> QED BY <1>2, <2>1, <2>2, <2>3
<1> HIDE DEF t
<1>4. DOMAIN t = 1..Len(s) + 1
  BY <1>3, LenProperties
<1>5. ASSUME NEW i \in 1..Len(s) + 1
      PROVE  i = 1 \/ \E j \in 1..Len(s) : i = j + 1
  <2>1. CASE i # 1
    <3>1. i - 1 \in 1..Len(s) /\ i = (i - 1) + 1
      BY <1>2, <2>1
    <3> QED BY <3>1
  <2> QED BY <2>1
<1>6. ToSet(t) = ToSet(s) \union {e}
  <2>1. ASSUME NEW x \in ToSet(t) PROVE x \in ToSet(s) \union {e}
    BY <1>2, <1>3, <1>4, <1>5 DEF ToSet
  <2>2. ASSUME NEW x \in ToSet(s) \union {e} PROVE x \in ToSet(t)
    <3>1. 1 \in DOMAIN t /\ \A j \in 1..Len(s) : j + 1 \in DOMAIN t
      BY <1>2, <1>4
    <3> QED BY <1>2, <1>3, <3>1 DEF ToSet
  <2> QED BY <2>1, <2>2
<1>7. ASSUME IsInjective(s), e \notin ToSet(s) PROVE IsInjective(t)
  <2> SUFFICES ASSUME NEW i \in 1..Len(s) + 1, NEW j \in 1..Len(s) + 1, t[i] = t[j]
               PROVE  i = j
    BY <1>4 DEF IsInjective
  <2>1. \A k \in 1..Len(s) : s[k] # e
    BY <1>2, <1>7 DEF ToSet
  <2>2. \A k, m \in 1..Len(s) : s[k] = s[m] => k = m
    BY <1>2, <1>7 DEF IsInjective
  <2>3. ASSUME NEW m \in 1..Len(s) + 1, m # 1
        PROVE  m - 1 \in 1..Len(s) /\ t[m] = s[m - 1] /\ t[m] # e
    <3>1. m - 1 \in 1..Len(s) /\ (m - 1) + 1 = m
      BY <1>2, <2>3
    <3> QED BY <1>3, <2>1, <3>1
  <2>4. CASE i = 1
    BY <1>3, <2>3, <2>4
  <2>5. CASE i # 1
    <3>1. j # 1
      BY <1>3, <2>3, <2>5
    <3>2. i - 1 = j - 1
      BY <2>2, <2>3, <2>5, <3>1
    <3> QED BY <3>2
  <2> QED BY <2>4, <2>5
<1> QED BY <1>3, <1>6, <1>7 DEF t

(* When one member is taken out those after it move up.                    *)
LEMMA WithoutOne ==
  ASSUME NEW S, NEW s \in Seq(S), IsInjective(s), NEW k \in 1..Len(s)
  PROVE  /\ Len(Without(s, {s[k]})) = Len(s) - 1
         /\ \A i \in 1..Len(s) - 1 :
              Without(s, {s[k]})[i] = IF i < k THEN s[i] ELSE s[i + 1]
<1>1. PICK r : /\ \A n \in 0..Len(s) :
                    r[n] = IF n = 0 THEN <<>>
                           ELSE IF s[n] \in {s[k]} THEN r[n - 1]
                           ELSE Append(r[n - 1], s[n])
               /\ Without(s, {s[k]}) = r[Len(s)]
  BY WithoutFollows
<1>2. /\ Len(s) \in Nat /\ DOMAIN s = 1..Len(s)
      /\ \A i \in 1..Len(s) : s[i] \in S
  BY LenProperties, ElementOfSeq
<1> DEFINE Right(n) ==
             /\ r[n] \in Seq(S)
             /\ Len(r[n]) = IF n < k THEN n ELSE n - 1
             /\ \A i \in 1..Len(r[n]) :
                  r[n][i] = IF i < k THEN s[i] ELSE s[i + 1]
           I == {n \in Nat : n <= Len(s) => Right(n)}
<1>3. 0 \in I
  <2>1. r[0] = <<>>
    BY <1>1, <1>2
  <2>2. <<>> \in Seq(S) /\ Len(<<>>) = 0
    OBVIOUS
  <2>3. Right(0)
    BY <1>2, <2>1, <2>2
  <2> QED BY <2>3
<1>4. ASSUME NEW n \in I PROVE n + 1 \in I
  <2> SUFFICES ASSUME n + 1 <= Len(s) PROVE Right(n + 1)
    OBVIOUS
  <2>1. Right(n)
    BY <1>2
  <2>2. r[n + 1] = IF n + 1 = k THEN r[n] ELSE Append(r[n], s[n + 1])
    <3>1. n + 1 \in 0..Len(s) /\ n + 1 # 0 /\ (n + 1) - 1 = n
      BY <1>2
    <3>2. s[n + 1] \in {s[k]} <=> n + 1 = k
      BY <1>2 DEF IsInjective
    <3> QED BY <1>1, <3>1, <3>2
  <2>3. CASE n + 1 = k
    BY <2>1, <2>2, <2>3
  <2>4. CASE n + 1 # k
    <3> DEFINE l == Len(r[n])
    <3>1. s[n + 1] \in S
      BY <1>2
    <3>2. /\ r[n + 1] \in Seq(S)
          /\ Len(r[n + 1]) = l + 1
          /\ \A i \in 1..l : r[n + 1][i] = r[n][i]
          /\ r[n + 1][l + 1] = s[n + 1]
      BY <2>1, <2>2, <2>4, <3>1, AppendProperties
    <3>3. l = IF n < k THEN n ELSE n - 1
      BY <2>1
    <3>4. Len(r[n + 1]) = IF n + 1 < k THEN n + 1 ELSE (n + 1) - 1
      BY <2>4, <3>2, <3>3
    <3>5. ASSUME NEW i \in 1..Len(r[n + 1])
          PROVE  r[n + 1][i] = IF i < k THEN s[i] ELSE s[i + 1]
      <4>1. CASE i \in 1..l
        BY <2>1, <3>2, <4>1
      <4>2. CASE i = l + 1
        BY <2>4, <3>2, <3>3, <4>2
      <4> QED BY <3>2, <3>3, <4>1, <4>2
    <3> QED BY <3>2, <3>4, <3>5
  <2> QED BY <2>3, <2>4
<1>5. Len(s) \in I
  <2> HIDE DEF I
  <2>1. I \in SUBSET Nat
    BY DEF I
  <2> QED BY <1>2, <1>3, <1>4, <2>1, Induction
<1>6. Right(Len(s))
  BY <1>2, <1>5
<1> HIDE DEF I
<1>7. Len(r[Len(s)]) = Len(s) - 1
  <2>1. ~(Len(s) < k)
    BY <1>2
  <2>2. Len(r[Len(s)]) = IF Len(s) < k THEN Len(s) ELSE Len(s) - 1
    <3> HIDE <1>1, <1>3, <1>4
    <3> QED BY <1>6
  <2> QED BY <2>1, <2>2
<1>8. \A i \in 1..Len(s) - 1 :
        r[Len(s)][i] = IF i < k THEN s[i] ELSE s[i + 1]
  BY <1>6, <1>7
<1> HIDE DEF Right
<1> QED BY <1>1, <1>7, <1>8

(* The number of buckets is 1, and then twice what it was.                 *)
LEMMA BucketsFollow ==
  \A n \in Nat : NumBuckets[n] = IF n = 0 THEN 1 ELSE 2 * NumBuckets[n - 1]
<1> DEFINE Next(g, n) == IF n = 0 THEN 1 ELSE 2 * g[n - 1]
           I == {m \in Nat : \E g : g = [n \in 0..m |-> Next(g, n)]}
<1>1. 0 \in I
  <2> DEFINE g == [n \in 0..0 |-> 1]
  <2>1. g = [n \in 0..0 |-> Next(g, n)]
    OBVIOUS
  <2> QED BY <2>1
<1>2. ASSUME NEW m \in I PROVE m + 1 \in I
  <2>1. PICK g : g = [n \in 0..m |-> Next(g, n)]
    OBVIOUS
  <2> DEFINE h == [n \in 0..m + 1 |-> IF n <= m THEN g[n] ELSE Next(g, n)]
  <2> HIDE DEF Next
  <2>2. \A n \in 0..m + 1 : h[n] = IF n <= m THEN g[n] ELSE Next(g, n)
    OBVIOUS
  <2>3. \A n \in 0..m + 1 : Next(h, n) = Next(g, n)
    <3> TAKE n \in 0..m + 1
    <3>1. CASE n = 0
      BY <3>1 DEF Next
    <3>2. CASE n # 0
      <4>1. n - 1 \in 0..m + 1 /\ n - 1 <= m
        BY <3>2
      <4>2. h[n - 1] = g[n - 1]
        BY <4>1, <2>2
      <4> QED BY <4>2 DEF Next
    <3> QED BY <3>1, <3>2
  <2>4. \A n \in 0..m : g[n] = Next(g, n)
    BY <2>1
  <2>5. \A n \in 0..m + 1 : h[n] = Next(h, n)
    BY <2>2, <2>3, <2>4
  <2>6. h = [n \in 0..m + 1 |-> Next(h, n)]
    BY <2>5
  <2> HIDE DEF h
  <2> QED BY <2>6
<1>3. I = Nat
  <2> HIDE DEF I
  <2>1. I \in SUBSET Nat
    BY DEF I
  <2> QED BY <1>1, <1>2, <2>1, Induction
<1> DEFINE G(m) == CHOOSE g : g = [n \in 0..m |-> Next(g, n)]
<1>4. ASSUME NEW m \in Nat, NEW n \in 0..m
      PROVE  G(m)[n] = IF n = 0 THEN 1 ELSE 2 * G(m)[n - 1]
  <2>1. G(m) = [k \in 0..m |-> Next(G(m), k)]
    BY <1>3
  <2> HIDE DEF G
  <2>2. G(m)[n] = Next(G(m), n)
    <3> HIDE DEF Next
    <3> QED BY <2>1
  <2> QED BY <2>2
<1> HIDE DEF G
<1> DEFINE J == {n \in Nat : \A m \in Nat : n <= m => G(m)[n] = G(n)[n]}
<1>5. J = Nat
  <2>1. 0 \in J
    <3>1. \A m \in Nat : G(m)[0] = 1
      BY <1>4
    <3> QED BY <3>1
  <2>2. ASSUME NEW n \in J PROVE n + 1 \in J
    <3> SUFFICES ASSUME NEW m \in Nat, n + 1 <= m
                 PROVE  G(m)[n + 1] = G(n + 1)[n + 1]
      OBVIOUS
    <3>1. ASSUME NEW k \in Nat, n + 1 <= k PROVE G(k)[n + 1] = 2 * G(n)[n]
      <4>1. n + 1 \in 0..k /\ n + 1 # 0 /\ (n + 1) - 1 = n
        BY <3>1
      <4>2. G(k)[n + 1] = 2 * G(k)[n]
        BY <1>4, <4>1
      <4>3. G(k)[n] = G(n)[n]
        BY <3>1
      <4> QED BY <4>2, <4>3
    <3>2. n + 1 \in Nat /\ n + 1 <= n + 1
      OBVIOUS
    <3> QED BY <3>1, <3>2
  <2> HIDE DEF J
  <2>3. J \in SUBSET Nat
    BY DEF J
  <2> QED BY <2>1, <2>2, <2>3, Induction
<1> DEFINE f == [n \in Nat |-> G(n)[n]]
<1>6. ASSUME NEW n \in Nat PROVE f[n] = IF n = 0 THEN 1 ELSE 2 * f[n - 1]
  <2>1. G(n)[n] = IF n = 0 THEN 1 ELSE 2 * G(n)[n - 1]
    BY <1>4
  <2>2. CASE n # 0
    <3>1. n - 1 \in Nat /\ n - 1 <= n
      BY <2>2
    <3>2. G(n)[n - 1] = G(n - 1)[n - 1]
      BY <1>5, <3>1
    <3> QED BY <2>1, <2>2, <3>1, <3>2
  <2> QED BY <2>1, <2>2
<1>7. f = [n \in Nat |-> Next(f, n)]
  <2>1. \A n \in Nat : f[n] = Next(f, n)
    BY <1>6
  <2>2. f = [n \in Nat |-> f[n]]
    OBVIOUS
  <2> HIDE DEF f, Next
  <2> QED BY <2>1, <2>2
<1>8. NumBuckets = [n \in Nat |-> Next(NumBuckets, n)]
  <2> HIDE DEF f
  <2> QED BY <1>7 DEF NumBuckets
<1> QED BY <1>8

(* There are always buckets, and every hash value has one.                 *)
LEMMA BucketTypes ==
  ASSUME NEW n \in Nat
  PROVE  /\ NumBuckets[n] \in Nat \ {0}
         /\ \A h \in Nat : ToBucket(h, n) \in Index(n)
<1> DEFINE I == {m \in Nat : NumBuckets[m] \in Nat \ {0}}
<1>1. 0 \in I
  BY BucketsFollow
<1>2. ASSUME NEW m \in I PROVE m + 1 \in I
  <2>1. NumBuckets[m + 1] = 2 * NumBuckets[m]
    <3>1. m + 1 \in Nat /\ m + 1 # 0 /\ (m + 1) - 1 = m
      OBVIOUS
    <3> QED BY <3>1, BucketsFollow
  <2> QED BY <2>1
<1>3. I = Nat
  <2> HIDE DEF I
  <2>1. I \in SUBSET Nat
    BY DEF I
  <2> QED BY <1>1, <1>2, <2>1, Induction
<1>4. NumBuckets[n] \in Nat \ {0}
  BY <1>3
<1> HIDE DEF I
<1> QED BY <1>4 DEF ToBucket, Index

(* Two lists one after the other.                                          *)
LEMMA Concatenated ==
  ASSUME NEW S, NEW s \in Seq(S), NEW t \in Seq(S)
  PROVE  /\ s \o t \in Seq(S)
         /\ ToSet(s \o t) = ToSet(s) \union ToSet(t)
         /\ IsInjective(s) /\ IsInjective(t) /\ ToSet(s) \cap ToSet(t) = {}
              => IsInjective(s \o t)
<1> DEFINE u == s \o t
<1>1. /\ u \in Seq(S) /\ Len(u) = Len(s) + Len(t)
      /\ \A i \in 1..Len(s) + Len(t) :
           u[i] = IF i <= Len(s) THEN s[i] ELSE t[i - Len(s)]
  BY ConcatProperties
<1>2. /\ Len(s) \in Nat /\ DOMAIN s = 1..Len(s)
      /\ Len(t) \in Nat /\ DOMAIN t = 1..Len(t)
      /\ DOMAIN u = 1..Len(s) + Len(t)
  BY <1>1, LenProperties
<1> HIDE DEF u
<1>3. /\ \A i \in 1..Len(s) : i \in DOMAIN u /\ u[i] = s[i]
      /\ \A i \in 1..Len(t) : i + Len(s) \in DOMAIN u /\ u[i + Len(s)] = t[i]
  <2>1. ASSUME NEW i \in 1..Len(t)
        PROVE  i + Len(s) \in DOMAIN u /\ u[i + Len(s)] = t[i]
    <3>1. /\ i + Len(s) \in 1..Len(s) + Len(t) /\ ~(i + Len(s) <= Len(s))
          /\ (i + Len(s)) - Len(s) = i
      BY <1>2
    <3> QED BY <1>1, <1>2, <3>1
  <2> QED BY <1>1, <1>2, <2>1
<1>4. ASSUME NEW i \in DOMAIN u
      PROVE  \/ i \in 1..Len(s) /\ u[i] = s[i]
             \/ i - Len(s) \in 1..Len(t) /\ u[i] = t[i - Len(s)]
  BY <1>1, <1>2
<1>5. ToSet(u) = ToSet(s) \union ToSet(t)
  <2>1. ASSUME NEW x \in ToSet(u) PROVE x \in ToSet(s) \union ToSet(t)
    BY <1>2, <1>4 DEF ToSet
  <2>2. ASSUME NEW x \in ToSet(s) \union ToSet(t) PROVE x \in ToSet(u)
    BY <1>2, <1>3 DEF ToSet
  <2> QED BY <2>1, <2>2
<1>6. ASSUME IsInjective(s), IsInjective(t), ToSet(s) \cap ToSet(t) = {}
      PROVE  IsInjective(u)
  <2> SUFFICES ASSUME NEW i \in DOMAIN u, NEW j \in DOMAIN u, u[i] = u[j]
               PROVE  i = j
    BY DEF IsInjective
  <2>1. \A k \in 1..Len(s), m \in 1..Len(t) : s[k] # t[m]
    BY <1>2, <1>6 DEF ToSet
  <2>2. CASE i \in 1..Len(s) /\ u[i] = s[i] /\ j \in 1..Len(s) /\ u[j] = s[j]
    BY <1>2, <1>6, <2>2 DEF IsInjective
  <2>3. CASE /\ i - Len(s) \in 1..Len(t) /\ u[i] = t[i - Len(s)]
             /\ j - Len(s) \in 1..Len(t) /\ u[j] = t[j - Len(s)]
    <3>1. i - Len(s) = j - Len(s)
      BY <1>2, <1>6, <2>3 DEF IsInjective
    <3> QED BY <1>2, <3>1
  <2> QED BY <1>4, <2>1, <2>2, <2>3
<1> QED BY <1>1, <1>5, <1>6 DEF u

(* The union of a family with one more set.                                *)
LEMMA UnionOfMore ==
  ASSUME NEW A, NEW T
  PROVE  UNION (A \union {T}) = (UNION A) \union T
<1>1. ASSUME NEW x \in UNION (A \union {T}) PROVE x \in (UNION A) \union T
  <2>1. PICK U \in A \union {T} : x \in U
    BY <1>1
  <2>2. CASE U = T
    BY <2>1, <2>2
  <2>3. CASE U \in A
    BY <2>1, <2>3
  <2> QED BY <2>1, <2>2, <2>3
<1>2. ASSUME NEW x \in (UNION A) \union T PROVE x \in UNION (A \union {T})
  <2>1. CASE x \in T
    <3>1. T \in A \union {T}
      OBVIOUS
    <3> QED BY <2>1, <3>1
  <2>2. CASE x \in UNION A
    <3>1. PICK U \in A : x \in U
      BY <2>2
    <3>2. U \in A \union {T}
      OBVIOUS
    <3> QED BY <3>1, <3>2
  <2> QED BY <1>2, <2>1, <2>2
<1> QED BY <1>1, <1>2

(* Lists that have no member in common, one after the other.               *)
LEMMA Flattened ==
  ASSUME NEW S, NEW q \in Seq(Seq(S)), q # <<>>,
         \A i \in 1..Len(q) : IsInjective(q[i]),
         \A i, j \in 1..Len(q) : i # j => ToSet(q[i]) \cap ToSet(q[j]) = {}
  PROVE  /\ FlattenSeq(q) \in Seq(S)
         /\ IsInjective(FlattenSeq(q))
         /\ ToSet(FlattenSeq(q)) = UNION {ToSet(q[i]) : i \in 1..Len(q)}
<1>1. Len(q) \in Nat \ {0} /\ \A i \in 1..Len(q) : q[i] \in Seq(S)
  BY LenProperties, ElementOfSeq, EmptySeq
<1> DEFINE Next(f, i) == IF i = 1 THEN q[i] ELSE f[i - 1] \o q[i]
           I == {m \in Nat : \E g : g = [i \in 1..m |-> Next(g, i)]}
<1>2. 0 \in I
  <2> DEFINE g == [i \in 1..0 |-> q]
  <2>1. g = [i \in 1..0 |-> Next(g, i)]
    OBVIOUS
  <2> QED BY <2>1
<1>3. ASSUME NEW m \in I PROVE m + 1 \in I
  <2>1. PICK g : g = [i \in 1..m |-> Next(g, i)]
    OBVIOUS
  <2> DEFINE h == [i \in 1..m + 1 |-> IF i <= m THEN g[i] ELSE Next(g, i)]
  <2> HIDE DEF Next
  <2>2. \A i \in 1..m + 1 : h[i] = IF i <= m THEN g[i] ELSE Next(g, i)
    OBVIOUS
  <2>3. \A i \in 1..m + 1 : Next(h, i) = Next(g, i)
    <3> TAKE i \in 1..m + 1
    <3>1. CASE i = 1
      BY <3>1 DEF Next
    <3>2. CASE i # 1
      <4>1. i - 1 \in 1..m + 1 /\ i - 1 <= m
        BY <3>2
      <4>2. h[i - 1] = g[i - 1]
        BY <4>1, <2>2
      <4> QED BY <4>2 DEF Next
    <3> QED BY <3>1, <3>2
  <2>4. \A i \in 1..m : g[i] = Next(g, i)
    BY <2>1
  <2>5. \A i \in 1..m + 1 : h[i] = Next(h, i)
    <3> HIDE DEF h
    <3> TAKE i \in 1..m + 1
    <3>1. CASE i <= m
      <4>1. i \in 1..m
        BY <3>1
      <4> QED BY <2>2, <2>3, <2>4, <3>1, <4>1
    <3>2. CASE ~(i <= m)
      BY <2>2, <2>3, <3>2
    <3> QED BY <3>1, <3>2
  <2>6. h = [i \in 1..m + 1 |-> Next(h, i)]
    BY <2>5
  <2> HIDE DEF h
  <2> QED BY <2>6
<1>4. \E g : g = [i \in 1..Len(q) |-> Next(g, i)]
  <2> HIDE DEF I
  <2>1. I \in SUBSET Nat
    BY DEF I
  <2>2. I = Nat
    BY <1>2, <1>3, <2>1, Induction
  <2>3. Len(q) \in I
    BY <1>1, <2>2
  <2> QED BY <2>3 DEF I
<1> HIDE DEF I
<1> DEFINE f == CHOOSE g : g = [i \in 1..Len(q) |-> Next(g, i)]
<1>5. f = [i \in 1..Len(q) |-> Next(f, i)]
  BY <1>4
<1>6. FlattenSeq(q) = f[Len(q)]
  BY <1>1 DEF FlattenSeq
<1> HIDE DEF f
<1>7. \A i \in 1..Len(q) : f[i] = IF i = 1 THEN q[i] ELSE f[i - 1] \o q[i]
  <2>1. \A i \in 1..Len(q) : f[i] = Next(f, i)
    <3> HIDE DEF Next
    <3> QED BY <1>5
  <2> QED BY <2>1
<1> DEFINE Right(n) ==
             /\ f[n] \in Seq(S)
             /\ IsInjective(f[n])
             /\ ToSet(f[n]) = UNION {ToSet(q[i]) : i \in 1..n}
           K == {n \in Nat : n \in 1..Len(q) => Right(n)}
<1>8. 0 \in K
  OBVIOUS
<1>9. ASSUME NEW n \in K PROVE n + 1 \in K
  <2> SUFFICES ASSUME n + 1 \in 1..Len(q) PROVE Right(n + 1)
    OBVIOUS
  <2>1. CASE n = 0
    <3>1. f[n + 1] = q[1]
      BY <1>7, <2>1
    <3>2. UNION {ToSet(q[i]) : i \in 1..n + 1} = ToSet(q[1])
      <4>1. 1..n + 1 = {1}
        BY <2>1
      <4> QED BY <4>1
    <3>3. q[1] \in Seq(S) /\ IsInjective(q[1])
      BY <1>1
    <3> QED BY <3>1, <3>2, <3>3
  <2>2. CASE n # 0
    <3>1. n \in 1..Len(q) /\ Right(n)
      BY <2>2
    <3>2. f[n + 1] = f[n] \o q[n + 1]
      <4>1. n + 1 # 1 /\ (n + 1) - 1 = n
        BY <2>2
      <4> QED BY <1>7, <4>1
    <3>3. q[n + 1] \in Seq(S) /\ IsInjective(q[n + 1])
      BY <1>1
    <3>4. ToSet(f[n]) \cap ToSet(q[n + 1]) = {}
      <4>1. \A i \in 1..n : i \in 1..Len(q) /\ i # n + 1
        BY <3>1
      <4>2. \A i \in 1..n : ToSet(q[i]) \cap ToSet(q[n + 1]) = {}
        BY <4>1
      <4> QED BY <3>1, <4>2
    <3>5. /\ f[n + 1] \in Seq(S) /\ IsInjective(f[n + 1])
          /\ ToSet(f[n + 1]) = ToSet(f[n]) \union ToSet(q[n + 1])
      <4>1. f[n] \in Seq(S) /\ IsInjective(f[n])
        BY <3>1
      <4> HIDE DEF Right, K
      <4> HIDE <3>1
      <4> QED BY <3>2, <3>3, <3>4, <4>1, Concatenated
    <3>6. UNION {ToSet(q[i]) : i \in 1..n + 1}
            = (UNION {ToSet(q[i]) : i \in 1..n}) \union ToSet(q[n + 1])
      <4>1. 1..n + 1 = 1..n \union {n + 1}
        OBVIOUS
      <4>2. {ToSet(q[i]) : i \in 1..n + 1}
              = {ToSet(q[i]) : i \in 1..n} \union {ToSet(q[n + 1])}
        BY <4>1
      <4> DEFINE A == {ToSet(q[i]) : i \in 1..n}
                 B == {ToSet(q[i]) : i \in 1..n + 1}
      <4> HIDE DEF A, B
      <4>3. B = A \union {ToSet(q[n + 1])}
        BY <4>2 DEF A, B
      <4>4. UNION B = (UNION A) \union ToSet(q[n + 1])
        <5>1. UNION (A \union {ToSet(q[n + 1])}) = (UNION A) \union ToSet(q[n + 1])
          BY UnionOfMore
        <5> QED BY <4>3, <5>1
      <4> QED BY <4>4 DEF A, B
    <3> QED BY <3>1, <3>5, <3>6
  <2> QED BY <2>1, <2>2
<1>10. Len(q) \in K
  <2> HIDE DEF K
  <2>1. K \in SUBSET Nat
    BY DEF K
  <2> QED BY <1>1, <1>8, <1>9, <2>1, Induction
<1>11. Right(Len(q))
  BY <1>1, <1>10
<1> QED BY <1>6, <1>11

(* A multiple of a number that is not 0 is no smaller.                     *)
LEMMA Multiple ==
  ASSUME NEW n \in Nat \ {0}, NEW k \in Int, k >= 1
  PROVE  n * k >= n
OBVIOUS

(* Quotient and remainder.                                                 *)
LEMMA Remainder ==
  ASSUME NEW n \in Nat \ {0}, NEW h \in Nat
  PROVE  /\ h % n \in 0..n - 1 /\ h \div n \in Nat
         /\ h = n * (h \div n) + (h % n)
OBVIOUS

(* There is one remainder.                                                 *)
LEMMA Unique ==
  ASSUME NEW n \in Nat \ {0}, NEW a \in Int, NEW b \in Int, NEW r \in 0..n-1, NEW s \in 0..n-1,
         n * a + r = n * b + s
  PROVE  r = s
<1>1. CASE a - b >= 1
  <2>1. n * (a - b) >= n
    BY <1>1, Multiple
  <2>2. n * (a - b) = n * a - n * b
    OBVIOUS
  <2> QED BY <2>1, <2>2
<1>2. CASE b - a >= 1
  <2>1. n * (b - a) >= n
    BY <1>2, Multiple
  <2>2. n * (b - a) = n * b - n * a
    OBVIOUS
  <2> QED BY <2>1, <2>2
<1> QED BY <1>1, <1>2

(* The remainder by n of that by 2n.                                       *)
LEMMA Half ==
  ASSUME NEW n \in Nat \ {0}, NEW h \in Nat
  PROVE  (h % (2 * n)) % n = h % n
<1> DEFINE m == 2 * n
           r == h % m
<1>1. m \in Nat \ {0}
  OBVIOUS
<1> HIDE DEF m
<1>2. r \in Nat /\ h = m * (h \div m) + r /\ h \div m \in Nat
  BY <1>1, Remainder
<1> DEFINE q == h \div m
<1> HIDE DEF r, q
<1>3. /\ r % n \in 0..n - 1 /\ r \div n \in Nat /\ r = n * (r \div n) + (r % n)
      /\ h % n \in 0..n - 1 /\ h \div n \in Nat /\ h = n * (h \div n) + (h % n)
  BY <1>2, Remainder
<1> DEFINE a == r \div n
           b == h \div n
           c == r % n
           d == h % n
<1>4. q \in Nat /\ h = m * q + r
  BY <1>2 DEF q
<1> HIDE DEF a, b, c, d
<1>5. /\ c \in 0..n - 1 /\ a \in Nat /\ r = n * a + c
      /\ d \in 0..n - 1 /\ b \in Nat /\ h = n * b + d
  BY <1>3 DEF a, b, c, d
<1>6. m * q = n * (2 * q)
  BY <1>4 DEF m
<1>7. n * (2 * q + a) = n * (2 * q) + n * a
  BY <1>4, <1>5
<1>8. n * (2 * q + a) + c = n * b + d
  <2> DEFINE x == n * (2 * q)
             y == n * a
             z == n * b
             w == n * (2 * q + a)
  <2>1. x \in Int /\ y \in Int /\ z \in Int /\ w \in Int
    BY <1>4, <1>5
  <2>2. h = x + r /\ r = y + c /\ h = z + d /\ w = x + y
    BY <1>4, <1>5, <1>6, <1>7
  <2> HIDE DEF x, y, z, w
  <2>3. w + c = z + d
    BY <1>2, <1>5, <2>1, <2>2
  <2> QED BY <2>3 DEF w, z
<1>9. 2 * q + a \in Int /\ b \in Int
  BY <1>4, <1>5
<1>10. c = d
  BY <1>5, <1>8, <1>9, Unique
<1> QED BY <1>10 DEF c, d, r, m

(* Divided and rounded up, a number that is not 0 is not 0.                *)
LEMMA CeilPos ==
  ASSUME NEW n \in Nat \ {0}, NEW d \in Nat \ {0}
  PROVE  (n + d - 1) \div d \in Nat \ {0}
<1> DEFINE x == n + d - 1
           q == x \div d
<1>1. x \in Nat /\ x >= d
  OBVIOUS
<1> HIDE DEF x
<1>2. q \in Nat /\ x = d * q + (x % d) /\ x % d \in 0..d - 1
  BY <1>1, Remainder
<1> HIDE DEF q
<1>3. q # 0
  <2>1. CASE q = 0
    <3>1. d * q = 0
      BY <2>1
    <3> QED BY <1>1, <1>2, <3>1
  <2> QED BY <2>1
<1> QED BY <1>2, <1>3 DEF q, x

(* The recursion of Counted() has a solution, which Counted() follows.     *)
LEMMA CountedFollows ==
  ASSUME NEW buckets, NEW n \in Nat
  PROVE  \E k : /\ \A i \in 0..n :
                     k[i] = IF i = 0 THEN 0 ELSE k[i - 1] + buckets[i - 1].count
                /\ Counted(buckets, n) = k[n]
<1> DEFINE Next(k, i) == IF i = 0 THEN 0 ELSE k[i - 1] + buckets[i - 1].count
           I == {m \in Nat : \E g : g = [i \in 0..m |-> Next(g, i)]}
<1>1. 0 \in I
  <2> DEFINE g == [i \in 0..0 |-> 0]
  <2>1. g = [i \in 0..0 |-> Next(g, i)]
    OBVIOUS
  <2> QED BY <2>1
<1>2. ASSUME NEW m \in I PROVE m + 1 \in I
  <2>1. PICK g : g = [i \in 0..m |-> Next(g, i)]
    OBVIOUS
  <2> DEFINE h == [i \in 0..m + 1 |-> IF i <= m THEN g[i] ELSE Next(g, i)]
  <2> HIDE DEF Next
  <2>2. \A i \in 0..m + 1 : h[i] = IF i <= m THEN g[i] ELSE Next(g, i)
    OBVIOUS
  <2>3. \A i \in 0..m + 1 : Next(h, i) = Next(g, i)
    <3> TAKE i \in 0..m + 1
    <3>1. CASE i = 0
      BY <3>1 DEF Next
    <3>2. CASE i # 0
      <4>1. i - 1 \in 0..m + 1 /\ i - 1 <= m
        BY <3>2
      <4>2. h[i - 1] = g[i - 1]
        BY <4>1, <2>2
      <4> QED BY <4>2 DEF Next
    <3> QED BY <3>1, <3>2
  <2>4. \A i \in 0..m : g[i] = Next(g, i)
    BY <2>1
  <2>5. \A i \in 0..m + 1 : h[i] = Next(h, i)
    BY <2>2, <2>3, <2>4
  <2>6. h = [i \in 0..m + 1 |-> Next(h, i)]
    BY <2>5
  <2> HIDE DEF h
  <2> QED BY <2>6
<1>3. I = Nat
  <2> HIDE DEF I
  <2>1. I \in SUBSET Nat
    BY DEF I
  <2> QED BY <1>1, <1>2, <2>1, Induction
<1>4. \E g : g = [i \in 0..n |-> Next(g, i)]
  BY <1>3
<1> DEFINE k == CHOOSE g : g = [i \in 0..n |-> Next(g, i)]
<1>5. k = [i \in 0..n |-> Next(k, i)]
  BY <1>4
<1>6. Counted(buckets, n) = k[n]
  BY DEF Counted
<1> HIDE DEF k
<1>7. \A i \in 0..n : k[i] = Next(k, i)
  <2> HIDE DEF Next
  <2> QED BY <1>5
<1> QED BY <1>6, <1>7

(* A bucket of a table and those it is divided into.                       *)
LEMMA Halves ==
  ASSUME NEW l \in Nat
  PROVE  /\ l + 1 \in Nat /\ NumBuckets[l + 1] = 2 * NumBuckets[l]
         /\ \A h \in Nat : ToBucket(ToBucket(h, l + 1), l) = ToBucket(h, l)
<1> DEFINE n == NumBuckets[l]
<1>1. l + 1 \in Nat /\ NumBuckets[l + 1] = 2 * n
  <2>1. l + 1 \in Nat /\ l + 1 # 0 /\ (l + 1) - 1 = l
    OBVIOUS
  <2> QED BY <2>1, BucketsFollow
<1>2. n \in Nat \ {0}
  BY BucketTypes
<1>3. \A h \in Nat : (h % NumBuckets[l + 1]) % n = h % n
  <2> HIDE DEF n
  <2> QED BY <1>1, <1>2, Half
<1> QED BY <1>1, <1>3 DEF ToBucket

(* A list the other way round.                                             *)
LEMMA Reversed ==
  ASSUME NEW S, NEW s \in Seq(S)
  PROVE  /\ Reverse(s) \in Seq(S)
         /\ Len(Reverse(s)) = Len(s)
         /\ ToSet(Reverse(s)) = ToSet(s)
         /\ IsInjective(s) => IsInjective(Reverse(s))
<1> DEFINE t == Reverse(s)
<1>1. Len(s) \in Nat /\ DOMAIN s = 1..Len(s) /\ \A i \in 1..Len(s) : s[i] \in S
  BY LenProperties, ElementOfSeq
<1>2. DOMAIN t = 1..Len(s) /\ \A i \in 1..Len(s) : t[i] = s[(Len(s) - i) + 1]
  BY DEF Reverse
<1>3. \A i \in 1..Len(s) : (Len(s) - i) + 1 \in 1..Len(s)
  BY <1>1
<1>4. t \in [1..Len(s) -> S]
  <2>1. t = [i \in 1..Len(s) |-> t[i]]
    BY DEF Reverse
  <2>2. \A i \in 1..Len(s) : t[i] \in S
    BY <1>1, <1>2, <1>3
  <2> HIDE DEF t
  <2> QED BY <2>1, <2>2
<1> HIDE DEF t
<1>5. t \in Seq(S) /\ Len(t) = Len(s)
  BY <1>1, <1>2, <1>4, LenProperties
<1>6. ToSet(t) = ToSet(s)
  <2>1. ASSUME NEW x \in ToSet(t) PROVE x \in ToSet(s)
    BY <1>1, <1>2, <1>3 DEF ToSet
  <2>2. ASSUME NEW x \in ToSet(s) PROVE x \in ToSet(t)
    <3>1. PICK i \in 1..Len(s) : x = s[i]
      BY <1>1 DEF ToSet
    <3> DEFINE j == (Len(s) - i) + 1
    <3>2. j \in 1..Len(s) /\ (Len(s) - j) + 1 = i
      BY <1>1
    <3> HIDE DEF j
    <3>3. t[j] = x
      BY <1>2, <3>1, <3>2
    <3> QED BY <1>2, <3>2, <3>3 DEF ToSet
  <2> QED BY <2>1, <2>2
<1>7. ASSUME IsInjective(s) PROVE IsInjective(t)
  <2> SUFFICES ASSUME NEW i \in 1..Len(s), NEW j \in 1..Len(s), t[i] = t[j]
               PROVE  i = j
    BY <1>2 DEF IsInjective
  <2>1. (Len(s) - i) + 1 = (Len(s) - j) + 1
    BY <1>1, <1>2, <1>3, <1>7 DEF IsInjective
  <2> QED BY <1>1, <2>1
<1> QED BY <1>5, <1>6, <1>7 DEF t

(* Taking out the only place of a member.                                  *)
LEMMA RemovedAt ==
  ASSUME NEW S, NEW s \in Seq(S), IsInjective(s), NEW k \in 1..Len(s)
  PROVE  Without(s, {s[k]}) = RemoveAt(s, k)
<1> DEFINE n == Len(s)
           w == Without(s, {s[k]})
           a == SubSeq(s, 1, k - 1)
           b == SubSeq(s, k + 1, n)
           r == RemoveAt(s, k)
<1>1. n \in Nat
  BY LenProperties
<1>2. a \in Seq(S) /\ Len(a) = k - 1 /\ \A i \in 1..k - 1 : a[i] = s[i]
  <2>1. \A i \in 1..k - 1 : s[i] \in S
    BY <1>1, ElementOfSeq
  <2>2. 1 \in Int /\ k - 1 \in Int
    BY <1>1
  <2> QED BY <1>1, <2>1, <2>2, SubSeqProperties
<1>3. b \in Seq(S) /\ Len(b) = n - k /\ \A i \in 1..n - k : b[i] = s[k + i]
  <2>1. \A i \in k + 1..n : s[i] \in S
    BY <1>1, ElementOfSeq
  <2> DEFINE m == k + 1
  <2>2. m \in Int /\ n \in Int /\ b = SubSeq(s, m, n)
    BY <1>1
  <2> HIDE DEF b, n
  <2>3. /\ b \in Seq(S) /\ Len(b) = IF m <= n THEN (n - m) + 1 ELSE 0
        /\ \A i \in 1..(n - m) + 1 : b[i] = s[(m + i) - 1]
    <3>1. \A i \in m..n : s[i] \in S
      BY <2>1
    <3> HIDE DEF m
    <3> QED BY <2>2, <3>1, SubSeqProperties
  <2>4. k \in 1..n
    BY DEF n
  <2>5. (n - m) + 1 = n - k
    BY <1>1, <2>4
  <2>6. \A i \in 1..n - k : (m + i) - 1 = k + i
    BY <1>1, <2>4
  <2>7. Len(b) = n - k
    BY <1>1, <2>3, <2>4
  <2>8. \A i \in 1..n - k : b[i] = s[k + i]
    <3> TAKE i \in 1..n - k
    <3>1. i \in 1..(n - m) + 1 /\ (m + i) - 1 = k + i
      BY <2>5, <2>6
    <3>2. b[i] = s[(m + i) - 1]
      BY <2>3, <3>1
    <3> HIDE DEF m
    <3> QED BY <3>1, <3>2
  <2> QED BY <2>3, <2>7, <2>8
<1>4. r = a \o b
  BY DEF RemoveAt
<1> HIDE DEF a, b, r
<1>5. /\ r \in Seq(S) /\ Len(r) = n - 1
      /\ \A i \in 1..n - 1 : r[i] = IF i < k THEN s[i] ELSE s[i + 1]
  <2>1. /\ r \in Seq(S) /\ Len(r) = Len(a) + Len(b)
        /\ \A i \in 1..Len(a) + Len(b) :
             r[i] = IF i <= Len(a) THEN a[i] ELSE b[i - Len(a)]
    BY <1>2, <1>3, <1>4, ConcatProperties
  <2>2. Len(a) + Len(b) = n - 1
    BY <1>1, <1>2, <1>3
  <2>3. ASSUME NEW i \in 1..n - 1 PROVE r[i] = IF i < k THEN s[i] ELSE s[i + 1]
    <3>1. CASE i < k
      <4>1. i \in 1..k - 1 /\ i <= Len(a)
        BY <1>1, <1>2, <3>1
      <4> QED BY <1>2, <2>1, <2>2, <3>1, <4>1
    <3>2. CASE ~(i < k)
      <4>1. ~(i <= Len(a)) /\ i - Len(a) \in 1..n - k /\ k + (i - Len(a)) = i + 1
        BY <1>1, <1>2, <3>2
      <4> QED BY <1>3, <2>1, <2>2, <3>2, <4>1
    <3> QED BY <3>1, <3>2
  <2> QED BY <2>1, <2>2, <2>3
<1>6. /\ w \in Seq(S) /\ Len(w) = n - 1
      /\ \A i \in 1..n - 1 : w[i] = IF i < k THEN s[i] ELSE s[i + 1]
  BY WithoutMembers, WithoutOne
<1> HIDE DEF w
<1>7. w = r
  <2> DEFINE m == n - 1
  <2>1. m \in Nat /\ Len(r) = m /\ Len(w) = m
    BY <1>1, <1>5, <1>6
  <2>2. \A i \in 1..m : w[i] = r[i]
    BY <1>5, <1>6
  <2> HIDE DEF m, n
  <2> QED BY <1>5, <1>6, <2>1, <2>2, SeqEqual
<1> QED BY <1>7 DEF w, r
=============================================================================
