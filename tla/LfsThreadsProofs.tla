-------------------------- MODULE LfsThreadsProofs --------------------------
(***************************************************************************)
(* Theorems about LfsThreads: the table the writer leaves is sound in any  *)
(* number of steps and under any of libfuse's locks, and lookups are right *)
(* while the locks keep removals out and the buckets are not expanded.     *)
(***************************************************************************)
EXTENDS LfsThreads, ListProofs

-----------------------------------------------------------------------------
(* The chains of a table, as lists.                                        *)

(* What is at place i of s, or NULL after its end.                         *)
At(s, i) == IF i \in 1..Len(s) THEN s[i] ELSE NULL

(* The lists c are the chains of 2^l buckets with these heads, and the     *)
(* nodes of T are each in that of the hash value of its path.              *)
Chained(c, l, T, nodes, heads, h) ==
  /\ c \in [Index(l) -> Seq(T)]
  /\ \A b \in Index(l) :
       /\ IsInjective(c[b])
       /\ ToSet(c[b]) = {n \in T : ToBucket(h[nodes[n].path], l) = b}
       /\ heads[b] = At(c[b], 1)
       /\ \A i \in 1..Len(c[b]) : nodes[c[b][i]].next = At(c[b], i + 1)

(* The places of a list that are taken and not.                            *)
LEMMA Places ==
  ASSUME NEW T, NEW s \in Seq(T), NEW i \in Nat \ {0}
  PROVE  /\ i <= Len(s) => At(s, i) = s[i] /\ At(s, i) \in T
         /\ ~(i <= Len(s)) => At(s, i) = NULL
BY Members DEF At

(* Nothing is linked to but the nodes of the table.                        *)
LEMMA ChainedPointers ==
  ASSUME NEW c, NEW h, NEW l \in Nat, NEW T, NEW nodes, NEW heads,
         Chained(c, l, T, nodes, heads, h),
         \A n \in T : h[nodes[n].path] \in Nat
  PROVE  /\ \A b \in Index(l) : heads[b] \in T \union {NULL}
         /\ \A n \in T : nodes[n].next \in T \union {NULL}
<1>1. ASSUME NEW b \in Index(l) PROVE heads[b] \in T \union {NULL}
  <2>1. c[b] \in Seq(T) /\ heads[b] = At(c[b], 1)
    BY DEF Chained
  <2> QED BY <2>1, Places, LenProperties
<1>2. ASSUME NEW n \in T PROVE nodes[n].next \in T \union {NULL}
  <2> DEFINE b == ToBucket(h[nodes[n].path], l)
  <2>1. b \in Index(l)
    BY BucketTypes
  <2>2. c[b] \in Seq(T) /\ n \in ToSet(c[b])
    BY <2>1 DEF Chained
  <2>3. PICK i \in 1..Len(c[b]) : c[b][i] = n
    BY <2>2, Members
  <2>4. nodes[n].next = At(c[b], i + 1)
    BY <2>1, <2>3 DEF Chained
  <2> HIDE DEF b
  <2>5. i + 1 \in Nat \ {0}
    BY <2>2, LenProperties
  <2> QED BY <2>2, <2>4, <2>5, Places, LenProperties
<1> QED BY <1>1, <1>2

(* Links of other nodes are of no account.                                 *)
LEMMA ChainedKept ==
  ASSUME NEW c, NEW h, NEW l \in Nat, NEW T, NEW nodes, NEW nodes2, NEW heads,
         Chained(c, l, T, nodes, heads, h),
         \A n \in T : /\ nodes2[n].path = nodes[n].path
                      /\ nodes2[n].next = nodes[n].next
  PROVE  Chained(c, l, T, nodes2, heads, h)
<1> SUFFICES ASSUME NEW b \in Index(l)
             PROVE  /\ IsInjective(c[b])
                    /\ ToSet(c[b]) = {n \in T : ToBucket(h[nodes2[n].path], l) = b}
                    /\ heads[b] = At(c[b], 1)
                    /\ \A i \in 1..Len(c[b]) :
                         nodes2[c[b][i]].next = At(c[b], i + 1)
  BY DEF Chained
<1>1. c[b] \in Seq(T)
  BY DEF Chained
<1>2. {n \in T : ToBucket(h[nodes2[n].path], l) = b}
        = {n \in T : ToBucket(h[nodes[n].path], l) = b}
  OBVIOUS
<1>3. \A i \in 1..Len(c[b]) : nodes2[c[b][i]].next = At(c[b], i + 1)
  BY <1>1, Members DEF Chained
<1> QED BY <1>2, <1>3 DEF Chained

(* A table of empty chains.                                                *)
LEMMA ChainedEmpty ==
  ASSUME NEW h, NEW l \in Nat, NEW nodes, NEW heads, \A b \in Index(l) : heads[b] = NULL
  PROVE  \E c : Chained(c, l, {}, nodes, heads, h)
<1> DEFINE c == [b \in Index(l) |-> <<>>]
<1>1. /\ <<>> \in Seq({}) /\ Len(<<>>) = 0 /\ ToSet(<<>>) = {}
      /\ IsInjective(<<>>)
  BY DEF ToSet, IsInjective
<1>2. At(<<>>, 1) = NULL
  BY <1>1 DEF At
<1>3. \A b \in Index(l) : c[b] = <<>>
  OBVIOUS
<1>4. Chained(c, l, {}, nodes, heads, h)
  BY <1>1, <1>2, <1>3 DEF Chained
<1> QED BY <1>4

(* The node e becomes the head of chain b.                                 *)
Adds(e, b, l, T, nodes, heads, nodes2, heads2, h) ==
  /\ l \in Nat /\ b \in Index(l) /\ ToBucket(h[nodes2[e].path], l) = b
  /\ e \notin T
  /\ \A n \in T : nodes2[n].path = nodes[n].path /\ nodes2[n].next = nodes[n].next
  /\ nodes2[e].next = heads[b]
  /\ heads2[b] = e
  /\ \A a \in Index(l) : a # b => heads2[a] = heads[a]

(* One more node, at the head of the chain of its hash value.              *)
LEMMA ChainedMore ==
  ASSUME NEW c, NEW h, NEW l, NEW T, NEW nodes, NEW nodes2, NEW heads, NEW heads2,
         NEW e, NEW b,
         Chained(c, l, T, nodes, heads, h),
         Adds(e, b, l, T, nodes, heads, nodes2, heads2, h)
  PROVE  Chained([c EXCEPT ![b] = <<e>> \o c[b]], l, T \union {e}, nodes2, heads2, h)
<1> DEFINE U == T \union {e}
           d == [c EXCEPT ![b] = <<e>> \o c[b]]
<1>0. /\ l \in Nat /\ b \in Index(l) /\ ToBucket(h[nodes2[e].path], l) = b
      /\ e \notin T
      /\ \A n \in T : nodes2[n].path = nodes[n].path /\ nodes2[n].next = nodes[n].next
      /\ nodes2[e].next = heads[b]
      /\ heads2[b] = e
      /\ \A a \in Index(l) : a # b => heads2[a] = heads[a]
  BY DEF Adds
<1> USE <1>0
<1>1. Chained(c, l, T, nodes2, heads, h)
  BY ChainedKept
<1>2. \A a \in Index(l) : c[a] \in Seq(T) /\ c[a] \in Seq(U)
  <2>1. T \subseteq U
    OBVIOUS
  <2> HIDE DEF U
  <2> QED BY <2>1, SeqMonotonic DEF Chained
<1>3. /\ d[b] \in Seq(U)
      /\ Len(d[b]) = Len(c[b]) + 1
      /\ ToSet(d[b]) = ToSet(c[b]) \union {e}
      /\ d[b][1] = e
      /\ \A i \in 1..Len(c[b]) : d[b][i + 1] = c[b][i]
      /\ IsInjective(d[b])
  <2>1. d[b] = <<e>> \o c[b]
    BY DEF Chained
  <2>2. e \in U /\ c[b] \in Seq(U)
    BY <1>2
  <2>3. IsInjective(c[b]) /\ e \notin ToSet(c[b])
    BY DEF Chained
  <2> HIDE DEF d, U
  <2> QED BY <2>1, <2>2, <2>3, Prepended
<1>4. \A a \in Index(l) : a # b => d[a] = c[a]
  BY DEF Chained
<1>5. d \in [Index(l) -> Seq(U)]
  <2>1. d = [a \in Index(l) |-> d[a]]
    BY DEF Chained
  <2> HIDE DEF d, U
  <2> QED BY <1>2, <1>3, <1>4, <2>1
<1> HIDE DEF d
<1>6. Len(c[b]) \in Nat
  BY <1>2, LenProperties
<1>7. ASSUME NEW i \in 1..Len(d[b]) PROVE nodes2[d[b][i]].next = At(d[b], i + 1)
  <2>1. CASE i = 1
    <3>1. nodes2[d[b][i]].next = At(c[b], 1)
      BY <1>3, <2>1 DEF Chained
    <3>2. At(c[b], 1) = At(d[b], 2)
      <4>1. CASE Len(c[b]) = 0
        BY <1>3, <4>1 DEF At
      <4>2. CASE Len(c[b]) # 0
        <5>1. 1 \in 1..Len(c[b]) /\ 2 \in 1..Len(d[b]) /\ d[b][2] = c[b][1]
          BY <1>3, <1>6, <4>2
        <5> QED BY <5>1 DEF At
      <4> QED BY <4>1, <4>2
    <3> QED BY <2>1, <3>1, <3>2
  <2>2. CASE i # 1
    <3> DEFINE j == i - 1
    <3>1. j \in 1..Len(c[b]) /\ i = j + 1
      BY <1>3, <1>6, <2>2
    <3> HIDE DEF j
    <3>2. d[b][i] = c[b][j]
      BY <1>3, <3>1
    <3>3. nodes2[c[b][j]].next = At(c[b], j + 1)
      BY <1>1, <3>1 DEF Chained
    <3>4. At(c[b], j + 1) = At(d[b], i + 1)
      <4>1. CASE j + 1 \in 1..Len(c[b])
        <5>1. i + 1 \in 1..Len(d[b]) /\ i + 1 = (j + 1) + 1
          BY <1>3, <1>6, <3>1, <4>1
        <5> QED BY <1>3, <4>1, <5>1 DEF At
      <4>2. CASE j + 1 \notin 1..Len(c[b])
        <5>1. i + 1 \notin 1..Len(d[b])
          BY <1>3, <1>6, <3>1, <4>2
        <5> QED BY <4>2, <5>1 DEF At
      <4> QED BY <4>1, <4>2
    <3> QED BY <3>2, <3>3, <3>4
  <2> QED BY <2>1, <2>2
<1>8. ASSUME NEW a \in Index(l)
      PROVE  /\ IsInjective(d[a])
             /\ ToSet(d[a]) = {n \in U : ToBucket(h[nodes2[n].path], l) = a}
             /\ heads2[a] = At(d[a], 1)
             /\ \A i \in 1..Len(d[a]) : nodes2[d[a][i]].next = At(d[a], i + 1)
  <2>1. CASE a = b
    <3>1. heads2[b] = At(d[b], 1)
      BY <1>3, <1>6 DEF At
    <3>2. ToSet(c[b]) = {n \in T : ToBucket(h[nodes2[n].path], l) = b}
      BY <1>1 DEF Chained
    <3>3. ToSet(d[b]) = {n \in U : ToBucket(h[nodes2[n].path], l) = b}
      BY <1>3, <3>2
    <3> QED BY <1>3, <1>7, <2>1, <3>1, <3>3
  <2>2. CASE a # b
    <3>1. {n \in U : ToBucket(h[nodes2[n].path], l) = a}
            = {n \in T : ToBucket(h[nodes2[n].path], l) = a}
      BY <2>2
    <3> QED BY <1>1, <1>4, <2>2, <3>1 DEF Chained
  <2> QED BY <2>1, <2>2
<1>9. Chained(d, l, U, nodes2, heads2, h)
  BY <1>5, <1>8 DEF Chained
<1> QED BY <1>9 DEF d

(* The node d is left out of chain b.                                      *)
Removes(d, b, l, T, nodes, heads, nodes2, heads2, h) ==
  /\ l \in Nat /\ b \in Index(l) /\ ToBucket(h[nodes[d].path], l) = b
  /\ d \in T /\ NULL \notin T
  /\ \A n \in T : /\ nodes2[n].path = nodes[n].path
                  /\ nodes2[n].next = IF heads[b] # d /\ nodes[n].next = d
                                      THEN nodes[d].next ELSE nodes[n].next
  /\ heads2[b] = IF heads[b] = d THEN nodes[d].next ELSE heads[b]
  /\ \A a \in Index(l) : a # b => heads2[a] = heads[a]

(* One node less: what pointed to it points to the next.                   *)
LEMMA ChainedLess ==
  ASSUME NEW c, NEW h, NEW l, NEW T, NEW nodes, NEW nodes2, NEW heads, NEW heads2,
         NEW d, NEW b,
         Chained(c, l, T, nodes, heads, h),
         Removes(d, b, l, T, nodes, heads, nodes2, heads2, h)
  PROVE  Chained([c EXCEPT ![b] = Without(c[b], {d})], l, T \ {d}, nodes2, heads2, h)
<1> DEFINE U == T \ {d}
           s == c[b]
           t == Without(s, {d})
           e == [c EXCEPT ![b] = t]
<1>0. /\ l \in Nat /\ b \in Index(l) /\ ToBucket(h[nodes[d].path], l) = b
      /\ d \in T /\ NULL \notin T
      /\ \A n \in T : /\ nodes2[n].path = nodes[n].path
                      /\ nodes2[n].next = IF heads[b] # d /\ nodes[n].next = d
                                          THEN nodes[d].next ELSE nodes[n].next
      /\ heads2[b] = IF heads[b] = d THEN nodes[d].next ELSE heads[b]
      /\ \A a \in Index(l) : a # b => heads2[a] = heads[a]
  BY DEF Removes
<1> USE <1>0
<1>1. /\ s \in Seq(T) /\ IsInjective(s) /\ d \in ToSet(s)
      /\ ToSet(s) = {n \in T : ToBucket(h[nodes[n].path], l) = b}
      /\ heads[b] = At(s, 1)
      /\ \A i \in 1..Len(s) : nodes[s[i]].next = At(s, i + 1)
  BY DEF Chained
<1>2. PICK k \in 1..Len(s) : s[k] = d
  <2> HIDE DEF s
  <2> QED BY <1>1, Members
<1>3. \A a \in Index(l) : a # b => d \notin ToSet(c[a])
  BY DEF Chained
<1> HIDE DEF s
<1>4. /\ Len(s) \in Nat
      /\ \A i \in 1..Len(s) : s[i] \in T /\ (s[i] = d <=> i = k)
  BY <1>1, <1>2, Members
<1>5. /\ Len(t) = Len(s) - 1
      /\ \A i \in 1..Len(s) - 1 : t[i] = IF i < k THEN s[i] ELSE s[i + 1]
  BY <1>1, <1>2, WithoutOne
<1>6. t \in Seq(U) /\ ToSet(t) = ToSet(s) \ {d} /\ IsInjective(t)
  <2>1. t \in Seq(T) /\ ToSet(t) = ToSet(s) \ {d} /\ IsInjective(t)
    BY <1>1, WithoutMembers
  <2> HIDE DEF t
  <2>2. t \in Seq(U)
    <3>1. \A i \in 1..Len(t) : t[i] \in U
      BY <2>1, Members
    <3> QED BY <2>1, <3>1, LenProperties
  <2> QED BY <2>1, <2>2
<1> HIDE DEF t
<1>7. heads[b] = d <=> k = 1
  <2>1. 1 \in 1..Len(s) /\ heads[b] = s[1]
    BY <1>1, <1>2, <1>4 DEF At
  <2> QED BY <1>4, <2>1
<1>8. nodes[d].next = At(s, k + 1)
  BY <1>1, <1>2
<1>9. heads2[b] = At(t, 1)
  <2>1. CASE k = 1
    <3>1. heads2[b] = At(s, 2)
      BY <1>7, <1>8, <2>1
    <3>2. At(s, 2) = At(t, 1)
      <4>1. CASE ~(Len(s) >= 2)
        <5>1. 2 \notin 1..Len(s) /\ 1 \notin 1..Len(s) - 1
          BY <1>4, <4>1
        <5> QED BY <1>5, <5>1 DEF At
      <4>2. CASE Len(s) >= 2
        <5>1. 2 \in 1..Len(s) /\ 1 \in 1..Len(s) - 1
          BY <1>4, <4>2
        <5>2. t[1] = s[2]
          BY <1>5, <2>1, <5>1
        <5> QED BY <1>5, <5>1, <5>2 DEF At
      <4> QED BY <4>1, <4>2
    <3> QED BY <3>1, <3>2
  <2>2. CASE k # 1
    <3>1. 1 \in 1..Len(s) /\ 1 \in 1..Len(s) - 1 /\ 1 < k
      BY <1>2, <1>4, <2>2
    <3>2. heads2[b] = s[1] /\ t[1] = s[1]
      BY <1>1, <1>5, <1>7, <2>2, <3>1 DEF At
    <3> QED BY <1>5, <3>1, <3>2 DEF At
  <2> QED BY <2>1, <2>2
<1>10. ASSUME NEW i \in 1..Len(t) PROVE nodes2[t[i]].next = At(t, i + 1)
  <2>1. i \in 1..Len(s) - 1 /\ i \in 1..Len(s) /\ i + 1 \in 1..Len(s)
    BY <1>4, <1>5
  <2>2. ASSUME NEW j \in 1..Len(s)
        PROVE  nodes[s[j]].next = d <=> j + 1 = k
    <3>1. nodes[s[j]].next = At(s, j + 1)
      BY <1>1
    <3>2. CASE j + 1 \in 1..Len(s)
      BY <1>4, <3>1, <3>2 DEF At
    <3>3. CASE j + 1 \notin 1..Len(s)
      BY <1>2, <3>1, <3>3 DEF At
    <3> QED BY <3>2, <3>3
  <2>3. CASE i + 1 < k
    <3>1. t[i] = s[i] /\ i + 1 \in 1..Len(s) - 1 /\ t[i + 1] = s[i + 1]
      <4>1. i < k /\ i + 1 \in 1..Len(s) - 1
        BY <1>2, <1>4, <2>1, <2>3
      <4> QED BY <1>5, <2>1, <2>3, <4>1
    <3>2. nodes[s[i]].next = s[i + 1] /\ nodes[s[i]].next # d
      BY <1>1, <2>1, <2>2, <2>3 DEF At
    <3>3. nodes2[s[i]].next = s[i + 1]
      BY <1>4, <2>1, <3>2
    <3> QED BY <1>5, <3>1, <3>3 DEF At
  <2>4. CASE i + 1 = k
    <3>1. t[i] = s[i] /\ nodes[s[i]].next = d /\ heads[b] # d
      BY <1>5, <1>7, <2>1, <2>2, <2>4
    <3>2. nodes2[s[i]].next = At(s, k + 1)
      BY <1>4, <1>8, <2>1, <3>1
    <3>3. At(s, k + 1) = At(t, i + 1)
      <4>1. CASE k + 1 \in 1..Len(s)
        <5>1. i + 1 \in 1..Len(s) - 1 /\ ~(i + 1 < k) /\ (i + 1) + 1 = k + 1
          BY <1>2, <1>4, <2>1, <2>4, <4>1
        <5>2. t[i + 1] = s[k + 1]
          BY <1>5, <5>1
        <5> QED BY <1>5, <4>1, <5>1, <5>2 DEF At
      <4>2. CASE k + 1 \notin 1..Len(s)
        <5>1. i + 1 \notin 1..Len(s) - 1
          BY <1>2, <1>4, <2>4, <4>2
        <5> QED BY <1>5, <4>2, <5>1 DEF At
      <4> QED BY <4>1, <4>2
    <3> QED BY <3>1, <3>2, <3>3
  <2>5. CASE ~(i + 1 <= k)
    <3>1. t[i] = s[i + 1]
      BY <1>5, <2>1, <2>5
    <3>2. nodes[s[i + 1]].next = At(s, (i + 1) + 1) /\ nodes[s[i + 1]].next # d
      BY <1>1, <2>1, <2>2, <2>5
    <3>3. nodes2[s[i + 1]].next = At(s, (i + 1) + 1)
      BY <1>4, <2>1, <3>2
    <3>4. At(s, (i + 1) + 1) = At(t, i + 1)
      <4>1. CASE (i + 1) + 1 \in 1..Len(s)
        <5>1. i + 1 \in 1..Len(s) - 1 /\ ~(i + 1 < k)
          BY <1>4, <2>1, <2>5, <4>1
        <5>2. t[i + 1] = s[(i + 1) + 1]
          BY <1>5, <5>1
        <5> QED BY <1>5, <4>1, <5>1, <5>2 DEF At
      <4>2. CASE (i + 1) + 1 \notin 1..Len(s)
        <5>1. i + 1 \notin 1..Len(s) - 1
          BY <1>4, <2>1, <4>2
        <5> QED BY <1>5, <4>2, <5>1 DEF At
      <4> QED BY <4>1, <4>2
    <3> QED BY <3>1, <3>3, <3>4
  <2> QED BY <1>2, <2>1, <2>3, <2>4, <2>5
<1>11. \A a \in Index(l) : a # b => e[a] = c[a] /\ c[a] \in Seq(U)
  <2> SUFFICES ASSUME NEW a \in Index(l), a # b
               PROVE  e[a] = c[a] /\ c[a] \in Seq(U)
    OBVIOUS
  <2>1. c[a] \in Seq(T)
    BY DEF Chained
  <2>2. \A i \in 1..Len(c[a]) : c[a][i] \in U
    BY <1>3, <2>1, Members
  <2>3. c[a] \in Seq(U)
    BY <2>1, <2>2, LenProperties
  <2> QED BY <2>3 DEF Chained
<1>12. e[b] = t
  BY DEF Chained
<1>13. e \in [Index(l) -> Seq(U)]
  <2>1. e = [a \in Index(l) |-> e[a]]
    BY DEF Chained
  <2> HIDE DEF e, U
  <2> QED BY <1>6, <1>11, <1>12, <2>1
<1> HIDE DEF e
<1>14. ASSUME NEW a \in Index(l)
       PROVE  /\ IsInjective(e[a])
              /\ ToSet(e[a]) = {n \in U : ToBucket(h[nodes2[n].path], l) = a}
              /\ heads2[a] = At(e[a], 1)
              /\ \A i \in 1..Len(e[a]) : nodes2[e[a][i]].next = At(e[a], i + 1)
  <2>1. {n \in U : ToBucket(h[nodes2[n].path], l) = a}
          = {n \in T : ToBucket(h[nodes[n].path], l) = a} \ {d}
    OBVIOUS
  <2>2. CASE a = b
    BY <1>1, <1>6, <1>9, <1>10, <1>12, <2>1, <2>2
  <2>3. CASE a # b
    <3>1. e[a] = c[a] /\ c[a] \in Seq(T) /\ d \notin ToSet(c[a])
      BY <1>3, <1>11, <2>3 DEF Chained
    <3>2. ToSet(e[a]) = {n \in T : ToBucket(h[nodes[n].path], l) = a} \ {d}
      BY <3>1 DEF Chained
    <3>3. ASSUME NEW i \in 1..Len(c[a]) PROVE nodes2[c[a][i]].next = At(c[a], i + 1)
      <4>1. nodes[c[a][i]].next = At(c[a], i + 1) /\ c[a][i] \in T
        BY <3>1, Members DEF Chained
      <4>2. At(c[a], i + 1) # d
        BY <3>1, Members DEF At
      <4> QED BY <4>1, <4>2
    <3> QED BY <2>1, <2>3, <3>1, <3>2, <3>3 DEF Chained
  <2> QED BY <2>2, <2>3
<1>15. Chained(e, l, U, nodes2, heads2, h)
  BY <1>13, <1>14 DEF Chained
<1> QED BY <1>15 DEF e, t, s

(* What is gone through from the head of a chain is the chain.             *)
LEMMA ChainedLinked ==
  ASSUME NEW c, NEW h, NEW l, NEW T, NEW nodes, NEW heads,
         Chained(c, l, T, nodes, heads, h),
         NEW b \in Index(l)
  PROVE  Linked(heads[b], nodes, Cardinality({n \in T : ToBucket(h[nodes[n].path], l) = b}))
           = c[b]
<1> DEFINE s == c[b]
<1>1. /\ s \in Seq(T) /\ IsInjective(s)
      /\ ToSet(s) = {n \in T : ToBucket(h[nodes[n].path], l) = b}
      /\ heads[b] = At(s, 1)
      /\ \A j \in 1..Len(s) : nodes[s[j]].next = At(s, j + 1)
  BY DEF Chained
<1> HIDE DEF s
<1>2. Cardinality(ToSet(s)) = Len(s)
  BY <1>1, SizeOfDifferent
<1>3. s # <<>> => s[1] = heads[b]
  BY <1>1, EmptySeq DEF At
<1>4. \A j \in 1..Len(s) : j < Len(s) => nodes[s[j]].next = s[j + 1]
  <2>1. Len(s) \in Nat
    BY <1>1, LenProperties
  <2>2. \A j \in 1..Len(s) : j < Len(s) => j + 1 \in 1..Len(s)
    BY <2>1
  <2> QED BY <1>1, <2>2 DEF At
<1>5. Linked(heads[b], nodes, Len(s)) = s
  BY <1>1, <1>3, <1>4, LinkedIs
<1> QED BY <1>1, <1>2, <1>5 DEF s

(* The chains one after the other hold all nodes.                          *)
LEMMA ChainedFlat ==
  ASSUME NEW c, NEW h, NEW l \in Nat, NEW T, NEW nodes, NEW heads,
         Chained(c, l, T, nodes, heads, h),
         \A n \in T : h[nodes[n].path] \in Nat,
         NEW q \in [1..NumBuckets[l] -> Seq(T)],
         \A i \in 1..NumBuckets[l] : q[i] = c[i - 1]
  PROVE  /\ FlattenSeq(q) \in Seq(T)
         /\ IsInjective(FlattenSeq(q))
         /\ ToSet(FlattenSeq(q)) = T
<1>1. NumBuckets[l] \in Nat \ {0}
  BY BucketTypes
<1>2. \A i \in 1..NumBuckets[l] : i - 1 \in Index(l)
  BY <1>1 DEF Index
<1>3. \A b \in Index(l) : b + 1 \in 1..NumBuckets[l] /\ (b + 1) - 1 = b
  BY <1>1 DEF Index
<1>4. /\ q \in Seq(Seq(T)) /\ q # <<>> /\ Len(q) = NumBuckets[l]
  <2>1. q \in Seq(Seq(T))
    BY <1>1, SeqDef
  <2>2. Len(q) = NumBuckets[l]
    BY <1>1, <2>1, LenProperties
  <2> QED BY <1>1, <2>1, <2>2, EmptySeq
<1>5. \A i \in 1..Len(q) :
        /\ IsInjective(q[i])
        /\ ToSet(q[i]) = {n \in T : ToBucket(h[nodes[n].path], l) = i - 1}
  BY <1>2, <1>4 DEF Chained
<1>6. \A i, j \in 1..Len(q) : i # j => ToSet(q[i]) \cap ToSet(q[j]) = {}
  <2> SUFFICES ASSUME NEW i \in 1..Len(q), NEW j \in 1..Len(q), i # j,
                      NEW n \in ToSet(q[i]), n \in ToSet(q[j])
               PROVE  FALSE
    OBVIOUS
  <2>1. ToBucket(h[nodes[n].path], l) = i - 1 /\ ToBucket(h[nodes[n].path], l) = j - 1
    BY <1>5
  <2> QED BY <1>1, <1>4, <2>1
<1>7. /\ FlattenSeq(q) \in Seq(T) /\ IsInjective(FlattenSeq(q))
      /\ ToSet(FlattenSeq(q)) = UNION {ToSet(q[i]) : i \in 1..Len(q)}
  <2>1. \A i \in 1..Len(q) : IsInjective(q[i])
    BY <1>5
  <2> QED BY ONLY <1>4, <1>6, <2>1, Flattened
<1>8. UNION {ToSet(q[i]) : i \in 1..Len(q)} = T
  <2>1. \A i \in 1..Len(q) : ToSet(q[i]) \subseteq T
    BY <1>5
  <2>2. \A n \in T : \E i \in 1..Len(q) : n \in ToSet(q[i])
    <3> TAKE n \in T
    <3> DEFINE b == ToBucket(h[nodes[n].path], l)
    <3>1. b \in Index(l)
      BY BucketTypes
    <3>2. b + 1 \in 1..Len(q) /\ n \in ToSet(q[b + 1])
      BY <1>3, <1>4, <1>5, <3>1
    <3> QED BY <3>2
  <2> QED BY <2>1, <2>2
<1> QED BY <1>7, <1>8

-----------------------------------------------------------------------------
(* The inductive invariant of the table.                                   *)

(* The nodes that lookups are to find: a new one is not yet in the table,  *)
(* and one to be freed is not in it any more.                              *)
InTable ==
  {n \in Live : /\ writer.at \in {"link", "publish"} => n # writer.add
                /\ writer.at = "free" => n # writer.del}

(* The array that the chains are in, or are moved to.                      *)
Top == IF num = buckets
       THEN IF writer.at \in {"move", "swap"} THEN num + 1 ELSE num
       ELSE IF num < buckets THEN buckets ELSE num

NodesOK ==
  /\ node \in [Node -> [path : Path \union {NULL}, next : Ptr, live : BOOLEAN]]
  /\ \A n \in Live : node[n].path \in Path /\ node[n].next \in Live \union {NULL}
  /\ \A n \in Node \ Live : node[n] = Free
  /\ \A m, n \in Live : node[m].path = node[n].path => m = n
  /\ hash \in [Path -> HashValue]

WriterAt == {"idle", "link", "publish", "expand", "move", "swap", "unlink", "free"}

WriterOK ==
  /\ writer \in [at : WriterAt, add : Live \union {NULL}, del : Live \union {NULL},
                 todo : Seq(Live)]
  /\ writer.at = "idle" => writer = Idle
  /\ writer.at \in {"link", "publish", "expand", "move", "swap"} => writer.add # NULL
  /\ writer.at \in {"unlink", "free"} => writer.del # NULL
  /\ writer.add # NULL => writer.add # writer.del
  /\ writer.at # "move" => writer.todo = <<>>
  /\ IsInjective(writer.todo)
  /\ writer.at = "publish" =>
       node[writer.add].next = array[buckets].heads[Bucket(writer.add)]

ArraysOK ==
  /\ num \in 0..MaxLog2 /\ buckets \in 0..MaxLog2 /\ Top \in 0..MaxLog2
  /\ num = buckets \/ num = buckets + 1 \/ buckets = num + 1
  /\ writer.at # "swap" => num = buckets
  /\ writer.at = "expand" => num < MaxLog2
  /\ array \in [0..MaxLog2 -> [heads : UNION {[Index(l) -> Ptr] : l \in 0..MaxLog2},
                               live : BOOLEAN]]
  /\ \A l \in 0..MaxLog2 : array[l].heads \in [Index(l) -> Live \union {NULL}]
  /\ \A l \in 0..MaxLog2 :
       IF l = Top \/ (writer.at = "move" /\ l = num)
       THEN array[l].live ELSE array[l] = NoArray(l)

(* The nodes that are not still to be moved are in the chains.             *)
Settled ==
  \E c : Chained(c, Top, InTable \ ToSet(writer.todo), node, array[Top].heads, hash)

TableInv == NodesOK /\ WriterOK /\ ArraysOK /\ Settled

-----------------------------------------------------------------------------
(* The inductive invariant of lookups.                                     *)

(* The list s is what the links lead through from a node to the file.      *)
LeadsFrom(first, s) ==
  /\ s \in Seq(InTable) /\ s # <<>>
  /\ s[1] = first
  /\ \A i \in 1..Len(s) : i < Len(s) => node[s[i]].next = s[i + 1]
  /\ node[s[Len(s)]].path = reader.path

Leads(s) == LeadsFrom(reader.node, s)

ReaderOK ==
  /\ reader \in [at : {"idle", "hash", "bucket", "node", "found", "notfound"},
                 path : Path, bkt : Nat, node : Ptr]
  /\ locking \in {"path", "tree", "single"}
  /\ expanded \in BOOLEAN
  /\ writer.at \in {"move", "swap"} => expanded

(* Nothing that is under way with a lookup is in its way.                  *)
Undisturbed ==
  /\ writer.at # "idle" => locking # "single" /\ writer.del = NULL
  /\ writer.at \in {"idle", "link", "publish", "expand"}
  /\ \E n \in Live : node[n].path = reader.path /\ n # writer.add

Served ==
  Safe /\ reader.at # "idle" =>
    /\ Undisturbed
    /\ reader.at = "bucket" => reader.bkt = ToBucket(hash[reader.path], num)
    /\ reader.at = "node" => \E s : Leads(s)
    /\ reader.at = "found" =>
         reader.node \in Live /\ node[reader.node].path = reader.path
    /\ reader.at # "notfound"

Inv == TableInv /\ ReaderOK /\ Served

(* What a proof about the table needs of its hash values.                  *)
LEMMA Hashes ==
  ASSUME TableInv
  PROVE  /\ \A n \in Live : hash[node[n].path] \in Nat
         /\ \A n \in Live : Bucket(n) \in Index(num)
         /\ num \in Nat /\ num + 1 \in Nat /\ Top \in Nat
         /\ NULL \notin Live /\ Live \subseteq Node
<1>1. \A n \in Live : hash[node[n].path] \in Nat
  BY ConstantTypes DEF TableInv, NodesOK
<1>2. num \in Nat /\ num + 1 \in Nat /\ Top \in Nat
  BY ConstantTypes DEF TableInv, ArraysOK
<1>3. \A n \in Live : Bucket(n) \in Index(num)
  BY <1>1, <1>2, BucketTypes DEF Bucket
<1>4. NULL \notin Live /\ Live \subseteq Node
  BY ConstantTypes DEF Live
<1> QED BY <1>1, <1>2, <1>3, <1>4

(* The chains after a step.                                                *)
LEMMA SettledNext ==
  ASSUME NEW d, Chained(d, Top', (InTable \ ToSet(writer.todo))', node',
                        array'[Top'].heads, hash')
  PROVE  Settled'
BY DEF Settled, Chained, ToSet

(* An empty list has no members.                                           *)
LEMMA NoMembers == ToSet(<<>>) = {} /\ IsInjective(<<>>) /\ \A S : <<>> \in Seq(S)
BY DEF ToSet, IsInjective

(* The table does not depend on lookups.                                   *)
LEMMA TableKept ==
  ASSUME TableInv, UNCHANGED <<node, array, num, buckets, hash, writer>>
  PROVE  TableInv'
<1>1. /\ Live' = Live /\ Top' = Top
      /\ \A n \in Live : Bucket(n)' = Bucket(n)
      /\ (InTable \ ToSet(writer.todo))' = InTable \ ToSet(writer.todo)
  BY DEF Live, Top, Bucket, InTable, ToSet
<1>2. NodesOK'
  BY <1>1 DEF TableInv, NodesOK
<1>3. WriterOK'
  BY <1>1 DEF TableInv, WriterOK, Bucket
<1>4. ArraysOK'
  BY <1>1 DEF TableInv, ArraysOK
<1>5. Settled'
  <2>1. PICK c : Chained(c, Top, InTable \ ToSet(writer.todo), node,
                         array[Top].heads, hash)
    BY DEF TableInv, Settled
  <2> QED BY <1>1, <2>1, SettledNext
<1> QED BY <1>2, <1>3, <1>4, <1>5 DEF TableInv

(* A request that adds a file begins, whether it removes one too or not.   *)
LEMMA BeginKeeps ==
  ASSUME TableInv, writer.at = "idle",
         NEW p \in Path, p \notin Present,
         NEW n \in Node \ Live,
         NEW d \in Live \union {NULL},
         node' = [node EXCEPT ![n] = [path |-> p, next |-> NULL, live |-> TRUE]],
         writer' = [at |-> "link", add |-> n, del |-> d, todo |-> <<>>],
         UNCHANGED <<array, num, buckets, hash>>
  PROVE  TableInv'
<1> USE DEF TableInv
<1>1. /\ Live' = Live \union {n}
      /\ \A m \in Live : node'[m] = node[m]
      /\ node'[n] = [path |-> p, next |-> NULL, live |-> TRUE]
      /\ n \in Node /\ n \notin Live
  BY DEF NodesOK, Live
<1>2. NodesOK'
  <2>1. \A m \in Live : node[m].path # p
    BY DEF Present
  <2>2. node' \in [Node -> [path : Path \union {NULL}, next : Ptr, live : BOOLEAN]]
    BY <1>1 DEF NodesOK, Ptr
  <2>3. \A m \in Node \ Live' : node'[m] = Free
    BY <1>1 DEF NodesOK
  <2>4. \A m \in Live' : node'[m].path \in Path /\ node'[m].next \in Live' \union {NULL}
    BY <1>1 DEF NodesOK
  <2>5. \A m, k \in Live' : node'[m].path = node'[k].path => m = k
    BY <1>1, <2>1 DEF NodesOK
  <2> QED BY <2>2, <2>3, <2>4, <2>5 DEF NodesOK
<1>3. WriterOK'
  <2>1. n # NULL /\ n # d
    BY <1>1, ConstantTypes
  <2> QED BY <1>1, <2>1, NoMembers DEF WriterOK, WriterAt
<1>4. Top' = Top /\ Top = num /\ num = buckets
  BY DEF Top, ArraysOK
<1>5. ArraysOK'
  BY <1>1, <1>4 DEF ArraysOK
<1>6. Settled'
  <2>1. writer = Idle
    BY DEF WriterOK
  <2>2. /\ InTable \ ToSet(writer.todo) = Live
        /\ (InTable \ ToSet(writer.todo))' = Live
    BY <1>1, <2>1, NoMembers DEF InTable, Idle, ToSet
  <2>3. PICK c : Chained(c, Top, Live, node, array[Top].heads, hash)
    BY <2>2 DEF Settled
  <2>4. Chained(c, Top, Live, node', array[Top].heads, hash)
    BY <1>1, <2>3, ChainedKept, Hashes
  <2> QED BY <1>4, <2>2, <2>4, SettledNext
<1> QED BY <1>2, <1>3, <1>5, <1>6

(* A removal begins.                                                       *)
LEMMA UnlinkKeeps ==
  ASSUME TableInv, NEW p \in Path, Unlink(p)
  PROVE  TableInv'
<1> USE DEF TableInv
<1>1. /\ writer.at = "idle" /\ NodeOf(p) \in Live /\ NodeOf(p) # NULL
      /\ writer' = [at |-> "unlink", add |-> NULL, del |-> NodeOf(p), todo |-> <<>>]
      /\ writer = [at |-> "idle", add |-> NULL, del |-> NULL, todo |-> <<>>]
      /\ UNCHANGED <<node, array, num, buckets, hash>>
  <2>1. \E n \in Live : node[n].path = p
    BY DEF Unlink, MayRemove, Present
  <2>2. NodeOf(p) \in Live
    BY <2>1 DEF NodeOf
  <2> QED BY <2>2, Hashes DEF Unlink, MayRemove, Idle, WriterOK
<1>2. Live' = Live /\ Top' = Top
  BY <1>1 DEF Live, Top, ArraysOK
<1>3. (InTable \ ToSet(writer.todo))' = InTable \ ToSet(writer.todo)
  BY <1>1, <1>2 DEF InTable, ToSet
<1>4. NodesOK'
  BY <1>1, <1>2 DEF NodesOK
<1>5. WriterOK'
  BY <1>1, <1>2, NoMembers DEF WriterOK, WriterAt
<1>6. ArraysOK'
  BY <1>1, <1>2 DEF ArraysOK
<1>7. Settled'
  <2>1. PICK c : Chained(c, Top, InTable \ ToSet(writer.todo), node,
                         array[Top].heads, hash)
    BY DEF Settled
  <2> QED BY <1>1, <1>2, <1>3, <2>1, SettledNext
<1> QED BY <1>4, <1>5, <1>6, <1>7

(* HASH_ADD_TO_BKT, first half.                                            *)
LEMMA LinkKeeps ==
  ASSUME TableInv, Link
  PROVE  TableInv'
<1> USE DEF TableInv
<1> DEFINE n == writer.add
           first == array[buckets].heads[Bucket(n)]
<1>1. /\ writer.at = "link" /\ n \in Live /\ num = buckets /\ Top = num
      /\ node' = [node EXCEPT ![n].next = first]
      /\ writer' = [writer EXCEPT !.at = "publish"]
      /\ UNCHANGED <<array, num, buckets, hash>>
  BY DEF Link, WriterOK, ArraysOK, Top
<1>2. first \in Live \union {NULL}
  BY <1>1, Hashes DEF ArraysOK
<1> HIDE DEF first
<1>3. /\ Live' = Live /\ Top' = Top
      /\ \A m \in Live : node'[m].path = node[m].path
      /\ \A m \in Live : m # n => node'[m] = node[m]
      /\ node'[n].next = first
  BY <1>1 DEF NodesOK, Live, Top
<1>4. /\ writer'.at = "publish" /\ writer'.add = n /\ writer'.del = writer.del
      /\ writer'.todo = <<>> /\ writer.todo = <<>>
      /\ writer' \in [at : WriterAt, add : Live \union {NULL}, del : Live \union {NULL},
                      todo : Seq(Live)]
  BY <1>1 DEF WriterOK, WriterAt
<1>5. NodesOK'
  <2>1. node' \in [Node -> [path : Path \union {NULL}, next : Ptr, live : BOOLEAN]]
    BY <1>1, <1>2, Hashes DEF NodesOK, Ptr
  <2>2. \A m \in Node \ Live : node'[m] = node[m]
    BY <1>1 DEF NodesOK
  <2> QED BY <1>1, <1>2, <1>3, <2>1, <2>2 DEF NodesOK
<1>6. WriterOK'
  <2>1. Bucket(n)' = Bucket(n)
    BY <1>1, <1>3, <1>4 DEF Bucket
  <2>2. node'[n].next = array'[buckets'].heads[Bucket(n)']
    BY <1>1, <1>3, <2>1 DEF first
  <2> QED BY <1>1, <1>3, <1>4, <2>2, NoMembers DEF WriterOK, Bucket
<1>7. ArraysOK'
  BY <1>1, <1>3, <1>4 DEF ArraysOK
<1>8. Settled'
  <2> DEFINE T == Live \ {n}
  <2>1. /\ InTable \ ToSet(writer.todo) = T
        /\ (InTable \ ToSet(writer.todo))' = T
    BY <1>1, <1>3, <1>4, NoMembers DEF InTable
  <2>2. PICK c : Chained(c, Top, T, node, array[Top].heads, hash)
    BY <2>1 DEF Settled
  <2>3. Chained(c, Top, T, node', array[Top].heads, hash)
    BY <1>3, <2>2, ChainedKept, Hashes
  <2> QED BY <1>1, <1>3, <2>1, <2>3, SettledNext
<1> QED BY <1>5, <1>6, <1>7, <1>8

(* HASH_ADD_TO_BKT, second half.                                           *)
LEMMA PublishKeeps ==
  ASSUME TableInv, Publish
  PROVE  TableInv'
<1> USE DEF TableInv
<1> DEFINE n == writer.add
           b == Bucket(n)
<1>1. /\ writer.at = "publish" /\ n \in Live /\ n # NULL /\ num = buckets /\ Top = num
      /\ writer.todo = <<>> /\ node[n].next = array[num].heads[b]
      /\ b \in Index(num) /\ num \in 0..MaxLog2
      /\ array' = [array EXCEPT ![num].heads[b] = n]
      /\ UNCHANGED <<node, num, buckets, hash>>
  BY Hashes DEF Publish, WriterOK, ArraysOK, Top
<1>2. \/ writer' = Idle
      \/ writer' = [writer EXCEPT !.at = "unlink"] /\ writer.del # NULL
      \/ writer' = [writer EXCEPT !.at = "expand"] /\ num < MaxLog2
  BY DEF Publish, AfterAdd
<1>3. /\ Live' = Live /\ Top' = Top
      /\ writer'.todo = <<>> /\ writer'.at \in {"idle", "unlink", "expand"}
      /\ (InTable \ ToSet(writer.todo))' = Live
  <2>1. /\ writer'.todo = <<>> /\ writer'.at \in {"idle", "unlink", "expand"}
    BY <1>1, <1>2 DEF Idle, WriterOK
  <2>2. Live' = Live /\ Top' = Top
    BY <1>1, <2>1 DEF Live, Top
  <2> QED BY <2>1, <2>2, NoMembers DEF InTable
<1> HIDE DEF b
<1>4. /\ array'[num].heads = [array[num].heads EXCEPT ![b] = n]
      /\ array'[num].live = array[num].live
      /\ \A l \in 0..MaxLog2 : l # num => array'[l] = array[l]
      /\ array' \in [0..MaxLog2 -> [heads : UNION {[Index(l) -> Ptr] : l \in 0..MaxLog2},
                                    live : BOOLEAN]]
  BY <1>1, Hashes DEF ArraysOK, Ptr
<1>5. NodesOK'
  BY <1>1, <1>3 DEF NodesOK
<1>6. WriterOK'
  BY <1>1, <1>2, <1>3, NoMembers DEF WriterOK, WriterAt, Idle
<1>7. ArraysOK'
  <2>1. ASSUME NEW l \in 0..MaxLog2
        PROVE  /\ array'[l].heads \in [Index(l) -> Live' \union {NULL}]
               /\ IF l = Top' \/ (writer'.at = "move" /\ l = num')
                  THEN array'[l].live ELSE array'[l] = NoArray(l)
    <3>1. /\ array[l].heads \in [Index(l) -> Live \union {NULL}]
          /\ IF l = num THEN array[l].live ELSE array[l] = NoArray(l)
      BY <1>1 DEF ArraysOK
    <3>2. CASE l = num
      BY <1>1, <1>3, <1>4, <3>1, <3>2
    <3>3. CASE l # num
      BY <1>1, <1>3, <1>4, <3>1, <3>3
    <3> QED BY <3>2, <3>3
  <2>2. writer'.at = "expand" => num < MaxLog2
    BY <1>2 DEF Idle, WriterOK
  <2> QED BY <1>1, <1>3, <1>4, <2>1, <2>2 DEF ArraysOK
<1>8. Settled'
  <2> DEFINE T == Live \ {n}
  <2>1. InTable \ ToSet(writer.todo) = T
    BY <1>1, NoMembers DEF InTable
  <2>2. PICK c : Chained(c, num, T, node, array[num].heads, hash)
    BY <1>1, <2>1 DEF Settled
  <2> DEFINE d == [c EXCEPT ![b] = <<n>> \o c[b]]
  <2>3. Adds(n, b, num, T, node, array[num].heads, node, array'[num].heads, hash)
    <3>1. /\ array'[num].heads[b] = n
          /\ \A a \in Index(num) : a # b => array'[num].heads[a] = array[num].heads[a]
      BY <1>1, <1>4 DEF ArraysOK
    <3>2. ToBucket(hash[node[n].path], num) = b
      BY DEF b, Bucket
    <3> QED BY <1>1, <3>1, <3>2, Hashes DEF Adds
  <2>4. T \union {n} = Live
    BY <1>1
  <2>5. Chained(d, num, T \union {n}, node, array'[num].heads, hash)
    BY <2>2, <2>3, ChainedMore
  <2> HIDE DEF d
  <2> QED BY <1>1, <1>3, <2>4, <2>5, SettledNext
<1> QED BY <1>5, <1>6, <1>7, <1>8

(* HASH_EXPAND_BUCKETS: the new array.                                     *)
LEMMA ExpandKeeps ==
  ASSUME TableInv, Expand
  PROVE  TableInv'
<1> USE DEF TableInv
<1> DEFINE new == [NoArray(num + 1) EXCEPT !.live = TRUE]
           chains == [i \in 1..NumBuckets[num] |-> Chain(array[buckets].heads, i - 1)]
           moves == FlattenSeq(chains)
<1>1. /\ writer.at = "expand" /\ num = buckets /\ Top = num
      /\ num < MaxLog2 /\ num \in 0..MaxLog2 /\ num + 1 \in 0..MaxLog2
      /\ writer.todo = <<>> /\ InTable = Live
      /\ array' = [array EXCEPT ![num + 1] = new]
      /\ writer' = [writer EXCEPT !.at = "move", !.todo = moves]
      /\ UNCHANGED <<node, num, buckets, hash>>
  <2>1. /\ writer.at = "expand" /\ array' = [array EXCEPT ![num + 1] = new]
        /\ writer' = [writer EXCEPT !.at = "move", !.todo = moves]
        /\ UNCHANGED <<node, num, buckets, hash>>
    BY DEF Expand
  <2>2. /\ num = buckets /\ Top = num /\ writer.todo = <<>>
        /\ num < MaxLog2 /\ num \in 0..MaxLog2 /\ num + 1 \in 0..MaxLog2
    <3>1. /\ num = buckets /\ Top = num /\ writer.todo = <<>> /\ num < MaxLog2
          /\ num \in 0..MaxLog2
      BY <2>1 DEF WriterOK, ArraysOK, Top
    <3> QED BY <3>1, ConstantTypes
  <2>3. InTable = Live
    BY <2>1 DEF InTable
  <2> QED BY <2>1, <2>2, <2>3
<1>2. /\ writer'.todo \in Seq(Live) /\ IsInjective(writer'.todo)
      /\ ToSet(writer'.todo) = Live
  <2>1. PICK c : Chained(c, num, Live, node, array[num].heads, hash)
    BY <1>1, NoMembers DEF Settled
  <2>2. \A b \in Index(num) : Chain(array[num].heads, b) = c[b]
    BY <2>1, ChainedLinked DEF Chain, Bucket
  <2>3. \A i \in 1..NumBuckets[num] : i - 1 \in Index(num)
    <3>1. num \in Nat /\ NumBuckets[num] \in Nat
      BY Hashes, BucketTypes
    <3> QED BY <3>1 DEF Index
  <2>4. \A i \in 1..NumBuckets[num] : chains[i] = c[i - 1] /\ c[i - 1] \in Seq(Live)
    BY <1>1, <2>1, <2>2, <2>3 DEF Chained
  <2>5. chains \in [1..NumBuckets[num] -> Seq(Live)]
    BY <2>4
  <2>6. \A i \in 1..NumBuckets[num] : chains[i] = c[i - 1]
    BY <2>4
  <2>7. num \in Nat /\ \A m \in Live : hash[node[m].path] \in Nat
    BY Hashes
  <2>8. writer'.todo = moves
    <3> HIDE DEF moves
    <3> QED BY <1>1 DEF WriterOK
  <2> HIDE DEF TableInv, chains, new
  <2>9. /\ FlattenSeq(chains) \in Seq(Live) /\ IsInjective(FlattenSeq(chains))
        /\ ToSet(FlattenSeq(chains)) = Live
    BY ONLY <2>1, <2>5, <2>6, <2>7, ChainedFlat, ZenonT(30)
  <2> QED BY <2>8, <2>9
<1>3. /\ Live' = Live /\ Top' = num + 1
      /\ (InTable \ ToSet(writer.todo))' = {}
      /\ writer'.at = "move" /\ writer'.add = writer.add /\ writer'.del = writer.del
  <2>1. writer'.at = "move" /\ writer'.add = writer.add /\ writer'.del = writer.del
    BY <1>1 DEF WriterOK
  <2>2. Live' = Live
    BY <1>1 DEF Live
  <2> QED BY <1>1, <1>2, <2>1, <2>2 DEF Top, InTable
<1>4. /\ new.live = TRUE /\ new.heads = [b \in Index(num + 1) |-> NULL]
      /\ \A l \in 0..MaxLog2 : l # num + 1 => array'[l] = array[l]
      /\ array'[num + 1] = new
      /\ array' \in [0..MaxLog2 -> [heads : UNION {[Index(l) -> Ptr] : l \in 0..MaxLog2},
                                    live : BOOLEAN]]
  <2>1. /\ new.live = TRUE /\ new.heads = [b \in Index(num + 1) |-> NULL]
        /\ new = [heads |-> [b \in Index(num + 1) |-> NULL], live |-> TRUE]
    <3> DEFINE heads == [b \in Index(num + 1) |-> NULL]
    <3>1. NoArray(num + 1) = [heads |-> heads, live |-> FALSE]
      BY DEF NoArray
    <3>2. new = [[heads |-> heads, live |-> FALSE] EXCEPT !.live = TRUE]
      BY <3>1
    <3> HIDE DEF heads, new
    <3>3. new = [heads |-> heads, live |-> TRUE]
      BY <3>2
    <3> QED BY <3>3 DEF heads
  <2>2. [b \in Index(num + 1) |-> NULL] \in UNION {[Index(l) -> Ptr] : l \in 0..MaxLog2}
    <3>1. [b \in Index(num + 1) |-> NULL] \in [Index(num + 1) -> Ptr]
      BY DEF Ptr
    <3> QED BY <1>1, <3>1
  <2> HIDE DEF new
  <2> QED BY <1>1, <2>1, <2>2 DEF ArraysOK
<1> HIDE DEF new
<1>5. NodesOK'
  BY <1>1, <1>3 DEF NodesOK
<1>6. WriterOK'
  <2>1. writer' \in [at : WriterAt, add : Live \union {NULL}, del : Live \union {NULL},
                     todo : Seq(Live)]
    BY <1>1, <1>2 DEF WriterOK, WriterAt
  <2> QED BY <1>1, <1>2, <1>3, <2>1 DEF WriterOK
<1>7. ArraysOK'
  <2>1. ASSUME NEW l \in 0..MaxLog2
        PROVE  /\ array'[l].heads \in [Index(l) -> Live' \union {NULL}]
               /\ IF l = Top' \/ (writer'.at = "move" /\ l = num')
                  THEN array'[l].live ELSE array'[l] = NoArray(l)
    <3>1. /\ array[l].heads \in [Index(l) -> Live \union {NULL}]
          /\ IF l = num THEN array[l].live ELSE array[l] = NoArray(l)
      BY <1>1 DEF ArraysOK
    <3>2. CASE l = num + 1
      BY <1>1, <1>3, <1>4, <3>2
    <3>3. CASE l # num + 1
      BY <1>1, <1>3, <1>4, <3>1, <3>3
    <3> QED BY <3>2, <3>3
  <2> QED BY <1>1, <1>3, <1>4, <2>1 DEF ArraysOK
<1>8. Settled'
  <2>1. \A b \in Index(num + 1) : array'[num + 1].heads[b] = NULL
    BY <1>4
  <2>2. PICK d : Chained(d, num + 1, {}, node', array'[num + 1].heads, hash')
    <3>1. num + 1 \in Nat
      BY Hashes
    <3> QED BY <2>1, <3>1, ChainedEmpty
  <2> QED BY <1>3, <2>2, SettledNext
<1> QED BY <1>5, <1>6, <1>7, <1>8

(* What remains of a list after its first member.                          *)
LEMMA TailMembers ==
  ASSUME NEW S, NEW s \in Seq(S), s # <<>>, IsInjective(s)
  PROVE  /\ Head(s) \in S /\ Head(s) = s[1] /\ Head(s) \in ToSet(s)
         /\ Tail(s) \in Seq(S) /\ IsInjective(Tail(s))
         /\ ToSet(Tail(s)) = ToSet(s) \ {Head(s)}
<1>1. /\ Len(s) \in Nat \ {0} /\ Tail(s) \in Seq(S) /\ Len(Tail(s)) = Len(s) - 1
      /\ Head(s) = s[1]
      /\ \A i \in 1..Len(s) - 1 : Tail(s)[i] = s[i + 1]
  BY EmptySeq, HeadTailProperties
<1> DEFINE t == Tail(s)
<1>2. /\ \A i \in 1..Len(s) : s[i] \in S /\ s[i] \in ToSet(s)
      /\ \A x \in ToSet(s) : \E i \in 1..Len(s) : s[i] = x
      /\ \A i, j \in 1..Len(s) : s[i] = s[j] => i = j
  BY Members
<1>3. /\ \A i \in 1..Len(s) - 1 : t[i] \in ToSet(t)
      /\ \A x \in ToSet(t) : \E i \in 1..Len(s) - 1 : t[i] = x
      /\ IsInjective(t) <=> \A i, j \in 1..Len(s) - 1 : t[i] = t[j] => i = j
  <2> HIDE DEF t
  <2>1. t \in Seq(S) /\ Len(t) = Len(s) - 1
    BY <1>1 DEF t
  <2> QED BY <2>1, Members
<1>4. \A i \in 1..Len(s) - 1 : t[i] = s[i + 1] /\ i + 1 \in 1..Len(s)
  BY <1>1
<1> HIDE DEF t
<1>5. IsInjective(t)
  <2> SUFFICES ASSUME NEW i \in 1..Len(s) - 1, NEW j \in 1..Len(s) - 1, t[i] = t[j]
               PROVE  i = j
    BY <1>3
  <2>1. i + 1 = j + 1
    BY <1>2, <1>4
  <2> QED BY <1>1, <2>1
<1>6. ToSet(t) = ToSet(s) \ {s[1]}
  <2>1. ASSUME NEW x \in ToSet(t) PROVE x \in ToSet(s) /\ x # s[1]
    <3>1. PICK i \in 1..Len(s) - 1 : t[i] = x
      BY <1>3
    <3>2. i + 1 # 1 /\ 1 \in 1..Len(s)
      BY <1>1
    <3> QED BY <1>2, <1>4, <3>1, <3>2
  <2>2. ASSUME NEW x \in ToSet(s), x # s[1] PROVE x \in ToSet(t)
    <3>1. PICK i \in 1..Len(s) : s[i] = x
      BY <1>2
    <3>2. i - 1 \in 1..Len(s) - 1 /\ (i - 1) + 1 = i
      BY <1>1, <2>2, <3>1
    <3> QED BY <1>3, <1>4, <3>1, <3>2
  <2> QED BY <2>1, <2>2
<1>7. s[1] \in S /\ s[1] \in ToSet(s)
  BY <1>1, <1>2
<1> QED BY <1>1, <1>5, <1>6, <1>7 DEF t

(* HASH_EXPAND_BUCKETS: an element is moved.                               *)
LEMMA MoveKeeps ==
  ASSUME TableInv, Move
  PROVE  TableInv'
<1> USE DEF TableInv
<1> DEFINE n == Head(writer.todo)
           new == num + 1
           b == NewBucket(n)
           first == array[new].heads[b]
<1>1. /\ writer.at = "move" /\ num = buckets /\ Top = new
      /\ writer.todo # <<>> /\ writer.todo \in Seq(Live) /\ IsInjective(writer.todo)
      /\ new \in 0..MaxLog2 /\ num \in 0..MaxLog2 /\ InTable = Live
      /\ node' = [node EXCEPT ![n].next = first]
      /\ array' = [array EXCEPT ![new].heads[b] = n]
      /\ writer' = [writer EXCEPT !.todo = Tail(writer.todo)]
      /\ UNCHANGED <<num, buckets, hash>>
  BY DEF Move, WriterOK, ArraysOK, Top, InTable
<1>2. /\ n \in Live /\ n \in ToSet(writer.todo)
      /\ Tail(writer.todo) \in Seq(Live) /\ IsInjective(Tail(writer.todo))
      /\ ToSet(Tail(writer.todo)) = ToSet(writer.todo) \ {n}
  BY <1>1, TailMembers
<1> HIDE DEF n
<1>3. b \in Index(new) /\ ToBucket(hash[node[n].path], new) = b
  <2>1. hash[node[n].path] \in Nat /\ num + 1 \in Nat
    BY <1>2, Hashes
  <2> QED BY <2>1, BucketTypes DEF NewBucket
<1> HIDE DEF b
<1>4. first \in Live \union {NULL}
  BY <1>1, <1>3 DEF ArraysOK
<1> HIDE DEF first, new
<1>5. /\ Live' = Live /\ Top' = new
      /\ \A m \in Live : node'[m].path = node[m].path
      /\ \A m \in Live : m # n => node'[m] = node[m]
      /\ node'[n].next = first
      /\ writer'.at = "move" /\ writer'.add = writer.add /\ writer'.del = writer.del
      /\ writer'.todo = Tail(writer.todo)
  <2>1. /\ writer'.at = "move" /\ writer'.add = writer.add /\ writer'.del = writer.del
        /\ writer'.todo = Tail(writer.todo)
    BY <1>1 DEF WriterOK
  <2> QED BY <1>1, <1>2, <2>1 DEF NodesOK, Live, Top, new
<1>6. /\ array'[new].heads = [array[new].heads EXCEPT ![b] = n]
      /\ array[new].heads \in [Index(new) -> Live \union {NULL}]
      /\ array'[new].live = array[new].live
      /\ \A l \in 0..MaxLog2 : l # new => array'[l] = array[l]
      /\ array' \in [0..MaxLog2 -> [heads : UNION {[Index(l) -> Ptr] : l \in 0..MaxLog2},
                                    live : BOOLEAN]]
  <2>1. array[new].heads \in [Index(new) -> Live \union {NULL}]
    BY <1>1 DEF ArraysOK
  <2>2. [array[new].heads EXCEPT ![b] = n] \in [Index(new) -> Ptr]
    BY <1>2, <2>1, Hashes DEF Ptr
  <2>3. [array[new].heads EXCEPT ![b] = n] \in UNION {[Index(l) -> Ptr] : l \in 0..MaxLog2}
    BY <1>1, <2>2
  <2> QED BY <1>1, <2>1, <2>3 DEF ArraysOK
<1>7. NodesOK'
  <2>1. node' \in [Node -> [path : Path \union {NULL}, next : Ptr, live : BOOLEAN]]
    BY <1>1, <1>2, <1>4, Hashes DEF NodesOK, Ptr
  <2>2. \A m \in Node \ Live : node'[m] = node[m]
    BY <1>1, <1>2 DEF NodesOK
  <2> QED BY <1>1, <1>4, <1>5, <2>1, <2>2 DEF NodesOK
<1>8. WriterOK'
  <2>1. writer' \in [at : WriterAt, add : Live \union {NULL}, del : Live \union {NULL},
                     todo : Seq(Live)]
    BY <1>1, <1>2 DEF WriterOK, WriterAt
  <2> QED BY <1>1, <1>2, <1>5, <2>1 DEF WriterOK
<1>9. ArraysOK'
  <2>1. ASSUME NEW l \in 0..MaxLog2
        PROVE  /\ array'[l].heads \in [Index(l) -> Live' \union {NULL}]
               /\ IF l = Top' \/ (writer'.at = "move" /\ l = num')
                  THEN array'[l].live ELSE array'[l] = NoArray(l)
    <3>1. /\ array[l].heads \in [Index(l) -> Live \union {NULL}]
          /\ IF l = new \/ l = num THEN array[l].live ELSE array[l] = NoArray(l)
      BY <1>1 DEF ArraysOK
    <3>2. CASE l = new
      <4>1. [array[new].heads EXCEPT ![b] = n] \in [Index(new) -> Live \union {NULL}]
        BY <1>2, <1>6
      <4>2. array'[new].heads \in [Index(new) -> Live' \union {NULL}]
        BY <1>5, <1>6, <4>1
      <4>3. array'[new].live
        BY <1>6, <3>1, <3>2
      <4> QED BY <1>5, <3>2, <4>2, <4>3
    <3>3. CASE l # new
      <4>1. array'[l] = array[l]
        BY <1>6, <3>3
      <4> QED BY <1>1, <1>5, <3>1, <3>3, <4>1
    <3> QED BY <3>2, <3>3
  <2> QED BY <1>1, <1>5, <1>6, <2>1 DEF ArraysOK
<1>10. Settled'
  <2> DEFINE T == Live \ ToSet(writer.todo)
  <2>1. PICK c : Chained(c, new, T, node, array[new].heads, hash)
    BY <1>1 DEF Settled
  <2>2. n \notin T /\ (InTable \ ToSet(writer.todo))' = T \union {n}
    BY <1>2, <1>5 DEF InTable
  <2> DEFINE d == [c EXCEPT ![b] = <<n>> \o c[b]]
  <2>3. Adds(n, b, new, T, node, array[new].heads, node', array'[new].heads, hash)
    <3>1. /\ array'[new].heads[b] = n
          /\ \A a \in Index(new) : a # b => array'[new].heads[a] = array[new].heads[a]
      BY <1>3, <1>6
    <3>2. ToBucket(hash[node'[n].path], new) = b /\ b \in Index(new)
      BY <1>2, <1>3, <1>5
    <3>3. new \in Nat /\ node'[n].next = array[new].heads[b]
      BY <1>1, <1>5 DEF first
    <3>4. \A m \in T : node'[m].path = node[m].path /\ node'[m].next = node[m].next
      BY <1>5, <2>2
    <3> QED BY <2>2, <3>1, <3>2, <3>3, <3>4 DEF Adds
  <2>4. Chained(d, new, T \union {n}, node', array'[new].heads, hash)
    BY <2>1, <2>3, ChainedMore
  <2> HIDE DEF d
  <2> QED BY <1>1, <1>5, <2>2, <2>4, SettledNext
<1> QED BY <1>7, <1>8, <1>9, <1>10

(* What is under way goes on to the removal, if there is one.              *)
LEMMA AfterAddIs ==
  ASSUME TableInv, writer.at \in {"publish", "expand", "move", "swap"}
  PROVE  \/ AfterAdd = Idle
         \/ /\ writer.del # NULL
            /\ AfterAdd = [at |-> "unlink", add |-> writer.add, del |-> writer.del,
                           todo |-> writer.todo]
<1>1. writer = [at |-> writer.at, add |-> writer.add, del |-> writer.del,
                todo |-> writer.todo]
  BY DEF TableInv, WriterOK
<1> QED BY <1>1 DEF AfterAdd

(* The old array is freed.                                                 *)
LEMMA FreeOldKeeps ==
  ASSUME TableInv, FreeOld
  PROVE  TableInv'
<1> USE DEF TableInv
<1>1. /\ writer.at = "move" /\ writer.todo = <<>>
      /\ array' = [array EXCEPT ![num] = NoArray(num)]
      /\ writer' = [writer EXCEPT !.at = "swap"]
      /\ UNCHANGED <<node, num, buckets, hash>>
  BY DEF FreeOld
<1>2. /\ num = buckets /\ Top = num + 1 /\ num \in 0..MaxLog2 /\ num + 1 \in 0..MaxLog2
      /\ num # num + 1
  BY <1>1 DEF ArraysOK, Top
<1>3. /\ writer'.at = "swap" /\ writer'.add = writer.add /\ writer'.del = writer.del
      /\ writer'.todo = writer.todo
      /\ writer' \in [at : WriterAt, add : Live \union {NULL}, del : Live \union {NULL},
                      todo : Seq(Live)]
  BY <1>1 DEF WriterOK, WriterAt
<1>4. /\ Live' = Live /\ Top' = Top
      /\ (InTable \ ToSet(writer.todo))' = InTable \ ToSet(writer.todo)
  BY <1>1, <1>2, <1>3 DEF Live, Top, InTable
<1>5. /\ array'[num] = NoArray(num)
      /\ \A l \in 0..MaxLog2 : l # num => array'[l] = array[l]
      /\ array' \in [0..MaxLog2 -> [heads : UNION {[Index(l) -> Ptr] : l \in 0..MaxLog2},
                                    live : BOOLEAN]]
  <2>1. [b \in Index(num) |-> NULL] \in [Index(num) -> Ptr]
    BY DEF Ptr
  <2>2. NoArray(num) \in [heads : UNION {[Index(l) -> Ptr] : l \in 0..MaxLog2},
                          live : BOOLEAN]
    BY <1>2, <2>1 DEF NoArray
  <2> QED BY <1>1, <1>2, <2>2 DEF ArraysOK
<1>6. NodesOK'
  BY <1>1, <1>4 DEF NodesOK
<1>7. WriterOK'
  BY <1>1, <1>3, <1>4 DEF WriterOK
<1>8. ArraysOK'
  <2>1. ASSUME NEW l \in 0..MaxLog2
        PROVE  /\ array'[l].heads \in [Index(l) -> Live' \union {NULL}]
               /\ IF l = Top' \/ (writer'.at = "move" /\ l = num')
                  THEN array'[l].live ELSE array'[l] = NoArray(l)
    <3>1. /\ array[l].heads \in [Index(l) -> Live \union {NULL}]
          /\ IF l = Top \/ l = num THEN array[l].live ELSE array[l] = NoArray(l)
      BY <1>1 DEF ArraysOK
    <3>2. CASE l = num
      <4>1. NoArray(num).heads = [b \in Index(num) |-> NULL]
        BY DEF NoArray
      <4> QED BY <1>1, <1>2, <1>3, <1>4, <1>5, <3>2, <4>1
    <3>3. CASE l # num
      BY <1>1, <1>3, <1>4, <1>5, <3>1, <3>3
    <3> QED BY <3>2, <3>3
  <2> QED BY <1>1, <1>2, <1>3, <1>4, <1>5, <2>1 DEF ArraysOK
<1>9. Settled'
  <2>1. PICK c : Chained(c, Top, InTable \ ToSet(writer.todo), node,
                         array[Top].heads, hash)
    BY DEF Settled
  <2>2. array'[Top] = array[Top] /\ node' = node /\ hash' = hash
    BY <1>1, <1>2, <1>5
  <2> QED BY <1>4, <2>1, <2>2, SettledNext
<1> QED BY <1>6, <1>7, <1>8, <1>9

(* One of the stores that put the new array in the old one's place.        *)
LEMMA SwapKeeps ==
  ASSUME TableInv, writer.at = "swap", UNCHANGED <<node, array, hash>>,
         Top' = Top, num' \in 0..MaxLog2, buckets' \in 0..MaxLog2,
         num' = buckets' \/ num' = buckets' + 1 \/ buckets' = num' + 1,
         \/ writer' = writer
         \/ writer' = AfterAdd /\ num' = buckets'
  PROVE  TableInv'
<1> USE DEF TableInv
<1>1. /\ writer'.todo = <<>> /\ writer.todo = <<>>
      /\ writer'.at \in {"idle", "unlink", "swap"}
      /\ writer'.at # "swap" => num' = buckets'
  BY AfterAddIs DEF WriterOK, Idle
<1>2. Live' = Live /\ (InTable \ ToSet(writer.todo))' = InTable \ ToSet(writer.todo)
  BY <1>1 DEF Live, InTable
<1>3. NodesOK'
  BY <1>2 DEF NodesOK
<1>4. WriterOK'
  <2>1. CASE writer' = writer
    BY <1>1, <1>2, <2>1 DEF WriterOK
  <2>2. CASE writer' = Idle
    BY <1>2, <2>2, NoMembers DEF WriterOK, WriterAt, Idle
  <2>3. CASE /\ writer.del # NULL
             /\ writer' = [at |-> "unlink", add |-> writer.add, del |-> writer.del,
                           todo |-> writer.todo]
    BY <1>1, <1>2, <2>3, NoMembers DEF WriterOK, WriterAt
  <2> QED BY <2>1, <2>2, <2>3, AfterAddIs
<1>5. ArraysOK'
  <2>1. \A l \in 0..MaxLog2 : /\ array'[l].heads \in [Index(l) -> Live' \union {NULL}]
                             /\ IF l = Top' THEN array'[l].live ELSE array'[l] = NoArray(l)
    BY <1>2 DEF ArraysOK
  <2> QED BY <1>1, <1>2, <2>1 DEF ArraysOK
<1>6. Settled'
  <2>1. PICK c : Chained(c, Top, InTable \ ToSet(writer.todo), node,
                         array[Top].heads, hash)
    BY DEF Settled
  <2> QED BY <1>2, <2>1, SettledNext
<1> QED BY <1>3, <1>4, <1>5, <1>6

(* The number of buckets is doubled.                                       *)
LEMMA DoubleKeeps ==
  ASSUME TableInv, Double
  PROVE  TableInv'
<1>1. /\ writer.at = "swap" /\ UNCHANGED <<node, array, buckets, hash>>
      /\ num' = num + 1 /\ ~array[num].live
      /\ writer' = IF buckets = num' THEN AfterAdd ELSE writer
  BY DEF Double
<1>2. /\ num \in 0..MaxLog2 /\ buckets \in 0..MaxLog2 /\ Top \in 0..MaxLog2
      /\ num = buckets \/ num = buckets + 1 \/ buckets = num + 1
      /\ array[Top].live
  BY DEF TableInv, ArraysOK
<1>3. writer'.at \in {"idle", "unlink", "swap"} /\ (writer'.at = "swap" <=> buckets # num')
  BY <1>1, AfterAddIs DEF Idle
<1>4. CASE num = buckets
  <2>1. Top = num + 1 /\ Top' = num'
    BY <1>1, <1>2, <1>3, <1>4 DEF Top
  <2> QED BY <1>1, <1>2, <1>4, <2>1, SwapKeeps
<1>5. CASE num = buckets + 1
  BY <1>1, <1>2, <1>5 DEF Top
<1>6. CASE buckets = num + 1
  <2>1. Top = buckets /\ Top' = buckets
    BY <1>1, <1>2, <1>3, <1>6 DEF Top
  <2> QED BY <1>1, <1>2, <1>6, <2>1, SwapKeeps
<1> QED BY <1>2, <1>4, <1>5, <1>6

(* The new array is installed.                                             *)
LEMMA InstallKeeps ==
  ASSUME TableInv, Install
  PROVE  TableInv'
<1>1. /\ writer.at = "swap" /\ UNCHANGED <<node, array, num, hash>>
      /\ buckets' = buckets + 1 /\ ~array[buckets].live
      /\ writer' = IF num = buckets' THEN AfterAdd ELSE writer
  BY DEF Install
<1>2. /\ num \in 0..MaxLog2 /\ buckets \in 0..MaxLog2 /\ Top \in 0..MaxLog2
      /\ num = buckets \/ num = buckets + 1 \/ buckets = num + 1
      /\ array[Top].live
  BY DEF TableInv, ArraysOK
<1>3. writer'.at \in {"idle", "unlink", "swap"} /\ (writer'.at = "swap" <=> num # buckets')
  BY <1>1, AfterAddIs DEF Idle
<1>4. CASE num = buckets
  <2>1. Top = num + 1 /\ Top' = buckets'
    BY <1>1, <1>2, <1>3, <1>4 DEF Top
  <2> QED BY <1>1, <1>2, <1>4, <2>1, SwapKeeps
<1>5. CASE num = buckets + 1
  <2>1. Top = num /\ Top' = num
    BY <1>1, <1>2, <1>3, <1>5 DEF Top
  <2> QED BY <1>1, <1>2, <1>5, <2>1, SwapKeeps
<1>6. CASE buckets = num + 1
  BY <1>1, <1>2, <1>6 DEF Top
<1> QED BY <1>2, <1>4, <1>5, <1>6

(* HASH_DEL_IN_BKT.                                                        *)
LEMMA UnchainKeeps ==
  ASSUME TableInv, Unchain
  PROVE  TableInv'
<1> USE DEF TableInv
<1> DEFINE d == writer.del
           b == Bucket(d)
           next == node[d].next
<1>1. /\ writer.at = "unlink" /\ d \in Live /\ d # NULL /\ num = buckets /\ Top = num
      /\ writer.todo = <<>> /\ b \in Index(num) /\ num \in 0..MaxLog2
      /\ InTable \ ToSet(writer.todo) = Live
      /\ writer' = [writer EXCEPT !.at = "free"]
      /\ UNCHANGED <<num, buckets, hash>>
  BY Hashes, NoMembers DEF Unchain, WriterOK, ArraysOK, Top, InTable
<1>2. next \in Live \union {NULL}
  BY <1>1 DEF NodesOK
<1>3. /\ writer'.at = "free" /\ writer'.add = writer.add /\ writer'.del = writer.del
      /\ writer'.todo = <<>>
      /\ writer' \in [at : WriterAt, add : Live \union {NULL}, del : Live \union {NULL},
                      todo : Seq(Live)]
  BY <1>1 DEF WriterOK, WriterAt
<1>4. IF array[num].heads[b] = d
      THEN /\ array' = [array EXCEPT ![num].heads[b] = next]
           /\ node' = node
      ELSE /\ node' = [m \in Node |-> IF node[m].live /\ node[m].next = d
                                      THEN [node[m] EXCEPT !.next = next] ELSE node[m]]
           /\ array' = array
  BY <1>1 DEF Unchain
<1> HIDE DEF d, b, next
<1>5. /\ \A m \in Node : /\ node'[m].path = node[m].path /\ node'[m].live = node[m].live
                        /\ node'[m].next = IF array[num].heads[b] # d /\ node[m].live
                                               /\ node[m].next = d
                                            THEN next ELSE node[m].next
      /\ node' \in [Node -> [path : Path \union {NULL}, next : Ptr, live : BOOLEAN]]
      /\ \A m \in Node \ Live : node'[m] = Free
  <2>1. CASE array[num].heads[b] = d
    BY <1>4, <2>1 DEF NodesOK
  <2>2. CASE array[num].heads[b] # d
    <3>1. next \in Ptr
      BY <1>2, Hashes DEF Ptr
    <3>2. \A m \in Node : node'[m] = IF node[m].live /\ node[m].next = d
                                     THEN [node[m] EXCEPT !.next = next] ELSE node[m]
      BY <1>4, <2>2
    <3>3. \A m \in Node : node[m] \in [path : Path \union {NULL}, next : Ptr, live : BOOLEAN]
      BY DEF NodesOK
    <3>4. \A m \in Node : [node[m] EXCEPT !.next = next] =
            [path |-> node[m].path, next |-> next, live |-> node[m].live]
      BY <3>3
    <3>5. \A m \in Node : node'[m] \in [path : Path \union {NULL}, next : Ptr, live : BOOLEAN]
      BY <3>1, <3>2, <3>3, <3>4
    <3>6. node' \in [Node -> [path : Path \union {NULL}, next : Ptr, live : BOOLEAN]]
      BY <1>4, <2>2, <3>2, <3>5
    <3>7. \A m \in Node : /\ node'[m].path = node[m].path /\ node'[m].live = node[m].live
                        /\ node'[m].next = IF node[m].live /\ node[m].next = d
                                            THEN next ELSE node[m].next
      BY <3>2, <3>4
    <3>8. \A m \in Node \ Live : node'[m] = Free
      BY <3>2 DEF NodesOK, Live
    <3> QED BY <2>2, <3>6, <3>7, <3>8
  <2> QED BY <2>1, <2>2
<1>6. /\ \A a \in Index(num) : array'[num].heads[a] =
           IF a = b /\ array[num].heads[b] = d THEN next ELSE array[num].heads[a]
      /\ array'[num].heads \in [Index(num) -> Live \union {NULL}]
      /\ array'[num].live = array[num].live
      /\ \A l \in 0..MaxLog2 : l # num => array'[l] = array[l]
      /\ array' \in [0..MaxLog2 -> [heads : UNION {[Index(l) -> Ptr] : l \in 0..MaxLog2},
                                    live : BOOLEAN]]
  <2>1. array[num].heads \in [Index(num) -> Live \union {NULL}]
    BY <1>1 DEF ArraysOK
  <2>2. CASE array[num].heads[b] = d
    <3>1. [array[num].heads EXCEPT ![b] = next] \in [Index(num) -> Ptr]
      BY <1>2, <2>1, Hashes DEF Ptr
    <3>2. [array[num].heads EXCEPT ![b] = next] \in UNION {[Index(l) -> Ptr] : l \in 0..MaxLog2}
      BY <1>1, <3>1
    <3>3. array' = [array EXCEPT ![num].heads[b] = next]
      BY <1>4, <2>2
    <3>4. array'[num].heads = [array[num].heads EXCEPT ![b] = next]
      BY <1>1, <3>3 DEF ArraysOK
    <3>5. /\ array'[num].live = array[num].live
          /\ \A l \in 0..MaxLog2 : l # num => array'[l] = array[l]
          /\ array' \in [0..MaxLog2 -> [heads : UNION {[Index(l) -> Ptr] : l \in 0..MaxLog2},
                                        live : BOOLEAN]]
      BY <1>1, <3>2, <3>3 DEF ArraysOK
    <3> QED BY <1>1, <1>2, <2>1, <2>2, <3>4, <3>5
  <2>3. CASE array[num].heads[b] # d
    BY <1>1, <1>4, <2>1, <2>3 DEF ArraysOK
  <2> QED BY <2>2, <2>3
<1>7. Live' = Live /\ Top' = Top
  BY <1>1, <1>3, <1>5 DEF Live, Top
<1>8. NodesOK'
  <2>1. \A m \in Live : node'[m].path \in Path /\ node'[m].next \in Live \union {NULL}
    BY <1>2, <1>5, Hashes DEF NodesOK
  <2>2. \A m, k \in Live : node'[m].path = node'[k].path => m = k
    BY <1>5, Hashes DEF NodesOK
  <2> QED BY <1>1, <1>5, <1>7, <2>1, <2>2 DEF NodesOK
<1>9. WriterOK'
  BY <1>1, <1>3, <1>7, NoMembers DEF WriterOK, d
<1>10. ArraysOK'
  <2>1. ASSUME NEW l \in 0..MaxLog2
        PROVE  /\ array'[l].heads \in [Index(l) -> Live' \union {NULL}]
               /\ IF l = Top' \/ (writer'.at = "move" /\ l = num')
                  THEN array'[l].live ELSE array'[l] = NoArray(l)
    <3>1. /\ array[l].heads \in [Index(l) -> Live \union {NULL}]
          /\ IF l = num THEN array[l].live ELSE array[l] = NoArray(l)
      BY <1>1 DEF ArraysOK
    <3>2. CASE l = num
      BY <1>1, <1>3, <1>6, <1>7, <3>1, <3>2
    <3>3. CASE l # num
      BY <1>1, <1>3, <1>6, <1>7, <3>1, <3>3
    <3> QED BY <3>2, <3>3
  <2> QED BY <1>1, <1>3, <1>6, <1>7, <2>1 DEF ArraysOK
<1>11. Settled'
  <2>1. (InTable \ ToSet(writer.todo))' = Live \ {d}
    BY <1>3, <1>7, NoMembers DEF InTable, d
  <2>2. PICK c : Chained(c, num, Live, node, array[num].heads, hash)
    BY <1>1 DEF Settled
  <2>3. Removes(d, b, num, Live, node, array[num].heads, node', array'[num].heads, hash)
    <3>1. ToBucket(hash[node[d].path], num) = b
      BY DEF b, Bucket
    <3>2. \A n \in Live : /\ node'[n].path = node[n].path
                         /\ node'[n].next = IF array[num].heads[b] # d /\ node[n].next = d
                                            THEN node[d].next ELSE node[n].next
      BY <1>5, Hashes DEF Live, next
    <3> QED BY <1>1, <1>6, <3>1, <3>2, Hashes DEF Removes, next
  <2> DEFINE e == [c EXCEPT ![b] = Without(c[b], {d})]
  <2>4. Chained(e, num, Live \ {d}, node', array'[num].heads, hash)
    BY <2>2, <2>3, ChainedLess
  <2> HIDE DEF e
  <2> QED BY <1>1, <1>7, <2>1, <2>4, SettledNext
<1> QED BY <1>8, <1>9, <1>10, <1>11

(* The file is freed: nothing points to it any more.                       *)
LEMMA FreeFileKeeps ==
  ASSUME TableInv, FreeFile
  PROVE  TableInv'
<1> USE DEF TableInv
<1> DEFINE d == writer.del
           T == Live \ {d}
<1>1. /\ writer.at = "free" /\ d \in Live /\ num = buckets /\ Top = num
      /\ writer.todo = <<>> /\ num \in 0..MaxLog2
      /\ InTable \ ToSet(writer.todo) = T
      /\ node' = [node EXCEPT ![d] = Free]
      /\ writer' = Idle
      /\ UNCHANGED <<array, num, buckets, hash>>
  BY NoMembers DEF FreeFile, WriterOK, ArraysOK, Top, InTable
<1> HIDE DEF d
<1>2. PICK c : Chained(c, num, T, node, array[num].heads, hash)
  BY <1>1 DEF Settled
<1>3. /\ \A b \in Index(num) : array[num].heads[b] \in T \union {NULL}
      /\ \A m \in T : node[m].next \in T \union {NULL}
  <2>1. num \in Nat /\ \A m \in T : hash[node[m].path] \in Nat
    BY Hashes
  <2> HIDE DEF T, TableInv
  <2> QED BY ONLY <1>2, <2>1, ChainedPointers
<1>4. /\ Live' = T /\ node'[d] = Free
      /\ \A m \in Node : m # d => node'[m] = node[m]
  BY <1>1 DEF NodesOK, Live, Free
<1>5. Top' = Top
  BY <1>1 DEF Top, Idle
<1>6. NodesOK'
  <2>1. node' \in [Node -> [path : Path \union {NULL}, next : Ptr, live : BOOLEAN]]
    BY <1>1 DEF NodesOK, Free, Ptr
  <2>2. \A m \in Live' : node'[m].path \in Path /\ node'[m].next \in Live' \union {NULL}
    BY <1>3, <1>4, Hashes DEF NodesOK
  <2>3. \A m \in Node \ Live' : node'[m] = Free
    BY <1>4 DEF NodesOK
  <2>4. \A m, k \in Live' : node'[m].path = node'[k].path => m = k
    BY <1>4, Hashes DEF NodesOK
  <2> QED BY <1>1, <2>1, <2>2, <2>3, <2>4 DEF NodesOK
<1>7. WriterOK'
  BY <1>1, NoMembers DEF WriterOK, WriterAt, Idle
<1>8. ArraysOK'
  <2>1. ASSUME NEW l \in 0..MaxLog2
        PROVE  /\ array'[l].heads \in [Index(l) -> Live' \union {NULL}]
               /\ IF l = Top' \/ (writer'.at = "move" /\ l = num')
                  THEN array'[l].live ELSE array'[l] = NoArray(l)
    <3>1. /\ array[l].heads \in [Index(l) -> Live \union {NULL}]
          /\ IF l = num THEN array[l].live ELSE array[l] = NoArray(l)
      BY <1>1 DEF ArraysOK
    <3>2. CASE l = num
      <4>1. array[num].heads \in [Index(num) -> T \union {NULL}]
        BY <1>3, <3>1, <3>2
      <4> QED BY <1>1, <1>4, <1>5, <3>1, <3>2, <4>1 DEF Idle
    <3>3. CASE l # num
      <4>1. NoArray(l).heads = [b \in Index(l) |-> NULL]
        BY DEF NoArray
      <4> QED BY <1>1, <1>4, <1>5, <3>1, <3>3, <4>1 DEF Idle
    <3> QED BY <3>2, <3>3
  <2> QED BY <1>1, <1>5, <2>1 DEF ArraysOK, Idle
<1>9. Settled'
  <2>1. (InTable \ ToSet(writer.todo))' = T
    BY <1>1, <1>4, NoMembers DEF InTable, Idle
  <2>2. \A m \in T : node'[m].path = node[m].path /\ node'[m].next = node[m].next
    BY <1>4, Hashes
  <2>3. Chained(c, num, T, node', array[num].heads, hash)
    BY <1>2, <2>2, ChainedKept, Hashes
  <2> QED BY <1>1, <1>5, <2>1, <2>3, SettledNext
<1> QED BY <1>6, <1>7, <1>8, <1>9

(* No step of a request that changes the directory spoils the table.       *)
LEMMA WriteKeeps ==
  ASSUME TableInv, Write
  PROVE  TableInv'
<1>1. ASSUME NEW p \in Path, Create(p) PROVE TableInv'
  <2>1. writer.at = "idle" /\ p \notin Present
    BY <1>1 DEF Create
  <2>2. PICK n \in Node \ Live :
          /\ node' = [node EXCEPT ![n] = [path |-> p, next |-> NULL, live |-> TRUE]]
          /\ writer' = [at |-> "link", add |-> n, del |-> NULL, todo |-> <<>>]
    BY <1>1 DEF Create, Idle
  <2> QED BY <1>1, <2>1, <2>2, BeginKeeps DEF Create
<1>2. ASSUME NEW p \in Path, NEW q \in Path, Rename(p, q) PROVE TableInv'
  <2>1. writer.at = "idle" /\ p \in Present /\ q \notin Present
    BY <1>2 DEF Rename, MayRemove
  <2>2. NodeOf(p) \in Live
    <3>1. \E n \in Live : node[n].path = p
      BY <2>1 DEF Present
    <3> QED BY <3>1 DEF NodeOf
  <2> DEFINE d == NodeOf(p)
  <2>3. PICK n \in Node \ Live :
          /\ node' = [node EXCEPT ![n] = [path |-> q, next |-> NULL, live |-> TRUE]]
          /\ writer' = [at |-> "link", add |-> n, del |-> d, todo |-> <<>>]
    BY <1>2 DEF Rename, Idle
  <2>4. d \in Live \union {NULL}
    BY <2>2
  <2> HIDE DEF d
  <2> QED BY <1>2, <2>1, <2>3, <2>4, BeginKeeps DEF Rename
<1> QED BY <1>1, <1>2, UnlinkKeeps, LinkKeeps, PublishKeeps, ExpandKeeps, MoveKeeps,
           FreeOldKeeps, DoubleKeeps, InstallKeeps, UnchainKeeps, FreeFileKeeps DEF Write

(* The table with its first file.                                          *)
LEMMA InitTable ==
  ASSUME Init
  PROVE  TableInv
<1>1. PICK n \in Node, p \in Path :
        /\ node = [m \in Node |-> IF m = n
                                 THEN [path |-> p, next |-> NULL, live |-> TRUE] ELSE Free]
        /\ array = [log2 \in 0..MaxLog2 |->
                      IF log2 = num
                      THEN [heads |-> [NoArray(num).heads EXCEPT ![Bucket(n)] = n],
                            live |-> TRUE]
                      ELSE NoArray(log2)]
  BY DEF Init
<1>2. /\ num = InitialLog2 /\ buckets = InitialLog2 /\ num \in 0..MaxLog2 /\ num \in Nat
      /\ hash \in [Path -> HashValue] /\ writer = Idle
  BY ConstantTypes DEF Init
<1>3. /\ node[n] = [path |-> p, next |-> NULL, live |-> TRUE]
      /\ \A m \in Node : m # n => node[m] = Free
      /\ Live = {n} /\ n # NULL
  BY <1>1, ConstantTypes DEF Live, Free
<1>4. Top = num /\ InTable \ ToSet(writer.todo) = {n}
  BY <1>2, <1>3, NoMembers DEF Top, InTable, Idle
<1> DEFINE b == Bucket(n)
           none == NoArray(num).heads
<1>5. b \in Index(num) /\ b = ToBucket(hash[node[n].path], num)
  <2>1. hash[node[n].path] \in Nat
    <3>1. node[n].path = p /\ hash[p] \in HashValue
      BY <1>2, <1>3
    <3> QED BY <3>1, ConstantTypes
  <2> QED BY <1>2, <2>1, BucketTypes DEF Bucket
<1> HIDE DEF b
<1>6. none \in [Index(num) -> {n, NULL}] /\ \A a \in Index(num) : none[a] = NULL
  BY DEF NoArray
<1> HIDE DEF none
<1>7. /\ array[num].heads = [none EXCEPT ![b] = n] /\ array[num].live = TRUE
      /\ array[num] = [heads |-> [none EXCEPT ![b] = n], live |-> TRUE]
      /\ \A l \in 0..MaxLog2 : l # num => array[l] = NoArray(l)
  BY <1>1, <1>2 DEF none, b
<1>8. \A l \in 0..MaxLog2 : /\ NoArray(l).heads = [a \in Index(l) |-> NULL]
                           /\ NoArray(l).live = FALSE
                           /\ NoArray(l) = [heads |-> NoArray(l).heads, live |-> FALSE]
  BY DEF NoArray
<1>9. \A l \in 0..MaxLog2 : array[l].heads \in [Index(l) -> Live \union {NULL}]
  <2> TAKE l \in 0..MaxLog2
  <2>1. CASE l = num
    BY <1>3, <1>5, <1>6, <1>7, <2>1
  <2>2. CASE l # num
    <3>1. array[l].heads = [a \in Index(l) |-> NULL]
      BY <1>7, <1>8, <2>2
    <3> QED BY <3>1
  <2> QED BY <2>1, <2>2
<1>10. NodesOK
  <2>1. node \in [Node -> [path : Path \union {NULL}, next : Ptr, live : BOOLEAN]]
    BY <1>1 DEF Free, Ptr
  <2> QED BY <1>2, <1>3, <2>1 DEF NodesOK
<1>11. WriterOK
  BY <1>2, NoMembers DEF WriterOK, WriterAt, Idle
<1>12. ArraysOK
  <2>1. \A l \in 0..MaxLog2 : array[l] \in [heads : UNION {[Index(m) -> Ptr] : m \in 0..MaxLog2},
                                          live : BOOLEAN]
    <3> TAKE l \in 0..MaxLog2
    <3>1. Live \union {NULL} \subseteq Ptr
      BY DEF Ptr, Live
    <3>2. array[l].heads \in [Index(l) -> Ptr]
      BY <1>9, <3>1
    <3>3. array[l] = [heads |-> array[l].heads, live |-> array[l].live] /\ array[l].live \in BOOLEAN
      BY <1>7, <1>8
    <3> QED BY <3>2, <3>3
  <2>2. array \in [0..MaxLog2 -> [heads : UNION {[Index(m) -> Ptr] : m \in 0..MaxLog2},
                                 live : BOOLEAN]]
    BY <1>1, <2>1
  <2> QED BY <1>2, <1>4, <1>7, <1>9, <2>2 DEF ArraysOK, Idle
<1>13. Settled
  <2>1. PICK c : Chained(c, num, {}, node, none, hash)
    BY <1>2, <1>6, ChainedEmpty
  <2>2. Adds(n, b, num, {}, node, none, node, array[num].heads, hash)
    BY <1>2, <1>3, <1>5, <1>6, <1>7 DEF Adds
  <2> DEFINE d == [c EXCEPT ![b] = <<n>> \o c[b]]
  <2>3. Chained(d, num, {} \union {n}, node, array[num].heads, hash)
    BY <2>1, <2>2, ChainedMore
  <2>4. {} \union {n} = {n}
    OBVIOUS
  <2> HIDE DEF d
  <2> QED BY <1>4, <2>3, <2>4 DEF Settled
<1> QED BY <1>10, <1>11, <1>12, <1>13 DEF TableInv

(* The table is sound in every reachable state.                            *)
LEMMA TableSound == Spec => []TableInv
<1>1. Init => TableInv
  BY InitTable
<1>2. TableInv /\ [Next]_vars => TableInv'
  <2> SUFFICES ASSUME TableInv, [Next]_vars PROVE TableInv'
    OBVIOUS
  <2>1. CASE Write
    BY <2>1, WriteKeeps
  <2>2. CASE Read
    <3>1. UNCHANGED <<node, array, num, buckets, hash, writer>>
      BY <2>2 DEF Read, Find, ReadNum, ReadBucket, ReadNode, Reply
    <3> QED BY <3>1, TableKept
  <2>3. CASE UNCHANGED vars
    BY <2>3, TableKept DEF vars
  <2> QED BY <2>1, <2>2, <2>3 DEF Next
<1> QED BY <1>1, <1>2, PTL DEF Spec

-----------------------------------------------------------------------------
(* Lookups.                                                                *)

(* While nothing disturbs a lookup there is one array, with all files.     *)
LEMMA Quiet ==
  ASSUME TableInv, Undisturbed
  PROVE  /\ num = buckets /\ Top = num /\ array[num].live
         /\ InTable \ ToSet(writer.todo) = InTable
         /\ InTable \subseteq Live
         /\ InTable = {n \in Live : writer.at \in {"link", "publish"} => n # writer.add}
<1>1. num = buckets /\ Top = num /\ array[num].live
  BY DEF TableInv, ArraysOK, Undisturbed, Top
<1>2. writer.todo = <<>> /\ writer.at # "free"
  BY DEF TableInv, WriterOK, Undisturbed
<1> QED BY <1>1, <1>2, NoMembers DEF InTable

(* A lookup does not see a step that takes nothing from it.                *)
LEMMA ServedKept ==
  ASSUME TableInv, Served, Undisturbed => Undisturbed', UNCHANGED <<reader, num, hash>>,
         Safe' => Safe,
         InTable \subseteq InTable', Live \subseteq Live',
         \A n \in Live : node'[n].path = node[n].path,
         \A n \in InTable : n \in Live /\ node'[n].next = node[n].next
  PROVE  Served'
<1> SUFFICES ASSUME Safe', reader'.at # "idle"
             PROVE  /\ Undisturbed'
                    /\ reader'.at = "bucket" =>
                         reader'.bkt = ToBucket(hash'[reader'.path], num')
                    /\ reader'.at = "node" => (\E s : Leads(s))'
                    /\ reader'.at = "found" =>
                         reader'.node \in Live' /\ node'[reader'.node].path = reader'.path
                    /\ reader'.at # "notfound"
  BY DEF Served
<1>1. /\ Undisturbed
      /\ reader.at = "bucket" => reader.bkt = ToBucket(hash[reader.path], num)
      /\ reader.at = "node" => \E s : Leads(s)
      /\ reader.at = "found" =>
           reader.node \in Live /\ node[reader.node].path = reader.path
      /\ reader.at # "notfound"
  BY DEF Served
<1>2. ASSUME NEW s, Leads(s) PROVE (\E t : Leads(t))'
  <2>1. s \in Seq(InTable) /\ Len(s) \in Nat \ {0}
    BY <1>2, EmptySeq, LenProperties DEF Leads, LeadsFrom
  <2>2. s \in Seq(InTable')
    BY <2>1, SeqMonotonic
  <2>3. \A i \in 1..Len(s) : s[i] \in InTable
    BY <2>1, ElementOfSeq
  <2>4. \A i \in 1..Len(s) : i < Len(s) => node'[s[i]].next = s[i + 1]
    BY <1>2, <2>3 DEF Leads, LeadsFrom
  <2>5. node'[s[Len(s)]].path = reader.path
    <3>1. Len(s) \in 1..Len(s)
      BY <2>1
    <3> QED BY <1>2, <2>3, <3>1 DEF Leads, LeadsFrom
  <2>6. Leads(s)'
    BY <1>2, <2>2, <2>4, <2>5 DEF Leads, LeadsFrom
  <2> QED BY <2>6
<1> QED BY <1>1, <1>2

(* What the file's name hashes to is a bucket.                             *)
LEMMA ReadersBucket ==
  ASSUME TableInv, ReaderOK
  PROVE  /\ hash[reader.path] \in Nat
         /\ \A p \in Path : ToBucket(hash[p], num) \in Index(num)
         /\ \A p \in Path : ToBucket(hash[p], num) \in Nat
<1>1. \A p \in Path : hash[p] \in Nat
  BY ConstantTypes DEF TableInv, NodesOK
<1>2. num \in Nat /\ NumBuckets[num] \in Nat
  BY Hashes, BucketTypes
<1>3. \A p \in Path : ToBucket(hash[p], num) \in Index(num)
  BY <1>1, <1>2, BucketTypes
<1>4. Index(num) \subseteq Nat
  BY <1>2 DEF Index
<1> QED BY <1>1, <1>3, <1>4 DEF ReaderOK

(* From the head of its bucket the links lead to the file.                 *)
LEMMA HeadLeads ==
  ASSUME TableInv, ReaderOK, Undisturbed, reader.bkt = ToBucket(hash[reader.path], num)
  PROVE  /\ BucketValid
         /\ \E s : LeadsFrom(array[buckets].heads[reader.bkt], s)
<1> DEFINE b == reader.bkt
<1>1. b \in Index(num) /\ num = buckets /\ Top = num /\ array[num].live
  BY ReadersBucket, Quiet DEF ReaderOK
<1>2. PICK c : Chained(c, num, InTable, node, array[num].heads, hash)
  BY Quiet DEF TableInv, Settled
<1>3. PICK n \in InTable : node[n].path = reader.path
  <2>1. PICK n \in Live : node[n].path = reader.path /\ n # writer.add
    BY DEF Undisturbed
  <2>2. n \in InTable
    BY <2>1, Quiet
  <2> QED BY <2>1, <2>2
<1> DEFINE t == c[b]
<1>4. /\ t \in Seq(InTable) /\ n \in ToSet(t)
      /\ array[num].heads[b] = At(t, 1)
      /\ \A i \in 1..Len(t) : node[t[i]].next = At(t, i + 1)
  BY <1>1, <1>2, <1>3 DEF Chained
<1> HIDE DEF t
<1>5. PICK k \in 1..Len(t) : t[k] = n
  BY <1>4, Members
<1> DEFINE s == SubSeq(t, 1, k)
<1>6. /\ Len(t) \in Nat /\ k \in Nat \ {0} /\ k <= Len(t) /\ s \in Seq(InTable)
      /\ Len(s) = k
      /\ \A i \in 1..k : s[i] = t[i] /\ i \in 1..Len(t)
  <2>1. Len(t) \in Nat
    BY <1>4, LenProperties
  <2> QED BY <1>4, <1>5, <2>1, SubSeqProperties
<1> HIDE DEF s
<1>7. /\ s # <<>> /\ s[1] = array[num].heads[b] /\ node[s[Len(s)]].path = reader.path
  <2>1. s # <<>>
    BY <1>6, EmptySeq
  <2>2. s[1] = array[num].heads[b]
    BY <1>4, <1>6 DEF At
  <2>3. s[Len(s)] = n
    BY <1>5, <1>6
  <2> QED BY <1>3, <2>1, <2>2, <2>3
<1>8. \A i \in 1..Len(s) : i < Len(s) => node[s[i]].next = s[i + 1]
  <2> SUFFICES ASSUME NEW i \in 1..Len(s), i < Len(s)
               PROVE  node[s[i]].next = s[i + 1]
    OBVIOUS
  <2>1. i \in 1..k /\ i + 1 \in 1..k
    BY <1>6
  <2> QED BY <1>4, <1>6, <2>1 DEF At
<1> QED BY <1>1, <1>6, <1>7, <1>8 DEF BucketValid, LeadsFrom

(* The types of a lookup; and the buckets are expanded by writers only.    *)
LEMMA ReaderTypes ==
  ASSUME TableInv, ReaderOK, Next
  PROVE  ReaderOK'
<1>1. CASE Write
  <2>1. UNCHANGED <<reader, locking>>
    BY <1>1 DEF Write, Create, Unlink, Rename, Link, Publish, Expand, Move, FreeOld, Double,
                Install, Unchain, FreeFile
  <2>2. expanded' = expanded \/ expanded' = TRUE
    BY <1>1 DEF Write, Create, Unlink, Rename, Link, Publish, Expand, Move, FreeOld, Double,
                Install, Unchain, FreeFile
  <2>3. writer'.at \in {"move", "swap"} => expanded'
    <3>1. ASSUME NEW p \in Path, Create(p) \/ Unlink(p) \/ \E q \in Path : Rename(p, q)
          PROVE  writer'.at \in {"link", "unlink"}
      BY <3>1 DEF Create, Unlink, Rename, Idle
    <3>2. Link => writer'.at = "publish"
      BY DEF Link, TableInv, WriterOK
    <3>3. Publish => writer'.at \notin {"move", "swap"}
      BY AfterAddIs DEF Publish, Idle, TableInv, WriterOK
    <3>4. Expand => expanded'
      BY DEF Expand
    <3>5. Move \/ FreeOld => expanded /\ expanded' = expanded
      BY DEF Move, FreeOld, ReaderOK
    <3>6. Double \/ Install => expanded /\ expanded' = expanded
      BY DEF Double, Install, ReaderOK
    <3>7. Unchain \/ FreeFile => writer'.at \notin {"move", "swap"}
      BY DEF Unchain, FreeFile, Idle, TableInv, WriterOK
    <3> QED BY <1>1, <3>1, <3>2, <3>3, <3>4, <3>5, <3>6, <3>7 DEF Write
  <2> QED BY <2>1, <2>2, <2>3 DEF ReaderOK
<1>2. CASE Read
  <2>1. UNCHANGED <<node, array, num, buckets, hash, writer, locking, expanded>>
    BY <1>2 DEF Read, Find, ReadNum, ReadBucket, ReadNode, Reply
  <2>2. Start.path \in Path /\ Start = [at |-> "idle", path |-> Start.path, bkt |-> 0,
                                      node |-> NULL]
    BY DEF Start, ReaderOK
  <2>3. ASSUME NEW p \in Path, Find(p) PROVE ReaderOK'
    <3>1. reader' = [at |-> "hash", path |-> p, bkt |-> 0, node |-> NULL]
      BY <2>3 DEF Find, Start
    <3> QED BY <2>1, <3>1 DEF ReaderOK, Ptr
  <2>4. CASE ReadNum
    <3>1. reader' = [at |-> "bucket", path |-> reader.path, node |-> reader.node,
                     bkt |-> ToBucket(hash[reader.path], num)]
      BY <2>4 DEF ReadNum, ReaderOK
    <3>2. ToBucket(hash[reader.path], num) \in Nat
      BY ReadersBucket DEF ReaderOK
    <3> QED BY <2>1, <3>1, <3>2 DEF ReaderOK
  <2>5. CASE ReadBucket
    <3>1. PICK n \in Ptr : reader' = [reader EXCEPT !.at = "node", !.node = n]
      BY <2>5 DEF ReadBucket
    <3>2. reader' = [at |-> "node", path |-> reader.path, bkt |-> reader.bkt, node |-> n]
      BY <3>1 DEF ReaderOK
    <3> QED BY <2>1, <3>2 DEF ReaderOK
  <2>6. CASE ReadNode
    BY <2>1, <2>6 DEF ReadNode, ReaderOK
  <2>7. CASE Reply
    <3>1. reader' = Start
      BY <2>7 DEF Reply
    <3> QED BY <2>1, <2>2, <3>1 DEF ReaderOK, Ptr
  <2> QED BY <1>2, <2>3, <2>4, <2>5, <2>6, <2>7 DEF Read
<1> QED BY <1>1, <1>2 DEF Next

(* Those that change the directory leave lookups what they need, or are    *)
(* kept out.                                                               *)
LEMMA WriteServes ==
  ASSUME TableInv, ReaderOK, Served, Write
  PROVE  Served'
<1>1. CASE ~Safe' \/ reader.at = "idle"
  <2>1. reader' = reader
    BY DEF Write, Create, Unlink, Rename, Link, Publish, Expand, Move, FreeOld, Double,
           Install, Unchain, FreeFile
  <2> QED BY <1>1, <2>1 DEF Served
<1>2. CASE Safe' /\ reader.at # "idle"
  <2>1. UNCHANGED <<reader, locking, hash>> /\ Safe
    <3>1. UNCHANGED <<reader, locking, hash>> /\ (expanded' = expanded \/ expanded')
      BY DEF Write, Create, Unlink, Rename, Link, Publish, Expand, Move, FreeOld, Double,
             Install, Unchain, FreeFile
    <3> QED BY <1>2, <3>1 DEF Safe, ReaderOK
  <2>2. Undisturbed
    BY <1>2, <2>1 DEF Served
  <2>3. ASSUME NEW p \in Path, Create(p) PROVE Served'
    <3>1. PICK n \in Node \ Live :
            /\ node' = [node EXCEPT ![n] = [path |-> p, next |-> NULL, live |-> TRUE]]
            /\ writer' = [at |-> "link", add |-> n, del |-> NULL, todo |-> <<>>]
      BY <2>3 DEF Create, Idle
    <3>2. /\ writer.at = "idle" /\ locking # "single" /\ num' = num
          /\ expanded' = expanded
      BY <1>2, <2>3 DEF Create
    <3>3. /\ Live' = Live \union {n} /\ n \notin Live /\ \A m \in Live : node'[m] = node[m]
      BY <3>1 DEF Live, TableInv, NodesOK
    <3>4. InTable = Live /\ InTable' = Live
      BY <3>1, <3>2, <3>3 DEF InTable
    <3>5. Undisturbed'
      <4>1. PICK m \in Live : node[m].path = reader.path
        BY <2>2 DEF Undisturbed
      <4>2. m \in Live' /\ node'[m].path = reader'.path /\ m # writer'.add
        BY <2>1, <3>1, <3>3, <4>1
      <4>3. locking' # "single"
        BY <2>1, <3>2
      <4> QED BY <3>1, <4>2, <4>3 DEF Undisturbed
    <3> QED BY <2>1, <3>2, <3>3, <3>4, <3>5, ServedKept
  <2>4. ASSUME NEW p \in Path, MayRemove(p) PROVE FALSE
    BY <1>2, <2>1, <2>4 DEF MayRemove, Safe
  <2>5. CASE Link
    <3>1. /\ writer.at = "link" /\ writer'.at = "publish" /\ writer'.add = writer.add
          /\ writer'.del = writer.del /\ num' = num /\ writer.add \in Live
          /\ expanded' = expanded
      BY <2>5 DEF Link, TableInv, WriterOK
    <3>2. /\ Live' = Live /\ \A m \in Live : m # writer.add => node'[m] = node[m]
          /\ \A m \in Live : node'[m].path = node[m].path
      BY <2>5, <3>1 DEF Link, Live, TableInv, NodesOK
    <3>3. InTable' = InTable /\ \A m \in InTable : m \in Live /\ m # writer.add
      BY <3>1, <3>2 DEF InTable
    <3>4. Undisturbed'
      BY <2>1, <2>2, <3>1, <3>2 DEF Undisturbed
    <3> QED BY <2>1, <3>1, <3>2, <3>3, <3>4, ServedKept
  <2>6. CASE Publish
    <3>1. /\ writer.at = "publish" /\ num' = num /\ node' = node /\ locking # "single"
          /\ writer.del = NULL /\ expanded' = expanded
      BY <2>2, <2>6 DEF Publish, Undisturbed
    <3>2. writer' = Idle \/ writer' = [writer EXCEPT !.at = "expand"]
      BY <2>6, <3>1 DEF Publish, AfterAdd
    <3>3. /\ writer'.at \in {"idle", "expand"} /\ writer'.del = NULL
          /\ writer'.add \in {NULL, writer.add}
      BY <3>1, <3>2 DEF Idle, TableInv, WriterOK
    <3>4. Live' = Live /\ InTable \subseteq Live /\ InTable' = Live
      BY <3>1, <3>3 DEF Live, InTable
    <3>5. Undisturbed'
      <4>1. PICK m \in Live : node[m].path = reader.path /\ m # writer.add
        BY <2>2 DEF Undisturbed
      <4>2. m # writer'.add
        BY <3>3, <4>1, Hashes
      <4> QED BY <2>1, <3>1, <3>3, <3>4, <4>1, <4>2 DEF Undisturbed
    <3> QED BY <2>1, <3>1, <3>4, <3>5, ServedKept
  <2>7. ~Expand
    BY <1>2, <2>1, <2>2 DEF Expand, Undisturbed, Safe
  <2>8. /\ ~Move /\ ~FreeOld /\ ~Double /\ ~Install /\ ~Unchain /\ ~FreeFile
    BY <2>2 DEF Move, FreeOld, Double, Install, Unchain, FreeFile, Undisturbed
  <2> QED BY <2>3, <2>4, <2>5, <2>6, <2>7, <2>8 DEF Write, Unlink, Rename
<1> QED BY <1>1, <1>2

(* A step of a lookup.                                                     *)
LEMMA ReadServes ==
  ASSUME TableInv, ReaderOK, Served, Read
  PROVE  Served'
<1> USE DEF Served
<1>1. UNCHANGED <<node, array, num, buckets, hash, writer, locking, expanded>>
  BY DEF Read, Find, ReadNum, ReadBucket, ReadNode, Reply
<1>2. Safe' = Safe /\ Live' = Live /\ InTable' = InTable
  BY <1>1 DEF Safe, Live, InTable
<1>3. Undisturbed /\ reader'.path = reader.path => Undisturbed'
  BY <1>1, <1>2 DEF Undisturbed
<1>4. ASSUME NEW p \in Path, Find(p) PROVE Served'
  <2>1. /\ reader.at = "idle" /\ p \in Present
        /\ writer.add # NULL => p # node[writer.add].path
        /\ writer.at # "idle" => ~Excludes(p)
        /\ reader'.at = "hash" /\ reader'.path = p
    BY <1>4 DEF Find, Start
  <2>2. ASSUME Safe PROVE Undisturbed'
    <3>1. writer.at # "idle" => locking # "single" /\ writer.del = NULL
      BY <2>1, <2>2 DEF Excludes, Safe
    <3>2. writer.at \in {"idle", "link", "publish", "expand"}
      <4>1. writer.at \notin {"unlink", "free"}
        BY <3>1 DEF TableInv, WriterOK
      <4>2. writer.at \notin {"move", "swap"}
        BY <2>2, <3>1 DEF Safe, ReaderOK
      <4>3. writer.at \in WriterAt
        BY DEF TableInv, WriterOK
      <4> QED BY <4>1, <4>2, <4>3 DEF WriterAt
    <3>3. PICK n \in Live : node[n].path = p
      BY <2>1 DEF Present
    <3>4. n # writer.add
      BY <2>1, <3>3, Hashes
    <3> QED BY <1>1, <1>2, <2>1, <3>1, <3>2, <3>3, <3>4 DEF Undisturbed
  <2> QED BY <1>2, <2>1, <2>2
<1>5. CASE ReadNum
  <2>1. /\ reader.at = "hash" /\ reader'.at = "bucket" /\ reader'.path = reader.path
        /\ reader'.bkt = ToBucket(hash[reader.path], num)
    BY <1>5 DEF ReadNum, ReaderOK
  <2> QED BY <1>1, <1>2, <1>3, <2>1
<1>6. CASE ReadBucket
  <2>1. PICK n \in Ptr :
          /\ BucketValid => n = array[buckets].heads[reader.bkt]
          /\ reader' = [reader EXCEPT !.at = "node", !.node = n]
    BY <1>6 DEF ReadBucket
  <2>2. /\ reader.at = "bucket" /\ reader'.at = "node" /\ reader'.path = reader.path
        /\ reader'.node = n
    BY <1>6, <2>1 DEF ReadBucket, ReaderOK
  <2>3. ASSUME Safe PROVE Undisturbed' /\ (\E s : Leads(s))'
    <3>1. Undisturbed /\ reader.bkt = ToBucket(hash[reader.path], num)
      BY <2>2, <2>3
    <3>2. BucketValid
      BY <3>1, HeadLeads
    <3>3. PICK s : LeadsFrom(array[buckets].heads[reader.bkt], s)
      BY <3>1, HeadLeads
    <3>4. Leads(s)'
      BY <1>1, <1>2, <2>1, <2>2, <3>2, <3>3 DEF Leads, LeadsFrom
    <3> QED BY <1>3, <2>2, <3>1, <3>4
  <2> QED BY <1>2, <2>2, <2>3
<1>7. CASE ReadNode
  <2>1. reader.at = "node" /\ reader'.path = reader.path
    BY <1>7 DEF ReadNode, ReaderOK
  <2>2. ASSUME Safe
        PROVE  /\ Undisturbed'
               /\ \/ reader'.at = "node" /\ (\E s : Leads(s))'
                  \/ /\ reader'.at = "found" /\ reader'.node \in Live
                     /\ node[reader'.node].path = reader.path
    <3>1. PICK s : Leads(s)
      BY <2>1, <2>2
    <3>2. /\ Len(s) \in Nat \ {0} /\ s[1] = reader.node /\ s[1] \in InTable
          /\ \A i \in 1..Len(s) : s[i] \in InTable
      <4>1. s \in Seq(InTable) /\ s # <<>> /\ s[1] = reader.node
        BY <3>1 DEF Leads, LeadsFrom
      <4>2. Len(s) \in Nat \ {0}
        BY <4>1, LenProperties, EmptySeq
      <4> QED BY <4>1, <4>2, ElementOfSeq
    <3>3. Undisturbed
      BY <2>1, <2>2
    <3>4. reader.node \in Live /\ reader.node # NULL
      BY <3>2, <3>3, Quiet, Hashes
    <3>5. \/ Matches(reader.node) /\ reader' = [reader EXCEPT !.at = "found"]
          \/ /\ ~Matches(reader.node)
             /\ reader' = [reader EXCEPT !.node = node[reader.node].next]
      BY <1>7, <3>4 DEF ReadNode
    <3>6. CASE Matches(reader.node) /\ reader' = [reader EXCEPT !.at = "found"]
      BY <1>3, <2>1, <3>3, <3>4, <3>6 DEF Matches, ReaderOK
    <3>7. CASE /\ ~Matches(reader.node)
               /\ reader' = [reader EXCEPT !.node = node[reader.node].next]
      <4>1. reader'.at = "node" /\ reader'.node = node[s[1]].next
        BY <2>1, <3>2, <3>7 DEF ReaderOK
      <4>2. Len(s) # 1
        BY <3>1, <3>2, <3>7 DEF Matches, Leads, LeadsFrom
      <4>3. /\ Tail(s) \in Seq(InTable) /\ Len(Tail(s)) = Len(s) - 1
            /\ \A i \in 1..Len(s) - 1 : Tail(s)[i] = s[i + 1]
        BY <3>1, HeadTailProperties DEF Leads, LeadsFrom
      <4> DEFINE t == Tail(s)
      <4> HIDE DEF t
      <4>4. t # <<>> /\ t[1] = reader'.node
        <5>1. 1 \in 1..Len(s) - 1 /\ 1 \in 1..Len(s) /\ 1 < Len(s)
          <6> DEFINE k == Len(s)
          <6>1. k \in Nat \ {0} /\ k # 1
            BY <3>2, <4>2
          <6> HIDE DEF k
          <6>2. 1 \in 1..k - 1 /\ 1 \in 1..k /\ 1 < k
            BY <6>1
          <6> QED BY <6>2 DEF k
        <5>2. node[s[1]].next = s[1 + 1]
          BY <3>1, <5>1 DEF Leads, LeadsFrom
        <5>3. t[1] = s[1 + 1] /\ Len(t) # 0
          BY <3>2, <4>2, <4>3, <5>1 DEF t
        <5> QED BY <4>1, <4>3, <5>2, <5>3, EmptySeq DEF t
      <4>5. ASSUME NEW i \in 1..Len(t), i < Len(t) PROVE node[t[i]].next = t[i + 1]
        <5>1. i \in 1..Len(s) - 1 /\ i + 1 \in 1..Len(s) - 1 /\ i + 1 \in 1..Len(s)
              /\ i + 1 < Len(s)
          BY <3>2, <4>3, <4>5 DEF t
        <5>2. node[s[i + 1]].next = s[(i + 1) + 1]
          BY <3>1, <5>1 DEF Leads, LeadsFrom
        <5> QED BY <4>3, <5>1, <5>2 DEF t
      <4>6. node[t[Len(t)]].path = reader.path
        <5>1. Len(t) \in 1..Len(s) - 1 /\ Len(t) + 1 = Len(s)
          BY <3>2, <4>2, <4>3 DEF t
        <5>2. t[Len(t)] = s[Len(s)]
          BY <4>3, <5>1 DEF t
        <5> QED BY <3>1, <5>2 DEF Leads, LeadsFrom
      <4>7. Leads(t)'
        <5>1. t \in Seq(InTable)
          BY <4>3 DEF t
        <5>2. t' = t
          BY DEF t
        <5> QED BY <1>1, <1>2, <2>1, <4>4, <4>5, <4>6, <5>1, <5>2 DEF Leads, LeadsFrom
      <4> QED BY <1>3, <2>1, <3>3, <4>1, <4>7
    <3> QED BY <3>5, <3>6, <3>7
  <2> QED BY <1>1, <1>2, <2>1, <2>2
<1>8. CASE Reply
  BY <1>8 DEF Reply, Start
<1> QED BY <1>4, <1>5, <1>6, <1>7, <1>8 DEF Read

(* The invariant holds.                                                    *)
LEMMA Invariant == Spec => []Inv
<1>1. Init => Inv
  <2> SUFFICES ASSUME Init PROVE Inv
    OBVIOUS
  <2>1. TableInv
    BY InitTable
  <2>2. ReaderOK
    <3>1. Start \in [at : {"idle"}, path : Path, bkt : Nat, node : Ptr]
      BY DEF Init, Start, Ptr
    <3> QED BY <3>1, ConstantTypes DEF Init, ReaderOK, Idle
  <2>3. Served
    BY DEF Init, Served, Start
  <2> QED BY <2>1, <2>2, <2>3 DEF Inv
<1>2. Inv /\ [Next]_vars => Inv'
  <2> SUFFICES ASSUME Inv, [Next]_vars PROVE Inv'
    OBVIOUS
  <2>1. CASE Write
    BY <2>1, WriteKeeps, ReaderTypes, WriteServes DEF Inv, Next
  <2>2. CASE Read
    <3>1. UNCHANGED <<node, array, num, buckets, hash, writer>>
      BY <2>2 DEF Read, Find, ReadNum, ReadBucket, ReadNode, Reply
    <3> QED BY <2>2, <3>1, TableKept, ReaderTypes, ReadServes DEF Inv, Next
  <2>3. CASE UNCHANGED vars
    <3>1. TableInv'
      BY <2>3, TableKept DEF Inv, vars
    <3>2. ReaderOK'
      BY <2>3 DEF Inv, ReaderOK, vars
    <3>3. Served'
      <4>1. Undisturbed => Undisturbed'
        BY <2>3 DEF Undisturbed, Live, vars
      <4>2. InTable' = InTable /\ Live' = Live /\ Safe' = Safe /\ InTable \subseteq Live
        BY <2>3 DEF InTable, Live, Safe, vars
      <4> QED BY <2>3, <4>1, <4>2, ServedKept DEF Inv, vars
    <3> QED BY <3>1, <3>2, <3>3 DEF Inv
  <2> QED BY <2>1, <2>2, <2>3 DEF Next
<1> QED BY <1>1, <1>2, PTL DEF Spec

-----------------------------------------------------------------------------
(* The theorems.                                                           *)

(* Whatever steps the handlers take and whatever libfuse locks, no pointer *)
(* that the table is left with dangles.                                    *)
THEOREM TypeSafe == Spec => []TypeOK
<1>1. Inv => TypeOK
  <2> SUFFICES ASSUME Inv PROVE TypeOK
    OBVIOUS
  <2>1. /\ \A n \in Live : node[n].path \in Path /\ node[n].next \in Live \union {NULL}
        /\ \A n \in Node \ Live : node[n] = Free
    BY DEF Inv, TableInv, NodesOK
  <2>2. /\ \A log2 \in 0..MaxLog2 : array[log2].heads \in [Index(log2) -> Live \union {NULL}]
        /\ num \in 0..MaxLog2 /\ buckets \in 0..MaxLog2
    BY DEF Inv, TableInv, ArraysOK
  <2>3. /\ writer.add \in Ptr /\ writer.del \in Live \union {NULL}
        /\ writer.todo \in Seq(Live)
    BY Hashes DEF Inv, TableInv, WriterOK, Ptr
  <2>4. reader.path \in Path /\ reader.node \in Ptr
    BY DEF Inv, ReaderOK
  <2> QED BY <2>1, <2>2, <2>3, <2>4 DEF TypeOK
<1> QED BY <1>1, Invariant, PTL

(* On one thread, and on several under the lock on the whole tree until    *)
(* the buckets are expanded, a file that exists is found, ...              *)
THEOREM FilesFound == Spec => []FileFound
<1>1. Inv => FileFound
  BY DEF Inv, Served, FileFound, FileAlwaysFound
<1> QED BY <1>1, Invariant, PTL

(* ... what is found is that file, ...                                     *)
THEOREM RightFileFound == Spec => []FoundRight
<1>1. Inv => FoundRight
  BY DEF Inv, Served, FoundRight
<1> QED BY <1>1, Invariant, PTL

(* ... and on the way no memory is read that was freed, and no bucket      *)
(* beyond the array's end.                                                 *)
THEOREM NothingFreedRead == Spec => []NoFreedAccess
<1>1. Inv => NoFreedAccess
  <2> SUFFICES ASSUME Inv, Safe, reader.at \in {"bucket", "node"}
               PROVE  /\ reader.at = "bucket" => BucketValid
                      /\ reader.at = "node" => reader.node \in Live
    BY DEF NoFreedAccess
  <2>1. TableInv /\ ReaderOK /\ Undisturbed
    BY DEF Inv, Served
  <2>2. reader.at = "bucket" => BucketValid
    BY <2>1, HeadLeads DEF Inv, Served
  <2>3. ASSUME reader.at = "node" PROVE reader.node \in Live
    <3>1. PICK s : Leads(s)
      BY <2>3 DEF Inv, Served
    <3>2. s \in Seq(InTable) /\ s # <<>> /\ s[1] = reader.node
      BY <3>1 DEF Leads, LeadsFrom
    <3>3. s[1] \in InTable
      BY <3>2, LenProperties, EmptySeq, ElementOfSeq
    <3> QED BY <2>1, <3>2, <3>3, Quiet
  <2> QED BY <2>2, <2>3
<1> QED BY <1>1, Invariant, PTL
=============================================================================
