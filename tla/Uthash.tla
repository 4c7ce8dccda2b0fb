------------------------------- MODULE Uthash -------------------------------
(***************************************************************************)
(* uthash.h, the hash table lfs.c keeps its files in, as far as lfs.c uses *)
(* it: HASH_ADD, HASH_DEL, HASH_FIND and HASH_ITER, with the expansion of  *)
(* the buckets.                                                            *)
(*                                                                         *)
(* The elements are in a doubly linked list, in the order they were added, *)
(* and each is in the chain of a bucket, by the low bits of its hash,      *)
(* which is doubly linked as well.  A hash value is chosen for each key,   *)
(* as any function may be the hash function.  Elements have keys of their  *)
(* own, as lfs.c sees to that.                                             *)
(***************************************************************************)
EXTENDS Naturals, Sequences, FiniteSets, SequencesExt, Functions, HashBuckets, Lists

CONSTANTS
  Elem,
  NULL,
  HashValue,   \* the hash function's values
  InitialLog2, \* HASH_INITIAL_NUM_BUCKETS_LOG2
  Threshold,   \* HASH_BKT_CAPACITY_THRESH
  MaxLog2      \* bound: a table of so many buckets is not expanded

ASSUME ConstantTypes ==
  /\ IsFiniteSet(Elem)
  /\ NULL \notin Elem
  /\ HashValue \subseteq Nat
  /\ InitialLog2 \in Nat
  /\ Threshold \in Nat \ {0}
  /\ MaxLog2 \in Nat

VARIABLES
  head,      \* the first element, or NULL
  tail,      \* tbl->tail
  link,      \* Elem -> its hh.prev and hh.next, in the list
  chain,     \* Elem -> its hh.hh_prev and hh.hh_next, in the chain of its bucket
  hashv,     \* Elem -> its hash value
  num_items,
  log2_num_buckets,
  buckets,   \* number of a bucket -> its hh_head, count and expand_mult
  ineff_expands,
  noexpand

tbl == <<num_items, log2_num_buckets, buckets, ineff_expands, noexpand>>
vars == <<head, tail, link, chain, hashv, tbl>>

Ptr == Elem \union {NULL}
Unlinked == [prev |-> NULL, next |-> NULL]

EmptyBucket == [hh_head |-> NULL, count |-> 0, expand_mult |-> 0]

(* HASH_TO_BKT                                                             *)
BucketOf(e, log2) == ToBucket(hashv[e], log2)

-----------------------------------------------------------------------------
(* The elements met from hd on by following next in links until it is      *)
(* NULL.  The walk is cut one step after as many as there are elements, so *)
(* that links in a circle have it meet one of them again.                  *)
Followed(hd, links) ==
  LET orNull == [p \in Ptr |-> IF p = NULL THEN Unlinked ELSE links[p]]
      met == Linked(hd, orNull, Cardinality(Elem) + 1)
  IN SubSeq(met, 1, Cardinality({i \in DOMAIN met : met[i] # NULL}))

(* The element e is linked before hd, the first of a chain.                *)
(* Fault: hd is not linked back to e.                                      *)
PushedOneWay(links, e, hd) == [links EXCEPT ![e] = [prev |-> NULL, next |-> hd]]

Pushed(links, e, hd) ==
  LET first == [links EXCEPT ![e] = [prev |-> NULL, next |-> hd]]
  IN IF hd = NULL THEN first ELSE [first EXCEPT ![hd].prev = e]

(* The neighbours of e are linked to each other.  lfs.c frees e next, so   *)
(* that its own links are of no account any more.                          *)
Bypassed(links, e) ==
  LET l == links[e]
      before == IF l.prev = NULL THEN links ELSE [links EXCEPT ![l.prev].next = l.next]
      after == IF l.next = NULL THEN before ELSE [before EXCEPT ![l.next].prev = l.prev]
  IN [after EXCEPT ![e] = Unlinked]

-----------------------------------------------------------------------------
(* HASH_EXPAND_BUCKETS for a table of n items: the chains are gone through *)
(* from their heads and each element is put at the head of its new chain.  *)
Ceil(n, d) == (n + d - 1) \div d

(* The elements that the new bucket b gets, one after the other.           *)
(* Fault: elements keep to the half they were in.                          *)
MovedOld(b, log2, bs, links) ==
  IF b \in Index(log2) THEN Followed(bs[b].hh_head, links) ELSE <<>>

Moved(b, log2, bs, links) ==
  LET from == Followed(bs[ToBucket(b, log2)].hh_head, links)
  IN Without(from, {e \in ToSet(from) : BucketOf(e, log2 + 1) # b})

(* The elements of s are put at the head of an empty chain one by one.     *)
Pushes(links, s) ==
  LET after[i \in 0..Len(s)] ==
        IF i = 0 THEN links
        ELSE Pushed(after[i - 1], s[i], IF i = 1 THEN NULL ELSE s[i - 1])
  IN after[Len(s)]

NewBucket(moved, ideal) ==
  LET count == Len(moved)
  IN [hh_head |-> IF moved = <<>> THEN NULL ELSE moved[count],
      count |-> count,
      expand_mult |-> IF count > ideal THEN count \div ideal ELSE 0]

Expand(n, log2, bs, links) ==
  LET ideal == Ceil(n, NumBuckets[log2 + 1])
      moved == [b \in Index(log2 + 1) |-> Moved(b, log2, bs, links)]
      new == [b \in Index(log2 + 1) |-> NewBucket(moved[b], ideal)]
      excess(b) == IF new[b].count > ideal THEN new[b].count - ideal ELSE 0
      nonideal == FoldFunction(+, 0, [b \in DOMAIN new |-> excess(b)])
  IN /\ buckets' = new
     /\ chain' = [e \in Elem |-> Pushes(links, moved[BucketOf(e, log2 + 1)])[e]]
     /\ log2_num_buckets' = log2 + 1
     /\ ineff_expands' = IF nonideal > n \div 2 THEN ineff_expands + 1 ELSE 0
     /\ noexpand' = (noexpand \/ ineff_expands' > 1)

(* HASH_ADD_TO_BKT                                                         *)
AddToBucket(e, n, log2, bs) ==
  LET b == BucketOf(e, log2)
      links == Pushed(chain, e, bs[b].hh_head)
      added == [bs EXCEPT ![b].hh_head = e, ![b].count = @ + 1]
  IN /\ num_items' = n
     /\ IF added[b].count >= (added[b].expand_mult + 1) * Threshold /\ ~noexpand
        THEN log2 < MaxLog2 /\ Expand(n, log2, added, links)
        ELSE /\ buckets' = added /\ chain' = links
             /\ UNCHANGED <<log2_num_buckets, ineff_expands, noexpand>>

(* HASH_FIND                                                               *)
Found(e) ==
  /\ head # NULL
  /\ e \in ToSet(Followed(buckets[BucketOf(e, log2_num_buckets)].hh_head, chain))

-----------------------------------------------------------------------------
(* HASH_ADD of the first element makes the table.                          *)
AddFirst(e) ==
  /\ head = NULL
  /\ head' = e /\ tail' = e
  /\ link' = [link EXCEPT ![e] = Unlinked]
  /\ AddToBucket(e, 1, InitialLog2, [b \in Index(InitialLog2) |-> EmptyBucket])
  /\ UNCHANGED hashv

AddLast(e) ==
  /\ head # NULL /\ ~Found(e)
  /\ UNCHANGED head
  /\ tail' = e
  /\ link' = [link EXCEPT ![tail].next = e, ![e] = [prev |-> tail, next |-> NULL]]
  /\ AddToBucket(e, num_items + 1, log2_num_buckets, buckets)
  /\ UNCHANGED hashv

(* HASH_DELETE of the only element frees the table.                        *)
(* Fault: the last element is taken for the only one.                      *)
DeleteOnlyOrLast(e) ==
  /\ Found(e)
  /\ link[e].next = NULL
  /\ head' = NULL /\ tail' = NULL
  /\ num_items' = 0 /\ log2_num_buckets' = InitialLog2
  /\ buckets' = [b \in Index(InitialLog2) |-> EmptyBucket]
  /\ ineff_expands' = 0 /\ noexpand' = FALSE
  /\ UNCHANGED <<link, chain, hashv>>

DeleteOnly(e) ==
  /\ link[e] = Unlinked
  /\ Found(e)
  /\ head' = NULL /\ tail' = NULL
  /\ num_items' = 0 /\ log2_num_buckets' = InitialLog2
  /\ buckets' = [b \in Index(InitialLog2) |-> EmptyBucket]
  /\ ineff_expands' = 0 /\ noexpand' = FALSE
  /\ UNCHANGED <<link, chain, hashv>>

(* Fault: the tail is moved the wrong way.                                 *)
DeleteFromForward(e) ==
  LET b == BucketOf(e, log2_num_buckets)
  IN /\ link[e] # Unlinked
     /\ Found(e)
     /\ tail' = IF e = tail THEN link[e].next ELSE tail
     /\ head' = IF link[e].prev = NULL THEN link[e].next ELSE head
     /\ link' = Bypassed(link, e)
     /\ chain' = Bypassed(chain, e)
     /\ buckets' = [buckets EXCEPT ![b].hh_head = IF @ = e THEN chain[e].next ELSE @,
                                   ![b].count = @ - 1]
     /\ num_items' = num_items - 1
     /\ UNCHANGED <<hashv, log2_num_buckets, ineff_expands, noexpand>>

DeleteFrom(e) ==
  LET b == BucketOf(e, log2_num_buckets)
  IN /\ link[e] # Unlinked
     /\ Found(e)
     /\ tail' = IF e = tail THEN link[e].prev ELSE tail
     /\ head' = IF link[e].prev = NULL THEN link[e].next ELSE head
     /\ link' = Bypassed(link, e)
     /\ chain' = Bypassed(chain, e)
     /\ buckets' = [buckets EXCEPT ![b].hh_head = IF @ = e THEN chain[e].next ELSE @,
                                   ![b].count = @ - 1]
     /\ num_items' = num_items - 1
     /\ UNCHANGED <<hashv, log2_num_buckets, ineff_expands, noexpand>>

-----------------------------------------------------------------------------
Init ==
  /\ head = NULL /\ tail = NULL
  /\ link = [e \in Elem |-> Unlinked] /\ chain = [e \in Elem |-> Unlinked]
  /\ hashv \in [Elem -> HashValue]
  /\ num_items = 0 /\ log2_num_buckets = InitialLog2
  /\ buckets = [b \in Index(InitialLog2) |-> EmptyBucket]
  /\ ineff_expands = 0 /\ noexpand = FALSE

Next ==
  \E e \in Elem : AddFirst(e) \/ AddLast(e) \/ DeleteOnly(e) \/ DeleteFrom(e)

Spec == Init /\ [][Next]_vars

-----------------------------------------------------------------------------
(* Properties.                                                             *)

Link == [prev : Ptr, next : Ptr]
Bucket == [hh_head : Ptr, count : Nat, expand_mult : Nat]

TypeOK ==
  /\ head \in Ptr /\ tail \in Ptr
  /\ (head = NULL) = (tail = NULL)
  /\ link \in [Elem -> Link] /\ chain \in [Elem -> Link]
  /\ hashv \in [Elem -> HashValue]
  /\ num_items \in 0..Cardinality(Elem)
  /\ log2_num_buckets \in Nat
  /\ buckets \in [Index(log2_num_buckets) -> Bucket]
  /\ ineff_expands \in Nat
  /\ noexpand \in BOOLEAN

(* HASH_ITER: the elements met by following the links from the head.       *)
order == Followed(head, link)

(* Each of the elements of s is linked back to the one before it.          *)
LinkedBack(s, links) ==
  \A i \in DOMAIN s : links[s[i]].prev = IF i = 1 THEN NULL ELSE s[i - 1]

(* The integrity uthash.h checks under HASH_DEBUG (uthash.h:261-312):      *)
(* every chain goes both ways over as many elements as its bucket counts,  *)
(* the counts of the buckets add up to num_items, and the list goes both   *)
(* ways over as many.  Besides, it goes up to the tail.                    *)
HASH_FSCK ==
  /\ \A b \in DOMAIN buckets :
       LET c == Followed(buckets[b].hh_head, chain)
       IN LinkedBack(c, chain) /\ buckets[b].count = Len(c)
  /\ num_items = Counted(buckets, NumBuckets[log2_num_buckets])
  /\ LET items == order
     IN /\ LinkedBack(items, link) /\ num_items = Len(items)
        /\ head # NULL => items[num_items] = tail

(* What HASH_ITER meets is what HASH_FIND finds, through every expansion.  *)
FoundIffListed ==
  LET items == ToSet(order)
  IN \A e \in Elem : Found(e) <=> e \in items

(* The table is the set in order of addition that lfs.c takes it for.      *)
Ordered == INSTANCE OrderedSet WITH items <- order
OrderedSetSpec == Ordered!Spec
=============================================================================
