---------------------------- MODULE HashBuckets ----------------------------
(***************************************************************************)
(* The buckets of a hash table of uthash.h.                                *)
(***************************************************************************)
EXTENDS Naturals

(* tbl->num_buckets, which is doubled as tbl->log2_num_buckets goes up.    *)
NumBuckets[log2 \in Nat] == IF log2 = 0 THEN 1 ELSE 2 * NumBuckets[log2 - 1]

Index(log2) == 0..(NumBuckets[log2] - 1)

(* HASH_TO_BKT                                                             *)
ToBucket(hashv, log2) == hashv % NumBuckets[log2]

(* What the first n buckets count, added up.                               *)
Counted(buckets, n) ==
  LET sum[i \in 0..n] == IF i = 0 THEN 0 ELSE sum[i - 1] + buckets[i - 1].count
  IN sum[n]
=============================================================================
