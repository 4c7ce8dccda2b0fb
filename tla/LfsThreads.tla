----------------------------- MODULE LfsThreads -----------------------------
(***************************************************************************)
(* The handlers of lfs.c on the threads of fuse_loop_mt(): none takes a    *)
(* lock, so that a request that looks its file up in the hash table runs   *)
(* along with one that adds a file, or removes one.                        *)
(*                                                                         *)
(* The kernel sends one request at a time that changes the directory, and  *)
(* looks up no name meanwhile: there is one writer.  Requests on files     *)
(* that exist run at any time, but for what libfuse locks: with "tree" a   *)
(* lock excludes all others while a file is removed or renamed, with       *)
(* "path" only those on that file; "single" is fuse_loop().                *)
(*                                                                         *)
(* The table is at the level of single reads and writes of memory that     *)
(* others may see.  It is not left empty: then nothing could be looked up. *)
(* Whether a bucket is full enough for expansion is left open.  What is    *)
(* read from freed memory may be anything.  Stores of the chains are seen  *)
(* in the order they are written in.                                       *)
(***************************************************************************)
EXTENDS Naturals, Sequences, FiniteSets, SequencesExt, HashBuckets, Lists

CONSTANTS
  Path,      \* file names
  Node,      \* pieces of memory for an l_file
  NULL,
  HashValue, \* the hash function's values
  InitialLog2, \* HASH_INITIAL_NUM_BUCKETS_LOG2
  MaxLog2,   \* bound: a table of so many buckets is not expanded
  Lockings   \* "path", "tree" and "single", or some of them

ASSUME ConstantTypes ==
  /\ IsFiniteSet(Path) /\ IsFiniteSet(Node)
  /\ NULL \notin Node
  /\ HashValue \subseteq Nat
  /\ MaxLog2 \in Nat /\ InitialLog2 \in 0..MaxLog2
  /\ Lockings \subseteq {"path", "tree", "single"}

VARIABLES
  node,    \* Node -> its path, hh_next, and whether it is allocated
  array,   \* log2 of a number of buckets -> their heads, and whether allocated
  num,     \* log2 of tbl->num_buckets
  buckets, \* the array tbl->buckets points to
  hash,    \* Path -> its hash value
  writer,  \* the request that changes the directory
  reader,  \* a request on a file that exists
  locking, \* what libfuse locks
  expanded \* history: the buckets have been expanded

vars == <<node, array, num, buckets, hash, writer, reader, locking, expanded>>

Ptr == Node \union {NULL}
Free == [path |-> NULL, next |-> NULL, live |-> FALSE]
NoArray(log2) == [heads |-> [b \in Index(log2) |-> NULL], live |-> FALSE]

Live == {n \in Node : node[n].live}
Present == {node[n].path : n \in Live}
NodeOf(p) == CHOOSE n \in Live : node[n].path = p

Idle == [at |-> "idle", add |-> NULL, del |-> NULL, todo |-> <<>>]
Start == [at |-> "idle", path |-> CHOOSE p \in Path : TRUE, bkt |-> 0, node |-> NULL]

(* The file that is removed or renamed, if any: libfuse's lock.            *)
Excludes(p) ==
  \/ locking = "single"
  \/ writer.del # NULL /\ (locking = "tree" \/ node[writer.del].path = p)

-----------------------------------------------------------------------------
(* The writer: l_create(), l_unlink(), l_rename().                         *)

(* The request comes, and has found that the names are as it needs.        *)
Create(p) ==
  /\ writer.at = "idle"
  /\ locking = "single" => reader.at = "idle"
  /\ p \notin Present
  /\ \E n \in Node \ Live :
       /\ node' = [node EXCEPT ![n] = [path |-> p, next |-> NULL, live |-> TRUE]]
       /\ writer' = [Idle EXCEPT !.at = "link", !.add = n]
  /\ UNCHANGED <<array, num, buckets, hash, reader, locking, expanded>>

MayRemove(p) ==
  /\ writer.at = "idle"
  /\ p \in Present
  /\ IF locking = "path" THEN reader.at = "idle" \/ reader.path # p
                         ELSE reader.at = "idle"

Unlink(p) ==
  /\ MayRemove(p)
  /\ Cardinality(Live) > 1
  /\ writer' = [Idle EXCEPT !.at = "unlink", !.del = NodeOf(p)]
  /\ UNCHANGED <<node, array, num, buckets, hash, reader, locking, expanded>>

Rename(p, q) ==
  /\ MayRemove(p)
  /\ q \notin Present
  /\ \E n \in Node \ Live :
       /\ node' = [node EXCEPT ![n] = [path |-> q, next |-> NULL, live |-> TRUE]]
       /\ writer' = [Idle EXCEPT !.at = "link", !.add = n, !.del = NodeOf(p)]
  /\ UNCHANGED <<array, num, buckets, hash, reader, locking, expanded>>

(* HASH_ADD_TO_BKT: the element points to the chain, the bucket to it.     *)
Bucket(n) == ToBucket(hash[node[n].path], num)

Link ==
  /\ writer.at = "link"
  /\ node' = [node EXCEPT ![writer.add].next = array[buckets].heads[Bucket(writer.add)]]
  /\ writer' = [writer EXCEPT !.at = "publish"]
  /\ UNCHANGED <<array, num, buckets, hash, reader, locking, expanded>>

AfterAdd == IF writer.del = NULL THEN Idle ELSE [writer EXCEPT !.at = "unlink"]

(* Then the buckets may be expanded: chain after chain is gone through.    *)
Chain(heads, b) ==
  Linked(heads[b], node, Cardinality({n \in Live : Bucket(n) = b}))

(* Fault: the rest of the chain is lost.                                   *)
PublishFirst ==
  /\ writer.at = "publish"
  /\ array' = [array EXCEPT ![buckets].heads[Bucket(writer.add)] = writer.add]
  /\ node' = [node EXCEPT ![writer.add].next = NULL]
  /\ writer' = AfterAdd
  /\ UNCHANGED <<num, buckets, hash, reader, locking, expanded>>

Publish ==
  /\ writer.at = "publish"
  /\ array' = [array EXCEPT ![buckets].heads[Bucket(writer.add)] = writer.add]
  /\ \/ writer' = AfterAdd
     \/ /\ num < MaxLog2
        /\ writer' = [writer EXCEPT !.at = "expand"]
  /\ UNCHANGED <<node, num, buckets, hash, reader, locking, expanded>>

(* HASH_EXPAND_BUCKETS: a new array, ...                                   *)
Expand ==
  /\ writer.at = "expand"
  /\ array' = [array EXCEPT ![num + 1] = [NoArray(num + 1) EXCEPT !.live = TRUE]]
  /\ writer' =
       [writer EXCEPT !.at = "move",
          !.todo = FlattenSeq([i \in 1..NumBuckets[num] |-> Chain(array[buckets].heads, i - 1)])]
  /\ expanded' = TRUE
  /\ UNCHANGED <<node, num, buckets, hash, reader, locking>>

(* ... to which the elements are moved while they are looked up, ...       *)
NewBucket(n) == ToBucket(hash[node[n].path], num + 1)

Move ==
  /\ writer.at = "move"
  /\ writer.todo # <<>>
  /\ LET n == Head(writer.todo)
         b == NewBucket(n)
     IN /\ node' = [node EXCEPT ![n].next = array[num + 1].heads[b]]
        /\ array' = [array EXCEPT ![num + 1].heads[b] = n]
  /\ writer' = [writer EXCEPT !.todo = Tail(@)]
  /\ UNCHANGED <<num, buckets, hash, reader, locking, expanded>>

(* ... and which takes the place of the old one, that is freed.  The two   *)
(* stores are seen in the order that the compiler puts them.               *)
FreeOld ==
  /\ writer.at = "move"
  /\ writer.todo = <<>>
  /\ array' = [array EXCEPT ![num] = NoArray(num)]
  /\ writer' = [writer EXCEPT !.at = "swap"]
  /\ UNCHANGED <<node, num, buckets, hash, reader, locking, expanded>>

Double ==
  /\ writer.at = "swap"
  /\ ~array[num].live
  /\ num' = num + 1
  /\ writer' = IF buckets = num' THEN AfterAdd ELSE writer
  /\ UNCHANGED <<node, array, buckets, hash, reader, locking, expanded>>

Install ==
  /\ writer.at = "swap"
  /\ ~array[buckets].live
  /\ buckets' = buckets + 1
  /\ writer' = IF num = buckets' THEN AfterAdd ELSE writer
  /\ UNCHANGED <<node, array, num, hash, reader, locking, expanded>>

(* HASH_DEL_IN_BKT                                                         *)
(* Fault: the head of a chain is not removed.                              *)
UnchainInside ==
  LET d == writer.del IN
  /\ writer.at = "unlink"
  /\ node' = [n \in Node |-> IF node[n].live /\ node[n].next = d
                             THEN [node[n] EXCEPT !.next = node[d].next] ELSE node[n]]
  /\ UNCHANGED array
  /\ writer' = [writer EXCEPT !.at = "free"]
  /\ UNCHANGED <<num, buckets, hash, reader, locking, expanded>>

Unchain ==
  LET d == writer.del IN
  /\ writer.at = "unlink"
  /\ IF array[buckets].heads[Bucket(d)] = d
     THEN /\ array' = [array EXCEPT ![buckets].heads[Bucket(d)] = node[d].next]
          /\ UNCHANGED node
     ELSE /\ node' = [n \in Node |-> IF node[n].live /\ node[n].next = d
                                     THEN [node[n] EXCEPT !.next = node[d].next]
                                     ELSE node[n]]
          /\ UNCHANGED array
  /\ writer' = [writer EXCEPT !.at = "free"]
  /\ UNCHANGED <<num, buckets, hash, reader, locking, expanded>>

FreeFile ==
  /\ writer.at = "free"
  /\ node' = [node EXCEPT ![writer.del] = Free]
  /\ writer' = Idle
  /\ UNCHANGED <<array, num, buckets, hash, reader, locking, expanded>>

Write ==
  \/ \E p \in Path : Create(p) \/ Unlink(p) \/ \E q \in Path : Rename(p, q)
  \/ Link \/ Publish \/ Expand \/ Move \/ FreeOld \/ Double \/ Install
  \/ Unchain \/ FreeFile

-----------------------------------------------------------------------------
(* The reader: HASH_FIND in any handler on a file that exists.             *)

Find(p) ==
  /\ reader.at = "idle"
  /\ p \in Present
  /\ writer.add # NULL => p # node[writer.add].path
  /\ writer.at # "idle" => ~Excludes(p)
  /\ reader' = [Start EXCEPT !.at = "hash", !.path = p]
  /\ UNCHANGED <<node, array, num, buckets, hash, writer, locking, expanded>>

ReadNum ==
  /\ reader.at = "hash"
  /\ reader' = [reader EXCEPT !.at = "bucket", !.bkt = ToBucket(hash[reader.path], num)]
  /\ UNCHANGED <<node, array, num, buckets, hash, writer, locking, expanded>>

BucketValid == array[buckets].live /\ reader.bkt \in Index(buckets)

ReadBucket ==
  /\ reader.at = "bucket"
  /\ \E n \in Ptr :
       /\ BucketValid => n = array[buckets].heads[reader.bkt]
       /\ reader' = [reader EXCEPT !.at = "node", !.node = n]
  /\ UNCHANGED <<node, array, num, buckets, hash, writer, locking, expanded>>

(* HASH_FIND_IN_BKT                                                        *)
(* Fault: the keys are not compared.                                       *)
MatchesAny(n) == TRUE

Matches(n) == node[n].path = reader.path

ReadNode ==
  /\ reader.at = "node"
  /\ IF reader.node = NULL
     THEN reader' = [reader EXCEPT !.at = "notfound"]
     ELSE LET live == reader.node \in Live IN
          \/ /\ live => Matches(reader.node)
             /\ reader' = [reader EXCEPT !.at = "found"]
          \/ /\ live => ~Matches(reader.node)
             /\ \E n \in Ptr :
                  /\ live => n = node[reader.node].next
                  /\ reader' = [reader EXCEPT !.node = n]
  /\ UNCHANGED <<node, array, num, buckets, hash, writer, locking, expanded>>

Reply ==
  /\ reader.at \in {"found", "notfound"}
  /\ reader' = Start
  /\ UNCHANGED <<node, array, num, buckets, hash, writer, locking, expanded>>

Read == (\E p \in Path : Find(p)) \/ ReadNum \/ ReadBucket \/ ReadNode \/ Reply

-----------------------------------------------------------------------------
(* There is one file already.                                              *)
Init ==
  /\ num = InitialLog2 /\ buckets = InitialLog2
  /\ hash \in [Path -> HashValue]
  /\ \E n \in Node, p \in Path :
       /\ node = [m \in Node |-> IF m = n
                                 THEN [path |-> p, next |-> NULL, live |-> TRUE] ELSE Free]
       /\ array = [log2 \in 0..MaxLog2 |->
                     IF log2 = num
                     THEN [heads |-> [NoArray(num).heads EXCEPT ![Bucket(n)] = n],
                           live |-> TRUE]
                     ELSE NoArray(log2)]
  /\ writer = Idle
  /\ reader = Start
  /\ locking \in Lockings
  /\ expanded = FALSE

Next == Write \/ Read

Spec == Init /\ [][Next]_vars

-----------------------------------------------------------------------------
(* Properties.                                                             *)

(* Types; and what the writer leaves in the table is never dangling: heads *)
(* and hh_next point to memory that is allocated.                          *)
TypeOK ==
  /\ \A n \in Live : node[n].path \in Path /\ node[n].next \in Live \union {NULL}
  /\ \A n \in Node \ Live : node[n] = Free
  /\ \A log2 \in 0..MaxLog2 :
       array[log2].heads \in [Index(log2) -> Live \union {NULL}]
  /\ num \in 0..MaxLog2 /\ buckets \in 0..MaxLog2
  /\ writer.add \in Ptr /\ writer.del \in Live \union {NULL}
  /\ writer.todo \in Seq(Live)
  /\ reader.path \in Path /\ reader.node \in Ptr

(* A file that exists is found: "The file will exist when this is called"  *)
(* (lfs.c:214-215).                                                        *)
FileAlwaysFound == reader.at # "notfound"

(* That is so on one thread; and on several where removals keep all others *)
(* out, until the buckets are expanded.                                    *)
Safe == locking = "single" \/ (locking = "tree" /\ ~expanded)

FileFound == Safe => FileAlwaysFound

(* Then what is found is the file of that name, whatever was made of its   *)
(* chain meanwhile (uthash.h:585-589).                                     *)
FoundRight ==
  Safe /\ reader.at = "found" =>
    reader.node \in Live /\ node[reader.node].path = reader.path

(* And a lookup reads neither a bucket of an array that was freed, or      *)
(* beyond its end, nor a file that was freed (uthash.h:94-105, 580-591).   *)
NoFreedAccess ==
  Safe =>
    /\ reader.at = "bucket" => BucketValid
    /\ reader.at = "node" /\ reader.node # NULL => reader.node \in Live
=============================================================================
