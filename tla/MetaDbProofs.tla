---------------------------- MODULE MetaDbProofs ----------------------------
(***************************************************************************)
(* What is proved of MetaDb, for every directory of data files, wherever   *)
(* the program is killed, and whatever libswift or reading fails to do.    *)
(***************************************************************************)
EXTENDS MetaDb, ListProofs

(* What is written, and what is still to be written, are the entries.      *)
WritesEach ==
  pc = "write" => Len(disk) + Cardinality(left) <= Cardinality(Key)

(* A run goes on only from a database that can be decoded, unless it could *)
(* not read it, and what it writes can be.                                 *)
ReadFirst ==
  /\ pc \in {"restore", "files", "swift", "add"} => Readable(disk) \/ unread
  /\ pc = "write" => \A e \in ToSet(disk) : e.cut = "no"

RestoresBinary == pc \in {"reload", "restore"} => format = "binary"

(* The metafiles under a key are those of a file of that size, unless they *)
(* were encoded as None or cannot be decoded.                              *)
MadeOf(pair, k) == pair.mb.of = k /\ pair.mh.of = k

OfTheirKey ==
  /\ \A e \in ToSet(disk) : e.cut = "head" \/ MadeOf(e.meta, e.key)
  /\ \A k \in DOMAIN db : db[k].mb.is = "none" \/ MadeOf(db[k], k)
  /\ pc = "restore" => \A k \in DOMAIN db : MadeOf(db[k], k)

(* Where nothing is restored they are those of their file.                 *)
Own(blob, k) == blob.is = "absent" \/ blob.of = k

TextOwn ==
  format = "text" =>
    \A n \in Name :
      /\ Own(metafiles[n].mb, parse_size(n))
      /\ Own(metafiles[n].mh, parse_size(n))

(* No .mbinmap is cut off, and in the text format no .mhash.               *)
Uncut(pair) == pair.mb.is # "cut" /\ (format = "text" => pair.mh.is # "cut")

NoneCutOff ==
  /\ \A n \in File : Uncut(metafiles[n])
  /\ \A e \in ToSet(disk) : Uncut(e.meta)
  /\ \A k \in DOMAIN db : Uncut(db[k])

(* The keys of complete databases go from the file to the program and from *)
(* there to the file.                                                      *)
KeysKept ==
  ~killed /\ ~unread =>
    /\ \A e \in ToSet(disk) : e.cut \in {"no", "head"}
    /\ pc # "write" /\ Readable(disk) => held \subseteq KeysIn(disk)
    /\ pc \in {"files", "swift", "add"} => held \subseteq DOMAIN db
    /\ pc = "write" => held \subseteq KeysIn(disk) \union left

(* So do those of the files visited that have metafiles.                   *)
VisitedStored ==
  /\ pc \in {"files", "swift", "add"} =>
       \A n \in Name \ todo :
         Present(n) /\ (pc # "files" => n # cur) => parse_size(n) \in DOMAIN db
  /\ pc = "write" =>
       \A n \in Name :
         Present(n) => parse_size(n) \in KeysIn(disk) \union left

(* A metafile of a file of this size may be one of the file n, in the      *)
(* sense of RestoredOfGb.                                                  *)
Right(n, size) ==
  size % Multiplier.gb = 0 /\ size \div Multiplier.gb \in 1..1023
    => parse_size(n) = size

RightPair(n, pair) == Right(n, pair.mb.of) /\ Right(n, pair.mh.of)

AllRight == \A n \in File : RightPair(n, metafiles[n])

DbInv ==
  /\ TypeOK
  /\ WritesEach
  /\ ReadFirst
  /\ RestoresBinary
  /\ OfTheirKey
  /\ TextOwn
  /\ NoneCutOff
  /\ KeysKept
  /\ VisitedStored
  /\ AllRight

-----------------------------------------------------------------------------
(* Lemmas about sizes.                                                     *)

(* The units.                                                              *)
LEMMA Multipliers ==
  /\ DOMAIN Multiplier = {"kb", "mb", "gb", "tb"}
  /\ Multiplier["kb"] = 1 /\ Multiplier["mb"] = 1024
  /\ Multiplier["gb"] = 1048576 /\ Multiplier["tb"] = 1073741824
  /\ Multiplier.mb = 1024 /\ Multiplier.gb = 1048576
BY DEF Multiplier

(* Sizes are numbers other than 0.                                         *)
LEMMA Sizes == \A n \in Name : parse_size(n) \in Nat \ {0}
<1> TAKE n \in Name
<1>1. n.count \in Nat \ {0} /\ n.unit \in {"kb", "mb", "gb", "tb"}
  BY ConstantTypes
<1> DEFINE c == n.count
<1>2. c \in Nat \ {0} => /\ c * 1 \in Nat \ {0} /\ c * 1024 \in Nat \ {0}
                         /\ c * 1048576 \in Nat \ {0}
                         /\ c * 1073741824 \in Nat \ {0}
  <2> HIDE DEF c
  <2> QED OBVIOUS
<1> QED BY <1>1, <1>2, Multipliers DEF parse_size

(* A size of whole gb below 1tb is read from the name that is made of it   *)
(* as it was.                                                              *)
LEMMA GbRestored ==
  ASSUME NEW size \in Nat, size % Multiplier.gb = 0,
         size \div Multiplier.gb \in 1..1023
  PROVE  parse_size(compact_size(size)) = size
<1>1. /\ size % 1048576 = 0 /\ size \div 1048576 \in 1..1023
      /\ size = 1048576 * (size \div 1048576)
  BY Multipliers
<1>2. size >= 1048576 /\ size < 1073741824
  BY <1>1
<1>3. UnitOf(size) = "gb"
  <2> DEFINE Fits(u) ==
        /\ Multiplier[u] <= size
        /\ \A v \in DOMAIN Multiplier :
             Multiplier[v] <= size => Multiplier[v] <= Multiplier[u]
  <2>1. \A u \in DOMAIN Multiplier : Fits(u) <=> u = "gb"
    BY <1>2, Multipliers
  <2>2. "gb" \in DOMAIN Multiplier
    BY Multipliers
  <2>3. UnitOf(size) = CHOOSE u \in DOMAIN Multiplier : Fits(u)
    BY DEF UnitOf
  <2> HIDE DEF Fits
  <2> QED BY <2>1, <2>2, <2>3
<1>4. (size \div 1024) \div 1024 = size \div 1048576
  BY <1>1
<1>5. compact_size(size) = [count |-> size \div 1048576, unit |-> "gb"]
  BY <1>3, <1>4, Multipliers DEF compact_size
<1> QED BY <1>1, <1>5, Multipliers DEF parse_size

-----------------------------------------------------------------------------
(* Lemmas about database files.                                            *)

(* What can be read, in terms of the entries there are.                    *)
LEMMA ReadableEntries ==
  ASSUME NEW file \in Seq(Entry)
  PROVE  Readable(file) <=>
           \A e \in ToSet(file) :
             e.cut \in IF format = "text" THEN {"no"}
                       ELSE {"no", "mbinmap", "mhash"}
BY DEF Readable, ToSet

(* The keys are those of the entries.                                      *)
LEMMA KeysOfEntries ==
  ASSUME NEW file \in Seq(Entry)
  PROVE  KeysIn(file) = {e.key : e \in ToSet(file)}
BY DEF KeysIn, ToSet

(* The entries of a list are entries.                                      *)
LEMMA EntriesType ==
  ASSUME NEW file \in Seq(Entry)
  PROVE  ToSet(file) \subseteq Entry
BY LenProperties, ElementOfSeq DEF ToSet

(* What is loaded under a key comes from an entry of that key.             *)
LEMMA LoadedEntries ==
  ASSUME NEW file \in Seq(Entry), Readable(file)
  PROVE  /\ DOMAIN Loaded(file) \subseteq KeysIn(file)
         /\ (\A e \in ToSet(file) : e.cut = "no")
              => DOMAIN Loaded(file) = KeysIn(file)
         /\ \A k \in DOMAIN Loaded(file) :
              \E e \in ToSet(file) :
                /\ e.key = k /\ e.cut \in {"no", "mhash"}
                /\ Loaded(file)[k] = Blobs(e)
<1> DEFINE good == {i \in DOMAIN file : file[i].cut # "mbinmap"}
           entry(k) == file[CHOOSE i \in good : file[i].key = k]
<1>1. /\ DOMAIN Loaded(file) = {file[i].key : i \in good}
      /\ \A k \in DOMAIN Loaded(file) : Loaded(file)[k] = Blobs(entry(k))
  BY DEF Loaded
<1>2. \A k \in DOMAIN Loaded(file) :
        /\ entry(k) \in ToSet(file) /\ entry(k).key = k
        /\ entry(k).cut # "mbinmap"
  <2> TAKE k \in DOMAIN Loaded(file)
  <2>1. \E i \in good : file[i].key = k
    BY <1>1
  <2> DEFINE j == CHOOSE i \in good : file[i].key = k
  <2>2. j \in good /\ file[j].key = k
    BY <2>1
  <2> HIDE DEF j
  <2>3. file[j] \in ToSet(file) /\ file[j].cut # "mbinmap"
    BY <2>2 DEF ToSet
  <2> QED BY <2>2, <2>3 DEF j
<1>3. DOMAIN Loaded(file) \subseteq KeysIn(file)
  BY <1>1 DEF KeysIn
<1>4. (\A e \in ToSet(file) : e.cut = "no") => KeysIn(file) = {file[i].key : i \in good}
  BY DEF KeysIn, ToSet
<1>5. \A e \in ToSet(file) : e.cut \in {"no", "mbinmap", "mhash"}
  BY ReadableEntries
<1> HIDE DEF entry, good
<1> QED BY <1>1, <1>2, <1>3, <1>4, <1>5

(* What is read of an entry is of the same sizes, and an .mbinmap is not   *)
(* cut off in one that is loaded.                                          *)
LEMMA BlobsRead ==
  ASSUME NEW e \in Entry, e.cut \in {"no", "mhash"}
  PROVE  /\ Blobs(e) \in Pair
         /\ Blobs(e).mb = e.meta.mb /\ Blobs(e).mh.of = e.meta.mh.of
         /\ e.cut = "no" => Blobs(e) = e.meta
<1>1. e.meta \in Pair /\ e.meta.mb \in Blob /\ e.meta.mh \in Blob
  BY DEF Entry, Pair
<1>2. CASE e.cut = "no"
  BY <1>1, <1>2 DEF Blobs
<1>3. CASE e.cut = "mhash"
  <2>1. Blobs(e) = [e.meta EXCEPT !.mh.is = "cut"]
    BY <1>3 DEF Blobs
  <2> QED BY <1>1, <1>3, <2>1 DEF Pair, Blob
<1> QED BY <1>2, <1>3

(* A first part of a file holds entries of the file.                       *)
LEMMA FirstPart ==
  ASSUME NEW file \in Seq(Entry), NEW n \in 0..Len(file)
  PROVE  /\ SubSeq(file, 1, n) \in Seq(Entry) /\ Len(SubSeq(file, 1, n)) = n
         /\ ToSet(SubSeq(file, 1, n)) \subseteq ToSet(file)
<1>1. Len(file) \in Nat /\ DOMAIN file = 1..Len(file)
  BY LenProperties
<1>2. /\ SubSeq(file, 1, n) \in Seq(Entry) /\ Len(SubSeq(file, 1, n)) = n
      /\ \A i \in 1..n : SubSeq(file, 1, n)[i] = file[i]
  BY <1>1, SubSeqProperties
<1>3. DOMAIN SubSeq(file, 1, n) = 1..n
  BY <1>2, LenProperties
<1> QED BY <1>1, <1>2, <1>3 DEF ToSet

(* The beginning of a file holds entries of the file, and at most one more *)
(* that is cut off.                                                        *)
LEMMA BeginningEntries ==
  ASSUME NEW file \in Seq(Entry), NEW first \in Beginnings(file)
  PROVE  /\ first \in Seq(Entry) /\ Len(first) <= Len(file)
         /\ \A e \in ToSet(first) :
              \E f \in ToSet(file) :
                /\ e.key = f.key /\ e.meta = f.meta
                /\ e.cut = f.cut \/ f.cut = "no"
<1>1. Len(file) \in Nat /\ DOMAIN file = 1..Len(file)
  BY LenProperties
<1>2. ASSUME NEW n \in 0..Len(file), first = SubSeq(file, 1, n)
      PROVE  /\ first \in Seq(Entry) /\ Len(first) <= Len(file)
             /\ ToSet(first) \subseteq ToSet(file)
  BY <1>1, <1>2, FirstPart
<1>3. ASSUME NEW n \in DOMAIN file, file[n].cut = "no",
             NEW c \in {"head", "mbinmap", "mhash"},
             first = CutIn(file, n, c)
      PROVE  /\ first \in Seq(Entry) /\ Len(first) <= Len(file)
             /\ \A e \in ToSet(first) :
                  \E f \in ToSet(file) :
                    /\ e.key = f.key /\ e.meta = f.meta
                    /\ e.cut = f.cut \/ f.cut = "no"
  <2> DEFINE part == SubSeq(file, 1, n - 1)
             last == [file[n] EXCEPT !.cut = c]
  <2>1. /\ part \in Seq(Entry) /\ Len(part) = n - 1
        /\ ToSet(part) \subseteq ToSet(file)
    BY <1>1, FirstPart
  <2>2. file[n] \in Entry /\ file[n] \in ToSet(file)
    BY <1>1, ElementOfSeq DEF ToSet
  <2>3. last \in Entry /\ last.key = file[n].key /\ last.meta = file[n].meta
    BY <2>2 DEF Entry
  <2>4. first = Append(part, last)
    BY <1>3 DEF CutIn
  <2> HIDE DEF part, last
  <2>5. /\ first \in Seq(Entry) /\ Len(first) = n
        /\ ToSet(first) = ToSet(part) \union {last}
    BY <1>1, <2>1, <2>3, <2>4, AppendMembers
  <2> QED BY <1>1, <1>3, <2>1, <2>2, <2>3, <2>5
<1>4. \/ \E n \in 0..Len(file) : first = SubSeq(file, 1, n)
      \/ \E n \in DOMAIN file, c \in {"head", "mbinmap", "mhash"} :
           file[n].cut = "no" /\ first = CutIn(file, n, c)
  BY DEF Beginnings
<1> QED BY <1>2, <1>3, <1>4

-----------------------------------------------------------------------------
(* The invariant.                                                          *)

(* There are finitely many keys.                                           *)
LEMMA FiniteKeys == IsFiniteSet(Key) /\ Cardinality(Key) \in Nat
<1>1. IsFiniteSet(Key)
  <2>1. [n \in Name |-> parse_size(n)] \in Surjection(Name, Key)
    BY DEF Surjection, Key
  <2> QED BY <2>1, ConstantTypes, FS_Surjection
<1> QED BY <1>1, FS_CardinalityType

(* A database to begin with has each of its entries once, and whole.       *)
LEMMA InitialFile ==
  ASSUME NEW S \in SUBSET Key
  PROVE  LET file == SetToSeq({Saved(k, Both(Whole(k))) : k \in S})
         IN  /\ file \in Seq(Entry) /\ Len(file) <= Cardinality(Key)
             /\ \A e \in ToSet(file) :
                  e.cut = "no" /\ e.key \in Key /\ e.meta = Both(Whole(e.key))
<1> DEFINE T == {Saved(k, Both(Whole(k))) : k \in S}
           file == SetToSeq(T)
<1>1. /\ T \subseteq Entry
      /\ \A e \in T : e.cut = "no" /\ e.key \in Key /\ e.meta = Both(Whole(e.key))
  BY DEF Saved, Both, Whole, Entry, Pair, Blob
<1>2. IsFiniteSet(T) /\ Cardinality(T) <= Cardinality(Key)
  <2>1. IsFiniteSet(S) /\ Cardinality(S) <= Cardinality(Key)
    BY FiniteKeys, FS_Subset
  <2>2. [k \in S |-> Saved(k, Both(Whole(k)))] \in Surjection(S, T)
    BY DEF Surjection
  <2>3. IsFiniteSet(T) /\ Cardinality(T) <= Cardinality(S)
    BY <2>1, <2>2, FS_Surjection
  <2>4. Cardinality(S) \in Nat /\ Cardinality(T) \in Nat
    BY <2>1, <2>3, FS_CardinalityType
  <2> QED BY <2>1, <2>3, <2>4, FiniteKeys
<1>3. file \in [1..Cardinality(T) -> T]
  <2> HIDE DEF T
  <2>1. PICK f \in [1..Cardinality(T) -> T] : f \in Bijection(1..Cardinality(T), T)
    BY <1>2, FS_CardinalityType DEF ExistsBijection, Bijection, Injection
  <2>2. IsInjective(f)
    BY <2>1 DEF Bijection, Injection, IsInjective
  <2> QED BY <2>2 DEF SetToSeq
<1>4. Cardinality(T) \in Nat
  BY <1>2, FS_CardinalityType
<1> HIDE DEF T
<1>5. file \in Seq(T) /\ Len(file) = Cardinality(T) /\ DOMAIN file = 1..Len(file)
  BY <1>3, <1>4
<1>6. file \in Seq(Entry) /\ ToSet(file) \subseteq T
  BY <1>1, <1>3, <1>4, <1>5 DEF ToSet
<1> HIDE DEF file
<1>7. /\ file \in Seq(Entry) /\ Len(file) <= Cardinality(Key)
      /\ \A e \in ToSet(file) :
           e.cut = "no" /\ e.key \in Key /\ e.meta = Both(Whole(e.key))
  BY <1>1, <1>2, <1>5, <1>6
<1> QED BY <1>7 DEF file, T

(* Metafiles of no size, or of this size, are right.                       *)
LEMMA NoSizeRight == \A n : Right(n, 0) /\ Right(n, parse_size(n))
BY Multipliers DEF Right

(* So are those of another file of the size it is restored to.             *)
LEMMA RestoredRight == \A k \in Key : Right(compact_size(k), k)
BY Sizes, GbRestored DEF Right, Key

(* Metafiles that are there, and those that are not.                       *)
LEMMA WholeBlobs ==
  /\ Absent \in Blob /\ Both(Absent) \in Pair
  /\ Absent.of = 0 /\ Both(Absent).mb = Absent /\ Both(Absent).mh = Absent
  /\ Absent.is = "absent"
  /\ \A k \in Key :
       /\ {Part(k), Whole(k)} \subseteq Blob /\ Both(Whole(k)) \in Pair
       /\ Both(Whole(k)).mb = Whole(k) /\ Both(Whole(k)).mh = Whole(k)
       /\ Part(k).of = k /\ Whole(k).of = k
       /\ Part(k).is = "part" /\ Whole(k).is = "whole"
BY DEF Absent, Part, Whole, Both, Blob, Pair

(* It holds at first.                                                      *)
LEMMA DbInit == Init => DbInv
<1> SUFFICES ASSUME Init PROVE DbInv
  OBVIOUS
<1>1. PICK S \in SUBSET Name :
        metafiles = [n \in File |->
                       Both(IF n \in S THEN Whole(parse_size(n)) ELSE Absent)]
  BY DEF Init
<1>2. /\ disk \in Seq(Entry) /\ Len(disk) <= Cardinality(Key)
      /\ \A e \in ToSet(disk) :
           e.cut = "no" /\ e.key \in Key /\ e.meta = Both(Whole(e.key))
  BY InitialFile DEF Init
<1>3. held \subseteq Key /\ held = KeysIn(disk)
  BY <1>2, KeysOfEntries DEF Init
<1>4. \A n \in File :
        \/ metafiles[n] = Both(Absent)
        \/ /\ n \in Name /\ parse_size(n) \in Key
           /\ metafiles[n] = Both(Whole(parse_size(n)))
  BY <1>1 DEF Key, File
<1>5. metafiles \in [File -> Pair]
  BY <1>1, <1>4, WholeBlobs
<1>6. DOMAIN db = {}
  BY DEF Init
<1>7. TypeOK
  BY <1>2, <1>3, <1>5, <1>6 DEF Init, TypeOK
<1>8. OfTheirKey /\ TextOwn
  <2>1. \A e \in ToSet(disk) : MadeOf(e.meta, e.key)
    BY <1>2, WholeBlobs DEF MadeOf
  <2>2. \A n \in Name : /\ Own(metafiles[n].mb, parse_size(n))
                       /\ Own(metafiles[n].mh, parse_size(n))
    BY <1>4, WholeBlobs DEF Own, File
  <2> QED BY <1>6, <2>1, <2>2 DEF OfTheirKey, TextOwn, Init
<1>9. NoneCutOff
  BY <1>2, <1>4, <1>6, WholeBlobs DEF NoneCutOff, Uncut
<1>10. AllRight
  <2> SUFFICES ASSUME NEW n \in File PROVE RightPair(n, metafiles[n])
    BY DEF AllRight
  <2> QED BY <1>4, WholeBlobs, NoSizeRight DEF RightPair
<1> QED
  BY <1>2, <1>3, <1>6, <1>7, <1>8, <1>9, <1>10
     DEF Init, DbInv, WritesEach, ReadFirst, RestoresBinary, KeysKept,
         VisitedStored

(* What has its type in any state of the invariant.                        *)
LEMMA DbTypes ==
  ASSUME DbInv
  PROVE  /\ Name \subseteq File /\ \A k \in Key : compact_size(k) \in File
         /\ \A n \in Name : parse_size(n) \in Key
         /\ Key \subseteq Nat \ {0}
         /\ Len(disk) \in Nat /\ Cardinality(Key) \in Nat
         /\ ToSet(disk) \subseteq Entry
         /\ KeysIn(disk) = {e.key : e \in ToSet(disk)}
         /\ IsFiniteSet(left) /\ Cardinality(left) \in Nat
BY Sizes, FiniteKeys, EntriesType, KeysOfEntries, LenProperties, FS_Subset,
   FS_CardinalityType
   DEF DbInv, TypeOK, File, Key

(* Metafiles as a libswift that did not finish leaves them.                *)
LEMMA UnfinishedPairs ==
  ASSUME DbInv, NEW m \in Unfinished
  PROVE  LET k == parse_size(cur)
         IN \E mb, mh \in Blob :
              /\ m = [metafiles EXCEPT ![cur] = [mb |-> mb, mh |-> mh]]
              /\ mb \in {metafiles[cur].mb, Part(k), Whole(k)}
              /\ mh \in {metafiles[cur].mh, Part(k), Whole(k)}
<1>1. cur \in Name /\ cur \in File /\ parse_size(cur) \in Key
  BY DbTypes DEF DbInv, TypeOK
<1>2. metafiles[cur].mb \in Blob /\ metafiles[cur].mh \in Blob
  BY <1>1 DEF DbInv, TypeOK, Pair
<1> QED BY <1>1, <1>2, WholeBlobs DEF Unfinished

(* A run that has what it loaded of a file keeps the invariant.            *)
LEMMA LoadedKeeps ==
  ASSUME DbInv, pc \in {"load", "reload"}, NEW file \in Seq(Entry), Readable(file),
         \A e \in ToSet(file) :
           \E f \in ToSet(disk) :
             e.key = f.key /\ e.meta = f.meta /\ (e.cut = f.cut \/ f.cut = "no"),
         db' = Loaded(file), todo' = Name,
         pc' = IF pc = "load" THEN "files" ELSE "restore",
         left' = IF pc = "reload" THEN DOMAIN db' ELSE {},
         UNCHANGED <<metafiles, disk, cur, format, held, killed>>,
         unread' \in BOOLEAN, ~unread' => ~unread /\ file = disk
  PROVE  DbInv'
<1> USE ConstantTypes, DbTypes DEF DbInv, TypeOK
<1>1. /\ DOMAIN db' \subseteq KeysIn(file)
      /\ (\A e \in ToSet(file) : e.cut = "no") => DOMAIN db' = KeysIn(file)
      /\ \A k \in DOMAIN db' :
           \E e \in ToSet(file) :
             e.key = k /\ e.cut \in {"no", "mhash"} /\ db'[k] = Blobs(e)
  BY LoadedEntries
<1>2. KeysIn(file) = {e.key : e \in ToSet(file)} /\ ToSet(file) \subseteq Entry
  BY KeysOfEntries, EntriesType
<1>3. \A k \in DOMAIN db' :
        /\ k \in Key /\ db'[k] \in Pair /\ MadeOf(db'[k], k) /\ Uncut(db'[k])
  <2> TAKE k \in DOMAIN db'
  <2>1. PICK e \in ToSet(file) :
          e.key = k /\ e.cut \in {"no", "mhash"} /\ db'[k] = Blobs(e)
    BY <1>1
  <2>2. PICK f \in ToSet(disk) :
          e.key = f.key /\ e.meta = f.meta /\ (e.cut = f.cut \/ f.cut = "no")
    BY <2>1
  <2>3. /\ db'[k] \in Pair /\ db'[k].mb = e.meta.mb
        /\ db'[k].mh.of = e.meta.mh.of
        /\ e.cut = "no" => db'[k] = e.meta
    BY <1>2, <2>1, BlobsRead
  <2>4. k \in Key /\ MadeOf(e.meta, k) /\ Uncut(e.meta)
    BY <1>2, <2>1, <2>2 DEF Entry, OfTheirKey, NoneCutOff
  <2>5. format = "text" => e.cut = "no"
    BY <2>1, ReadableEntries
  <2> QED BY <2>3, <2>4, <2>5 DEF MadeOf, Uncut
<1>4. TypeOK'
  BY <1>3
<1>5. ReadFirst' /\ RestoresBinary' /\ WritesEach'
  BY DEF ReadFirst, RestoresBinary, WritesEach, Readable
<1>6. OfTheirKey' /\ TextOwn' /\ NoneCutOff'
  BY <1>3 DEF OfTheirKey, TextOwn, Own, NoneCutOff, MadeOf, Uncut
<1>7. KeysKept'
  <2> SUFFICES ASSUME ~killed, ~unread' PROVE KeysKept'
    BY DEF KeysKept
  <2>1. /\ \A e \in ToSet(disk) : e.cut = "no"
        /\ held \subseteq KeysIn(disk) /\ DOMAIN db' = KeysIn(disk)
    BY <1>1, ReadableEntries DEF KeysKept
  <2> QED BY <2>1 DEF KeysKept
<1>8. VisitedStored' /\ AllRight'
  BY DEF VisitedStored, AllRight
<1> QED BY <1>4, <1>5, <1>6, <1>7, <1>8

(* What a libswift that did not finish leaves keeps the metafiles' part of *)
(* the invariant.                                                          *)
LEMMA UnfinishedKeeps ==
  ASSUME DbInv, metafiles' \in Unfinished, UNCHANGED format
  PROVE  /\ metafiles' \in [File -> Pair] /\ AllRight' /\ TextOwn'
         /\ \A n \in File : Uncut(metafiles[n])'
         /\ \A n \in Name \ {cur} : Present(n)' <=> Present(n)
<1> USE DbTypes DEF DbInv, TypeOK
<1> DEFINE k == parse_size(cur)
<1>1. PICK mb \in Blob, mh \in Blob :
        /\ metafiles' = [metafiles EXCEPT ![cur] = [mb |-> mb, mh |-> mh]]
        /\ mb \in {metafiles[cur].mb, Part(k), Whole(k)}
        /\ mh \in {metafiles[cur].mh, Part(k), Whole(k)}
  BY UnfinishedPairs
<1>2. cur \in File /\ cur \in Name /\ k \in Key
  OBVIOUS
<1>3. /\ metafiles' \in [File -> Pair]
      /\ \A n \in File \ {cur} : metafiles'[n] = metafiles[n]
      /\ metafiles'[cur].mb = mb /\ metafiles'[cur].mh = mh
  BY <1>1, <1>2 DEF Pair
<1>4. /\ Right(cur, mb.of) /\ Right(cur, mh.of)
      /\ mb.is # "cut" /\ (format = "text" => mh.is # "cut")
      /\ format = "text" => Own(mb, k) /\ Own(mh, k)
  <2>1. /\ Right(cur, metafiles[cur].mb.of) /\ Right(cur, metafiles[cur].mh.of)
        /\ Uncut(metafiles[cur])
        /\ format = "text" => Own(metafiles[cur].mb, k) /\ Own(metafiles[cur].mh, k)
    BY <1>2 DEF AllRight, RightPair, NoneCutOff, TextOwn
  <2>2. \A b \in {Part(k), Whole(k)} :
          Right(cur, b.of) /\ b.is # "cut" /\ Own(b, k)
    BY <1>2, WholeBlobs, NoSizeRight DEF Own
  <2> QED BY <1>1, <2>1, <2>2 DEF Uncut
<1>5. \A n \in Name \ {cur} : Present(n)' <=> Present(n)
  BY <1>3 DEF Present
<1>6. AllRight'
  BY <1>3, <1>4 DEF AllRight, RightPair
<1>7. TextOwn'
  BY <1>3, <1>4 DEF TextOwn
<1>8. \A n \in File : Uncut(metafiles[n])'
  BY <1>3, <1>4 DEF Uncut, NoneCutOff
<1> QED BY <1>3, <1>5, <1>6, <1>7, <1>8

(* Every step of the program keeps it.                                     *)
LEMMA DbNext == DbInv /\ [Next]_vars => DbInv'
<1> SUFFICES ASSUME DbInv, [Next]_vars PROVE DbInv'
  OBVIOUS
<1> USE ConstantTypes, DbTypes DEF DbInv, TypeOK
<1>1. ASSUME Start PROVE DbInv'
  <2>1. TypeOK' /\ RestoresBinary'
    BY <1>1 DEF Start, RestoresBinary
  <2>2. WritesEach' /\ ReadFirst' /\ KeysKept' /\ VisitedStored'
    BY <1>1 DEF Start, WritesEach, ReadFirst, KeysKept, VisitedStored, Readable
  <2> QED
    BY <1>1, <2>1, <2>2
       DEF Start, OfTheirKey, TextOwn, NoneCutOff, Uncut, AllRight, Present
<1>2. ASSUME Load PROVE DbInv'
  <2>1. /\ pc \in {"load", "reload"} /\ todo' = Name
        /\ left' = IF pc = "reload" /\ pc' = "restore" THEN DOMAIN db' ELSE {}
        /\ UNCHANGED <<metafiles, disk, cur, format, held, killed>>
    BY <1>2 DEF Load
  <2>2. CASE /\ Readable(disk) /\ db' = Loaded(disk) /\ UNCHANGED unread
             /\ pc' = IF pc = "load" THEN "files" ELSE "restore"
    BY <2>1, <2>2, LoadedKeeps
  <2>3. CASE ~Readable(disk) /\ db' = <<>> /\ pc' = "idle" /\ UNCHANGED unread
    <3>1. DOMAIN db' = {} /\ left' = {}
      BY <2>1, <2>3
    <3>2. TypeOK'
      BY <2>1, <2>3, <3>1
    <3>3. KeysKept'
      BY <2>1, <2>3 DEF KeysKept, Readable
    <3> QED
      BY <2>1, <2>3, <3>1, <3>2, <3>3
         DEF WritesEach, ReadFirst, RestoresBinary, OfTheirKey, TextOwn,
             NoneCutOff, Uncut, VisitedStored, AllRight, Present
  <2>4. ASSUME NEW file \in IF format = "text" THEN {<<>>} ELSE Beginnings(disk),
               Readable(file), db' = Loaded(file), unread' = TRUE,
               pc' = IF pc = "load" THEN "files" ELSE "restore"
        PROVE  DbInv'
    <3>1. /\ file \in Seq(Entry)
          /\ \A e \in ToSet(file) :
               \E f \in ToSet(disk) :
                 e.key = f.key /\ e.meta = f.meta /\ (e.cut = f.cut \/ f.cut = "no")
      <4>1. CASE format = "text"
        BY <2>4, <4>1 DEF ToSet
      <4>2. CASE format # "text"
        BY <2>4, <4>2, BeginningEntries
      <4> QED BY <4>1, <4>2
    <3> QED BY <2>1, <2>4, <3>1, LoadedKeeps
  <2> QED BY <1>2, <2>2, <2>3, <2>4 DEF Load
<1>3. ASSUME Restore PROVE DbInv'
  <2>1. CASE /\ pc' = "idle" /\ db' = <<>> /\ left = {}
             /\ UNCHANGED <<metafiles, left>>
    <3>1. DOMAIN db' = {} /\ pc = "restore"
          /\ UNCHANGED <<disk, todo, cur, format, held, unread, killed>>
      BY <1>3, <2>1 DEF Restore
    <3>2. TypeOK'
      BY <2>1, <3>1
    <3> QED
      BY <2>1, <3>1, <3>2
         DEF WritesEach, ReadFirst, RestoresBinary, OfTheirKey, TextOwn,
             NoneCutOff, Uncut, KeysKept, VisitedStored, AllRight, Present, Readable
  <2>2. ASSUME NEW k \in left, left' = left \ {k}, UNCHANGED <<pc, db>>,
               metafiles' = [metafiles EXCEPT ![compact_size(k)] = db[k]]
        PROVE  DbInv'
    <3>1. /\ format = "binary" /\ pc = "restore" /\ MadeOf(db[k], k)
          /\ UNCHANGED <<disk, todo, cur, format, held, unread, killed>>
      BY <1>3, <2>2 DEF Restore, RestoresBinary, OfTheirKey
    <3>2. TypeOK'
      BY <2>2, <3>1
    <3>3. AllRight'
      BY <2>2, <3>1, RestoredRight DEF AllRight, RightPair, MadeOf
    <3>4. NoneCutOff'
      BY <2>2, <3>1 DEF NoneCutOff, Uncut
    <3> QED
      BY <2>2, <3>1, <3>2, <3>3, <3>4
         DEF WritesEach, ReadFirst, RestoresBinary, OfTheirKey, TextOwn,
             KeysKept, VisitedStored, Readable
  <2> QED BY <1>3, <2>1, <2>2 DEF Restore
<1>4. ASSUME Visit PROVE DbInv'
  <2>1. TypeOK'
    BY <1>4 DEF Visit
  <2>2. VisitedStored'
    BY <1>4 DEF Visit, VisitedStored, Present
  <2> QED
    BY <1>4, <2>1, <2>2
       DEF Visit, WritesEach, ReadFirst, RestoresBinary, OfTheirKey, TextOwn,
           NoneCutOff, Uncut, KeysKept, AllRight, Readable, Present
<1>5. ASSUME Swift PROVE DbInv'
  <2>1. metafiles' \in Unfinished
    BY <1>5 DEF Swift, Unfinished, Both
  <2>2. /\ pc = "swift" /\ pc' = "add"
        /\ UNCHANGED <<disk, db, todo, cur, left, format, held, unread, killed>>
    BY <1>5 DEF Swift
  <2>3. /\ metafiles' \in [File -> Pair] /\ AllRight' /\ TextOwn'
        /\ \A n \in File : Uncut(metafiles[n])'
        /\ \A n \in Name \ {cur} : Present(n)' <=> Present(n)
    BY <2>1, <2>2, UnfinishedKeeps
  <2>4. TypeOK'
    BY <2>2, <2>3
  <2>5. NoneCutOff'
    BY <2>2, <2>3 DEF NoneCutOff, Uncut
  <2>6. VisitedStored'
    BY <2>2, <2>3 DEF VisitedStored
  <2> QED
    BY <2>2, <2>3, <2>4, <2>5, <2>6
       DEF WritesEach, ReadFirst, RestoresBinary, OfTheirKey, KeysKept, Readable
<1>6. ASSUME Add PROVE DbInv'
  <2> DEFINE p == parse_size(cur)
             m == [mb |-> Encode(metafiles[cur].mb), mh |-> Encode(metafiles[cur].mh)]
  <2>1. /\ pc = "add" /\ pc' = "files"
        /\ UNCHANGED <<metafiles, disk, todo, cur, left, format, held, unread, killed>>
    BY <1>6 DEF Add
  <2>2. /\ p \in Key /\ m \in Pair /\ Uncut(m)
        /\ format = "text" => m = metafiles[cur]
        /\ format # "text" => m.mb.is = "none"
    <3>1. /\ metafiles[cur] \in Pair /\ Uncut(metafiles[cur])
          /\ metafiles[cur].mb \in Blob /\ metafiles[cur].mh \in Blob
      BY DEF NoneCutOff, Pair
    <3>2. \A b \in Blob : Encode(b) \in Blob /\ (format = "text" => Encode(b) = b)
                        /\ (format # "text" => Encode(b).is = "none")
      BY DEF Encode, Blob
    <3> QED BY <3>1, <3>2 DEF Uncut, Pair
  <2>3. \/ ~Present(cur) /\ db' = db
        \/ /\ Present(cur)
           /\ db' = [k \in DOMAIN db \union {p} |-> IF k = p THEN m ELSE db[k]]
    BY <1>6 DEF Add
  <2>4. Present(cur) /\ format = "text" => MadeOf(m, p)
    BY <2>2 DEF TextOwn, Own, Present, MadeOf
  <2> HIDE DEF m
  <2>5. VisitedStored'
    BY <2>1, <2>3 DEF VisitedStored, Present
  <2> HIDE DEF p
  <2>6. TypeOK'
    BY <2>1, <2>2, <2>3
  <2>7. OfTheirKey'
    BY <2>1, <2>2, <2>3, <2>4 DEF OfTheirKey, MadeOf
  <2>8. NoneCutOff'
    BY <2>1, <2>2, <2>3 DEF NoneCutOff, Uncut
  <2>9. KeysKept'
    BY <2>1, <2>3 DEF KeysKept, Readable
  <2> QED
    BY <2>1, <2>5, <2>6, <2>7, <2>8, <2>9
       DEF WritesEach, ReadFirst, RestoresBinary, TextOwn, AllRight, Readable
<1>7. ASSUME Open PROVE DbInv'
  <2>1. /\ pc = "files" /\ pc' = "write" /\ todo = {}
        /\ disk' = <<>> /\ left' = DOMAIN db
        /\ UNCHANGED <<metafiles, db, todo, cur, format, held, unread, killed>>
    BY <1>7 DEF Open
  <2>2. /\ disk' \in Seq(Entry) /\ Len(disk') = 0 /\ ToSet(disk') = {}
        /\ KeysIn(disk') = {}
    BY <2>1 DEF ToSet, KeysIn
  <2>3. IsFiniteSet(DOMAIN db) /\ Cardinality(DOMAIN db) <= Cardinality(Key)
    BY FiniteKeys, FS_Subset
  <2>4. TypeOK' /\ WritesEach'
    BY <2>1, <2>2, <2>3, FS_CardinalityType DEF WritesEach
  <2>5. ReadFirst'
    BY <2>1, <2>2 DEF ReadFirst
  <2>6. OfTheirKey' /\ TextOwn' /\ NoneCutOff'
    BY <2>1, <2>2 DEF OfTheirKey, MadeOf, TextOwn, NoneCutOff, Uncut
  <2>7. KeysKept' /\ VisitedStored'
    BY <2>1, <2>2 DEF KeysKept, VisitedStored, Present
  <2> QED
    BY <2>1, <2>4, <2>5, <2>6, <2>7 DEF RestoresBinary, AllRight
<1>8. ASSUME Write PROVE DbInv'
  <2>1. /\ pc = "write"
        /\ UNCHANGED <<metafiles, todo, cur, format, held, unread, killed>>
    BY <1>8 DEF Write
  <2>2. PICK k \in left, e \in Entry :
          /\ disk' = Append(disk, e) /\ e.key = k /\ e.meta = db[k]
          /\ \/ /\ db[k].mb.is # "none" /\ e.cut = "no"
                /\ left' = left \ {k} /\ UNCHANGED <<pc, db>>
             \/ /\ db[k].mb.is = "none" /\ e.cut = "head"
                /\ left' = {} /\ pc' = "idle" /\ db' = <<>>
    <3>1. \A k \in left :
            /\ Saved(k, db[k]) \in Entry
            /\ [Saved(k, db[k]) EXCEPT !.cut = "head"] \in Entry
            /\ Saved(k, db[k]).key = k /\ Saved(k, db[k]).meta = db[k]
            /\ Saved(k, db[k]).cut = "no"
            /\ [Saved(k, db[k]) EXCEPT !.cut = "head"].key = k
            /\ [Saved(k, db[k]) EXCEPT !.cut = "head"].meta = db[k]
            /\ [Saved(k, db[k]) EXCEPT !.cut = "head"].cut = "head"
      BY DEF Saved, Entry
    <3>2. PICK k \in left :
            \/ /\ db[k].mb.is # "none" /\ disk' = Append(disk, Saved(k, db[k]))
               /\ left' = left \ {k} /\ UNCHANGED <<pc, db>>
            \/ /\ db[k].mb.is = "none"
               /\ disk' = Append(disk, [Saved(k, db[k]) EXCEPT !.cut = "head"])
               /\ left' = {} /\ pc' = "idle" /\ db' = <<>>
      BY <1>8 DEF Write
    <3>3. CASE db[k].mb.is # "none"
      <4> DEFINE e == Saved(k, db[k])
      <4>1. e \in Entry /\ e.key = k /\ e.meta = db[k] /\ e.cut = "no"
        BY <3>1
      <4>2. disk' = Append(disk, e) /\ left' = left \ {k} /\ UNCHANGED <<pc, db>>
        BY <3>2, <3>3
      <4> HIDE DEF e
      <4> QED BY <3>3, <4>1, <4>2
    <3>4. CASE db[k].mb.is = "none"
      <4> DEFINE e == [Saved(k, db[k]) EXCEPT !.cut = "head"]
      <4>1. e \in Entry /\ e.key = k /\ e.meta = db[k] /\ e.cut = "head"
        BY <3>1
      <4>2. disk' = Append(disk, e) /\ left' = {} /\ pc' = "idle" /\ db' = <<>>
        BY <3>2, <3>4
      <4> HIDE DEF e
      <4> QED BY <3>4, <4>1, <4>2
    <3> QED BY <3>3, <3>4
  <2>3. /\ disk' \in Seq(Entry) /\ Len(disk') = Len(disk) + 1
        /\ ToSet(disk') = ToSet(disk) \union {e}
    BY <2>2, AppendMembers
  <2>4. KeysIn(disk') = KeysIn(disk) \union {k}
    BY <2>2, <2>3, KeysOfEntries
  <2>5. Cardinality(left \ {k}) = Cardinality(left) - 1 /\ Len(disk) + Cardinality(left) <= Cardinality(Key)
    BY <2>1, FS_RemoveElement DEF WritesEach
  <2>6. Cardinality(left) >= 1
    BY FS_EmptySet
  <2>7. TypeOK' /\ WritesEach'
    <3>1. Len(disk') <= Cardinality(Key)
      BY <2>3, <2>5, <2>6
    <3>2. /\ left' \subseteq DOMAIN db' /\ pc' \in {"write", "idle"}
          /\ DOMAIN db' \subseteq Key /\ \A x \in DOMAIN db' : db'[x] \in Pair
      BY <2>1, <2>2
    <3>3. TypeOK'
      BY <2>1, <2>3, <3>1, <3>2
    <3>4. WritesEach'
      <4>1. CASE left' = left \ {k}
        <5>1. Cardinality(left') = Cardinality(left) - 1
          BY <2>5, <4>1
        <5>2. Len(disk') + Cardinality(left') = Len(disk) + Cardinality(left)
          <6>1. /\ Len(disk) \in Nat /\ Cardinality(left) \in Nat
                /\ Len(disk') = Len(disk) + 1
            BY <2>3
          <6> HIDE ConstantTypes, DbTypes DEF DbInv, TypeOK
          <6> QED BY <5>1, <6>1
        <5>3. Cardinality(Key)' = Cardinality(Key)
          OBVIOUS
        <5> QED BY <2>5, <5>2 DEF WritesEach
      <4>2. CASE pc' = "idle"
        BY <4>2 DEF WritesEach
      <4> QED BY <2>2, <4>1, <4>2
    <3> QED BY <3>3, <3>4
  <2>8. ReadFirst'
    BY <2>1, <2>2, <2>3 DEF ReadFirst
  <2>9. OfTheirKey' /\ TextOwn'
    BY <2>1, <2>2, <2>3 DEF OfTheirKey, MadeOf, TextOwn
  <2>10. NoneCutOff'
    BY <2>1, <2>2, <2>3 DEF NoneCutOff, Uncut
  <2>11. KeysKept'
    <3>1. \A x \in ToSet(disk) : x.cut = "no"
      BY <2>1 DEF ReadFirst
    <3>2. e.cut = "head" => ~Readable(disk)'
      <4>1. e \in ToSet(disk') /\ UNCHANGED format
        BY <2>1, <2>3
      <4> QED BY <4>1 DEF Readable, ToSet
    <3>3. pc' = "write" => held' \subseteq KeysIn(disk') \union left'
                           \/ killed \/ unread
      BY <2>1, <2>2, <2>4 DEF KeysKept
    <3> QED BY <2>1, <2>2, <2>3, <3>1, <3>2, <3>3 DEF KeysKept
  <2>12. VisitedStored'
    BY <2>1, <2>2, <2>4 DEF VisitedStored, Present
  <2> QED
    BY <2>1, <2>2, <2>7, <2>8, <2>9, <2>10, <2>11, <2>12
       DEF RestoresBinary, AllRight
<1>9. ASSUME Close PROVE DbInv'
  <2>1. /\ pc = "write" /\ left = {} /\ pc' = "idle" /\ db' = <<>>
        /\ held' = held \union KeysIn(disk)
        /\ UNCHANGED <<metafiles, disk, todo, cur, left, format, unread, killed>>
    BY <1>9 DEF Close
  <2>2. DOMAIN db' = {}
    BY <2>1
  <2>3. TypeOK'
    BY <2>1, <2>2 DEF Entry
  <2>4. KeysKept'
    BY <2>1 DEF KeysKept, ReadFirst
  <2> QED
    BY <2>1, <2>2, <2>3, <2>4
       DEF WritesEach, ReadFirst, RestoresBinary, OfTheirKey, TextOwn,
           NoneCutOff, Uncut, VisitedStored, AllRight
<1>10. ASSUME Crash PROVE DbInv'
  <2>1. /\ pc # "idle" /\ pc' = "idle" /\ left' = {} /\ db' = <<>> /\ todo' = {}
        /\ disk' \in IF pc = "write" THEN Beginnings(disk) ELSE {disk}
        /\ killed' = (killed \/ pc = "write")
        /\ UNCHANGED <<cur, format, held, unread>>
    BY <1>10 DEF Crash
  <2>2. DOMAIN db' = {}
    BY <2>1
  <2>3. /\ disk' \in Seq(Entry) /\ Len(disk') <= Cardinality(Key)
        /\ \A e \in ToSet(disk') :
             \E f \in ToSet(disk) :
               /\ e.key = f.key /\ e.meta = f.meta
               /\ e.cut = f.cut \/ f.cut = "no"
    <3>1. CASE pc = "write"
      BY <2>1, <3>1, BeginningEntries
    <3>2. CASE pc # "write"
      BY <2>1, <3>2
    <3> QED BY <3>1, <3>2
  <2>4. \/ UNCHANGED metafiles
        \/ metafiles' \in Unfinished
        \/ pc = "restore" /\ \E k \in left : metafiles' \in CutOff(k)
    BY <1>10 DEF Crash
  <2>5. /\ metafiles' \in [File -> Pair] /\ AllRight' /\ TextOwn'
        /\ \A n \in File : Uncut(metafiles[n])'
    <3>1. CASE UNCHANGED metafiles
      BY <2>1, <3>1 DEF AllRight, TextOwn, NoneCutOff, Uncut
    <3>2. CASE metafiles' \in Unfinished
      BY <2>1, <3>2, UnfinishedKeeps
    <3>3. ASSUME pc = "restore", NEW k \in left, metafiles' \in CutOff(k)
          PROVE  /\ metafiles' \in [File -> Pair] /\ AllRight' /\ TextOwn'
                 /\ \A n \in File : Uncut(metafiles[n])'
      <4> DEFINE n == compact_size(k)
      <4>1. /\ format = "binary" /\ k \in Key /\ n \in File /\ db[k] \in Pair
            /\ MadeOf(db[k], k) /\ Uncut(db[k]) /\ Right(n, k)
            /\ RightPair(n, metafiles[n])
        BY <3>3, RestoredRight
           DEF RestoresBinary, OfTheirKey, NoneCutOff, AllRight
      <4>2. /\ metafiles[n].mh \in Blob
            /\ metafiles' \in {[metafiles EXCEPT ![n].mb = Part(k)],
                              [metafiles EXCEPT ![n].mb = db[k].mb],
                              [metafiles EXCEPT ![n] = [mb |-> db[k].mb, mh |-> Part(k)]]}
        BY <3>3, <4>1 DEF CutOff, Pair
      <4> HIDE DEF n
      <4>3. \E mb \in {Part(k), db[k].mb}, mh \in {metafiles[n].mh, Part(k)} :
              metafiles' = [metafiles EXCEPT ![n] = [mb |-> mb, mh |-> mh]]
        BY <4>1, <4>2 DEF Pair
      <4>4. PICK mb \in {Part(k), db[k].mb}, mh \in {metafiles[n].mh, Part(k)} :
              metafiles' = [metafiles EXCEPT ![n] = [mb |-> mb, mh |-> mh]]
        BY <4>3
      <4>5. /\ mb \in Blob /\ mh \in Blob /\ mb.of = k /\ mb.is # "cut"
            /\ Right(n, mh.of)
        BY <4>1, <4>2, WholeBlobs DEF MadeOf, Uncut, Pair, RightPair
      <4>6. metafiles' \in [File -> Pair]
        BY <4>1, <4>4, <4>5 DEF Pair
      <4>7. /\ metafiles'[n].mb = mb /\ metafiles'[n].mh = mh
            /\ \A x \in File \ {n} : metafiles'[x] = metafiles[x]
        BY <4>1, <4>4
      <4>8. AllRight'
        BY <4>1, <4>5, <4>7 DEF AllRight, RightPair
      <4>9. \A x \in File : Uncut(metafiles[x])'
        BY <2>1, <4>1, <4>5, <4>7 DEF Uncut, NoneCutOff
      <4> QED BY <2>1, <4>1, <4>6, <4>8, <4>9 DEF TextOwn
    <3> QED BY <2>4, <3>1, <3>2, <3>3
  <2>6. TypeOK'
    BY <2>1, <2>2, <2>3, <2>5
  <2>7. OfTheirKey'
    BY <2>1, <2>2, <2>3 DEF OfTheirKey, MadeOf
  <2>8. NoneCutOff'
    BY <2>1, <2>2, <2>3, <2>5 DEF NoneCutOff, Uncut
  <2>9. KeysKept'
    <3>1. CASE pc = "write"
      BY <2>1, <3>1 DEF KeysKept
    <3>2. CASE pc # "write"
      BY <2>1, <3>2 DEF KeysKept, Readable
    <3> QED BY <3>1, <3>2
  <2> QED
    BY <2>1, <2>5, <2>6, <2>7, <2>8, <2>9
       DEF WritesEach, ReadFirst, RestoresBinary, VisitedStored
<1>11. ASSUME Cleanup PROVE DbInv'
  <2>1. PICK n \in File : metafiles' = [metafiles EXCEPT ![n] = Both(Absent)]
    BY <1>11 DEF Cleanup
  <2>2. /\ pc = "idle"
        /\ UNCHANGED <<disk, db, pc, todo, cur, left, format, held, unread, killed>>
    BY <1>11 DEF Cleanup
  <2>3. /\ metafiles' \in [File -> Pair]
        /\ metafiles'[n].mb = Absent /\ metafiles'[n].mh = Absent
        /\ \A x \in File \ {n} : metafiles'[x] = metafiles[x]
    BY <2>1, WholeBlobs
  <2>4. AllRight'
    BY <2>3, WholeBlobs, NoSizeRight DEF AllRight, RightPair
  <2>5. TextOwn'
    BY <2>2, <2>3, WholeBlobs DEF TextOwn, Own
  <2>6. NoneCutOff'
    BY <2>2, <2>3, WholeBlobs DEF NoneCutOff, Uncut
  <2>7. TypeOK'
    BY <2>2, <2>3
  <2> QED
    BY <2>2, <2>4, <2>5, <2>6, <2>7
       DEF WritesEach, ReadFirst, RestoresBinary, OfTheirKey, KeysKept,
           VisitedStored, Readable
<1>12. CASE UNCHANGED vars
  <2>1. TypeOK' /\ AllRight'
    BY <1>12 DEF vars, AllRight
  <2> QED
    BY <1>12, <2>1
       DEF vars, WritesEach, ReadFirst, RestoresBinary, OfTheirKey, TextOwn,
           NoneCutOff, Uncut, KeysKept, VisitedStored, Readable, Present
<1> QED
  BY <1>1, <1>2, <1>3, <1>4, <1>5, <1>6, <1>7, <1>8, <1>9, <1>10, <1>11, <1>12
     DEF Next

-----------------------------------------------------------------------------
(* The inductive invariant holds from the start to the end.                *)
THEOREM DbInvariant == Spec => []DbInv
<1> QED BY DbInit, DbNext, PTL DEF Spec

(* What the program keeps has its type, and it writes no more entries than *)
(* there are keys (metadb.py:88-104).                                      *)
THEOREM DbTypeOK == Spec => []TypeOK
<1>1. DbInv => TypeOK
  BY DEF DbInv
<1> QED BY <1>1, DbInvariant, PTL

(* While the database can be decoded, it has the keys that any complete    *)
(* one had, unless a run ended while it saved, or passed over an error of  *)
(* reading (metadb.py:66-104).                                             *)
THEOREM DbKept == Spec => []EntriesKeptUnlessLost
<1>1. DbInv => EntriesKeptUnlessLost
  BY DEF DbInv, KeysKept, EntriesKeptUnlessLost, EntriesKept
<1> QED BY <1>1, DbInvariant, PTL

(* Wherever the database or the reading of it is cut off, no part of an    *)
(* .mbinmap is taken for all of it (metadb.py:79).                         *)
THEOREM DbNotCut == Spec => []MbinmapsNotCut
<1>1. DbInv => MbinmapsNotCut
  BY DEF DbInv, NoneCutOff, Uncut, MbinmapsNotCut
<1> QED BY <1>1, DbInvariant, PTL

(* Metafiles of files of whole gb below 1tb come back to files of that     *)
(* size, whole or not (metadb.py:118-157).                                 *)
THEOREM DbRestored == Spec => []RestoredOfGb
<1>1. DbInv => RestoredOfGb
  BY DEF DbInv, AllRight, RightPair, Right, RestoredOfGb
<1> QED BY <1>1, DbInvariant, PTL

(* A run that ends without an error has stored all files that have         *)
(* metafiles (metadb.py:172-196).                                          *)
THEOREM DbStored == Spec => FilesStored
<1>1. DbInv /\ [Next]_vars
        => [pc = "write" /\ pc' = "idle" /\ Readable(disk)' /\ ~killed'
              => {parse_size(n) : n \in {m \in Name : Present(m)}} \subseteq held']_vars
  <2> SUFFICES ASSUME DbInv, Next, pc = "write", pc' = "idle",
                      Readable(disk)', ~killed', NEW n \in Name, Present(n)
               PROVE  parse_size(n) \in held'
    OBVIOUS
  <2>1. parse_size(n) \in KeysIn(disk) \union left
    BY DEF DbInv, VisitedStored
  <2>2. ~Write
    <3> SUFFICES ASSUME Write PROVE FALSE
      OBVIOUS
    <3>1. PICK k \in left : disk' = Append(disk, [Saved(k, db[k]) EXCEPT !.cut = "head"])
      BY DEF Write
    <3> DEFINE e == [Saved(k, db[k]) EXCEPT !.cut = "head"]
    <3>2. e.cut = "head"
      BY DEF Saved
    <3> HIDE DEF e
    <3>3. Len(disk) + 1 \in DOMAIN disk' /\ disk'[Len(disk) + 1] = e
      BY <3>1 DEF DbInv, TypeOK, e
    <3> QED BY <3>2, <3>3 DEF Readable
  <2>3. Close
    BY <2>2 DEF Next, Start, Load, Restore, Visit, Swift, Add, Open, Crash, Cleanup
  <2> QED BY <2>1, <2>3 DEF Close
<1> QED BY <1>1, DbInvariant, PTL DEF FilesStored, Spec

(* A database that cannot be decoded stays as it is, unless an error of    *)
(* reading was passed over (metadb.py:14-22, 66-86).                       *)
THEOREM DbDamagedKept == Spec => DamagedKept
<1>1. DbInv /\ [Next]_vars => [~Readable(disk) /\ ~unread => disk' = disk]_vars
  <2> SUFFICES ASSUME DbInv, Next, ~Readable(disk), ~unread PROVE disk' = disk
    OBVIOUS
  <2>1. pc # "write"
    BY DEF DbInv, TypeOK, ReadFirst, Readable, ToSet
  <2>2. pc \in {"idle", "load", "reload"}
    BY <2>1 DEF DbInv, TypeOK, ReadFirst
  <2> QED
    BY <2>2 DEF Next, Start, Load, Restore, Visit, Swift, Add, Open, Write,
                Close, Crash, Cleanup
<1> QED BY <1>1, DbInvariant, PTL DEF DamagedKept, Spec
=============================================================================
