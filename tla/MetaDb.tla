------------------------------- MODULE MetaDb -------------------------------
(***************************************************************************)
(* tools/metadb.py: it has libswift compute the metafiles of the data      *)
(* files of a directory, keeps them in a database file and restores them   *)
(* from it; and the sizes in file names, tools/create_mocks.py.            *)
(*                                                                         *)
(* A data file is named by its size, as in deadbeef_1gb_8192: the pattern  *)
(* and the chunk size are the same in file names and in the database.  The *)
(* binary format is that of BinaryMetaDB, which the program uses, and the  *)
(* text format that of its base class MetaDB, of which it makes none.      *)
(*                                                                         *)
(* The program may be killed at any step, or be ended there by a write     *)
(* that fails, and the database file then holds what had left the buffers. *)
(***************************************************************************)
EXTENDS Naturals, Sequences, FiniteSets, SequencesExt

CONSTANTS
  Name,       \* the data files of the directory: [count, unit]
  Formats,    \* those a database may have, "text" and "binary"
  SwiftFails, \* libswift may leave no metafiles, or parts of them
  ReadErrors, \* open() or read() of the database may fail
  Crashes     \* the program may be killed, or a write fail

ASSUME ConstantTypes ==
  /\ IsFiniteSet(Name)
  /\ Name \subseteq [count : Nat \ {0}, unit : {"kb", "mb", "gb", "tb"}]
  /\ Formats \subseteq {"text", "binary"}
  /\ {SwiftFails, ReadErrors, Crashes} \subseteq BOOLEAN

VARIABLES
  metafiles, \* File -> its .mbinmap and .mhash in the directory
  disk,      \* the entries in the database file; none where it is absent
  db,        \* self.db, and empty where the program does not run
  pc,        \* where the program is, or "idle" where it does not run
  todo,      \* files still to visit
  cur,       \* the file visited
  left,      \* entries still to write
  format,    \* which of the two classes is used
  held,      \* history: the keys of the databases that were complete
  unread,    \* history: an error of open() or read() was passed over
  killed     \* history: a run has ended while it wrote the database

vars == <<metafiles, disk, db, pc, todo, cur, left, format, held, unread, killed>>

(* SIZE_MULTIPLIERS, in kb so that a size of 1tb fits an integer of TLC.   *)
Multiplier == [kb |-> 1, mb |-> 1024, gb |-> 1024 * 1024, tb |-> 1024 * 1024 * 1024]

(* The database names a file by its size in bytes ...                      *)
parse_size(n) == n.count * Multiplier[n.unit]

(* ... and the metafiles are restored to a name made from that again.  In  *)
(* Python 2 "bytes / m" is an integer already, so the unit is the largest  *)
(* that is not larger than the size.  The loop over the dictionary ends    *)
(* with mb, and that is what m is after it: the count is size / mb / 1024, *)
(* whatever the unit.                                                      *)
UnitOf(size) ==
  CHOOSE u \in DOMAIN Multiplier :
    /\ Multiplier[u] <= size
    /\ \A v \in DOMAIN Multiplier : Multiplier[v] <= size => Multiplier[v] <= Multiplier[u]

(* Fault: m is the unit.                                                   *)
compact_sizeByUnit(size) ==
  [count |-> (size \div Multiplier[UnitOf(size)]) \div 1024, unit |-> UnitOf(size)]

compact_size(size) ==
  [count |-> (size \div Multiplier.mb) \div 1024, unit |-> UnitOf(size)]

Key == {parse_size(n) : n \in Name}
File == Name \union {compact_size(k) : k \in Key}

(* A metafile, or what encoding returns for one: "none" in the binary      *)
(* format.  libswift may have left a part of it, or what was loaded of it  *)
(* may be cut off.  of is the size of the file it was made of.             *)
Blob == [is : {"absent", "none", "part", "cut", "whole"}, of : {0} \union Key]
Absent == [is |-> "absent", of |-> 0]
Part(k) == [is |-> "part", of |-> k]
Whole(k) == [is |-> "whole", of |-> k]

(* An .mbinmap and an .mhash.                                              *)
Pair == [mb : Blob, mh : Blob]
Both(blob) == [mb |-> blob, mh |-> blob]

(* An entry may be cut off in the sizes before, or in one of, its blobs.   *)
Entry == [key : Key, meta : Pair, cut : {"no", "head", "mbinmap", "mhash"}]
Saved(k, m) == [key |-> k, meta |-> m, cut |-> "no"]
KeysIn(file) == {file[i].key : i \in DOMAIN file}

(* What is there of a file when only its first bytes are.                  *)
CutIn(file, n, c) == Append(SubSeq(file, 1, n - 1), [file[n] EXCEPT !.cut = c])
Beginnings(file) ==
  {SubSeq(file, 1, n) : n \in 0..Len(file)} \union
  UNION {{CutIn(file, n, c) : c \in {"head", "mbinmap", "mhash"}} :
           n \in {m \in DOMAIN file : file[m].cut = "no"}}

-----------------------------------------------------------------------------
(* Loading: the text format is decoded and has to be all there.  The       *)
(* binary one takes what is left of a blob for the blob, skips an entry    *)
(* with a blob that is empty, and raises where it finds no size.           *)
Readable(file) ==
  \A i \in DOMAIN file :
    file[i].cut \in IF format = "text" THEN {"no"} ELSE {"no", "mbinmap", "mhash"}

(* The blobs that are read of an entry.                                    *)
Blobs(entry) ==
  CASE entry.cut = "mhash" -> [entry.meta EXCEPT !.mh.is = "cut"]
    [] entry.cut = "mbinmap" -> [entry.meta EXCEPT !.mb.is = "cut", !.mh.is = "cut"]
    [] OTHER -> entry.meta

(* Fault: no blob is found empty.                                          *)
LoadedUnchecked(file) ==
  LET entry(k) == file[CHOOSE i \in DOMAIN file : file[i].key = k]
  IN [k \in KeysIn(file) |-> Blobs(entry(k))]

Loaded(file) ==
  LET good == {i \in DOMAIN file : file[i].cut # "mbinmap"}
      entry(k) == file[CHOOSE i \in good : file[i].key = k]
  IN [k \in {file[i].key : i \in good} |-> Blobs(entry(k))]

(* _encode()                                                               *)
Encode(blob) == IF format = "text" THEN blob ELSE [blob EXCEPT !.is = "none"]

(* A run that saves or one that restores; this one for the binary format.  *)
Start ==
  /\ pc = "idle"
  /\ pc' \in IF format = "text" THEN {"load"} ELSE {"load", "reload"}
  /\ UNCHANGED <<metafiles, disk, db, todo, cur, left, format, held, unread, killed>>

(* load(): an error of decoding ends the program, but not one of open() or *)
(* read(), after which the program goes on with what it has.  The text     *)
(* format reads all lines first and then has nothing.                      *)
(* Fault: nor does an error of decoding.                                   *)
LoadAnyway ==
  /\ pc \in {"load", "reload"}
  /\ db' = IF Readable(disk) THEN Loaded(disk) ELSE <<>>
  /\ pc' = IF pc = "load" THEN "files" ELSE "restore"
  /\ todo' = Name
  /\ left' = IF pc = "reload" THEN DOMAIN db' ELSE {}
  /\ UNCHANGED <<metafiles, disk, cur, format, held, unread, killed>>

Load ==
  /\ pc \in {"load", "reload"}
  /\ \/ /\ Readable(disk)
        /\ db' = Loaded(disk)
        /\ pc' = IF pc = "load" THEN "files" ELSE "restore"
        /\ UNCHANGED unread
     \/ /\ ~Readable(disk)
        /\ db' = <<>> /\ pc' = "idle"
        /\ UNCHANGED unread
     \/ /\ ReadErrors
        /\ \E file \in IF format = "text" THEN {<<>>} ELSE Beginnings(disk) :
             Readable(file) /\ db' = Loaded(file)
        /\ pc' = IF pc = "load" THEN "files" ELSE "restore"
        /\ unread' = TRUE
  /\ todo' = Name
  /\ left' = IF pc = "reload" /\ pc' = "restore" THEN DOMAIN db' ELSE {}
  /\ UNCHANGED <<metafiles, disk, cur, format, held, killed>>

(* restore_metafiles(): both metafiles of an entry are written.            *)
Restore ==
  /\ pc = "restore"
  /\ \/ \E k \in left :
          /\ metafiles' = [metafiles EXCEPT ![compact_size(k)] = db[k]]
          /\ left' = left \ {k}
          /\ UNCHANGED <<pc, db>>
     \/ /\ left = {}
        /\ pc' = "idle" /\ db' = <<>>
        /\ UNCHANGED <<metafiles, left>>
  /\ UNCHANGED <<disk, todo, cur, format, held, unread, killed>>

Present(n) == metafiles[n].mb.is # "absent" /\ metafiles[n].mh.is # "absent"

(* A file of the directory: one that is in the database is passed over,    *)
(* and libswift runs for one that has not both metafiles.                  *)
(* Fault: a file that has metafiles is passed over.                        *)
VisitUnlessPresent ==
  /\ pc = "files"
  /\ \E n \in todo :
       /\ todo' = todo \ {n}
       /\ cur' = n
       /\ pc' = IF parse_size(n) \in DOMAIN db \/ Present(n) THEN "files" ELSE "swift"
  /\ UNCHANGED <<metafiles, disk, db, left, format, held, unread, killed>>

Visit ==
  /\ pc = "files"
  /\ \E n \in todo :
       /\ todo' = todo \ {n}
       /\ cur' = n
       /\ pc' = IF parse_size(n) \in DOMAIN db THEN "files"
                ELSE IF Present(n) THEN "add" ELSE "swift"
  /\ UNCHANGED <<metafiles, disk, db, left, format, held, unread, killed>>

(* Either metafile of the file visited as it was, a part of it or all.     *)
(* That there is a file is all that the next run looks at.                 *)
Unfinished ==
  LET k == parse_size(cur)
  IN {[metafiles EXCEPT ![cur] = [mb |-> mb, mh |-> mh]] :
        mb \in {metafiles[cur].mb, Part(k), Whole(k)},
        mh \in {metafiles[cur].mh, Part(k), Whole(k)}}

(* libswift, whose status nobody looks at.                                 *)
Swift ==
  /\ pc = "swift"
  /\ \/ metafiles' = [metafiles EXCEPT ![cur] = Both(Whole(parse_size(cur)))]
     \/ SwiftFails /\ metafiles' \in Unfinished
  /\ pc' = "add"
  /\ UNCHANGED <<disk, db, todo, cur, left, format, held, unread, killed>>

(* The rest of add(): a metafile that is not there raises, "moving on".    *)
Add ==
  /\ pc = "add"
  /\ db' = IF Present(cur)
           THEN [k \in DOMAIN db \union {parse_size(cur)} |->
                   IF k = parse_size(cur)
                   THEN [mb |-> Encode(metafiles[cur].mb),
                         mh |-> Encode(metafiles[cur].mh)]
                   ELSE db[k]]
           ELSE db
  /\ pc' = "files"
  /\ UNCHANGED <<metafiles, disk, todo, cur, left, format, held, unread, killed>>

(* persist(): open() empties the file ...                                  *)
(* Fault: open() appends.                                                  *)
OpenAppends ==
  /\ pc = "files"
  /\ todo = {}
  /\ UNCHANGED disk
  /\ left' = DOMAIN db
  /\ pc' = "write"
  /\ UNCHANGED <<metafiles, db, todo, cur, format, held, unread, killed>>

Open ==
  /\ pc = "files"
  /\ todo = {}
  /\ disk' = <<>>
  /\ left' = DOMAIN db
  /\ pc' = "write"
  /\ UNCHANGED <<metafiles, db, todo, cur, format, held, unread, killed>>

(* ... the entries are written in any order, where the length of a None    *)
(* raises after the first fields have been written ...                     *)
(* Fault: those whose metafiles have gone are not written.                 *)
WritePresent ==
  /\ pc = "write"
  /\ \E k \in left :
       /\ left' = left \ {k}
       /\ disk' = IF \E n \in Name : parse_size(n) = k /\ Present(n)
                  THEN Append(disk, Saved(k, db[k])) ELSE disk
       /\ pc' = pc
  /\ UNCHANGED <<metafiles, db, todo, cur, format, held, unread, killed>>

Write ==
  /\ pc = "write"
  /\ \E k \in left :
       \/ /\ db[k].mb.is # "none"
          /\ disk' = Append(disk, Saved(k, db[k]))
          /\ left' = left \ {k}
          /\ UNCHANGED <<pc, db>>
       \/ /\ db[k].mb.is = "none"
          /\ disk' = Append(disk, [Saved(k, db[k]) EXCEPT !.cut = "head"])
          /\ left' = {}
          /\ pc' = "idle" /\ db' = <<>>
  /\ UNCHANGED <<metafiles, todo, cur, format, held, unread, killed>>

(* ... and the file is closed.                                             *)
Close ==
  /\ pc = "write"
  /\ left = {}
  /\ pc' = "idle" /\ db' = <<>>
  /\ held' = held \union KeysIn(disk)
  /\ UNCHANGED <<metafiles, disk, todo, cur, left, format, unread, killed>>

(* Restoring an entry is cut off in, or between, its metafiles.            *)
CutOff(k) ==
  {[metafiles EXCEPT ![compact_size(k)].mb = Part(k)],
   [metafiles EXCEPT ![compact_size(k)].mb = db[k].mb],
   [metafiles EXCEPT ![compact_size(k)] = [mb |-> db[k].mb, mh |-> Part(k)]]}

(* The program is killed, and libswift with it, or a write fails.  While   *)
(* it saves, the file then holds a first part of what has been written.    *)
Crash ==
  /\ Crashes
  /\ pc # "idle"
  /\ pc' = "idle" /\ db' = <<>> /\ todo' = {}
  /\ left' = {}
  /\ disk' \in IF pc = "write" THEN Beginnings(disk) ELSE {disk}
  /\ metafiles' \in {metafiles} \union
       (CASE pc = "restore" -> UNION {CutOff(k) : k \in left}
          [] pc = "swift" -> Unfinished
          [] OTHER -> {})
  /\ killed' = (killed \/ pc = "write")
  /\ UNCHANGED <<cur, format, held, unread>>

(* A user removes the metafiles of a file.                                 *)
Cleanup ==
  /\ pc = "idle"
  /\ \E n \in File : metafiles' = [metafiles EXCEPT ![n] = Both(Absent)]
  /\ UNCHANGED <<disk, db, pc, todo, cur, left, format, held, unread, killed>>

-----------------------------------------------------------------------------
(* precompute_meta.py may have run before, and there may be a database of  *)
(* whole entries (in the binary format, one that other code has written).  *)
Init ==
  /\ \E S \in SUBSET Name :
       metafiles = [n \in File |-> Both(IF n \in S THEN Whole(parse_size(n)) ELSE Absent)]
  /\ disk \in {SetToSeq({Saved(k, Both(Whole(k))) : k \in S}) : S \in SUBSET Key}
  /\ db = <<>>
  /\ pc = "idle"
  /\ todo = {}
  /\ cur \in Name
  /\ left = {}
  /\ format \in Formats
  /\ held = KeysIn(disk)
  /\ unread = FALSE
  /\ killed = FALSE

Next ==
  \/ Start \/ Load \/ Restore
  \/ Visit \/ Swift \/ Add
  \/ Open \/ Write \/ Close
  \/ Crash \/ Cleanup

Spec == Init /\ [][Next]_vars

-----------------------------------------------------------------------------
(* Properties.                                                             *)

TypeOK ==
  /\ metafiles \in [File -> Pair]
  /\ disk \in Seq(Entry) /\ Len(disk) <= Cardinality(Key)
  /\ DOMAIN db \subseteq Key /\ \A k \in DOMAIN db : db[k] \in Pair
  /\ pc \in {"idle", "load", "reload", "restore", "files", "swift", "add", "write"}
  /\ todo \subseteq Name
  /\ cur \in Name
  /\ left \subseteq DOMAIN db
  /\ format \in Formats
  /\ held \subseteq Key
  /\ {unread, killed} \subseteq BOOLEAN

(* "Saving libswift metadata in metadb file" (metadb.py:167): what a run   *)
(* found or put in the database, later ones find too.                      *)
EntriesKept == pc = "idle" => held \subseteq KeysIn(disk)

(* This holds, of a database that can still be decoded, unless a run ended *)
(* while it saved or passed over an error of open() or read().             *)
EntriesKeptUnlessLost ==
  Readable(disk) /\ ~killed /\ ~unread => EntriesKept

(* A run that ends without an error has stored all files that have         *)
(* metafiles, whether they had them before or not (metadb.py:172-196).     *)
FilesStored ==
  [][pc = "write" /\ pc' = "idle" /\ Readable(disk)' /\ ~killed'
       => {parse_size(n) : n \in {m \in Name : Present(m)}} \subseteq held']_vars

(* Nothing that was saved is loaded cut off: the "entry is corrupted"      *)
(* (metadb.py:79).                                                         *)
NoneCut == \A k \in DOMAIN db : "cut" \notin {db[k].mb.is, db[k].mh.is}

(* This holds of an .mbinmap, wherever the file or reading it was cut off, *)
(* and in the text format of an .mhash.                                    *)
MbinmapsNotCut ==
  \A k \in DOMAIN db :
    db[k].mb.is # "cut" /\ (format = "text" => db[k].mh.is # "cut")

(* What is in the database are all the bytes that libswift made.           *)
WholeEntries == \A k \in DOMAIN db : "part" \notin {db[k].mb.is, db[k].mh.is}

(* The metafiles of a file are those of a file of its size, after they     *)
(* have been saved and restored too: "Restoring to dir" (metadb.py:118).   *)
MetafilesMatch ==
  \A n \in File :
    {metafiles[n].mb.of, metafiles[n].mh.of} \subseteq {0, parse_size(n)}

(* Those of 1gb to 1023gb, by which the tools were tried                   *)
(* (tools/truncate_all.sh, metadb.py:126), are restored to no other file.  *)
RestoredOfGb ==
  \A n \in File : \A size \in {metafiles[n].mb.of, metafiles[n].mh.of} :
    size % Multiplier.gb = 0 /\ size \div Multiplier.gb \in 1..1023
      => parse_size(n) = size

(* A database that cannot be decoded is not overwritten, so that what is   *)
(* left of it can still be recovered, unless an error of open() or read()  *)
(* hid that from the program (metadb.py:14-22, 66-86).                     *)
DamagedKept == [][~Readable(disk) /\ ~unread => disk' = disk]_vars
=============================================================================
