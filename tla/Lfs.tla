-------------------------------- MODULE Lfs --------------------------------
(***************************************************************************)
(* lfs.c: the file table l_data.files, the FUSE handlers that read and     *)
(* change it, the real directory (realstore=PATH) that .mhash and .mbinmap *)
(* files are forwarded to, and the life of the daemon.  Each handler is    *)
(* one step: this is the daemon under fuse_loop() (lfs.c:681), which runs  *)
(* one request at a time.                                                  *)
(*                                                                         *)
(* External to the repository, and modelled only as far as lfs.c relies on *)
(* it: libfuse (which path it passes for an open file, and that it renames *)
(* an open file to a hidden name where the user unlinks it), and the real  *)
(* file system (names, inodes, descriptors).                               *)
(***************************************************************************)
EXTENDS Integers

CONSTANTS
  MetaPath,     \* names ending in .mhash or .mbinmap
  DataPath,     \* the other names a user gives
  HiddenPath,   \* names libfuse gives to a file unlinked while open
  NamePattern,  \* DataPath -> the pattern its first eight characters spell
  Pattern,      \* 4-byte patterns that occur
  Handle,       \* open file descriptions of the kernel
  Fd,           \* descriptors the daemon can get for real files
  Inode,        \* files of the real file system
  MaxSize,      \* bound: longest file
  Absent, Closed, NoInode, Uninit,
  Sharing,      \* a metafile may be open more than once at a time
  Faults,       \* a call on the real file system may fail
  AtomicTrunc,  \* mounted with -o atomic_o_trunc
  RacyCreate    \* the kernel may send CREATE for a name that exists

UserPath == MetaPath \union DataPath
Path == UserPath \union HiddenPath
Size == 0..MaxSize

(* struct l_file without the key (the name), the uthash handle, and the    *)
(* number fd that no handler reads.  Uninit is memory never written.       *)
Entry == [size    : Size,
          realfd  : Fd \union {Uninit},
          pattern : Pattern \union {Uninit}]

(* A file as its user sees it.                                             *)
File == [len : Size, content : Inode \union Pattern \union {Uninit}]

Errno == {"ENOENT", "EEXIST", "EINVAL", "EPERM", "EIO"}
Op == {"mount", "unmount", "kill", "getattr", "create", "open", "opentrunc",
       "read", "write", "truncate", "release", "unlink", "rename"}
Replies == [op : Op, ret : Errno \union {"OK"}, through : Handle \union {Closed}]
Phase == {"down", "mounted", "finished", "segfault"}

(* strncpy(dst, src, 4): copying stops at a zero byte and the rest of dst  *)
(* is filled with zeros.                                                   *)
StrNCpy(s) ==
  [i \in 1..4 |-> IF \E j \in 1..i : s[j] = 0 THEN 0 ELSE s[i]]

CopyPattern(p) == IF p = Uninit THEN Uninit ELSE StrNCpy(p)

ASSUME PathsDisjoint ==
  /\ MetaPath \intersect DataPath = {}
  /\ HiddenPath \intersect UserPath = {}
  /\ Closed \notin Path
ASSUME NamePatternType == NamePattern \in [DataPath -> Pattern \union {Uninit}]
ASSUME PatternCopies == \A p \in Pattern : StrNCpy(p) \in Pattern
ASSUME Distinct ==
  /\ Absent \notin Entry \union File
  /\ NoInode \notin Inode
  /\ Uninit \notin Fd \union Pattern
ASSUME MaxSizeNat == MaxSize \in Nat
ASSUME ModesBoolean ==
  /\ Sharing \in BOOLEAN
  /\ Faults \in BOOLEAN
  /\ AtomicTrunc \in BOOLEAN
  /\ RacyCreate \in BOOLEAN

VARIABLES
  files,   \* l_data.files: Path -> Entry or Absent
  real,    \* the realstore directory: MetaPath -> Inode or NoInode
  length,  \* Inode -> length of that real file
  fds,     \* descriptor table of the daemon: Fd -> Inode or NoInode
  handle,  \* Handle -> the path libfuse passes for it, or Closed
  phase,   \* life of the daemon
  reply    \* the last request, the answer, and the handle if it was a write

vars == <<files, real, length, fds, handle, phase, reply>>

-----------------------------------------------------------------------------
(* Helpers.                                                                *)

is_meta_file(p) == p \in MetaPath
InTable(p) == files[p] # Absent
IsOpen(p) == \E h \in Handle : handle[h] = p
FreeFd == {fd \in Fd : fds[fd] = NoInode}
FreeInode == {i \in Inode : /\ \A p \in MetaPath : real[p] # i
                            /\ \A fd \in Fd : fds[fd] # i}
Larger(m, n) == IF n > m THEN n ELSE m

Reply(op, ret) == reply' = [op |-> op, ret |-> ret, through |-> Closed]

(* A call that answers without changing anything.                          *)
Answer(op, ret) ==
  /\ Reply(op, ret)
  /\ UNCHANGED <<files, real, length, fds, handle, phase>>

-----------------------------------------------------------------------------
(* The handlers.                                                           *)

l_getattr(p) ==
  \/ /\ ~InTable(p)
     /\ Answer("getattr", "ENOENT")
  \/ /\ InTable(p)
     /\ is_meta_file(p) => real[p] # NoInode
     /\ Answer("getattr", "OK")
  \/ /\ InTable(p)
     /\ is_meta_file(p)
     /\ Faults \/ real[p] = NoInode
     /\ Answer("getattr", "EPERM")    \* stat() gave -1, returned as it is

(* Fault: the entry is added before open() is tried.                       *)
CreateMetaAddsFirst(h, p) ==
  \/ \E fd \in FreeFd, i \in IF real[p] = NoInode THEN FreeInode ELSE {real[p]} :
       /\ files' = [files EXCEPT ![p] =
                      [size |-> 0, realfd |-> fd, pattern |-> Uninit]]
       /\ real' = [real EXCEPT ![p] = i]
       /\ length' = [length EXCEPT ![i] = 0]
       /\ fds' = [fds EXCEPT ![fd] = i]
       /\ handle' = [handle EXCEPT ![h] = p]
       /\ Reply("create", "OK")
       /\ UNCHANGED phase
  \/ /\ files' = [files EXCEPT ![p] =
                    [size |-> 0, realfd |-> Uninit, pattern |-> Uninit]]
     /\ Reply("create", "EIO")
     /\ UNCHANGED <<real, length, fds, handle, phase>>

(* A name that is not in the table.  A metafile is created, or truncated   *)
(* if the real directory has it, and stays open in realfd; a data file     *)
(* gets the pattern its name spells, or none if parse_pattern() fails.     *)
CreateMeta(h, p) ==
  \/ \E fd \in FreeFd, i \in IF real[p] = NoInode THEN FreeInode ELSE {real[p]} :
       /\ files' = [files EXCEPT ![p] =
                      [size |-> 0, realfd |-> fd, pattern |-> Uninit]]
       /\ real' = [real EXCEPT ![p] = i]
       /\ length' = [length EXCEPT ![i] = 0]
       /\ fds' = [fds EXCEPT ![fd] = i]
       /\ handle' = [handle EXCEPT ![h] = p]
       /\ Reply("create", "OK")
       /\ UNCHANGED phase
  \/ /\ \/ Faults
        \/ FreeFd = {}
        \/ real[p] = NoInode /\ FreeInode = {}
     /\ Answer("create", "EIO")

CreateData(h, p) ==
  /\ files' = [files EXCEPT ![p] =
                 [size |-> 0, realfd |-> Uninit, pattern |-> NamePattern[p]]]
  /\ handle' = [handle EXCEPT ![h] = p]
  /\ Reply("create", "OK")
  /\ UNCHANGED <<real, length, fds, phase>>

(* Fault: the pattern is parsed for a name that exists, too.               *)
CreateExistingReparses(h, p, excl) ==
  \/ /\ excl
     /\ Answer("create", "EEXIST")
  \/ /\ ~excl
     /\ files' = [files EXCEPT
                    ![p].size = 0,
                    ![p].pattern = IF is_meta_file(p) THEN @ ELSE NamePattern[p]]
     /\ handle' = [handle EXCEPT ![h] = p]
     /\ Reply("create", "OK")
     /\ UNCHANGED <<real, length, fds, phase>>

(* A name that is in the table already: only the size is reset.            *)
CreateExisting(h, p, excl) ==
  \/ /\ excl
     /\ Answer("create", "EEXIST")
  \/ /\ ~excl
     /\ files' = [files EXCEPT ![p].size = 0]
     /\ handle' = [handle EXCEPT ![h] = p]
     /\ Reply("create", "OK")
     /\ UNCHANGED <<real, length, fds, phase>>

l_create(h, p, excl) ==
  /\ handle[h] = Closed
  /\ \/ ~InTable(p) /\ is_meta_file(p) /\ CreateMeta(h, p)
     \/ ~InTable(p) /\ ~is_meta_file(p) /\ CreateData(h, p)
     \/ InTable(p) /\ CreateExisting(h, p, excl)

(* Fault: the result of open() is stored before it is checked.             *)
OpenMetaUnchecked(h, p, op) ==
  \/ \E fd \in FreeFd :
       /\ real[p] # NoInode
       /\ files' = [files EXCEPT ![p].realfd = fd]
       /\ fds' = [fds EXCEPT ![fd] = real[p]]
       /\ handle' = [handle EXCEPT ![h] = p]
       /\ Reply(op, "OK")
       /\ UNCHANGED <<real, length, phase>>
  \/ /\ Faults \/ FreeFd = {} \/ real[p] = NoInode
     /\ files' = [files EXCEPT ![p].realfd = NoInode]
     /\ Reply(op, "EIO")
     /\ UNCHANGED <<real, length, fds, handle, phase>>

(* realfd is one field per file: an open overwrites the previous open's.   *)
OpenMeta(h, p, op) ==
  \/ \E fd \in FreeFd :
       /\ real[p] # NoInode
       /\ files' = [files EXCEPT ![p].realfd = fd]
       /\ fds' = [fds EXCEPT ![fd] = real[p]]
       /\ handle' = [handle EXCEPT ![h] = p]
       /\ Reply(op, "OK")
       /\ UNCHANGED <<real, length, phase>>
  \/ /\ Faults \/ FreeFd = {} \/ real[p] = NoInode
     /\ Answer(op, "EIO")

OpenData(h, p, trunc, op) ==
  /\ files' = IF trunc THEN [files EXCEPT ![p].size = 0] ELSE files
  /\ handle' = [handle EXCEPT ![h] = p]
  /\ Reply(op, "OK")
  /\ UNCHANGED <<real, length, fds, phase>>

l_open(h, p, trunc) ==
  LET op == IF trunc THEN "opentrunc" ELSE "open" IN
  /\ handle[h] = Closed
  /\ \/ ~InTable(p) /\ Answer(op, "ENOENT")
     \/ InTable(p) /\ is_meta_file(p) /\ OpenMeta(h, p, op)
     \/ InTable(p) /\ ~is_meta_file(p) /\ OpenData(h, p, trunc, op)

(* The inode that pread() and pwrite() on realfd reach, if it is open.     *)
Reached(p) ==
  IF files[p].realfd \in Fd THEN fds[files[p].realfd] ELSE NoInode

(* How a read or write of the file p may end.  EPERM is the -1 of pread()  *)
(* and pwrite(), returned as it is.                                        *)
Transfer(p) ==
  IF ~InTable(p) THEN {"ENOENT"}
  ELSE {r \in {"OK", "EPERM"} :
          /\ r = "OK" => (is_meta_file(p) => Reached(p) # NoInode)
          /\ r = "EPERM" => is_meta_file(p) /\ (Faults \/ Reached(p) = NoInode)}

l_read(h) ==
  /\ handle[h] # Closed
  /\ \E r \in Transfer(handle[h]) : Answer("read", r)

(* A write whose last byte is byte e.                                      *)
l_write(h, e) ==
  LET p == handle[h] IN
  /\ p # Closed
  /\ \E r \in Transfer(p) :
       /\ files' = IF r = "OK" /\ ~is_meta_file(p)
                   THEN [files EXCEPT ![p].size = Larger(@, e)] ELSE files
       /\ length' = IF r = "OK" /\ is_meta_file(p)
                    THEN [length EXCEPT ![Reached(p)] = Larger(@, e)] ELSE length
       /\ reply' = [op |-> "write", ret |-> r, through |-> h]
  /\ UNCHANGED <<real, fds, handle, phase>>

(* l_ftruncate() calls l_truncate() with the path.                         *)
l_truncate(p, n) ==
  \/ ~InTable(p) /\ Answer("truncate", "ENOENT")
  \/ /\ InTable(p) /\ ~is_meta_file(p)
     /\ files' = [files EXCEPT ![p].size = n]
     /\ Reply("truncate", "OK")
     /\ UNCHANGED <<real, length, fds, handle, phase>>
  \/ /\ InTable(p) /\ is_meta_file(p)
     /\ real[p] # NoInode
     /\ length' = [length EXCEPT ![real[p]] = n]
     /\ Reply("truncate", "OK")
     /\ UNCHANGED <<files, real, fds, handle, phase>>
  \/ /\ InTable(p) /\ is_meta_file(p)
     /\ Faults \/ real[p] = NoInode
     /\ Answer("truncate", "EPERM")   \* truncate() gave -1

(* The entry goes whether or not the real file could be unlinked.          *)
l_unlink(p) ==
  \/ ~InTable(p) /\ Answer("unlink", "ENOENT")
  \/ /\ InTable(p)
     /\ files' = [files EXCEPT ![p] = Absent]
     /\ \/ /\ is_meta_file(p) => real[p] # NoInode
           /\ real' = IF is_meta_file(p) THEN [real EXCEPT ![p] = NoInode] ELSE real
           /\ Reply("unlink", "OK")
        \/ /\ is_meta_file(p)
           /\ Faults \/ real[p] = NoInode
           /\ Reply("unlink", "EPERM")   \* unlink() gave -1
           /\ UNCHANGED real
     /\ UNCHANGED <<length, fds, handle, phase>>

(* Faults: the new entry does not take over realfd, or the size.           *)
MovedNoFd(table, p, q) ==
  [table EXCEPT ![q] = [table[p] EXCEPT !.pattern = CopyPattern(@), !.realfd = Uninit],
                ![p] = Absent]

MovedEmpty(table, p, q) ==
  [table EXCEPT ![q] = [table[p] EXCEPT !.pattern = CopyPattern(@), !.size = 0],
                ![p] = Absent]

(* A new entry under the name q takes over from that of p.                 *)
Moved(table, p, q) ==
  [table EXCEPT ![q] = [table[p] EXCEPT !.pattern = CopyPattern(@)],
                ![p] = Absent]

(* After a rename libfuse passes the new path for the handles of the file. *)
Followed(paths, p, q) ==
  [h \in Handle |-> IF paths[h] = p THEN q ELSE paths[h]]

l_rename(p, q, op) ==
  \/ InTable(q) /\ Answer(op, "EEXIST")
  \/ ~InTable(q) /\ ~InTable(p) /\ Answer(op, "ENOENT")
  \/ /\ ~InTable(q) /\ InTable(p)
     /\ is_meta_file(p) # is_meta_file(q)
     /\ Answer(op, "EINVAL")
  \/ /\ ~InTable(q) /\ InTable(p)
     /\ is_meta_file(p) /\ is_meta_file(q)
     /\ Faults \/ real[p] = NoInode
     /\ Answer(op, "EIO")
  \/ /\ ~InTable(q) /\ InTable(p)
     /\ is_meta_file(p) = is_meta_file(q)
     /\ is_meta_file(p) => real[p] # NoInode
     /\ real' = IF is_meta_file(p)
                THEN [real EXCEPT ![q] = real[p], ![p] = NoInode] ELSE real
     /\ files' = Moved(files, p, q)
     /\ handle' = Followed(handle, p, q)
     /\ Reply(op, "OK")
     /\ UNCHANGED <<length, fds, phase>>

(* Fault: the descriptor is not closed.                                    *)
l_releaseNoClose(h) ==
  LET p == handle[h]
      last == \A g \in Handle \ {h} : handle[g] # p
  IN
  /\ p # Closed
  /\ files' = IF p \in HiddenPath /\ last THEN [files EXCEPT ![p] = Absent] ELSE files
  /\ handle' = [handle EXCEPT ![h] = Closed]
  /\ Reply("release", "OK")
  /\ UNCHANGED <<real, length, fds, phase>>

(* close(realfd), whichever open realfd came from.  Its result is ignored. *)
(* libfuse unlinks a hidden file at its last release.                      *)
l_release(h) ==
  LET p == handle[h]
      last == \A g \in Handle \ {h} : handle[g] # p
  IN
  /\ p # Closed
  /\ fds' = IF is_meta_file(p) /\ InTable(p) /\ files[p].realfd \in Fd
            THEN [fds EXCEPT ![files[p].realfd] = NoInode] ELSE fds
  /\ files' = IF p \in HiddenPath /\ last THEN [files EXCEPT ![p] = Absent] ELSE files
  /\ handle' = [handle EXCEPT ![h] = Closed]
  /\ Reply("release", "OK")
  /\ UNCHANGED <<real, length, phase>>

(* l_init() returns NULL, and libfuse passes what init returned on to      *)
(* destroy in place of the &l_data given to fuse_new().                    *)
l_init == "NULL"

l_destroy(userdata) ==
  IF userdata = "NULL"
  THEN /\ phase' = "segfault"
       /\ UNCHANGED <<files, fds>>
  ELSE /\ phase' = "finished"
       /\ files' = [p \in Path |-> Absent]
       /\ \E garbage \in SUBSET Fd :   \* data files have no realfd to close
            fds' = [fd \in Fd |->
                      IF \/ \E p \in Path : InTable(p) /\ files[p].realfd = fd
                         \/ fd \in garbage /\ \E p \in Path : InTable(p) /\ files[p].realfd = Uninit
                      THEN NoInode ELSE fds[fd]]
-----------------------------------------------------------------------------
(* Requests.                                                               *)

Getattr == phase = "mounted" /\ \E p \in UserPath : l_getattr(p)

Create ==
  /\ phase = "mounted"
  /\ \E h \in Handle, p \in UserPath, excl \in BOOLEAN :
       /\ InTable(p) => RacyCreate /\ (is_meta_file(p) /\ ~Sharing => ~IsOpen(p))
       /\ l_create(h, p, excl)

Open ==
  /\ phase = "mounted"
  /\ \E h \in Handle, p \in UserPath, trunc \in BOOLEAN :
       /\ trunc => AtomicTrunc
       /\ is_meta_file(p) /\ ~Sharing => ~IsOpen(p)
       /\ l_open(h, p, trunc)

Read == phase = "mounted" /\ \E h \in Handle : l_read(h)

Write == phase = "mounted" /\ \E h \in Handle, e \in 1..MaxSize : l_write(h, e)

Truncate == phase = "mounted" /\ \E p \in UserPath, n \in Size : l_truncate(p, n)

Release == phase = "mounted" /\ \E h \in Handle : l_release(h)

(* Fault: mounted with -o hard_remove, which unlinks open files at once.   *)
UnlinkHard ==
  /\ phase = "mounted"
  /\ \E p \in UserPath : l_unlink(p)

(* libfuse hides a file that is open, and unlinks one that is not.         *)
Unlink ==
  /\ phase = "mounted"
  /\ \E p \in UserPath :
       \/ ~IsOpen(p) /\ l_unlink(p)
       \/ /\ IsOpen(p)
          /\ \E q \in HiddenPath : ~InTable(q) /\ l_rename(p, q, "unlink")

Rename ==
  /\ phase = "mounted"
  /\ \E p, q \in UserPath : p # q /\ ~IsOpen(q) /\ l_rename(p, q, "rename")

(* A rename onto a name that is open: libfuse hides that file first, and   *)
(* gives up where it cannot, which is where the file is a metafile.  What  *)
(* was hidden stays so where the rename itself then fails.                 *)
RenameOntoOpen ==
  /\ phase = "mounted"
  /\ \E p, q \in UserPath, r \in HiddenPath :
       /\ p # q /\ IsOpen(q) /\ ~InTable(r)
       /\ \/ is_meta_file(q) /\ l_rename(q, r, "rename")
          \/ /\ ~is_meta_file(q)
             /\ InTable(p) /\ ~is_meta_file(p)
             /\ files' = Moved(Moved(files, q, r), p, q)
             /\ handle' = Followed(Followed(handle, q, r), p, q)
             /\ Reply("rename", "OK")
             /\ UNCHANGED <<real, length, fds, phase>>
          \/ /\ ~is_meta_file(q)
             /\ ~InTable(p) \/ is_meta_file(p)
             /\ files' = Moved(files, q, r)
             /\ handle' = Followed(handle, q, r)
             /\ Reply("rename", IF InTable(p) THEN "EINVAL" ELSE "ENOENT")
             /\ UNCHANGED <<real, length, fds, phase>>

(* The life of the daemon.                                                 *)
Mount ==
  /\ phase # "mounted"
  /\ phase' = "mounted"
  /\ files' = [p \in Path |-> Absent]
  /\ fds' = [fd \in Fd |-> NoInode]
  /\ Reply("mount", "OK")
  /\ UNCHANGED <<real, length, handle>>

Unmount ==
  /\ phase = "mounted"
  /\ \A h \in Handle : handle[h] = Closed
  /\ l_destroy(l_init)
  /\ Reply("unmount", "OK")
  /\ UNCHANGED <<real, length, handle>>

Kill ==
  /\ phase = "mounted"
  /\ phase' = "down"
  /\ files' = [p \in Path |-> Absent]
  /\ fds' = [fd \in Fd |-> NoInode]
  /\ handle' = [h \in Handle |-> Closed]
  /\ Reply("kill", "OK")
  /\ UNCHANGED <<real, length>>

Init ==
  /\ files = [p \in Path |-> Absent]
  /\ real = [p \in MetaPath |-> NoInode]
  /\ length = [i \in Inode |-> 0]
  /\ fds = [fd \in Fd |-> NoInode]
  /\ handle = [h \in Handle |-> Closed]
  /\ phase = "down"
  /\ reply = [op |-> "kill", ret |-> "OK", through |-> Closed]

Next ==
  \/ Getattr \/ Create \/ Open \/ Read \/ Write \/ Truncate \/ Release
  \/ Unlink \/ Rename \/ RenameOntoOpen
  \/ Mount \/ Unmount \/ Kill

Spec == Init /\ [][Next]_vars
-----------------------------------------------------------------------------
(* Properties.                                                             *)

TypeOK ==
  /\ files \in [Path -> Entry \union {Absent}]
  /\ real \in [MetaPath -> Inode \union {NoInode}]
  /\ length \in [Inode -> Size]
  /\ fds \in [Fd -> Inode \union {NoInode}]
  /\ handle \in [Handle -> Path \union {Closed}]
  /\ phase \in Phase
  /\ reply \in Replies

(* The path libfuse passes for an open file is always in the table, so no  *)
(* read, write or release of an open file answers -ENOENT, whatever was    *)
(* renamed or unlinked meanwhile (lfs.c:268-272, 309-312, 342-345).        *)
HandleNamed ==
  phase = "mounted" => \A h \in Handle : handle[h] # Closed => InTable(handle[h])

(* Every metafile the table lists has a real file of its own in the        *)
(* realstore: the two steps of create, unlink and rename, one on the real  *)
(* directory and one on the table, never come apart this way, even when    *)
(* the real one fails (lfs.c:166-176, 442-449, 493-526).                   *)
EntryBacked ==
  phase = "mounted" =>
    \A p \in MetaPath : InTable(p) =>
      /\ real[p] # NoInode
      /\ \A q \in MetaPath : real[q] = real[p] => q = p

(* What an open metafile reads and writes, pread() and pwrite() on realfd, *)
(* is the real file of that name and no other (lfs.c:276, 318).            *)
HandleServed ==
  phase = "mounted" =>
    \A h \in Handle : handle[h] \in MetaPath =>
      /\ Reached(handle[h]) # NoInode
      /\ Reached(handle[h]) = real[handle[h]]

(* The daemon holds a descriptor only for a metafile that is open: those   *)
(* of l_create and l_open are all given back by l_release (lfs.c:349).     *)
NoFdLeak ==
  phase = "mounted" =>
    \A fd \in Fd : fds[fd] # NoInode =>
      \E h \in Handle : /\ handle[h] \in MetaPath
                        /\ files[handle[h]].realfd = fd

(* A data file always has a pattern, and one that some name spells: it is  *)
(* given at creation and survives renaming (lfs.c:5-6, 523).               *)
PatternSpelled ==
  phase = "mounted" =>
    \A p \in Path \ MetaPath : InTable(p) =>
      /\ files[p].pattern # Uninit
      /\ \E q \in DataPath : NamePattern[q] = files[p].pattern

(* A file of the realstore is served under its name (lfs.c:4-5).           *)
StoredMetaServed ==
  phase = "mounted" => \A p \in MetaPath : real[p] # NoInode => InTable(p)

(* l_destroy() "Remove[s] all files in the hashtable" (lfs.c:392).         *)
DestroyRemovesAll ==
  phase \in {"finished", "segfault"} => \A p \in Path : ~InTable(p)

(* The length of a file as l_getattr() reports it.                         *)
FileLen(p) ==
  IF is_meta_file(p) THEN length[real[p]] ELSE files[p].size

(* Opening with O_TRUNC gives an empty file (lfs.c:216-217).               *)
OpenTruncates ==
  [][\A h \in Handle :
       handle[h] = Closed /\ handle'[h] # Closed /\ reply'.op = "opentrunc"
         => FileLen(handle[h])' = 0]_vars

-----------------------------------------------------------------------------
(* The promise to users, and the mapping to it.  A data file's content is  *)
(* its pattern, a metafile's the real file.                                *)
FileContent(p) == IF is_meta_file(p) THEN real[p] ELSE files[p].pattern

FileOf(p) ==
  IF phase = "mounted" /\ InTable(p)
  THEN [len |-> FileLen(p), content |-> FileContent(p)]
  ELSE Absent

Dir == INSTANCE FlatDir WITH
  Hidden  <- HiddenPath,
  Content <- Inode \union Pattern \union {Uninit},
  MaxLen  <- MaxSize,
  NoFile  <- Absent,
  dir     <- [p \in Path |-> FileOf(p)],
  open    <- handle

(* The daemon implements the flat directory: handles follow renames, a     *)
(* write reaches the file it was opened on and no other, a rename keeps    *)
(* length and content, and a failed call is either without effect or, for  *)
(* an unlink, the removal itself.                                          *)
FlatDirSpec == Dir!Spec

(* The same for the data files alone.                                      *)
DataDir == INSTANCE FlatDir WITH
  Path    <- Path \ MetaPath,
  Hidden  <- HiddenPath,
  Content <- Pattern \union {Uninit},
  MaxLen  <- MaxSize,
  NoFile  <- Absent,
  dir     <- [p \in Path \ MetaPath |-> FileOf(p)],
  open    <- [h \in Handle |-> IF handle[h] \in MetaPath THEN Closed ELSE handle[h]]

(* Data files are a flat directory in every mode: nothing that is done to  *)
(* metafiles, whatever descriptors they lose or share, reaches one.        *)
DataDirSpec == DataDir!PartSpec
=============================================================================
