----------------------------- MODULE LfsProofs -----------------------------
(***************************************************************************)
(* What is proved of Lfs for every set of names, handles, descriptors and  *)
(* real files: its invariants, and that it implements FlatDir.             *)
(***************************************************************************)
EXTENDS Lfs, TLAPS

(* Nothing is open while the daemon is down.                               *)
ClosedWhenDown ==
  phase # "mounted" => \A h \in Handle : handle[h] = Closed

(* No two names of the realstore are one file, in the table or not.        *)
RealInjective ==
  \A p, q \in MetaPath : real[p] # NoInode /\ real[q] = real[p] => q = p

(* A metafile in the table has its real file.                              *)
EntryReal ==
  phase = "mounted" => \A p \in MetaPath : InTable(p) => real[p] # NoInode

(* Holds however metafiles are shared.                                     *)
Backed ==
  /\ ClosedWhenDown
  /\ HandleNamed
  /\ RealInjective
  /\ EntryReal

TableInv == TypeOK /\ Backed

(* A metafile is open once at a time.                                      *)
Exclusive ==
  \A g, h \in Handle : handle[g] \in MetaPath /\ handle[h] = handle[g] => h = g

(* The descriptor in the entry of p is open, on the real file of p.        *)
Connected(p) ==
  /\ files[p].realfd \in Fd
  /\ fds[files[p].realfd] = real[p]
  /\ real[p] # NoInode

AllConnected ==
  phase = "mounted" =>
    \A h \in Handle : handle[h] \in MetaPath => Connected(handle[h])

(* Holds where metafiles are not shared.                                   *)
Served ==
  /\ Exclusive
  /\ AllConnected
  /\ NoFdLeak

ServedInv == TableInv /\ Served
-----------------------------------------------------------------------------
(* Lemmas about the operators.                                             *)

Table == [Path -> Entry \union {Absent}]

(* The larger of two lengths is a length.                                  *)
LEMMA LargerType ==
  ASSUME NEW m \in Size, NEW n \in Size
  PROVE  Larger(m, n) \in Size
BY DEF Larger

(* Copying a pattern with strncpy() gives a pattern again (lfs.c:523).     *)
LEMMA CopyPatternType ==
  ASSUME NEW x \in Pattern \union {Uninit}
  PROVE  CopyPattern(x) \in Pattern \union {Uninit}
BY PatternCopies DEF CopyPattern

(* Every name is a metafile's or not, and metafiles are names.             *)
LEMMA MetaIsPath == MetaPath \subseteq Path
BY DEF Path, UserPath

(* An entry with a new size is an entry.                                   *)
LEMMA ResizedType ==
  ASSUME NEW e \in Entry, NEW n \in Size
  PROVE  [e EXCEPT !.size = n] \in Entry
BY DEF Entry

(* An entry whose file was opened anew is an entry.                        *)
LEMMA ReopenedType ==
  ASSUME NEW e \in Entry, NEW fd \in Fd
  PROVE  [e EXCEPT !.realfd = fd] \in Entry
BY DEF Entry

(* The entry l_rename() allocates is an entry.                             *)
LEMMA CopiedType ==
  ASSUME NEW e \in Entry
  PROVE  [e EXCEPT !.pattern = CopyPattern(@)] \in Entry
<1>1. CopyPattern(e.pattern) \in Pattern \union {Uninit}
  BY CopyPatternType DEF Entry
<1>2. QED
  BY <1>1 DEF Entry

(* Moving an entry gives a table.                                          *)
LEMMA MovedType ==
  ASSUME NEW t \in Table, NEW p \in Path, NEW q \in Path, t[p] # Absent
  PROVE  Moved(t, p, q) \in Table
<1>1. t[p] \in Entry
  BY DEF Table
<1>2. [t[p] EXCEPT !.pattern = CopyPattern(@)] \in Entry
  BY <1>1, CopiedType
<1>3. QED
  BY <1>2 DEF Moved, Table

(* The entries after a move: q has that of p, p has none.                  *)
LEMMA MovedEntries ==
  ASSUME NEW t \in Table, NEW p \in Path, NEW q \in Path, p # q,
         t[p] # Absent
  PROVE  /\ Moved(t, p, q)[q] # Absent
         /\ Moved(t, p, q)[q].realfd = t[p].realfd
         /\ Moved(t, p, q)[p] = Absent
         /\ \A x \in Path : x # p /\ x # q => Moved(t, p, q)[x] = t[x]
<1>1. t[p] \in Entry
  BY DEF Table
<1> DEFINE e == [t[p] EXCEPT !.pattern = CopyPattern(@)]
<1>2. e \in Entry /\ e # Absent
  BY <1>1, CopiedType, Distinct
<1>3. e.realfd = t[p].realfd
  BY <1>1 DEF Entry
<1>4. Moved(t, p, q)[q] = e /\ Moved(t, p, q)[p] = Absent
  BY DEF Moved, Table
<1>5. \A x \in Path : x # p /\ x # q => Moved(t, p, q)[x] = t[x]
  BY DEF Moved, Table
<1>6. QED
  BY <1>2, <1>3, <1>4, <1>5

(* Handles follow a rename to paths.                                       *)
LEMMA FollowedType ==
  ASSUME NEW a \in [Handle -> Path \union {Closed}], NEW p, NEW q \in Path
  PROVE  Followed(a, p, q) \in [Handle -> Path \union {Closed}]
BY DEF Followed

-----------------------------------------------------------------------------
(* Type correctness.                                                       *)

(* A step that only answers keeps the types.                               *)
LEMMA AnswerType ==
  ASSUME TypeOK, NEW op \in Op, NEW ret \in Errno \union {"OK"},
         Answer(op, ret)
  PROVE  TypeOK'
BY DEF TypeOK, Answer, Reply, Replies

(* The initial state has its types.                                        *)
LEMMA InitType == Init => TypeOK
BY MaxSizeNat DEF Init, TypeOK, Size, Phase, Op, Errno, Replies

(* l_create() keeps the types.                                             *)
LEMMA CreateType ==
  ASSUME TypeOK, NEW h \in Handle, NEW p \in UserPath, NEW excl \in BOOLEAN,
         l_create(h, p, excl)
  PROVE  TypeOK'
<1>1. p \in Path /\ 0 \in Size
  BY MaxSizeNat DEF Path, Size
<1>2. CASE ~InTable(p) /\ is_meta_file(p) /\ CreateMeta(h, p)
  <2>1. ASSUME NEW fd \in FreeFd,
               NEW i \in IF real[p] = NoInode THEN FreeInode ELSE {real[p]},
               files' = [files EXCEPT ![p] =
                           [size |-> 0, realfd |-> fd, pattern |-> Uninit]],
               real' = [real EXCEPT ![p] = i],
               length' = [length EXCEPT ![i] = 0],
               fds' = [fds EXCEPT ![fd] = i],
               handle' = [handle EXCEPT ![h] = p],
               Reply("create", "OK"),
               UNCHANGED phase
        PROVE  TypeOK'
    <3>1. i \in Inode /\ fd \in Fd
      BY <1>2 DEF FreeInode, FreeFd, TypeOK, is_meta_file
    <3>2. [size |-> 0, realfd |-> fd, pattern |-> Uninit] \in Entry
      BY <1>1, <3>1 DEF Entry
    <3>3. QED
      BY <2>1, <3>1, <3>2, <1>1 DEF TypeOK, Reply, Replies, Op, Errno
  <2>2. CASE Answer("create", "EIO")
    BY <2>2, AnswerType DEF Op, Errno
  <2>3. QED
    BY <1>2, <2>1, <2>2 DEF CreateMeta
<1>3. CASE ~InTable(p) /\ ~is_meta_file(p) /\ CreateData(h, p)
  <2>1. p \in DataPath
    BY <1>3 DEF UserPath, is_meta_file
  <2>2. [size |-> 0, realfd |-> Uninit, pattern |-> NamePattern[p]] \in Entry
    BY <1>1, <2>1, NamePatternType DEF Entry
  <2>3. QED
    BY <1>1, <1>3, <2>2 DEF CreateData, TypeOK, Reply, Replies, Op, Errno
<1>4. CASE InTable(p) /\ CreateExisting(h, p, excl)
  <2>1. CASE Answer("create", "EEXIST")
    BY <2>1, AnswerType DEF Op, Errno
  <2>2. CASE ~Answer("create", "EEXIST")
    <3>1. files[p] \in Entry
      BY <1>1, <1>4 DEF TypeOK, InTable
    <3>2. [files[p] EXCEPT !.size = 0] \in Entry
      BY <1>1, <3>1, ResizedType
    <3>3. files' = [files EXCEPT ![p].size = 0] /\ handle' = [handle EXCEPT ![h] = p]
          /\ Reply("create", "OK") /\ UNCHANGED <<real, length, fds, phase>>
      BY <1>4, <2>2 DEF CreateExisting
    <3>4. files' \in Table
      BY <1>1, <3>2, <3>3 DEF TypeOK, Table
    <3>5. QED
      BY <1>1, <3>3, <3>4 DEF TypeOK, Reply, Replies, Op, Errno, Table
  <2>3. QED
    BY <2>1, <2>2
<1>5. QED
  BY <1>2, <1>3, <1>4 DEF l_create

(* l_open() keeps the types.                                               *)
LEMMA OpenType ==
  ASSUME TypeOK, NEW h \in Handle, NEW p \in UserPath, NEW trunc \in BOOLEAN,
         l_open(h, p, trunc)
  PROVE  TypeOK'
<1> DEFINE op == IF trunc THEN "opentrunc" ELSE "open"
<1>1. p \in Path /\ 0 \in Size
  BY MaxSizeNat DEF Path, Size
<1>2. op \in Op
  BY DEF Op
<1>3. CASE Answer(op, "ENOENT") \/ Answer(op, "EIO")
  BY <1>2, <1>3, AnswerType DEF Errno
<1>4. CASE InTable(p) /\ is_meta_file(p) /\ OpenMeta(h, p, op) /\ ~Answer(op, "EIO")
  <2>1. files[p] \in Entry /\ p \in MetaPath
    BY <1>1, <1>4 DEF TypeOK, InTable, is_meta_file
  <2>2. PICK fd \in FreeFd :
           /\ files' = [files EXCEPT ![p].realfd = fd]
           /\ fds' = [fds EXCEPT ![fd] = real[p]]
           /\ handle' = [handle EXCEPT ![h] = p]
           /\ Reply(op, "OK")
           /\ UNCHANGED <<real, length, phase>>
    BY <1>4 DEF OpenMeta
  <2>3. fd \in Fd
    BY DEF FreeFd
  <2>4. [files[p] EXCEPT !.realfd = fd] \in Entry
    BY <2>1, <2>3, ReopenedType
  <2>5. files' \in Table
    BY <1>1, <2>2, <2>4 DEF TypeOK, Table
  <2>6. fds' \in [Fd -> Inode \union {NoInode}]
    BY <2>1, <2>2, <2>3 DEF TypeOK
  <2>7. reply' \in Replies
    BY <1>2, <2>2 DEF Reply, Replies
  <2>8. QED
    BY <1>1, <2>2, <2>5, <2>6, <2>7 DEF TypeOK, Table
<1>5. CASE InTable(p) /\ ~is_meta_file(p) /\ OpenData(h, p, trunc, op)
  <2>1. files[p] \in Entry
    BY <1>1, <1>5 DEF TypeOK, InTable
  <2>2. [files[p] EXCEPT !.size = 0] \in Entry
    BY <1>1, <2>1, ResizedType
  <2>3. files' \in Table
    BY <1>1, <1>5, <2>2 DEF OpenData, TypeOK, Table
  <2>4. reply' \in Replies
    BY <1>2, <1>5 DEF OpenData, Reply, Replies
  <2>5. QED
    BY <1>1, <1>5, <2>3, <2>4 DEF OpenData, TypeOK, Table
<1>6. QED
  BY <1>3, <1>4, <1>5 DEF l_open

(* Where pread() and pwrite() reach a file, it is one of the real store.   *)
LEMMA ReachedType ==
  ASSUME TypeOK, NEW p \in Path, InTable(p)
  PROVE  Reached(p) \in Inode \union {NoInode}
<1>1. files[p] \in Entry
  BY DEF TypeOK, InTable
<1>2. QED
  BY <1>1 DEF TypeOK, Reached

(* l_read() keeps the types.                                               *)
LEMMA ReadType ==
  ASSUME TypeOK, NEW h \in Handle, l_read(h)
  PROVE  TypeOK'
<1>1. PICK r \in Transfer(handle[h]) : Answer("read", r)
  BY DEF l_read
<1>2. r \in Errno \union {"OK"} /\ "read" \in Op
  BY DEF Transfer, Errno, Op
<1>3. QED
  BY <1>1, <1>2, AnswerType

(* l_write() keeps the types.                                              *)
LEMMA WriteType ==
  ASSUME TypeOK, NEW h \in Handle, NEW e \in 1..MaxSize, l_write(h, e)
  PROVE  TypeOK'
<1> DEFINE p == handle[h]
<1>1. p \in Path /\ e \in Size
  BY MaxSizeNat DEF TypeOK, l_write, Size
<1>2. PICK r \in Transfer(p) :
         /\ files' = IF r = "OK" /\ ~is_meta_file(p)
                     THEN [files EXCEPT ![p].size = Larger(@, e)] ELSE files
         /\ length' = IF r = "OK" /\ is_meta_file(p)
                      THEN [length EXCEPT ![Reached(p)] = Larger(@, e)] ELSE length
         /\ reply' = [op |-> "write", ret |-> r, through |-> h]
  BY DEF l_write
<1>3. UNCHANGED <<real, fds, handle, phase>>
  BY DEF l_write
<1>4. r \in Errno \union {"OK"} /\ "write" \in Op
  BY <1>2 DEF Transfer, Errno, Op
<1>5. files' \in Table
  <2>1. CASE r = "OK" /\ ~is_meta_file(p)
    <3>1. files[p] \in Entry
      BY <1>1, <2>1 DEF Transfer, TypeOK, InTable
    <3>2. Larger(files[p].size, e) \in Size
      <4>1. files[p].size \in Size
        BY <3>1 DEF Entry
      <4>2. QED
        BY <4>1, <1>1, LargerType
    <3>3. [files[p] EXCEPT !.size = Larger(@, e)] \in Entry
      BY <3>1, <3>2, ResizedType
    <3>4. files' = [files EXCEPT ![p] = [files[p] EXCEPT !.size = Larger(@, e)]]
      BY <1>2, <2>1
    <3>5. QED
      BY <1>1, <3>3, <3>4 DEF TypeOK, Table
  <2>2. CASE ~(r = "OK" /\ ~is_meta_file(p))
    BY <1>2, <2>2 DEF TypeOK, Table
  <2>3. QED
    BY <2>1, <2>2
<1>6. length' \in [Inode -> Size]
  <2>1. CASE r = "OK" /\ is_meta_file(p)
    <3>1. Reached(p) \in Inode
      BY <1>1, <2>1, ReachedType DEF Transfer
    <3>2. Larger(length[Reached(p)], e) \in Size
      <4>1. length[Reached(p)] \in Size
        BY <3>1 DEF TypeOK
      <4>2. QED
        BY <4>1, <1>1, LargerType
    <3>3. QED
      BY <1>2, <2>1, <3>1, <3>2 DEF TypeOK
  <2>2. CASE ~(r = "OK" /\ is_meta_file(p))
    BY <1>2, <2>2 DEF TypeOK
  <2>3. QED
    BY <2>1, <2>2
<1>7. reply' \in Replies
  BY <1>2, <1>4 DEF Replies
<1>8. QED
  BY <1>3, <1>5, <1>6, <1>7 DEF TypeOK, Table

(* l_truncate() keeps the types.                                           *)
LEMMA TruncateType ==
  ASSUME TypeOK, NEW p \in UserPath, NEW n \in Size, l_truncate(p, n)
  PROVE  TypeOK'
<1>1. p \in Path
  BY DEF Path
<1>2. CASE Answer("truncate", "ENOENT") \/ Answer("truncate", "EPERM")
  BY <1>2, AnswerType DEF Op, Errno
<1>3. CASE /\ InTable(p) /\ ~is_meta_file(p)
           /\ files' = [files EXCEPT ![p].size = n]
           /\ Reply("truncate", "OK")
           /\ UNCHANGED <<real, length, fds, handle, phase>>
  <2>1. files[p] \in Entry
    BY <1>1, <1>3 DEF TypeOK, InTable
  <2>2. [files[p] EXCEPT !.size = n] \in Entry
    BY <2>1, ResizedType
  <2>3. files' \in Table
    BY <1>1, <1>3, <2>2 DEF TypeOK, Table
  <2>4. QED
    BY <1>3, <2>3 DEF TypeOK, Table, Reply, Replies, Op
<1>4. CASE /\ InTable(p) /\ is_meta_file(p)
           /\ real[p] # NoInode
           /\ length' = [length EXCEPT ![real[p]] = n]
           /\ Reply("truncate", "OK")
           /\ UNCHANGED <<files, real, fds, handle, phase>>
  <2>1. real[p] \in Inode
    BY <1>4 DEF TypeOK, is_meta_file
  <2>2. QED
    BY <1>4, <2>1 DEF TypeOK, Reply, Replies, Op
<1>5. QED
  BY <1>2, <1>3, <1>4 DEF l_truncate

(* l_unlink() keeps the types.                                             *)
LEMMA UnlinkType ==
  ASSUME TypeOK, NEW p \in Path, l_unlink(p)
  PROVE  TypeOK'
<1>1. CASE Answer("unlink", "ENOENT")
  BY <1>1, AnswerType DEF Op, Errno
<1>2. CASE ~Answer("unlink", "ENOENT")
  <2>1. /\ files' = [files EXCEPT ![p] = Absent]
        /\ UNCHANGED <<length, fds, handle, phase>>
    BY <1>2 DEF l_unlink
  <2>2. /\ real' \in [MetaPath -> Inode \union {NoInode}]
        /\ reply' \in Replies
    BY <1>2 DEF l_unlink, TypeOK, Reply, Replies, Op, Errno
  <2>3. QED
    BY <2>1, <2>2 DEF TypeOK
<1>3. QED
  BY <1>1, <1>2

(* l_rename() keeps the types.                                             *)
LEMMA RenameType ==
  ASSUME TypeOK, NEW p \in Path, NEW q \in Path, NEW op \in Op,
         l_rename(p, q, op)
  PROVE  TypeOK'
<1>1. CASE \E r \in Errno : Answer(op, r)
  BY <1>1, AnswerType
<1>2. CASE /\ ~InTable(q) /\ InTable(p)
           /\ is_meta_file(p) = is_meta_file(q)
           /\ is_meta_file(p) => real[p] # NoInode
           /\ real' = IF is_meta_file(p)
                      THEN [real EXCEPT ![q] = real[p], ![p] = NoInode] ELSE real
           /\ files' = Moved(files, p, q)
           /\ handle' = Followed(handle, p, q)
           /\ Reply(op, "OK")
           /\ UNCHANGED <<length, fds, phase>>
  <2>1. files' \in Table
    BY <1>2, MovedType DEF TypeOK, Table, InTable
  <2>2. handle' \in [Handle -> Path \union {Closed}]
    BY <1>2, FollowedType DEF TypeOK
  <2>3. real' \in [MetaPath -> Inode \union {NoInode}]
    BY <1>2 DEF TypeOK, is_meta_file
  <2>4. reply' \in Replies
    BY <1>2 DEF Reply, Replies
  <2>5. QED
    BY <1>2, <2>1, <2>2, <2>3, <2>4 DEF TypeOK, Table
<1>3. QED
  BY <1>1, <1>2 DEF l_rename, Errno

(* l_release() keeps the types.                                            *)
LEMMA ReleaseType ==
  ASSUME TypeOK, NEW h \in Handle, l_release(h)
  PROVE  TypeOK'
<1>1. files' \in Table
  BY DEF l_release, TypeOK, Table
<1>2. fds' \in [Fd -> Inode \union {NoInode}]
  BY DEF l_release, TypeOK
<1>3. handle' \in [Handle -> Path \union {Closed}]
  BY DEF l_release, TypeOK
<1>4. reply' \in Replies
  BY DEF l_release, Reply, Replies, Op
<1>5. UNCHANGED <<real, length, phase>>
  BY DEF l_release
<1>6. QED
  BY <1>1, <1>2, <1>3, <1>4, <1>5 DEF TypeOK, Table

(* A rename onto an open name keeps the types.                             *)
LEMMA RenameOntoOpenType ==
  ASSUME TypeOK, HandleNamed, RenameOntoOpen
  PROVE  TypeOK'
<1>1. PICK p \in UserPath, q \in UserPath, r \in HiddenPath :
         /\ p # q /\ IsOpen(q) /\ ~InTable(r)
         /\ \/ is_meta_file(q) /\ l_rename(q, r, "rename")
            \/ /\ ~is_meta_file(q)
               /\ InTable(p) /\ ~is_meta_file(p)
               /\ files' = Moved(Moved(files, q, r), p, q)
               /\ handle' = Followed(Followed(handle, q, r), p, q)
               /\ Reply("rename", "OK")
               /\ UNCHANGED <<real, length, fds, phase>>
            \/ /\ ~is_meta_file(q)
               /\ ~InTable(p) \/ is_meta_file(p)
               /\ files' = Moved(files, q, r)
               /\ handle' = Followed(handle, q, r)
               /\ Reply("rename", IF InTable(p) THEN "EINVAL" ELSE "ENOENT")
               /\ UNCHANGED <<real, length, fds, phase>>
  BY DEF RenameOntoOpen
<1>2. p \in Path /\ q \in Path /\ r \in Path
  BY DEF Path
<1>3. InTable(q) /\ q # r /\ p # r
  <2>1. phase = "mounted" /\ q # Closed
    BY <1>2, PathsDisjoint DEF RenameOntoOpen
  <2>2. QED
    BY <1>1, <2>1, PathsDisjoint DEF IsOpen, HandleNamed
<1>4. /\ Moved(files, q, r) \in Table
      /\ Followed(handle, q, r) \in [Handle -> Path \union {Closed}]
  BY <1>2, <1>3, MovedType, FollowedType DEF TypeOK, Table, InTable
<1>5. CASE l_rename(q, r, "rename")
  BY <1>2, <1>5, RenameType DEF Op
<1>6. CASE /\ InTable(p)
           /\ files' = Moved(Moved(files, q, r), p, q)
           /\ handle' = Followed(Followed(handle, q, r), p, q)
           /\ Reply("rename", "OK")
           /\ UNCHANGED <<real, length, fds, phase>>
  <2>1. Moved(files, q, r)[p] # Absent
    BY <1>1, <1>2, <1>3, <1>6, MovedEntries DEF TypeOK, Table, InTable
  <2>2. files' \in Table
    BY <1>2, <1>4, <1>6, <2>1, MovedType
  <2>3. handle' \in [Handle -> Path \union {Closed}]
    BY <1>2, <1>4, <1>6, FollowedType
  <2>4. QED
    BY <1>6, <2>2, <2>3 DEF TypeOK, Table, Reply, Replies, Op
<1>7. CASE /\ files' = Moved(files, q, r)
           /\ handle' = Followed(handle, q, r)
           /\ Reply("rename", IF InTable(p) THEN "EINVAL" ELSE "ENOENT")
           /\ UNCHANGED <<real, length, fds, phase>>
  BY <1>4, <1>7 DEF TypeOK, Table, Reply, Replies, Op, Errno
<1>8. QED
  BY <1>1, <1>5, <1>6, <1>7

(* Every step keeps the types.                                             *)
LEMMA NextType ==
  ASSUME TypeOK, HandleNamed, [Next]_vars
  PROVE  TypeOK'
<1>1. CASE Getattr
  <2>1. UserPath \subseteq Path
    BY DEF Path
  <2>2. PICK p \in UserPath : l_getattr(p)
    BY <1>1 DEF Getattr
  <2>3. QED
    BY <2>2, AnswerType DEF l_getattr, Op, Errno
<1>2. CASE Create
  BY <1>2, CreateType DEF Create
<1>3. CASE Open
  BY <1>3, OpenType DEF Open
<1>4. CASE Read
  BY <1>4, ReadType DEF Read
<1>5. CASE Write
  BY <1>5, WriteType DEF Write
<1>6. CASE Truncate
  BY <1>6, TruncateType DEF Truncate
<1>7. CASE Release
  BY <1>7, ReleaseType DEF Release
<1>8. CASE Unlink
  BY <1>8, UnlinkType, RenameType DEF Unlink, Path, Op
<1>9. CASE Rename
  BY <1>9, RenameType DEF Rename, Path, Op
<1>10. CASE RenameOntoOpen
  BY <1>10, RenameOntoOpenType
<1>11. CASE Mount
  BY <1>11 DEF Mount, TypeOK, Reply, Replies, Op, Errno, Phase
<1>12. CASE Unmount
  <2>1. phase' = "segfault" /\ UNCHANGED <<files, fds>>
    BY <1>12 DEF Unmount, l_destroy, l_init
  <2>2. QED
    BY <1>12, <2>1 DEF Unmount, TypeOK, Reply, Replies, Op, Errno, Phase
<1>13. CASE Kill
  BY <1>13 DEF Kill, TypeOK, Reply, Replies, Op, Errno, Phase
<1>14. CASE UNCHANGED vars
  BY <1>14 DEF vars, TypeOK
<1>15. QED
  BY <1>1, <1>2, <1>3, <1>4, <1>5, <1>6, <1>7, <1>8, <1>9, <1>10, <1>11,
     <1>12, <1>13, <1>14 DEF Next

-----------------------------------------------------------------------------
(* Handles name entries, entries have real files of their own.             *)

(* A step that only answers keeps the invariants.                          *)
LEMMA AnswerBacked ==
  ASSUME Backed, NEW op, NEW ret, Answer(op, ret)
  PROVE  Backed'
BY DEF Backed, ClosedWhenDown, HandleNamed, RealInjective, EntryReal, Answer, InTable

(* l_create() keeps them: a real file it creates is a new one, one that    *)
(* exists belongs to this name only.                                       *)
LEMMA CreateBacked ==
  ASSUME TableInv, phase = "mounted", NEW h \in Handle, NEW p \in UserPath,
         NEW excl \in BOOLEAN, l_create(h, p, excl)
  PROVE  Backed'
<1> USE DEF TableInv, Backed
<1>1. p \in Path
  BY DEF Path
<1>2. CASE Answer("create", "EIO") \/ Answer("create", "EEXIST")
  BY <1>2, AnswerBacked
<1>3. CASE ~InTable(p) /\ is_meta_file(p) /\ CreateMeta(h, p) /\ ~Answer("create", "EIO")
  <2>1. PICK fd \in FreeFd, i \in IF real[p] = NoInode THEN FreeInode ELSE {real[p]} :
           /\ files' = [files EXCEPT ![p] =
                          [size |-> 0, realfd |-> fd, pattern |-> Uninit]]
           /\ real' = [real EXCEPT ![p] = i]
           /\ handle' = [handle EXCEPT ![h] = p]
           /\ phase' = phase
    BY <1>3 DEF CreateMeta
  <2>2. i \in Inode /\ fd \in Fd /\ 0 \in Size
    BY <1>3, MaxSizeNat DEF FreeInode, FreeFd, TypeOK, is_meta_file, Size
  <2>3. [size |-> 0, realfd |-> fd, pattern |-> Uninit] # Absent
    BY <2>2, Distinct DEF Entry
  <2>4. \A x \in Path : InTable(x)' <=> InTable(x) \/ x = p
    BY <1>1, <2>1, <2>3 DEF InTable, TypeOK
  <2>5. HandleNamed'
    BY <1>1, <2>1, <2>4 DEF HandleNamed, TypeOK
  <2>6. RealInjective'
    <3>1. \A q \in MetaPath : q # p => real[q] # i
      BY <1>3, <2>1, <2>2, Distinct DEF FreeInode, RealInjective, is_meta_file
    <3>2. QED
      BY <2>1, <2>2, <3>1 DEF RealInjective, TypeOK
  <2>7. EntryReal'
    BY <2>1, <2>2, <2>4, MetaIsPath, Distinct DEF EntryReal, TypeOK
  <2>8. QED
    BY <2>1, <2>5, <2>6, <2>7 DEF ClosedWhenDown
<1>4. CASE ~InTable(p) /\ ~is_meta_file(p) /\ CreateData(h, p)
  <2> DEFINE e == [size |-> 0, realfd |-> Uninit, pattern |-> NamePattern[p]]
  <2>1. e # Absent
    <3>1. p \in DataPath /\ 0 \in Size
      BY <1>4, MaxSizeNat DEF UserPath, is_meta_file, Size
    <3>2. e \in Entry
      BY <3>1, NamePatternType DEF Entry
    <3>3. QED
      BY <3>2, Distinct
  <2>2. \A x \in Path : InTable(x)' <=> InTable(x) \/ x = p
    BY <1>1, <1>4, <2>1 DEF CreateData, InTable, TypeOK
  <2>3. HandleNamed'
    BY <1>1, <1>4, <2>2 DEF CreateData, HandleNamed, TypeOK
  <2>4. EntryReal'
    BY <1>4, <2>2, MetaIsPath DEF CreateData, EntryReal, is_meta_file
  <2>5. QED
    BY <1>4, <2>3, <2>4 DEF CreateData, ClosedWhenDown, RealInjective
<1>5. CASE InTable(p) /\ CreateExisting(h, p, excl) /\ ~Answer("create", "EEXIST")
  <2>1. /\ files' = [files EXCEPT ![p].size = 0]
        /\ handle' = [handle EXCEPT ![h] = p]
        /\ UNCHANGED <<real, phase>>
    BY <1>5 DEF CreateExisting
  <2>2. [files[p] EXCEPT !.size = 0] # Absent
    BY <1>1, <1>5, ResizedType, Distinct, MaxSizeNat DEF InTable, TypeOK, Size
  <2>3. \A x \in Path : InTable(x)' <=> InTable(x)
    BY <1>1, <1>5, <2>1, <2>2 DEF InTable, TypeOK
  <2>4. HandleNamed'
    BY <1>1, <1>5, <2>1, <2>3 DEF HandleNamed, TypeOK
  <2>5. EntryReal'
    BY <2>1, <2>3, MetaIsPath DEF EntryReal
  <2>6. QED
    BY <2>1, <2>4, <2>5 DEF ClosedWhenDown, RealInjective
<1>6. QED
  BY <1>2, <1>3, <1>4, <1>5 DEF l_create, CreateMeta, CreateExisting

(* A step that keeps the set of names in the table, the names of handles   *)
(* except that one may become a name in the table, and the real directory. *)
LEMMA SameNamesBacked ==
  ASSUME Backed, phase = "mounted", UNCHANGED <<real, phase>>,
         \A x \in Path : InTable(x)' <=> InTable(x),
         handle \in [Handle -> Path \union {Closed}],
         handle' \in [Handle -> Path \union {Closed}],
         \A h \in Handle : \/ handle'[h] = handle[h]
                           \/ handle'[h] = Closed
                           \/ InTable(handle'[h])
  PROVE  Backed'
BY MetaIsPath DEF Backed, ClosedWhenDown, HandleNamed, RealInjective, EntryReal

(* l_open() keeps them.                                                    *)
LEMMA OpenBacked ==
  ASSUME TableInv, phase = "mounted", NEW h \in Handle, NEW p \in UserPath,
         NEW trunc \in BOOLEAN, l_open(h, p, trunc)
  PROVE  Backed'
<1> DEFINE op == IF trunc THEN "opentrunc" ELSE "open"
<1>1. p \in Path
  BY DEF Path
<1>2. CASE Answer(op, "ENOENT") \/ Answer(op, "EIO")
  BY <1>2, AnswerBacked DEF TableInv
<1>3. CASE /\ InTable(p)
           /\ handle' = [handle EXCEPT ![h] = p]
           /\ UNCHANGED <<real, phase>>
           /\ \/ \E fd \in Fd : files' = [files EXCEPT ![p].realfd = fd]
              \/ files' = files
              \/ files' = [files EXCEPT ![p].size = 0]
  <2>1. files[p] \in Entry
    BY <1>1, <1>3 DEF TableInv, TypeOK, InTable
  <2>2. [files[p] EXCEPT !.size = 0] # Absent
    BY <2>1, ResizedType, Distinct, MaxSizeNat DEF Size
  <2>3. \A fd \in Fd : [files[p] EXCEPT !.realfd = fd] # Absent
    BY <2>1, ReopenedType, Distinct
  <2>4. \A x \in Path : InTable(x)' <=> InTable(x)
    BY <1>1, <1>3, <2>2, <2>3 DEF InTable, TableInv, TypeOK
  <2>5. handle' \in [Handle -> Path \union {Closed}]
    BY <1>1, <1>3 DEF TableInv, TypeOK
  <2>6. \A g \in Handle : handle'[g] = handle[g] \/ InTable(handle'[g])
    BY <1>3 DEF TableInv, TypeOK
  <2>7. QED
    BY <1>3, <2>4, <2>5, <2>6, SameNamesBacked DEF TableInv, TypeOK
<1>4. QED
  BY <1>2, <1>3 DEF l_open, OpenMeta, OpenData, FreeFd

(* l_read() keeps them.                                                    *)
LEMMA ReadBacked ==
  ASSUME TableInv, NEW h \in Handle, l_read(h)
  PROVE  Backed'
BY AnswerBacked DEF l_read, TableInv

(* l_write() keeps them.                                                   *)
LEMMA WriteBacked ==
  ASSUME TableInv, phase = "mounted", NEW h \in Handle, NEW e \in 1..MaxSize,
         l_write(h, e)
  PROVE  Backed'
<1> DEFINE p == handle[h]
<1>1. p \in Path /\ InTable(p) /\ e \in Size
  BY MaxSizeNat DEF TableInv, TypeOK, Backed, HandleNamed, l_write, Size
<1>2. files[p] \in Entry /\ files[p].size \in Size
  BY <1>1 DEF TableInv, TypeOK, InTable, Entry
<1>3. [files[p] EXCEPT !.size = Larger(@, e)] # Absent
  BY <1>1, <1>2, LargerType, ResizedType, Distinct
<1>4. \/ files' = files
      \/ files' = [files EXCEPT ![p] = [files[p] EXCEPT !.size = Larger(@, e)]]
  BY DEF l_write
<1>5. \A x \in Path : InTable(x)' <=> InTable(x)
  BY <1>1, <1>3, <1>4 DEF InTable, TableInv, TypeOK
<1>6. UNCHANGED <<real, handle, phase>>
  BY DEF l_write
<1>7. QED
  BY <1>5, <1>6, SameNamesBacked DEF TableInv, TypeOK

(* l_truncate() keeps them.                                                *)
LEMMA TruncateBacked ==
  ASSUME TableInv, phase = "mounted", NEW p \in UserPath, NEW n \in Size,
         l_truncate(p, n)
  PROVE  Backed'
<1>1. p \in Path
  BY DEF Path
<1>2. /\ UNCHANGED <<real, handle, phase>>
      /\ \/ files' = files
         \/ InTable(p) /\ files' = [files EXCEPT ![p].size = n]
  BY DEF l_truncate, Answer
<1>3. InTable(p) => [files[p] EXCEPT !.size = n] # Absent
  BY <1>1, ResizedType, Distinct DEF InTable, TableInv, TypeOK
<1>4. \A x \in Path : InTable(x)' <=> InTable(x)
  BY <1>1, <1>2, <1>3 DEF InTable, TableInv, TypeOK
<1>5. QED
  BY <1>2, <1>4, SameNamesBacked DEF TableInv, TypeOK

(* l_unlink() keeps them, whether or not the real file goes: no handle has *)
(* the name, and no other name has the real file.                          *)
LEMMA UnlinkBacked ==
  ASSUME TableInv, phase = "mounted", NEW p \in Path, ~IsOpen(p), l_unlink(p)
  PROVE  Backed'
<1>1. CASE Answer("unlink", "ENOENT")
  BY <1>1, AnswerBacked DEF TableInv
<1>2. CASE ~Answer("unlink", "ENOENT")
  <2>1. /\ files' = [files EXCEPT ![p] = Absent]
        /\ real' = real \/ real' = [real EXCEPT ![p] = NoInode]
        /\ UNCHANGED <<handle, phase>>
    BY <1>2 DEF l_unlink
  <2>2. \A x \in Path : InTable(x)' <=> InTable(x) /\ x # p
    BY <2>1 DEF InTable, TableInv, TypeOK
  <2>3. HandleNamed'
    BY <2>1, <2>2 DEF HandleNamed, TableInv, Backed, TypeOK, IsOpen
  <2>4. RealInjective'
    BY <2>1 DEF RealInjective, TableInv, Backed, TypeOK
  <2>5. EntryReal'
    BY <2>1, <2>2, MetaIsPath DEF EntryReal, TableInv, Backed, TypeOK
  <2>6. QED
    BY <2>1, <2>3, <2>4, <2>5 DEF ClosedWhenDown, TableInv, Backed
<1>3. QED
  BY <1>1, <1>2

(* l_rename() keeps them: what answered for the old name answers for the   *)
(* new one, and the new name's real file, if there was one, is lost.       *)
LEMMA RenameBacked ==
  ASSUME TableInv, phase = "mounted", NEW p \in Path, NEW q \in Path, NEW op,
         l_rename(p, q, op)
  PROVE  Backed'
<1> USE DEF TableInv, Backed
<1>1. CASE \E r \in Errno : Answer(op, r)
  BY <1>1, AnswerBacked
<1>2. CASE /\ ~InTable(q) /\ InTable(p)
           /\ is_meta_file(p) = is_meta_file(q)
           /\ is_meta_file(p) => real[p] # NoInode
           /\ real' = IF is_meta_file(p)
                      THEN [real EXCEPT ![q] = real[p], ![p] = NoInode] ELSE real
           /\ files' = Moved(files, p, q)
           /\ handle' = Followed(handle, p, q)
           /\ UNCHANGED phase
  <2>1. p # q
    BY <1>2
  <2>2. \A x \in Path : InTable(x)' <=> x = q \/ (InTable(x) /\ x # p)
    BY <1>2, <2>1, MovedEntries DEF InTable, TypeOK, Table
  <2>3. \A g \in Handle : handle'[g] = IF handle[g] = p THEN q ELSE handle[g]
    BY <1>2 DEF Followed
  <2>4. HandleNamed'
    BY <1>2, <2>2, <2>3 DEF HandleNamed, TypeOK
  <2>5. RealInjective'
    BY <1>2, <2>1 DEF RealInjective, TypeOK, is_meta_file
  <2>6. EntryReal'
    BY <1>2, <2>1, <2>2, MetaIsPath DEF EntryReal, TypeOK, is_meta_file
  <2>7. QED
    BY <1>2, <2>4, <2>5, <2>6 DEF ClosedWhenDown
<1>3. QED
  BY <1>1, <1>2 DEF l_rename, Errno

(* l_release() keeps them: what it removes has no other handle.            *)
LEMMA ReleaseBacked ==
  ASSUME TableInv, phase = "mounted", NEW h \in Handle, l_release(h)
  PROVE  Backed'
<1> USE DEF TableInv, Backed
<1> DEFINE p == handle[h]
<1>1. /\ \/ files' = files
         \/ /\ files' = [files EXCEPT ![p] = Absent]
            /\ \A g \in Handle \ {h} : handle[g] # p
      /\ handle' = [handle EXCEPT ![h] = Closed]
      /\ UNCHANGED <<real, phase>>
  BY DEF l_release
<1>2. HandleNamed'
  BY <1>1 DEF HandleNamed, InTable, TypeOK
<1>3. EntryReal'
  BY <1>1, MetaIsPath DEF EntryReal, InTable, TypeOK
<1>4. QED
  BY <1>1, <1>2, <1>3 DEF ClosedWhenDown, RealInjective

(* A rename onto an open name keeps them.                                  *)
LEMMA RenameOntoOpenBacked ==
  ASSUME TableInv, RenameOntoOpen
  PROVE  Backed'
<1> USE DEF TableInv, Backed
<1>1. PICK p \in UserPath, q \in UserPath, r \in HiddenPath :
         /\ p # q /\ IsOpen(q) /\ ~InTable(r)
         /\ \/ is_meta_file(q) /\ l_rename(q, r, "rename")
            \/ /\ ~is_meta_file(q)
               /\ InTable(p) /\ ~is_meta_file(p)
               /\ files' = Moved(Moved(files, q, r), p, q)
               /\ handle' = Followed(Followed(handle, q, r), p, q)
               /\ UNCHANGED <<real, length, fds, phase>>
            \/ /\ ~is_meta_file(q)
               /\ files' = Moved(files, q, r)
               /\ handle' = Followed(handle, q, r)
               /\ UNCHANGED <<real, length, fds, phase>>
  BY DEF RenameOntoOpen
<1>2. phase = "mounted" /\ p \in Path /\ q \in Path /\ r \in Path
  BY DEF Path, RenameOntoOpen
<1>3. InTable(q) /\ q # r /\ p # r
  <2>1. q # Closed
    BY <1>2, PathsDisjoint
  <2>2. QED
    BY <1>1, <1>2, <2>1, PathsDisjoint DEF IsOpen, HandleNamed
<1>4. r \notin MetaPath
  BY PathsDisjoint DEF UserPath
<1> DEFINE t == Moved(files, q, r)
           a == Followed(handle, q, r)
<1>5. /\ t \in Table
      /\ \A x \in Path : t[x] # Absent <=> x = r \/ (InTable(x) /\ x # q)
  BY <1>2, <1>3, MovedType, MovedEntries DEF TypeOK, Table, InTable
<1>6. \A g \in Handle : a[g] = IF handle[g] = q THEN r ELSE handle[g]
  BY DEF Followed
<1>7. CASE l_rename(q, r, "rename")
  BY <1>2, <1>7, RenameBacked
<1>8. CASE /\ ~is_meta_file(q)
           /\ InTable(p) /\ ~is_meta_file(p)
           /\ files' = Moved(t, p, q)
           /\ handle' = Followed(a, p, q)
           /\ UNCHANGED <<real, length, fds, phase>>
  <2>1. t[p] # Absent
    BY <1>1, <1>2, <1>5, <1>8
  <2>2. \A x \in Path : InTable(x)' <=> x = q \/ (t[x] # Absent /\ x # p)
    BY <1>1, <1>2, <1>5, <1>8, <2>1, MovedEntries DEF InTable
  <2>3. \A g \in Handle : handle'[g] = IF a[g] = p THEN q ELSE a[g]
    BY <1>8 DEF Followed
  <2>4. HandleNamed'
    BY <1>1, <1>2, <1>3, <1>5, <1>6, <2>2, <2>3, <1>8 DEF HandleNamed, TypeOK
  <2>5. EntryReal'
    BY <1>4, <1>5, <1>8, <2>2, MetaIsPath DEF EntryReal, is_meta_file
  <2>6. QED
    BY <1>2, <1>8, <2>4, <2>5 DEF ClosedWhenDown, RealInjective
<1>9. CASE /\ files' = t
           /\ handle' = a
           /\ UNCHANGED <<real, length, fds, phase>>
  <2>1. \A x \in Path : InTable(x)' <=> x = r \/ (InTable(x) /\ x # q)
    BY <1>5, <1>9 DEF InTable
  <2>2. HandleNamed'
    BY <1>2, <1>6, <1>9, <2>1 DEF HandleNamed, TypeOK
  <2>3. EntryReal'
    BY <1>4, <1>9, <2>1, MetaIsPath DEF EntryReal
  <2>4. QED
    BY <1>2, <1>9, <2>2, <2>3 DEF ClosedWhenDown, RealInjective
<1>10. QED
  BY <1>1, <1>7, <1>8, <1>9

(* Every step keeps them.                                                  *)
LEMMA NextBacked ==
  ASSUME TableInv, [Next]_vars
  PROVE  Backed'
<1>1. CASE Getattr
  BY <1>1, AnswerBacked DEF Getattr, l_getattr, TableInv
<1>2. CASE Create
  BY <1>2, CreateBacked DEF Create
<1>3. CASE Open
  BY <1>3, OpenBacked DEF Open
<1>4. CASE Read
  BY <1>4, ReadBacked DEF Read
<1>5. CASE Write
  BY <1>5, WriteBacked DEF Write
<1>6. CASE Truncate
  BY <1>6, TruncateBacked DEF Truncate
<1>7. CASE Release
  BY <1>7, ReleaseBacked DEF Release
<1>8. CASE Unlink
  BY <1>8, UnlinkBacked, RenameBacked DEF Unlink, Path
<1>9. CASE Rename
  BY <1>9, RenameBacked DEF Rename, Path
<1>10. CASE RenameOntoOpen
  BY <1>10, RenameOntoOpenBacked
<1>11. CASE Mount
  BY <1>11 DEF Mount, TableInv, TypeOK, Backed, ClosedWhenDown, HandleNamed,
               RealInjective, EntryReal, InTable, Path, UserPath
<1>12. CASE Unmount
  BY <1>12 DEF Unmount, l_destroy, l_init, TableInv, Backed, ClosedWhenDown,
               HandleNamed, RealInjective, EntryReal
<1>13. CASE Kill
  BY <1>13 DEF Kill, TableInv, Backed, ClosedWhenDown, HandleNamed,
               RealInjective, EntryReal
<1>14. CASE UNCHANGED vars
  BY <1>14 DEF vars, TableInv, Backed, ClosedWhenDown, HandleNamed,
               RealInjective, EntryReal, InTable
<1>15. QED
  BY <1>1, <1>2, <1>3, <1>4, <1>5, <1>6, <1>7, <1>8, <1>9, <1>10, <1>11,
     <1>12, <1>13, <1>14 DEF Next

(* The table invariant holds of every reachable state.                     *)
THEOREM TableInvariant == Spec => []TableInv
<1>1. Init => TableInv
  <2>1. Init => Backed
    BY DEF Init, Backed, ClosedWhenDown, HandleNamed, RealInjective, EntryReal
  <2>2. QED
    BY <2>1, InitType DEF TableInv
<1>2. TableInv /\ [Next]_vars => TableInv'
  BY NextType, NextBacked DEF TableInv, Backed
<1>3. QED
  BY <1>1, <1>2, PTL DEF Spec

(* Every variable of lfs.c keeps the values it is declared for.            *)
THEOREM TypeCorrect == Spec => []TypeOK
BY TableInvariant, PTL DEF TableInv

(* However files are opened, shared, renamed and unlinked, and whatever    *)
(* fails, the path of an open file is in the table: no handler called for  *)
(* an open file answers -ENOENT.                                           *)
THEOREM HandlesNamed == Spec => []HandleNamed
BY TableInvariant, PTL DEF TableInv, Backed

(* In every case each metafile listed has a real file of its own.          *)
THEOREM EntriesBacked == Spec => []EntryBacked
<1>1. TableInv => EntryBacked
  BY DEF TableInv, Backed, RealInjective, EntryReal, EntryBacked
<1>2. QED
  BY <1>1, TableInvariant, PTL

-----------------------------------------------------------------------------
(* Descriptors reach the right files, where a metafile is open once at a   *)
(* time.                                                                   *)

(* Every open metafile is connected to its real file: HandleServed.        *)
LEMMA ConnectedServes == AllConnected => HandleServed
BY DEF AllConnected, Connected, HandleServed, Reached

(* A step that leaves alone the real directory, the descriptors, which     *)
(* metafiles are open, and the realfd of those.                            *)
LEMMA QuietServed ==
  ASSUME ServedInv, UNCHANGED <<real, fds, phase>>,
         \A h \in Handle : handle'[h] \in MetaPath \/ handle[h] \in MetaPath
                             => handle'[h] = handle[h],
         \A h \in Handle : handle[h] \in MetaPath
                             => files'[handle[h]].realfd = files[handle[h]].realfd
  PROVE  Served'
<1> USE DEF ServedInv, Served
<1>1. Exclusive'
  BY DEF Exclusive
<1>2. AllConnected'
  BY DEF AllConnected, Connected
<1>3. NoFdLeak'
  <2>1. SUFFICES ASSUME phase = "mounted", NEW fd \in Fd, fds[fd] # NoInode
                 PROVE  \E h \in Handle : /\ handle'[h] \in MetaPath
                                          /\ files'[handle'[h]].realfd = fd
    BY DEF NoFdLeak
  <2>2. PICK h \in Handle : handle[h] \in MetaPath /\ files[handle[h]].realfd = fd
    BY <2>1 DEF NoFdLeak
  <2>3. QED
    BY <2>2
<1>4. QED
  BY <1>1, <1>2, <1>3

(* A step that only answers.                                               *)
LEMMA AnswerServed ==
  ASSUME ServedInv, NEW op, NEW ret, Answer(op, ret)
  PROVE  Served'
BY QuietServed DEF Answer

(* The name p gets the free descriptor fd on its real file, and the closed *)
(* handle h: l_create() and l_open() on a metafile that is not open.       *)
LEMMA ConnectServed ==
  ASSUME ServedInv, phase = "mounted", phase' = phase,
         NEW h \in Handle, NEW p \in MetaPath, NEW fd \in FreeFd,
         NEW i \in Inode,
         handle[h] = Closed, ~IsOpen(p),
         files'[p].realfd = fd,
         \A x \in MetaPath : x # p => files'[x] = files[x],
         real' = [real EXCEPT ![p] = i],
         fds' = [fds EXCEPT ![fd] = i],
         handle' = [handle EXCEPT ![h] = p]
  PROVE  Served'
<1> USE DEF ServedInv, Served
<1>1. fd \in Fd /\ fds[fd] = NoInode
  BY DEF FreeFd
<1>2. \A g \in Handle : handle'[g] = IF g = h THEN p ELSE handle[g]
  BY DEF TableInv, TypeOK
<1>3. \A g \in Handle : handle[g] # p
  BY DEF IsOpen
<1>4. Exclusive'
  BY <1>2, <1>3 DEF Exclusive
<1>5. \A f \in Fd : fds'[f] = IF f = fd THEN i ELSE fds[f]
  BY DEF TableInv, TypeOK
<1>6. \A x \in MetaPath : real'[x] = IF x = p THEN i ELSE real[x]
  BY DEF TableInv, TypeOK
<1>7. AllConnected'
  <2>1. SUFFICES ASSUME NEW g \in Handle, NEW x \in MetaPath, handle'[g] = x
                 PROVE  Connected(x)'
    BY DEF AllConnected
  <2>2. CASE g = h
    BY <1>1, <1>2, <1>5, <1>6, <2>1, <2>2, Distinct DEF Connected
  <2>3. CASE g # h
    <3>1. handle[g] = x /\ x # p
      BY <1>2, <1>3, <2>1, <2>3
    <3>2. Connected(x)
      BY <3>1 DEF AllConnected
    <3>3. QED
      BY <1>1, <1>5, <1>6, <3>1, <3>2 DEF Connected
  <2>4. QED
    BY <2>2, <2>3
<1>8. NoFdLeak'
  <2>1. SUFFICES ASSUME NEW f \in Fd, fds'[f] # NoInode
                 PROVE  \E g \in Handle : /\ handle'[g] \in MetaPath
                                          /\ files'[handle'[g]].realfd = f
    BY DEF NoFdLeak
  <2>2. CASE f = fd
    BY <1>2, <2>2
  <2>3. CASE f # fd
    <3>1. PICK g \in Handle : handle[g] \in MetaPath /\ files[handle[g]].realfd = f
      BY <1>5, <2>1, <2>3 DEF NoFdLeak
    <3>2. g # h
      BY <3>1, PathsDisjoint, MetaIsPath
    <3>3. QED
      BY <1>2, <1>3, <3>1, <3>2
  <2>4. QED
    BY <2>2, <2>3
<1>9. QED
  BY <1>4, <1>7, <1>8

(* A metafile in the table whose name no handle has is not open.           *)
LEMMA AbsentNotOpen ==
  ASSUME TableInv, phase = "mounted", NEW p \in Path, ~InTable(p)
  PROVE  ~IsOpen(p)
BY PathsDisjoint DEF TableInv, Backed, HandleNamed, IsOpen

(* l_create().                                                             *)
LEMMA CreateServed ==
  ASSUME ServedInv, phase = "mounted", NEW h \in Handle, NEW p \in UserPath,
         NEW excl \in BOOLEAN, ~InTable(p), l_create(h, p, excl)
  PROVE  Served'
<1>1. p \in Path /\ handle[h] = Closed
  BY DEF Path, l_create
<1>2. CASE Answer("create", "EIO")
  BY <1>2, AnswerServed
<1>3. CASE is_meta_file(p) /\ CreateMeta(h, p) /\ ~Answer("create", "EIO")
  <2>1. PICK fd \in FreeFd, i \in IF real[p] = NoInode THEN FreeInode ELSE {real[p]} :
           /\ files' = [files EXCEPT ![p] =
                          [size |-> 0, realfd |-> fd, pattern |-> Uninit]]
           /\ real' = [real EXCEPT ![p] = i]
           /\ fds' = [fds EXCEPT ![fd] = i]
           /\ handle' = [handle EXCEPT ![h] = p]
           /\ phase' = phase
    BY <1>3 DEF CreateMeta
  <2>2. i \in Inode
    BY <1>3 DEF FreeInode, ServedInv, TableInv, TypeOK, is_meta_file
  <2>3. files'[p].realfd = fd
    BY <1>1, <2>1 DEF ServedInv, TableInv, TypeOK
  <2>4. \A x \in MetaPath : x # p => files'[x] = files[x]
    BY <2>1, MetaIsPath DEF ServedInv, TableInv, TypeOK
  <2>5. ~IsOpen(p)
    BY <1>1, AbsentNotOpen DEF ServedInv
  <2>6. QED
    BY <1>1, <1>3, <2>1, <2>2, <2>3, <2>4, <2>5, ConnectServed DEF is_meta_file
<1>4. CASE ~is_meta_file(p) /\ CreateData(h, p)
  <2>1. \A g \in Handle : handle'[g] = IF g = h THEN p ELSE handle[g]
    BY <1>4 DEF CreateData, ServedInv, TableInv, TypeOK
  <2>2. \A g \in Handle : handle[g] \in MetaPath => files'[handle[g]] = files[handle[g]]
    BY <1>4, MetaIsPath DEF CreateData, ServedInv, TableInv, TypeOK, is_meta_file
  <2>3. Closed \notin MetaPath
    BY PathsDisjoint, MetaIsPath
  <2>4. UNCHANGED <<real, fds, phase>>
    BY <1>4 DEF CreateData
  <2>5. QED
    BY <1>1, <1>4, <2>1, <2>2, <2>3, <2>4, QuietServed DEF is_meta_file
<1>5. QED
  BY <1>2, <1>3, <1>4 DEF l_create, CreateMeta

(* l_open().                                                               *)
LEMMA OpenServed ==
  ASSUME ServedInv, phase = "mounted", NEW h \in Handle, NEW p \in UserPath,
         NEW trunc \in BOOLEAN, is_meta_file(p) => ~IsOpen(p), l_open(h, p, trunc)
  PROVE  Served'
<1> DEFINE op == IF trunc THEN "opentrunc" ELSE "open"
<1>1. p \in Path /\ handle[h] = Closed
  BY DEF Path, l_open
<1>2. CASE Answer(op, "ENOENT") \/ Answer(op, "EIO")
  BY <1>2, AnswerServed
<1>3. CASE is_meta_file(p) /\ InTable(p) /\ OpenMeta(h, p, op) /\ ~Answer(op, "EIO")
  <2>1. PICK fd \in FreeFd :
           /\ real[p] # NoInode
           /\ files' = [files EXCEPT ![p].realfd = fd]
           /\ fds' = [fds EXCEPT ![fd] = real[p]]
           /\ handle' = [handle EXCEPT ![h] = p]
           /\ UNCHANGED <<real, phase>>
    BY <1>3 DEF OpenMeta
  <2>2. p \in MetaPath /\ real[p] \in Inode
    BY <1>3, <2>1 DEF is_meta_file, ServedInv, TableInv, TypeOK
  <2>3. files[p] \in Entry
    BY <1>1, <1>3 DEF ServedInv, TableInv, TypeOK, InTable
  <2>4. files'[p].realfd = fd
    BY <1>1, <2>1, <2>3 DEF ServedInv, TableInv, TypeOK, Entry
  <2>5. \A x \in MetaPath : x # p => files'[x] = files[x]
    BY <2>1, MetaIsPath DEF ServedInv, TableInv, TypeOK
  <2>6. real' = [real EXCEPT ![p] = real[p]]
    BY <2>1, <2>2 DEF ServedInv, TableInv, TypeOK
  <2>7. QED
    BY <1>1, <1>3, <2>1, <2>2, <2>4, <2>5, <2>6, ConnectServed
<1>4. CASE ~is_meta_file(p) /\ OpenData(h, p, trunc, op)
  <2>1. \A g \in Handle : handle'[g] = IF g = h THEN p ELSE handle[g]
    BY <1>4 DEF OpenData, ServedInv, TableInv, TypeOK
  <2>2. \A g \in Handle : handle[g] \in MetaPath => files'[handle[g]] = files[handle[g]]
    BY <1>4, MetaIsPath DEF OpenData, ServedInv, TableInv, TypeOK, is_meta_file
  <2>3. Closed \notin MetaPath
    BY PathsDisjoint, MetaIsPath
  <2>4. UNCHANGED <<real, fds, phase>>
    BY <1>4 DEF OpenData
  <2>5. QED
    BY <1>1, <1>4, <2>1, <2>2, <2>3, <2>4, QuietServed DEF is_meta_file
<1>5. QED
  BY <1>2, <1>3, <1>4 DEF l_open

(* l_write() and l_truncate() leave entries connected.                     *)
LEMMA WriteServed ==
  ASSUME ServedInv, NEW h \in Handle, NEW e \in 1..MaxSize, l_write(h, e)
  PROVE  Served'
<1>1. UNCHANGED <<real, fds, handle, phase>>
  BY DEF l_write
<1>2. \A p \in MetaPath : files'[p] = files[p]
  BY MetaIsPath DEF l_write, is_meta_file, ServedInv, TableInv, TypeOK
<1>3. QED
  BY <1>1, <1>2, QuietServed

LEMMA TruncateServed ==
  ASSUME ServedInv, NEW p \in UserPath, NEW n \in Size, l_truncate(p, n)
  PROVE  Served'
<1>1. UNCHANGED <<real, fds, handle, phase>>
  BY DEF l_truncate, Answer
<1>2. \A x \in MetaPath : files'[x] = files[x]
  BY MetaIsPath DEF l_truncate, Answer, is_meta_file, ServedInv, TableInv, TypeOK
<1>3. QED
  BY <1>1, <1>2, QuietServed

(* l_unlink() of a file that is not open.                                  *)
LEMMA UnlinkServed ==
  ASSUME ServedInv, NEW p \in Path, ~IsOpen(p), l_unlink(p)
  PROVE  Served'
<1> USE DEF ServedInv, Served
<1>1. CASE Answer("unlink", "ENOENT")
  BY <1>1, AnswerServed
<1>2. CASE ~Answer("unlink", "ENOENT")
  <2>1. /\ files' = [files EXCEPT ![p] = Absent]
        /\ real' = real \/ real' = [real EXCEPT ![p] = NoInode]
        /\ UNCHANGED <<fds, handle, phase>>
    BY <1>2 DEF l_unlink
  <2>2. \A h \in Handle : handle[h] \in MetaPath =>
           files'[handle[h]] = files[handle[h]] /\ real'[handle[h]] = real[handle[h]]
    BY <2>1, MetaIsPath DEF TableInv, TypeOK, IsOpen
  <2>3. Exclusive'
    BY <2>1 DEF Exclusive
  <2>4. AllConnected'
    BY <2>1, <2>2 DEF AllConnected, Connected
  <2>5. NoFdLeak'
    BY <2>1, <2>2 DEF NoFdLeak
  <2>6. QED
    BY <2>3, <2>4, <2>5
<1>3. QED
  BY <1>1, <1>2

(* l_rename(): handle, entry and real file change their name together.     *)
LEMMA RenameServed ==
  ASSUME ServedInv, phase = "mounted", NEW p \in Path, NEW q \in Path, NEW op,
         l_rename(p, q, op)
  PROVE  Served'
<1> USE DEF ServedInv, Served
<1>1. CASE \E r \in Errno : Answer(op, r)
  BY <1>1, AnswerServed
<1>2. CASE /\ ~InTable(q) /\ InTable(p)
           /\ is_meta_file(p) = is_meta_file(q)
           /\ is_meta_file(p) => real[p] # NoInode
           /\ real' = IF is_meta_file(p)
                      THEN [real EXCEPT ![q] = real[p], ![p] = NoInode] ELSE real
           /\ files' = Moved(files, p, q)
           /\ handle' = Followed(handle, p, q)
           /\ UNCHANGED <<fds, phase>>
  <2>1. p # q
    BY <1>2
  <2>2. /\ files'[q].realfd = files[p].realfd
        /\ \A x \in Path : x # p /\ x # q => files'[x] = files[x]
    BY <1>2, <2>1, MovedEntries DEF TableInv, TypeOK, Table, InTable
  <2>3. \A g \in Handle : handle'[g] = IF handle[g] = p THEN q ELSE handle[g]
    BY <1>2 DEF Followed
  <2>4. \A g \in Handle : handle[g] # q
    BY <1>2, AbsentNotOpen DEF IsOpen
  <2>5. p \in MetaPath <=> q \in MetaPath
    BY <1>2 DEF is_meta_file
  <2>6. /\ p \in MetaPath => real'[q] = real[p]
        /\ \A x \in MetaPath : x # p /\ x # q => real'[x] = real[x]
    BY <1>2, <2>1, <2>5 DEF TableInv, TypeOK, is_meta_file
  <2>7. Exclusive'
    BY <2>3, <2>4, <2>5 DEF Exclusive
  <2>8. AllConnected'
    <3>1. SUFFICES ASSUME NEW g \in Handle, NEW x \in MetaPath, handle'[g] = x
                   PROVE  Connected(x)'
      BY DEF AllConnected
    <3>2. handle[g] \in MetaPath /\ Connected(handle[g])
      BY <2>3, <2>5, <3>1 DEF AllConnected
    <3>3. UNCHANGED fds
      BY <1>2
    <3>4. CASE handle[g] = p
      <4>1. x = q /\ files'[x].realfd = files[p].realfd /\ real'[x] = real[p]
        BY <2>2, <2>3, <2>6, <3>1, <3>2, <3>4
      <4> QED BY <3>2, <3>3, <3>4, <4>1 DEF Connected
    <3>5. CASE handle[g] # p
      <4>1. /\ x = handle[g] /\ x # q
            /\ files'[x] = files[x] /\ real'[x] = real[x]
        BY <2>2, <2>3, <2>4, <2>6, <3>1, <3>2, <3>5, MetaIsPath
      <4> QED BY <3>2, <3>3, <4>1 DEF Connected
    <3> QED BY <3>4, <3>5
  <2>9. NoFdLeak'
    <3>1. SUFFICES ASSUME NEW f \in Fd, fds[f] # NoInode
                   PROVE  \E g \in Handle : /\ handle'[g] \in MetaPath
                                            /\ files'[handle'[g]].realfd = f
      BY <1>2 DEF NoFdLeak
    <3>2. PICK g \in Handle : handle[g] \in MetaPath /\ files[handle[g]].realfd = f
      BY <3>1 DEF NoFdLeak
    <3>3. QED
      BY <2>2, <2>3, <2>4, <2>5, <3>2, MetaIsPath
  <2>10. QED
    BY <2>7, <2>8, <2>9
<1>3. QED
  BY <1>1, <1>2 DEF l_rename, Errno

(* l_release(): as nobody else has the file open, the descriptor closed is *)
(* the one this handle opened.                                             *)
LEMMA ReleaseServed ==
  ASSUME ServedInv, phase = "mounted", NEW h \in Handle, l_release(h)
  PROVE  Served'
<1> USE DEF ServedInv, Served
<1> DEFINE p == handle[h]
<1>1. /\ p # Closed /\ p \in Path /\ InTable(p)
      /\ handle' = [handle EXCEPT ![h] = Closed]
      /\ UNCHANGED <<real, phase>>
  BY DEF l_release, TableInv, TypeOK, Backed, HandleNamed
<1>2. \A g \in Handle : handle'[g] = IF g = h THEN Closed ELSE handle[g]
  BY <1>1 DEF TableInv, TypeOK
<1>3. Closed \notin MetaPath
  BY PathsDisjoint, MetaIsPath
<1>4. \A x \in MetaPath : files'[x] = files[x]
  BY MetaIsPath, PathsDisjoint DEF l_release, TableInv, TypeOK, UserPath
<1>5. Exclusive'
  BY <1>2, <1>3 DEF Exclusive
<1>6. CASE p \notin MetaPath
  <2>1. fds' = fds
    BY <1>6 DEF l_release, is_meta_file
  <2>2. AllConnected'
    BY <1>1, <1>2, <1>3, <1>4, <2>1 DEF AllConnected, Connected
  <2>3. NoFdLeak'
    <3>1. SUFFICES ASSUME NEW f \in Fd, fds[f] # NoInode
                   PROVE  \E g \in Handle : /\ handle'[g] \in MetaPath
                                            /\ files'[handle'[g]].realfd = f
      BY <2>1 DEF NoFdLeak
    <3>2. PICK g \in Handle : handle[g] \in MetaPath /\ files[handle[g]].realfd = f
      BY <3>1 DEF NoFdLeak
    <3>3. QED
      BY <1>2, <1>4, <1>6, <3>2
  <2>4. QED
    BY <1>5, <2>2, <2>3
<1>7. CASE p \in MetaPath
  <2> DEFINE fd == files[p].realfd
  <2>1. Connected(p)
    BY <1>7 DEF AllConnected
  <2>2. fds' = [fds EXCEPT ![fd] = NoInode]
    BY <1>1, <1>7, <2>1 DEF l_release, is_meta_file, Connected
  <2>3. \A f \in Fd : fds'[f] = IF f = fd THEN NoInode ELSE fds[f]
    BY <2>1, <2>2 DEF TableInv, TypeOK, Connected
  <2>4. AllConnected'
    <3>1. SUFFICES ASSUME NEW g \in Handle, NEW x \in MetaPath, handle'[g] = x
                   PROVE  Connected(x)'
      BY DEF AllConnected
    <3>2. g # h /\ handle[g] = x /\ x # p
      BY <1>2, <1>3, <1>7, <3>1 DEF Exclusive
    <3>3. Connected(x)
      BY <3>2 DEF AllConnected
    <3>4. real[x] # real[p]
      BY <1>7, <2>1, <3>2, <3>3 DEF RealInjective, TableInv, Backed, Connected
    <3>5. files[x].realfd # fd
      BY <2>1, <3>3, <3>4 DEF Connected
    <3>6. QED
      BY <1>1, <1>4, <2>3, <3>3, <3>5 DEF Connected
  <2>5. NoFdLeak'
    <3>1. SUFFICES ASSUME NEW f \in Fd, fds'[f] # NoInode
                   PROVE  \E g \in Handle : /\ handle'[g] \in MetaPath
                                            /\ files'[handle'[g]].realfd = f
      BY DEF NoFdLeak
    <3>2. f # fd /\ fds[f] # NoInode
      BY <2>3, <3>1
    <3>3. PICK g \in Handle : handle[g] \in MetaPath /\ files[handle[g]].realfd = f
      BY <3>2 DEF NoFdLeak
    <3>4. QED
      BY <1>2, <1>4, <3>2, <3>3
  <2>6. QED
    BY <1>5, <2>4, <2>5
<1>8. QED
  BY <1>6, <1>7

(* A rename onto an open name concerns data files only, or fails.          *)
LEMMA RenameOntoOpenServed ==
  ASSUME ServedInv, RenameOntoOpen
  PROVE  Served'
<1>1. PICK p \in UserPath, q \in UserPath, r \in HiddenPath :
         /\ p # q /\ IsOpen(q) /\ ~InTable(r)
         /\ \/ is_meta_file(q) /\ l_rename(q, r, "rename")
            \/ /\ ~is_meta_file(q)
               /\ InTable(p) /\ ~is_meta_file(p)
               /\ files' = Moved(Moved(files, q, r), p, q)
               /\ handle' = Followed(Followed(handle, q, r), p, q)
               /\ UNCHANGED <<real, length, fds, phase>>
            \/ /\ ~is_meta_file(q)
               /\ files' = Moved(files, q, r)
               /\ handle' = Followed(handle, q, r)
               /\ UNCHANGED <<real, length, fds, phase>>
  BY DEF RenameOntoOpen
<1>2. phase = "mounted" /\ p \in Path /\ q \in Path /\ r \in Path /\ r \notin MetaPath
  BY PathsDisjoint DEF Path, UserPath, RenameOntoOpen
<1>3. CASE l_rename(q, r, "rename")
  BY <1>2, <1>3, RenameServed
<1>4. CASE /\ ~is_meta_file(q) /\ ~is_meta_file(p)
           /\ files' = Moved(Moved(files, q, r), p, q)
           /\ handle' = Followed(Followed(handle, q, r), p, q)
           /\ UNCHANGED <<real, length, fds, phase>>
  <2>1. \A x \in MetaPath : files'[x] = files[x]
    BY <1>2, <1>4, MetaIsPath
       DEF Moved, is_meta_file, ServedInv, TableInv, TypeOK
  <2>2. \A g \in Handle : handle'[g] \in MetaPath \/ handle[g] \in MetaPath
                             => handle'[g] = handle[g]
    BY <1>2, <1>4 DEF Followed, is_meta_file
  <2>3. QED
    BY <1>4, <2>1, <2>2, QuietServed
<1>5. CASE /\ ~is_meta_file(q)
           /\ files' = Moved(files, q, r)
           /\ handle' = Followed(handle, q, r)
           /\ UNCHANGED <<real, length, fds, phase>>
  <2>1. \A x \in MetaPath : files'[x] = files[x]
    BY <1>2, <1>5, MetaIsPath
       DEF Moved, is_meta_file, ServedInv, TableInv, TypeOK
  <2>2. \A g \in Handle : handle'[g] \in MetaPath \/ handle[g] \in MetaPath
                             => handle'[g] = handle[g]
    BY <1>2, <1>5 DEF Followed, is_meta_file
  <2>3. QED
    BY <1>5, <2>1, <2>2, QuietServed
<1>6. QED
  BY <1>1, <1>3, <1>4, <1>5

(* Every step keeps descriptors and files matched.                         *)
LEMMA NextServed ==
  ASSUME ~Sharing, ~RacyCreate, ServedInv, [Next]_vars
  PROVE  Served'
<1>1. CASE Getattr
  BY <1>1, AnswerServed DEF Getattr, l_getattr
<1>2. CASE Create
  BY <1>2, CreateServed DEF Create
<1>3. CASE Open
  BY <1>3, OpenServed DEF Open
<1>4. CASE Read
  BY <1>4, AnswerServed DEF Read, l_read
<1>5. CASE Write
  BY <1>5, WriteServed DEF Write
<1>6. CASE Truncate
  BY <1>6, TruncateServed DEF Truncate
<1>7. CASE Release
  BY <1>7, ReleaseServed DEF Release
<1>8. CASE Unlink
  BY <1>8, UnlinkServed, RenameServed DEF Unlink, Path
<1>9. CASE Rename
  BY <1>9, RenameServed DEF Rename, Path
<1>10. CASE RenameOntoOpen
  BY <1>10, RenameOntoOpenServed
<1>11. CASE Mount
  <2>1. \A h \in Handle : handle'[h] \notin MetaPath
    BY <1>11, PathsDisjoint, MetaIsPath
       DEF Mount, ServedInv, TableInv, Backed, ClosedWhenDown
  <2>2. \A fd \in Fd : fds'[fd] = NoInode
    BY <1>11 DEF Mount
  <2>3. QED
    BY <2>1, <2>2 DEF Served, Exclusive, AllConnected, NoFdLeak
<1>12. CASE Unmount
  <2>1. \A h \in Handle : handle'[h] \notin MetaPath
    BY <1>12, PathsDisjoint, MetaIsPath DEF Unmount
  <2>2. phase' = "segfault"
    BY <1>12 DEF Unmount, l_destroy, l_init
  <2>3. QED
    BY <2>1, <2>2 DEF Served, Exclusive, AllConnected, NoFdLeak
<1>13. CASE Kill
  <2>1. \A h \in Handle : handle'[h] \notin MetaPath
    BY <1>13, PathsDisjoint, MetaIsPath DEF Kill
  <2>2. phase' = "down"
    BY <1>13 DEF Kill
  <2>3. QED
    BY <2>1, <2>2 DEF Served, Exclusive, AllConnected, NoFdLeak
<1>14. CASE UNCHANGED vars
  BY <1>14, QuietServed DEF vars
<1>15. QED
  BY <1>1, <1>2, <1>3, <1>4, <1>5, <1>6, <1>7, <1>8, <1>9, <1>10, <1>11,
     <1>12, <1>13, <1>14 DEF Next

(* Where metafiles are open once at a time and CREATE is sent for new      *)
(* names only, descriptors and files match in every reachable state.       *)
THEOREM ServedInvariant ==
  ASSUME ~Sharing, ~RacyCreate
  PROVE  Spec => []ServedInv
<1>1. Init => ServedInv
  <2>1. Init => TableInv
    BY InitType DEF Init, TableInv, Backed, ClosedWhenDown, HandleNamed,
                    RealInjective, EntryReal
  <2>2. Init => Served
    BY PathsDisjoint, MetaIsPath
       DEF Init, Served, Exclusive, AllConnected, NoFdLeak
  <2>3. QED
    BY <2>1, <2>2 DEF ServedInv
<1>2. ServedInv /\ [Next]_vars => ServedInv'
  BY NextType, NextBacked, NextServed DEF ServedInv, TableInv, Backed
<1>3. QED
  BY <1>1, <1>2, PTL DEF Spec

(* Then an open metafile is read and written in the real file of its name  *)
(* and in no other, whatever was renamed, unlinked or recreated meanwhile. *)
THEOREM HandlesServed ==
  ASSUME ~Sharing, ~RacyCreate
  PROVE  Spec => []HandleServed
<1>1. ServedInv => HandleServed
  BY ConnectedServes DEF ServedInv, Served
<1>2. QED
  BY <1>1, ServedInvariant, PTL

(* And no descriptor is kept for a file that is not open.                  *)
THEOREM NoFdsLeaked ==
  ASSUME ~Sharing, ~RacyCreate
  PROVE  Spec => []NoFdLeak
<1>1. ServedInv => NoFdLeak
  BY DEF ServedInv, Served
<1>2. QED
  BY <1>1, ServedInvariant, PTL

-----------------------------------------------------------------------------
(* Lfs implements FlatDir: each request is one step of the directory that  *)
(* users are promised, or changes nothing of it.                           *)

(* What an action does to the directory.                                   *)
Sets(p, file) ==
  \A x \in Path : FileOf(x)' = IF x = p THEN file ELSE FileOf(x)

Moves(p, q) ==
  \A x \in Path : FileOf(x)' = IF x = q THEN FileOf(p)
                               ELSE IF x = p THEN Absent ELSE FileOf(x)

Keeps == \A x \in Path : FileOf(x)' = FileOf(x)

(* What it does to the open files.                                         *)
Opens(h, p) == \A g \in Handle : handle'[g] = IF g = h THEN p ELSE handle[g]

Follows(p, q) ==
  \A g \in Handle : handle'[g] = IF handle[g] = p THEN q ELSE handle[g]

(* The types of the handles before and after.                              *)
HandleTypes ==
  /\ handle \in [Handle -> Path \union {Closed}]
  /\ handle' \in [Handle -> Path \union {Closed}]

Granted(op) == reply'.op = op /\ reply'.ret = "OK"

(* A step of the whole directory, and a step of that of the data files.    *)
Step == Dir!Next /\ (DataDir!Next \/ DataDir!Elsewhere)
-----------------------------------------------------------------------------
(* Effects that are steps.                                                 *)

(* Creating.                                                               *)
LEMMA CreateStep ==
  ASSUME HandleTypes, NEW h \in Handle, NEW p \in Path,
         NEW c \in Inode \union Pattern \union {Uninit},
         p \notin MetaPath => c \in Pattern \union {Uninit},
         handle[h] = Closed, FileOf(p) = Absent,
         Sets(p, [len |-> 0, content |-> c]), Opens(h, p), Granted("create")
  PROVE  Step
<1>1. Dir!Create(h, p, c)
  BY DEF Dir!Create, Dir!Exists, Dir!Done, Granted, Sets, Opens, HandleTypes
<1>2. CASE p \notin MetaPath
  <2>1. DataDir!Create(h, p, c)
    BY <1>2, PathsDisjoint, MetaIsPath
       DEF DataDir!Create, DataDir!Exists, DataDir!Done, Granted, Sets, Opens, HandleTypes
  <2>2. QED
    BY <1>1, <1>2, <2>1 DEF Step, Dir!Next, DataDir!Next
<1>3. CASE p \in MetaPath
  <2>1. DataDir!Elsewhere
    BY <1>3, PathsDisjoint, MetaIsPath DEF DataDir!Elsewhere, Sets, Opens, HandleTypes
  <2>2. QED
    BY <1>1, <2>1 DEF Step, Dir!Next
<1>4. QED
  BY <1>2, <1>3

(* Opening.                                                                *)
LEMMA OpenStep ==
  ASSUME HandleTypes, NEW h \in Handle, NEW p \in Path,
         handle[h] = Closed, FileOf(p) # Absent,
         Keeps, Opens(h, p), Granted("open")
  PROVE  Step
<1>1. Dir!Open(h, p)
  BY DEF Dir!Open, Dir!Exists, Dir!Done, Granted, Keeps, Opens, HandleTypes
<1>2. CASE p \notin MetaPath
  <2>1. DataDir!Open(h, p)
    BY <1>2, PathsDisjoint, MetaIsPath
       DEF DataDir!Open, DataDir!Exists, DataDir!Done, Granted, Keeps, Opens, HandleTypes
  <2>2. QED
    BY <1>1, <1>2, <2>1 DEF Step, Dir!Next, DataDir!Next
<1>3. CASE p \in MetaPath
  <2>1. DataDir!Elsewhere
    BY <1>3, PathsDisjoint, MetaIsPath DEF DataDir!Elsewhere, Keeps, Opens, HandleTypes
  <2>2. QED
    BY <1>1, <2>1 DEF Step, Dir!Next
<1>4. QED
  BY <1>2, <1>3

(* Opening a data file that is emptied.                                    *)
LEMMA OpenEmptiedStep ==
  ASSUME HandleTypes, NEW h \in Handle, NEW p \in Path, p \notin MetaPath,
         handle[h] = Closed, FileOf(p) # Absent,
         Sets(p, [FileOf(p) EXCEPT !.len = 0]), Opens(h, p),
         Granted("create") \/ Granted("opentrunc")
  PROVE  Step
<1>1. Dir!OpenEmptied(h, p)
  BY DEF Dir!OpenEmptied, Dir!Exists, Dir!Done, Granted, Sets, Opens, HandleTypes
<1>2. DataDir!OpenEmptied(h, p)
  BY PathsDisjoint, MetaIsPath
     DEF DataDir!OpenEmptied, DataDir!Exists, DataDir!Done, Granted, Sets, Opens,
         HandleTypes
<1>3. QED
  BY <1>1, <1>2 DEF Step, Dir!Next, DataDir!Next

(* Closing.                                                                *)
LEMMA CloseStep ==
  ASSUME HandleTypes, NEW h \in Handle, handle[h] # Closed,
         IF handle[h] \in HiddenPath /\ \A g \in Handle \ {h} : handle[g] # handle[h]
         THEN Sets(handle[h], Absent) ELSE Keeps,
         Opens(h, Closed), Granted("release")
  PROVE  Step
<1>1. Dir!Close(h)
  BY DEF Dir!Close, Dir!Done, Granted, Sets, Keeps, Opens, HandleTypes
<1>2. CASE handle[h] \notin MetaPath
  <2>1. HiddenPath \intersect MetaPath = {} /\ Closed \notin MetaPath
    BY PathsDisjoint, MetaIsPath DEF UserPath
  <2>2. DataDir!Close(h)
    BY <1>2, <2>1
       DEF DataDir!Close, DataDir!Done, Granted, Sets, Keeps, Opens, HandleTypes
  <2>3. QED
    BY <1>1, <2>2 DEF Step, Dir!Next, DataDir!Next
<1>3. CASE handle[h] \in MetaPath
  <2>1. Keeps
    BY <1>3, PathsDisjoint DEF UserPath
  <2>2. DataDir!Elsewhere
    BY <1>3, <2>1, PathsDisjoint, MetaIsPath
       DEF DataDir!Elsewhere, Keeps, Opens, HandleTypes
  <2>3. QED
    BY <1>1, <2>2 DEF Step, Dir!Next
<1>4. QED
  BY <1>2, <1>3

(* Writing.                                                                *)
LEMMA WriteStep ==
  ASSUME HandleTypes, NEW h \in Handle, NEW e \in 1..MaxSize,
         handle[h] # Closed, FileOf(handle[h]) # Absent,
         Sets(handle[h], [FileOf(handle[h]) EXCEPT !.len = IF e > @ THEN e ELSE @]),
         UNCHANGED handle, Granted("write"), reply'.through = h
  PROVE  Step
<1>1. Dir!Write(h, e)
  BY DEF Dir!Write, Dir!Exists, Dir!Done, Granted, Sets, HandleTypes
<1>2. CASE handle[h] \notin MetaPath
  <2>1. DataDir!Write(h, e)
    BY <1>2, PathsDisjoint, MetaIsPath
       DEF DataDir!Write, DataDir!Exists, DataDir!Done, Granted, Sets, HandleTypes
  <2>2. QED
    BY <1>1, <2>1 DEF Step, Dir!Next, DataDir!Next
<1>3. CASE handle[h] \in MetaPath
  <2>1. DataDir!Elsewhere
    BY <1>3 DEF DataDir!Elsewhere, Sets
  <2>2. QED
    BY <1>1, <2>1 DEF Step, Dir!Next
<1>4. QED
  BY <1>2, <1>3

(* Truncating.                                                             *)
LEMMA ResizeStep ==
  ASSUME NEW p \in Path, NEW n \in Size, FileOf(p) # Absent,
         Sets(p, [FileOf(p) EXCEPT !.len = n]), UNCHANGED handle,
         Granted("truncate")
  PROVE  Step
<1>1. Dir!Resize(p, n)
  BY DEF Dir!Resize, Dir!Exists, Dir!Done, Granted, Sets
<1>2. CASE p \notin MetaPath
  <2>1. DataDir!Resize(p, n)
    BY <1>2 DEF DataDir!Resize, DataDir!Exists, DataDir!Done, Granted, Sets
  <2>2. QED
    BY <1>1, <1>2, <2>1 DEF Step, Dir!Next, DataDir!Next, Size
<1>3. CASE p \in MetaPath
  <2>1. DataDir!Elsewhere
    BY <1>3 DEF DataDir!Elsewhere, Sets
  <2>2. QED
    BY <1>1, <2>1 DEF Step, Dir!Next, Size
<1>4. QED
  BY <1>2, <1>3

(* Unlinking what is not open.                                             *)
LEMMA RemoveStep ==
  ASSUME NEW p \in Path, FileOf(p) # Absent, ~IsOpen(p),
         Sets(p, Absent), UNCHANGED handle, reply'.op = "unlink"
  PROVE  Step
<1>1. Dir!Remove(p)
  BY DEF Dir!Remove, Dir!Exists, Dir!IsOpen, IsOpen, Sets
<1>2. CASE p \notin MetaPath
  <2>1. \A h \in Handle : (IF handle[h] \in MetaPath THEN Closed ELSE handle[h]) # p
    BY PathsDisjoint DEF IsOpen
  <2>2. DataDir!Remove(p)
    BY <1>2, <2>1 DEF DataDir!Remove, DataDir!Exists, DataDir!IsOpen, Sets
  <2>3. QED
    BY <1>1, <1>2, <2>2 DEF Step, Dir!Next, DataDir!Next
<1>3. CASE p \in MetaPath
  <2>1. DataDir!Elsewhere
    BY <1>3 DEF DataDir!Elsewhere, Sets
  <2>2. QED
    BY <1>1, <2>1 DEF Step, Dir!Next
<1>4. QED
  BY <1>2, <1>3

(* Renaming, to a name of the same kind.                                   *)
LEMMA MoveStep ==
  ASSUME HandleTypes, NEW p \in Path, NEW q \in UserPath,
         p \in MetaPath <=> q \in MetaPath,
         FileOf(p) # Absent, FileOf(q) = Absent,
         Moves(p, q), Follows(p, q), Granted("rename")
  PROVE  Step
<1>1. q \in Path /\ q \notin HiddenPath /\ p # q
  BY PathsDisjoint DEF Path
<1>2. Dir!Move(p, q)
  BY <1>1 DEF Dir!Move, Dir!Exists, Dir!Follow, Dir!Done, Granted, Moves, Follows,
              HandleTypes
<1>3. CASE p \notin MetaPath
  <2>1. DataDir!Move(p, q)
    BY <1>1, <1>3, PathsDisjoint, MetaIsPath
       DEF DataDir!Move, DataDir!Exists, DataDir!Follow, DataDir!Done, Granted,
           Moves, Follows, HandleTypes
  <2>2. QED
    BY <1>1, <1>2, <1>3, <2>1 DEF Step, Dir!Next, DataDir!Next
<1>4. CASE p \in MetaPath
  <2>1. DataDir!Elsewhere
    BY <1>4 DEF DataDir!Elsewhere, Moves, Follows
  <2>2. QED
    BY <1>1, <1>2, <2>1 DEF Step, Dir!Next
<1>5. QED
  BY <1>3, <1>4

(* Hiding what is unlinked while open, or renamed onto.                    *)
LEMMA HideStep ==
  ASSUME HandleTypes, NEW p \in Path \ MetaPath, NEW r \in HiddenPath,
         FileOf(p) # Absent, FileOf(r) = Absent, IsOpen(p),
         Moves(p, r), Follows(p, r),
         Granted("unlink") \/ (reply'.op = "rename" /\ reply'.ret # "OK")
  PROVE  Step
<1>1. r \in Path /\ r \notin MetaPath /\ p # r
  BY PathsDisjoint DEF Path, UserPath
<1>2. Dir!Hide(p, r)
  BY <1>1 DEF Dir!Hide, Dir!Exists, Dir!IsOpen, IsOpen, Dir!Follow, Dir!Done,
              Granted, Moves, Follows, HandleTypes
<1>3. \E h \in Handle : (IF handle[h] \in MetaPath THEN Closed ELSE handle[h]) = p
  BY DEF IsOpen
<1>4. DataDir!Hide(p, r)
  BY <1>1, <1>3, PathsDisjoint, MetaIsPath
     DEF DataDir!Hide, DataDir!Exists, DataDir!IsOpen, DataDir!Follow,
         DataDir!Done, Granted, Moves, Follows, HandleTypes
<1>5. QED
  BY <1>1, <1>2, <1>4 DEF Step, Dir!Next, DataDir!Next

(* Renaming onto an open file.                                             *)
LEMMA ReplaceStep ==
  ASSUME HandleTypes, NEW p \in Path \ MetaPath, NEW q \in Path \ MetaPath,
         NEW r \in HiddenPath, p # q,
         FileOf(p) # Absent, FileOf(q) # Absent, FileOf(r) = Absent, IsOpen(q),
         \A x \in Path : FileOf(x)' = IF x = p THEN Absent
                                      ELSE IF x = q THEN FileOf(p)
                                      ELSE IF x = r THEN FileOf(q)
                                      ELSE FileOf(x),
         \A g \in Handle : handle'[g] = IF handle[g] = p THEN q
                                        ELSE IF handle[g] = q THEN r
                                        ELSE handle[g],
         Granted("rename")
  PROVE  Step
<1>1. r \in Path /\ r \notin MetaPath /\ p # r /\ q # r
  BY PathsDisjoint DEF Path, UserPath
<1>2. Dir!Replace(p, q, r)
  BY <1>1 DEF Dir!Replace, Dir!Exists, Dir!IsOpen, IsOpen, Dir!Done, Granted, HandleTypes
<1>3. \E h \in Handle : (IF handle[h] \in MetaPath THEN Closed ELSE handle[h]) = q
  BY DEF IsOpen
<1>4. DataDir!Replace(p, q, r)
  BY <1>1, <1>3, PathsDisjoint, MetaIsPath
     DEF DataDir!Replace, DataDir!Exists, DataDir!IsOpen, DataDir!Done, Granted,
         HandleTypes
<1>5. QED
  BY <1>1, <1>2, <1>4 DEF Step, Dir!Next, DataDir!Next

(* Mounting, unmounting and being killed.                                  *)
LEMMA RestartStep ==
  ASSUME HandleTypes, \A x \in Path : FileOf(x)' = Absent,
         \A h \in Handle : handle'[h] = Closed,
         \/ Granted("kill")
         \/ /\ Granted("mount") \/ Granted("unmount")
            /\ \A h \in Handle : handle[h] = Closed
  PROVE  Step
<1>1. Dir!Restart
  BY DEF Dir!Restart, Dir!Done, Granted, HandleTypes
<1>2. Closed \notin MetaPath
  BY PathsDisjoint, MetaIsPath
<1>3. DataDir!Restart
  BY <1>2 DEF DataDir!Restart, DataDir!Done, Granted
<1>4. QED
  BY <1>1, <1>3 DEF Step, Dir!Next, DataDir!Next

(* What changes no file.                                                   *)
LEMMA LookStep ==
  ASSUME Keeps, UNCHANGED handle,
         reply'.op \in {"getattr", "read"} \/ reply'.ret # "OK"
  PROVE  Step
<1>1. Dir!Look
  BY DEF Dir!Look, Keeps
<1>2. DataDir!Elsewhere
  BY DEF DataDir!Elsewhere, Keeps
<1>3. QED
  BY <1>1, <1>2 DEF Step, Dir!Next

-----------------------------------------------------------------------------
(* What is shown of the table.                                             *)

(* An entry is shown as a file.                                            *)
LEMMA Shown ==
  ASSUME TableInv, phase = "mounted", NEW p \in Path, InTable(p)
  PROVE  /\ FileOf(p) = [len |-> FileLen(p), content |-> FileContent(p)]
         /\ FileOf(p) \in File
         /\ FileOf(p) # Absent
<1>1. FileLen(p) \in Size /\ FileContent(p) \in Inode \union Pattern \union {Uninit}
  <2>1. files[p] \in Entry
    BY DEF TableInv, TypeOK, InTable
  <2>2. p \in MetaPath => real[p] \in Inode
    BY DEF TableInv, TypeOK, Backed, EntryReal
  <2>3. CASE p \in MetaPath
    BY <2>2, <2>3 DEF FileLen, FileContent, is_meta_file, TableInv, TypeOK
  <2>4. CASE p \notin MetaPath
    BY <2>1, <2>4 DEF FileLen, FileContent, is_meta_file, Entry
  <2>5. QED
    BY <2>3, <2>4
<1>2. FileOf(p) = [len |-> FileLen(p), content |-> FileContent(p)]
  BY DEF FileOf
<1>3. FileOf(p) \in File
  BY <1>1, <1>2 DEF File
<1>4. QED
  BY <1>2, <1>3, Distinct

(* A name that is not in the table is no file.                             *)
LEMMA NotShown ==
  ASSUME NEW p, ~InTable(p)
  PROVE  FileOf(p) = Absent
BY DEF FileOf

(* What is shown of a metafile stays so with its real file and its length. *)
LEMMA MetaShownSame ==
  ASSUME NEW x \in MetaPath, UNCHANGED phase, InTable(x)' <=> InTable(x),
         phase = "mounted" /\ InTable(x) => /\ real'[x] = real[x]
                                           /\ length'[real[x]] = length[real[x]]
  PROVE  FileOf(x)' = FileOf(x)
BY DEF FileOf, FileLen, FileContent, is_meta_file

(* What is shown of a data file is its entry.                              *)
LEMMA DataShownSame ==
  ASSUME NEW x \in Path \ MetaPath, UNCHANGED phase, files'[x] = files[x]
  PROVE  FileOf(x)' = FileOf(x)
BY DEF FileOf, FileLen, FileContent, is_meta_file, InTable

(* A step that only answers shows the same.                                *)
LEMMA AnswerKeeps ==
  ASSUME NEW op, NEW ret, Answer(op, ret)
  PROVE  Keeps /\ UNCHANGED handle /\ reply'.op = op /\ reply'.ret = ret
BY DEF Answer, Reply, Keeps, FileOf, FileLen, FileContent, InTable

(* So a failure is no step of the directory.                               *)
LEMMA FailureStep ==
  ASSUME NEW op, NEW ret \in Errno, Answer(op, ret)
  PROVE  Step
<1>1. ret # "OK"
  BY DEF Errno
<1>2. QED
  BY <1>1, AnswerKeeps, LookStep

(* A handler that changes the entry of a data file shows no other change.  *)
LEMMA DataChanged ==
  ASSUME TypeOK, NEW p \in Path \ MetaPath, NEW e,
         files' = [files EXCEPT ![p] = e], UNCHANGED <<real, length, phase>>
  PROVE  \A x \in Path : x # p => FileOf(x)' = FileOf(x)
<1>1. SUFFICES ASSUME NEW x \in Path, x # p
               PROVE  FileOf(x)' = FileOf(x)
  OBVIOUS
<1>2. files'[x] = files[x]
  BY <1>1 DEF TypeOK
<1>3. CASE x \in MetaPath
  BY <1>2, <1>3, MetaShownSame DEF InTable
<1>4. CASE x \notin MetaPath
  BY <1>2, <1>4, DataShownSame
<1>5. QED
  BY <1>3, <1>4
-----------------------------------------------------------------------------
(* The handlers.                                                           *)

(* A new metafile has a real file that no other name in the table has.     *)
LEMMA CreateMetaStep ==
  ASSUME TableInv, phase = "mounted", HandleTypes,
         NEW h \in Handle, NEW p \in MetaPath, handle[h] = Closed, ~InTable(p),
         CreateMeta(h, p)
  PROVE  Step
<1>1. CASE Answer("create", "EIO")
  BY <1>1, FailureStep DEF Errno
<1>2. CASE ~Answer("create", "EIO")
  <2>1. PICK fd \in FreeFd, i \in IF real[p] = NoInode THEN FreeInode ELSE {real[p]} :
           /\ files' = [files EXCEPT ![p] =
                          [size |-> 0, realfd |-> fd, pattern |-> Uninit]]
           /\ real' = [real EXCEPT ![p] = i]
           /\ length' = [length EXCEPT ![i] = 0]
           /\ handle' = [handle EXCEPT ![h] = p]
           /\ Reply("create", "OK")
           /\ UNCHANGED phase
    BY <1>2 DEF CreateMeta
  <2>2. /\ p \in Path /\ fd \in Fd /\ i \in Inode
        /\ \A q \in MetaPath : q # p => real[q] # i
    BY MetaIsPath, Distinct
       DEF FreeFd, FreeInode, TableInv, TypeOK, Backed, RealInjective
  <2>3. files'[p] # Absent
    BY <2>1, <2>2, Distinct, MaxSizeNat DEF TableInv, TypeOK, Entry, Size
  <2>4. FileOf(p)' = [len |-> 0, content |-> i]
    BY <2>1, <2>2, <2>3
       DEF FileOf, FileLen, FileContent, is_meta_file, InTable, TableInv, TypeOK
  <2>5. \A x \in Path : x # p => FileOf(x)' = FileOf(x)
    <3>1. SUFFICES ASSUME NEW x \in Path, x # p
                   PROVE  FileOf(x)' = FileOf(x)
      OBVIOUS
    <3>2. files'[x] = files[x]
      BY <2>1, <3>1 DEF TableInv, TypeOK
    <3>3. CASE x \in MetaPath
      <4>1. real'[x] = real[x] /\ length'[real[x]] = length[real[x]]
        BY <2>1, <2>2, <3>1, <3>3 DEF TableInv, TypeOK
      <4>2. QED
        BY <2>1, <3>2, <3>3, <4>1, MetaShownSame DEF InTable
    <3>4. CASE x \notin MetaPath
      BY <2>1, <3>2, <3>4, DataShownSame
    <3>5. QED
      BY <3>3, <3>4
  <2>6. FileOf(p) = Absent
    BY NotShown
  <2>7. Opens(h, p)
    BY <2>1 DEF Opens, HandleTypes
  <2>8. Granted("create")
    BY <2>1 DEF Granted, Reply
  <2>9. QED
    BY <2>2, <2>4, <2>5, <2>6, <2>7, <2>8, CreateStep DEF Sets
<1>3. QED
  BY <1>1, <1>2

(* A new data file has the pattern of its name, or none.                   *)
LEMMA CreateDataStep ==
  ASSUME TableInv, phase = "mounted", HandleTypes,
         NEW h \in Handle, NEW p \in DataPath, handle[h] = Closed, ~InTable(p),
         CreateData(h, p)
  PROVE  Step
<1> DEFINE e == [size |-> 0, realfd |-> Uninit, pattern |-> NamePattern[p]]
<1>1. p \in Path \ MetaPath /\ NamePattern[p] \in Pattern \union {Uninit}
  BY PathsDisjoint, NamePatternType DEF Path, UserPath
<1>2. e \in Entry /\ e # Absent
  BY <1>1, Distinct, MaxSizeNat DEF Entry, Size
<1>3. FileOf(p)' = [len |-> 0, content |-> NamePattern[p]]
  BY <1>1, <1>2 DEF CreateData, FileOf, FileLen, FileContent, is_meta_file, InTable,
                    TableInv, TypeOK
<1>4. \A x \in Path : x # p => FileOf(x)' = FileOf(x)
  BY <1>1, DataChanged DEF CreateData, TableInv
<1>5. FileOf(p) = Absent
  BY NotShown
<1>6. Opens(h, p) /\ Granted("create")
  BY DEF CreateData, Opens, HandleTypes, Granted, Reply
<1>7. QED
  BY <1>1, <1>3, <1>4, <1>5, <1>6, CreateStep DEF Sets

(* A data file that gets another size is shown with that size.             *)
LEMMA ResizedShown ==
  ASSUME TableInv, phase = "mounted", NEW p \in Path \ MetaPath, InTable(p),
         NEW n \in Size, files' = [files EXCEPT ![p].size = n],
         UNCHANGED <<real, length, phase>>
  PROVE  Sets(p, [FileOf(p) EXCEPT !.len = n])
<1>1. files[p] \in Entry
  BY DEF TableInv, TypeOK, InTable
<1> DEFINE e == [files[p] EXCEPT !.size = n]
<1>2. /\ e \in Entry /\ e # Absent
      /\ e.size = n /\ e.pattern = files[p].pattern
  BY <1>1, ResizedType, Distinct DEF Entry
<1>3. files' = [files EXCEPT ![p] = e]
  OBVIOUS
<1>4. \A x \in Path : x # p => FileOf(x)' = FileOf(x)
  BY <1>3, DataChanged DEF TableInv
<1>5. FileOf(p)' = [len |-> n, content |-> files[p].pattern]
  <2>1. files'[p] = e
    BY <1>3 DEF TableInv, TypeOK
  <2>2. QED
    BY <1>2, <2>1 DEF FileOf, FileLen, FileContent, is_meta_file, InTable
<1>6. FileOf(p) = [len |-> files[p].size, content |-> files[p].pattern]
  BY DEF FileOf, FileLen, FileContent, is_meta_file
<1>7. QED
  BY <1>4, <1>5, <1>6 DEF Sets

(* A metafile whose real file gets another length is shown with that one,  *)
(* and as no other name has the real file, no other file is.               *)
LEMMA LengthShown ==
  ASSUME TableInv, phase = "mounted", NEW p \in MetaPath, InTable(p),
         NEW n \in Size, length' = [length EXCEPT ![real[p]] = n],
         UNCHANGED <<files, real, phase>>
  PROVE  Sets(p, [FileOf(p) EXCEPT !.len = n])
<1>1. real[p] \in Inode /\ real[p] # NoInode /\ p \in Path
  BY MetaIsPath, Distinct DEF TableInv, TypeOK, Backed, EntryReal
<1>2. FileOf(p)' = [len |-> n, content |-> real[p]]
  BY <1>1 DEF FileOf, FileLen, FileContent, is_meta_file, InTable, TableInv, TypeOK
<1>3. FileOf(p) = [len |-> length[real[p]], content |-> real[p]]
  BY DEF FileOf, FileLen, FileContent, is_meta_file
<1>4. \A x \in Path : x # p => FileOf(x)' = FileOf(x)
  <2>1. SUFFICES ASSUME NEW x \in Path, x # p
                 PROVE  FileOf(x)' = FileOf(x)
    OBVIOUS
  <2>2. CASE x \in MetaPath
    <3>1. real[x] # real[p]
      BY <1>1, <2>1, <2>2 DEF TableInv, Backed, RealInjective
    <3>2. length'[real[x]] = length[real[x]]
      BY <1>1, <3>1 DEF TableInv, TypeOK
    <3>3. QED
      BY <2>2, <3>2, MetaShownSame DEF InTable
  <2>3. CASE x \notin MetaPath
    BY <2>3, DataShownSame
  <2>4. QED
    BY <2>2, <2>3
<1>5. QED
  BY <1>2, <1>3, <1>4 DEF Sets

(* A data file that exists is emptied by CREATE.                           *)
LEMMA CreateExistingStep ==
  ASSUME TableInv, phase = "mounted", HandleTypes,
         NEW h \in Handle, NEW p \in Path \ MetaPath, NEW excl \in BOOLEAN,
         handle[h] = Closed, InTable(p), CreateExisting(h, p, excl)
  PROVE  Step
<1>1. CASE Answer("create", "EEXIST")
  BY <1>1, FailureStep DEF Errno
<1>2. CASE ~Answer("create", "EEXIST")
  <2>1. /\ files' = [files EXCEPT ![p].size = 0]
        /\ handle' = [handle EXCEPT ![h] = p]
        /\ Reply("create", "OK")
        /\ UNCHANGED <<real, length, phase>>
    BY <1>2 DEF CreateExisting
  <2>2. 0 \in Size
    BY MaxSizeNat DEF Size
  <2>3. Sets(p, [FileOf(p) EXCEPT !.len = 0])
    BY <2>1, <2>2, ResizedShown
  <2>4. Opens(h, p) /\ Granted("create")
    BY <2>1 DEF Opens, HandleTypes, Granted, Reply
  <2>5. FileOf(p) # Absent
    BY Shown
  <2>6. QED
    BY <2>3, <2>4, <2>5, OpenEmptiedStep
<1>3. QED
  BY <1>1, <1>2

(* CREATE of a new name, or of a data file.                                *)
LEMMA CreateRefines ==
  ASSUME TableInv, TypeOK', phase = "mounted",
         NEW h \in Handle, NEW p \in UserPath, NEW excl \in BOOLEAN,
         InTable(p) => p \notin MetaPath, l_create(h, p, excl)
  PROVE  Step
<1>1. handle[h] = Closed /\ HandleTypes /\ p \in Path
  BY DEF l_create, HandleTypes, TableInv, TypeOK, Path
<1>2. CASE ~InTable(p) /\ is_meta_file(p) /\ CreateMeta(h, p)
  BY <1>1, <1>2, CreateMetaStep DEF is_meta_file
<1>3. CASE ~InTable(p) /\ ~is_meta_file(p) /\ CreateData(h, p)
  BY <1>1, <1>3, CreateDataStep DEF is_meta_file, UserPath
<1>4. CASE InTable(p) /\ CreateExisting(h, p, excl)
  BY <1>1, <1>4, CreateExistingStep
<1>5. QED
  BY <1>2, <1>3, <1>4 DEF l_create

(* OPEN: that of a metafile leaves what is shown as it was.                *)
LEMMA OpenMetaKeeps ==
  ASSUME TableInv, NEW h \in Handle, NEW p \in MetaPath, InTable(p), NEW op,
         OpenMeta(h, p, op), ~Answer(op, "EIO")
  PROVE  /\ Keeps
         /\ handle' = [handle EXCEPT ![h] = p]
         /\ Granted(op)
<1>1. PICK fd \in FreeFd :
         /\ files' = [files EXCEPT ![p].realfd = fd]
         /\ handle' = [handle EXCEPT ![h] = p]
         /\ Reply(op, "OK")
         /\ UNCHANGED <<real, length, phase>>
  BY DEF OpenMeta
<1>2. fd \in Fd /\ p \in Path /\ files[p] \in Entry
  BY MetaIsPath DEF FreeFd, TableInv, TypeOK, InTable
<1>3. [files[p] EXCEPT !.realfd = fd] # Absent
  BY <1>2, ReopenedType, Distinct
<1>4. \A x \in Path : /\ InTable(x)' <=> InTable(x)
                      /\ x \notin MetaPath => files'[x] = files[x]
  BY <1>1, <1>2, <1>3 DEF InTable, TableInv, TypeOK
<1>5. \A x \in MetaPath : FileOf(x)' = FileOf(x)
  BY <1>1, <1>4, MetaIsPath, MetaShownSame
<1>6. \A x \in Path \ MetaPath : FileOf(x)' = FileOf(x)
  BY <1>1, <1>4, DataShownSame
<1>7. Keeps
  BY <1>5, <1>6 DEF Keeps
<1>8. QED
  BY <1>1, <1>7 DEF Granted, Reply

LEMMA OpenRefines ==
  ASSUME TableInv, TypeOK', phase = "mounted",
         NEW h \in Handle, NEW p \in UserPath, NEW trunc \in BOOLEAN,
         trunc => p \notin MetaPath, l_open(h, p, trunc)
  PROVE  Step
<1> DEFINE op == IF trunc THEN "opentrunc" ELSE "open"
<1>1. handle[h] = Closed /\ HandleTypes /\ p \in Path
  BY DEF l_open, HandleTypes, TableInv, TypeOK, Path
<1>2. CASE Answer(op, "ENOENT") \/ Answer(op, "EIO")
  BY <1>2, FailureStep DEF Errno
<1>3. CASE InTable(p) /\ is_meta_file(p) /\ OpenMeta(h, p, op) /\ ~Answer(op, "EIO")
  <2>1. p \in MetaPath /\ op = "open"
    BY <1>3 DEF is_meta_file
  <2>2. Keeps /\ handle' = [handle EXCEPT ![h] = p] /\ Granted("open")
    BY <1>3, <2>1, OpenMetaKeeps
  <2>3. Opens(h, p)
    BY <2>2 DEF Opens, HandleTypes, TableInv, TypeOK
  <2>4. FileOf(p) # Absent
    BY <1>1, <1>3, Shown
  <2>5. QED
    BY <1>1, <2>2, <2>3, <2>4, OpenStep
<1>4. CASE InTable(p) /\ ~is_meta_file(p) /\ OpenData(h, p, trunc, op)
  <2>1. p \in Path \ MetaPath /\ FileOf(p) # Absent
    BY <1>1, <1>4, Shown DEF is_meta_file
  <2>2. Opens(h, p) /\ Granted(op)
    BY <1>1, <1>4 DEF OpenData, Opens, HandleTypes, Granted, Reply
  <2>3. CASE trunc
    <3>1. 0 \in Size /\ files' = [files EXCEPT ![p].size = 0]
      BY <1>4, <2>3, MaxSizeNat DEF OpenData, Size
    <3>2. Sets(p, [FileOf(p) EXCEPT !.len = 0])
      BY <1>4, <2>1, <3>1, ResizedShown DEF OpenData
    <3>3. QED
      BY <1>1, <2>1, <2>2, <2>3, <3>2, OpenEmptiedStep
  <2>4. CASE ~trunc
    <3>1. Keeps
      BY <1>4, <2>4 DEF OpenData, Keeps, FileOf, FileLen, FileContent, InTable
    <3>2. QED
      BY <1>1, <2>1, <2>2, <2>4, <3>1, OpenStep
  <2>5. QED
    BY <2>3, <2>4
<1>5. QED
  BY <1>2, <1>3, <1>4 DEF l_open

(* The write of a metafile reaches the real file it was opened on.         *)
LEMMA WriteMetaRefines ==
  ASSUME ServedInv, TypeOK', phase = "mounted",
         NEW h \in Handle, NEW e \in 1..MaxSize, handle[h] \in MetaPath,
         l_write(h, e)
  PROVE  Step
<1> DEFINE p == handle[h]
<1>1. /\ HandleTypes /\ InTable(p) /\ p \in Path /\ p # Closed /\ e \in Size
      /\ TableInv /\ AllConnected
  BY MetaIsPath, PathsDisjoint, MaxSizeNat
     DEF HandleTypes, ServedInv, Served, TableInv, TypeOK, Backed, HandleNamed, Size
<1>2. PICK r \in Transfer(p) :
         /\ length' = IF r = "OK" THEN [length EXCEPT ![Reached(p)] = Larger(@, e)]
                      ELSE length
         /\ reply' = [op |-> "write", ret |-> r, through |-> h]
         /\ UNCHANGED <<files, real, handle, phase>>
  BY DEF l_write, is_meta_file
<1>3. CASE r = "OK"
  <2>1. Reached(p) = real[p] /\ real[p] \in Inode
    BY <1>1 DEF AllConnected, Connected, Reached, TableInv, TypeOK
  <2>2. length[real[p]] \in Size
    BY <1>1, <2>1 DEF TableInv, TypeOK
  <2> DEFINE n == Larger(length[real[p]], e)
  <2>3. n \in Size
    BY <1>1, <2>2, LargerType
  <2>4. length' = [length EXCEPT ![real[p]] = n]
    BY <1>2, <1>3, <2>1
  <2>5. Sets(p, [FileOf(p) EXCEPT !.len = n])
    BY <1>1, <1>2, <2>3, <2>4, LengthShown
  <2>6. FileOf(p).len = length[real[p]] /\ FileOf(p) # Absent
    BY <1>1, Shown DEF FileLen, is_meta_file
  <2>7. Sets(p, [FileOf(p) EXCEPT !.len = IF e > @ THEN e ELSE @])
    BY <2>5, <2>6 DEF Larger
  <2>8. Granted("write") /\ reply'.through = h
    BY <1>2, <1>3 DEF Granted
  <2>9. QED
    BY <1>1, <1>2, <2>6, <2>7, <2>8, WriteStep
<1>4. CASE r # "OK"
  <2>1. Keeps
    BY <1>2, <1>4 DEF Keeps, FileOf, FileLen, FileContent, InTable
  <2>2. reply'.ret # "OK"
    BY <1>2, <1>4
  <2>3. QED
    BY <1>2, <2>1, <2>2, LookStep
<1>5. QED
  BY <1>3, <1>4

(* That of a data file has its entry's size raised.                        *)
LEMMA WriteDataRefines ==
  ASSUME TableInv, TypeOK', phase = "mounted",
         NEW h \in Handle, NEW e \in 1..MaxSize, handle[h] \notin MetaPath,
         l_write(h, e)
  PROVE  Step
<1> DEFINE p == handle[h]
<1>1. /\ HandleTypes /\ InTable(p) /\ p \in Path \ MetaPath /\ p # Closed
      /\ e \in Size
  BY MaxSizeNat
     DEF HandleTypes, TableInv, TypeOK, Backed, HandleNamed, Size, l_write
<1>2. PICK r \in Transfer(p) :
         /\ files' = IF r = "OK" THEN [files EXCEPT ![p].size = Larger(@, e)]
                     ELSE files
         /\ reply' = [op |-> "write", ret |-> r, through |-> h]
         /\ UNCHANGED <<length, real, handle, phase>>
  BY DEF l_write, is_meta_file
<1>3. CASE r = "OK"
  <2>1. files[p].size \in Size
    BY <1>1 DEF TableInv, TypeOK, InTable, Entry
  <2> DEFINE n == Larger(files[p].size, e)
  <2>2. n \in Size
    BY <1>1, <2>1, LargerType
  <2>3. files' = [files EXCEPT ![p].size = n]
    BY <1>2, <1>3
  <2>4. Sets(p, [FileOf(p) EXCEPT !.len = n])
    BY <1>1, <1>2, <2>2, <2>3, ResizedShown
  <2>5. FileOf(p).len = files[p].size /\ FileOf(p) # Absent
    BY <1>1, Shown DEF FileLen, is_meta_file
  <2>6. Sets(p, [FileOf(p) EXCEPT !.len = IF e > @ THEN e ELSE @])
    BY <2>4, <2>5 DEF Larger
  <2>7. Granted("write") /\ reply'.through = h
    BY <1>2, <1>3 DEF Granted
  <2>8. QED
    BY <1>1, <1>2, <2>5, <2>6, <2>7, WriteStep
<1>4. CASE r # "OK"
  <2>1. Keeps
    BY <1>2, <1>4 DEF Keeps, FileOf, FileLen, FileContent, InTable
  <2>2. reply'.ret # "OK"
    BY <1>2, <1>4
  <2>3. QED
    BY <1>2, <2>1, <2>2, LookStep
<1>5. QED
  BY <1>3, <1>4

(* Truncating either kind of file.                                         *)
LEMMA TruncateRefines ==
  ASSUME TableInv, phase = "mounted", NEW p \in UserPath, NEW n \in Size,
         l_truncate(p, n)
  PROVE  Step
<1>1. CASE Answer("truncate", "ENOENT") \/ Answer("truncate", "EPERM")
  BY <1>1, FailureStep DEF Errno
<1>2. CASE /\ InTable(p) /\ ~is_meta_file(p)
           /\ files' = [files EXCEPT ![p].size = n]
           /\ Reply("truncate", "OK")
           /\ UNCHANGED <<real, length, fds, handle, phase>>
  <2>1. p \in Path \ MetaPath
    BY <1>2 DEF is_meta_file, Path
  <2>2. Sets(p, [FileOf(p) EXCEPT !.len = n]) /\ FileOf(p) # Absent
    BY <1>2, <2>1, ResizedShown, Shown
  <2>3. QED
    BY <1>2, <2>1, <2>2, ResizeStep DEF Granted, Reply
<1>3. CASE /\ InTable(p) /\ is_meta_file(p)
           /\ length' = [length EXCEPT ![real[p]] = n]
           /\ Reply("truncate", "OK")
           /\ UNCHANGED <<files, real, fds, handle, phase>>
  <2>1. p \in Path /\ p \in MetaPath
    BY <1>3 DEF is_meta_file, Path
  <2>2. Sets(p, [FileOf(p) EXCEPT !.len = n]) /\ FileOf(p) # Absent
    BY <1>3, <2>1, LengthShown, Shown
  <2>3. QED
    BY <1>3, <2>1, <2>2, ResizeStep DEF Granted, Reply
<1>4. QED
  BY <1>1, <1>2, <1>3 DEF l_truncate

(* The last release of a hidden file removes it, any other nothing.        *)
LEMMA ReleaseRefines ==
  ASSUME TableInv, TypeOK', phase = "mounted", NEW h \in Handle, l_release(h)
  PROVE  Step
<1> DEFINE last == \A g \in Handle \ {h} : handle[g] # handle[h]
<1>0. PICK p \in Path : p = handle[h]
  BY DEF TableInv, TypeOK, l_release
<1>1. /\ HandleTypes /\ p # Closed
      /\ files' = IF p \in HiddenPath /\ last
                  THEN [files EXCEPT ![p] = Absent] ELSE files
      /\ handle' = [handle EXCEPT ![h] = Closed]
      /\ Reply("release", "OK")
      /\ UNCHANGED <<real, length, phase>>
  BY <1>0 DEF HandleTypes, TableInv, TypeOK, l_release
<1>2. Opens(h, Closed) /\ Granted("release")
  BY <1>1 DEF Opens, HandleTypes, Granted, Reply
<1>3. CASE p \in HiddenPath /\ last
  <2>1. p \notin MetaPath
    BY <1>3, PathsDisjoint DEF UserPath
  <2>2. \A x \in Path : x # p => FileOf(x)' = FileOf(x)
    BY <1>1, <1>3, <2>1, DataChanged DEF TableInv
  <2>3. FileOf(p)' = Absent
    BY <1>1, <1>3 DEF FileOf, InTable, TableInv, TypeOK
  <2>4. Sets(p, Absent)
    BY <2>2, <2>3 DEF Sets
  <2>5. QED
    BY <1>0, <1>1, <1>2, <1>3, <2>4, CloseStep
<1>4. CASE ~(p \in HiddenPath /\ last)
  <2>1. Keeps
    BY <1>1, <1>4 DEF Keeps, FileOf, FileLen, FileContent, InTable
  <2>2. QED
    BY <1>0, <1>1, <1>2, <1>4, <2>1, CloseStep
<1>5. QED
  BY <1>3, <1>4

(* l_unlink() removes the entry, whether or not the real file could be.    *)
LEMMA UnlinkRefines ==
  ASSUME TableInv, phase = "mounted", NEW p \in UserPath, ~IsOpen(p),
         l_unlink(p)
  PROVE  Step
<1>1. p \in Path
  BY DEF Path
<1>2. CASE Answer("unlink", "ENOENT")
  BY <1>2, FailureStep DEF Errno
<1>3. CASE ~Answer("unlink", "ENOENT")
  <2>1. /\ InTable(p)
        /\ files' = [files EXCEPT ![p] = Absent]
        /\ real' = real \/ (p \in MetaPath /\ real' = [real EXCEPT ![p] = NoInode])
        /\ reply'.op = "unlink"
        /\ UNCHANGED <<length, handle, phase>>
    BY <1>3 DEF l_unlink, is_meta_file, Reply
  <2>2. FileOf(p)' = Absent
    BY <1>1, <2>1 DEF FileOf, InTable, TableInv, TypeOK
  <2>3. \A x \in Path : x # p => FileOf(x)' = FileOf(x)
    <3>1. SUFFICES ASSUME NEW x \in Path, x # p
                   PROVE  FileOf(x)' = FileOf(x)
      OBVIOUS
    <3>2. files'[x] = files[x] /\ (x \in MetaPath => real'[x] = real[x])
      BY <2>1, <3>1 DEF TableInv, TypeOK
    <3>3. CASE x \in MetaPath
      BY <2>1, <3>2, <3>3, MetaShownSame DEF InTable
    <3>4. CASE x \notin MetaPath
      BY <2>1, <3>2, <3>4, DataShownSame
    <3>5. QED
      BY <3>3, <3>4
  <2>4. Sets(p, Absent) /\ FileOf(p) # Absent
    BY <1>1, <2>1, <2>2, <2>3, Shown DEF Sets
  <2>5. QED
    BY <1>1, <2>1, <2>4, RemoveStep
<1>4. QED
  BY <1>2, <1>3

(* Patterns that strncpy() copies whole: a rename cuts others off at their *)
(* first zero byte (lfs.c:523).                                            *)
NoZeroByte == \A p \in Pattern : StrNCpy(p) = p

(* A moved entry keeps its size and pattern.                               *)
LEMMA MovedEntry ==
  ASSUME NoZeroByte, NEW t \in Table, NEW p \in Path, NEW q \in Path, p # q,
         t[p] # Absent
  PROVE  /\ Moved(t, p, q)[q] # Absent
         /\ Moved(t, p, q)[q].size = t[p].size
         /\ Moved(t, p, q)[q].pattern = t[p].pattern
         /\ Moved(t, p, q)[p] = Absent
         /\ \A x \in Path : x # p /\ x # q => Moved(t, p, q)[x] = t[x]
<1>1. t[p] \in Entry
  BY DEF Table
<1> DEFINE e == [t[p] EXCEPT !.pattern = CopyPattern(@)]
<1>2. e.size = t[p].size /\ e.pattern = t[p].pattern
  BY <1>1 DEF Entry, CopyPattern, NoZeroByte
<1>3. Moved(t, p, q)[q] = e
  BY DEF Moved, Table
<1>4. QED
  BY <1>2, <1>3, MovedEntries

(* Renaming shows the file under its new name and nothing else changed.    *)
LEMMA RenamedShown ==
  ASSUME NoZeroByte, TableInv, phase = "mounted", UNCHANGED <<length, phase>>,
         NEW p \in Path, NEW q \in Path, InTable(p), ~InTable(q),
         is_meta_file(p) = is_meta_file(q), is_meta_file(p) => real[p] # NoInode,
         real' = IF is_meta_file(p)
                 THEN [real EXCEPT ![q] = real[p], ![p] = NoInode] ELSE real,
         files' = Moved(files, p, q)
  PROVE  Moves(p, q)
<1>1. p # q /\ (p \in MetaPath <=> q \in MetaPath)
  BY DEF is_meta_file
<1>2. /\ files'[q] # Absent
      /\ files'[q].size = files[p].size /\ files'[q].pattern = files[p].pattern
      /\ files'[p] = Absent
      /\ \A x \in Path : x # p /\ x # q => files'[x] = files[x]
  BY <1>1, MovedEntry DEF TableInv, TypeOK, Table, InTable
<1>3. /\ p \in MetaPath => real'[q] = real[p]
      /\ \A x \in MetaPath : x # p /\ x # q => real'[x] = real[x]
  BY <1>1 DEF TableInv, TypeOK, is_meta_file
<1>4. FileOf(q)' = FileOf(p)
  BY <1>1, <1>2, <1>3 DEF FileOf, FileLen, FileContent, is_meta_file, InTable
<1>5. FileOf(p)' = Absent
  BY <1>2 DEF FileOf, InTable
<1>6. \A x \in Path : x # p /\ x # q => FileOf(x)' = FileOf(x)
  <2>1. SUFFICES ASSUME NEW x \in Path, x # p, x # q
                 PROVE  FileOf(x)' = FileOf(x)
    OBVIOUS
  <2>2. files'[x] = files[x] /\ (x \in MetaPath => real'[x] = real[x])
    BY <1>2, <1>3, <2>1
  <2>3. CASE x \in MetaPath
    BY <2>2, <2>3, MetaShownSame DEF InTable
  <2>4. CASE x \notin MetaPath
    BY <2>2, <2>4, DataShownSame
  <2>5. QED
    BY <2>3, <2>4
<1>7. QED
  BY <1>1, <1>4, <1>5, <1>6 DEF Moves

(* l_rename() fails, or does what RenamedShown is about.                   *)
LEMMA RenameOutcome ==
  ASSUME NoZeroByte, TableInv, TypeOK', phase = "mounted",
         NEW p \in Path, NEW q \in Path, NEW op, l_rename(p, q, op)
  PROVE  \/ Step
         \/ /\ HandleTypes
            /\ p \in MetaPath <=> q \in MetaPath
            /\ FileOf(p) # Absent /\ FileOf(q) = Absent
            /\ Moves(p, q) /\ Follows(p, q) /\ Granted(op)
<1>1. CASE \E r \in Errno : Answer(op, r)
  BY <1>1, FailureStep
<1>2. CASE /\ ~InTable(q) /\ InTable(p)
           /\ is_meta_file(p) = is_meta_file(q)
           /\ is_meta_file(p) => real[p] # NoInode
           /\ real' = IF is_meta_file(p)
                      THEN [real EXCEPT ![q] = real[p], ![p] = NoInode] ELSE real
           /\ files' = Moved(files, p, q)
           /\ handle' = Followed(handle, p, q)
           /\ Reply(op, "OK")
           /\ UNCHANGED <<length, phase>>
  <2>1. Moves(p, q)
    BY <1>2, RenamedShown
  <2>2. Follows(p, q) /\ Granted(op) /\ HandleTypes
    BY <1>2 DEF Followed, Follows, Granted, Reply, HandleTypes, TableInv, TypeOK
  <2>3. FileOf(p) # Absent /\ FileOf(q) = Absent
    BY <1>2, Shown, NotShown
  <2>4. QED
    BY <1>2, <2>1, <2>2, <2>3 DEF is_meta_file
<1>3. QED
  BY <1>1, <1>2 DEF l_rename, Errno

(* Unlink: libfuse hides a file that is open.                              *)
LEMMA UnlinkActionRefines ==
  ASSUME NoZeroByte, TableInv, TypeOK', Unlink
  PROVE  Step
<1>1. PICK p \in UserPath :
         \/ ~IsOpen(p) /\ l_unlink(p)
         \/ /\ IsOpen(p)
            /\ \E q \in HiddenPath : ~InTable(q) /\ l_rename(p, q, "unlink")
  BY DEF Unlink
<1>2. phase = "mounted" /\ p \in Path
  BY DEF Unlink, Path
<1>3. CASE ~IsOpen(p) /\ l_unlink(p)
  BY <1>2, <1>3, UnlinkRefines
<1>4. ASSUME IsOpen(p), NEW q \in HiddenPath, l_rename(p, q, "unlink")
      PROVE  Step
  <2>1. q \in Path /\ q \notin MetaPath
    BY PathsDisjoint DEF Path, UserPath
  <2>2. CASE /\ HandleTypes
             /\ p \notin MetaPath
             /\ FileOf(p) # Absent /\ FileOf(q) = Absent
             /\ Moves(p, q) /\ Follows(p, q) /\ Granted("unlink")
    BY <1>2, <1>4, <2>2, HideStep
  <2>3. QED
    BY <1>2, <1>4, <2>1, <2>2, RenameOutcome
<1>5. QED
  BY <1>1, <1>3, <1>4

(* Rename onto a name that is not open.                                    *)
LEMMA RenameActionRefines ==
  ASSUME NoZeroByte, TableInv, TypeOK', Rename
  PROVE  Step
<1>1. PICK p \in UserPath, q \in UserPath : l_rename(p, q, "rename")
  BY DEF Rename
<1>2. phase = "mounted" /\ p \in Path /\ q \in Path
  BY DEF Rename, Path
<1>3. CASE /\ HandleTypes
           /\ p \in MetaPath <=> q \in MetaPath
           /\ FileOf(p) # Absent /\ FileOf(q) = Absent
           /\ Moves(p, q) /\ Follows(p, q) /\ Granted("rename")
  BY <1>2, <1>3, MoveStep
<1>4. QED
  BY <1>1, <1>2, <1>3, RenameOutcome

(* Rename onto an open name: refused, or replaced, or hidden in vain.      *)
LEMMA RenameOntoOpenRefines ==
  ASSUME NoZeroByte, TableInv, TypeOK', RenameOntoOpen
  PROVE  Step
<1>1. PICK p \in UserPath, q \in UserPath, r \in HiddenPath :
         /\ p # q /\ IsOpen(q) /\ ~InTable(r)
         /\ \/ is_meta_file(q) /\ l_rename(q, r, "rename")
            \/ /\ ~is_meta_file(q)
               /\ InTable(p) /\ ~is_meta_file(p)
               /\ files' = Moved(Moved(files, q, r), p, q)
               /\ handle' = Followed(Followed(handle, q, r), p, q)
               /\ Reply("rename", "OK")
               /\ UNCHANGED <<real, length, fds, phase>>
            \/ /\ ~is_meta_file(q)
               /\ ~InTable(p) \/ is_meta_file(p)
               /\ files' = Moved(files, q, r)
               /\ handle' = Followed(handle, q, r)
               /\ Reply("rename", IF InTable(p) THEN "EINVAL" ELSE "ENOENT")
               /\ UNCHANGED <<real, length, fds, phase>>
  BY DEF RenameOntoOpen
<1>2. /\ phase = "mounted" /\ p \in Path /\ q \in Path /\ r \in Path
      /\ r \notin MetaPath /\ q # Closed
  BY PathsDisjoint DEF RenameOntoOpen, Path, UserPath
<1>3. InTable(q) /\ HandleTypes /\ q # r
  BY <1>1, <1>2 DEF IsOpen, TableInv, TypeOK, Backed, HandleNamed, HandleTypes
<1>4. FileOf(q) # Absent /\ FileOf(r) = Absent
  BY <1>1, <1>2, <1>3, Shown, NotShown
<1>5. CASE is_meta_file(q) /\ l_rename(q, r, "rename")
  BY <1>2, <1>5, RenameOutcome DEF is_meta_file
<1>6. CASE /\ ~is_meta_file(q)
           /\ InTable(p) /\ ~is_meta_file(p)
           /\ files' = Moved(Moved(files, q, r), p, q)
           /\ handle' = Followed(Followed(handle, q, r), p, q)
           /\ Reply("rename", "OK")
           /\ UNCHANGED <<real, length, fds, phase>>
  <2> DEFINE t == Moved(files, q, r)
  <2>1. p # r /\ FileOf(p) # Absent /\ p \notin MetaPath /\ q \notin MetaPath
    BY <1>1, <1>2, <1>6, Shown DEF is_meta_file
  <2>2. /\ t \in Table
        /\ t[r] # Absent /\ t[r].size = files[q].size
        /\ t[r].pattern = files[q].pattern
        /\ \A x \in Path : x # q /\ x # r => t[x] = files[x]
    BY <1>2, <1>3, MovedEntry, MovedType DEF TableInv, TypeOK, Table, InTable
  <2>3. t[p] = files[p] /\ t[p] # Absent
    BY <1>1, <1>2, <1>6, <2>1, <2>2 DEF InTable
  <2> HIDE DEF t
  <2>4. /\ Moved(t, p, q)[q] # Absent
        /\ Moved(t, p, q)[q].size = t[p].size
        /\ Moved(t, p, q)[q].pattern = t[p].pattern
        /\ Moved(t, p, q)[p] = Absent
        /\ \A x \in Path : x # p /\ x # q => Moved(t, p, q)[x] = t[x]
    BY <1>1, <1>2, <2>2, <2>3, MovedEntry
  <2>5. files' = Moved(t, p, q)
    BY <1>6 DEF t
  <2>6. /\ files'[q] # Absent /\ files'[q].size = files[p].size
        /\ files'[q].pattern = files[p].pattern
        /\ files'[r] # Absent /\ files'[r].size = files[q].size
        /\ files'[r].pattern = files[q].pattern
        /\ files'[p] = Absent
        /\ \A x \in Path : x # p /\ x # q /\ x # r => files'[x] = files[x]
    BY <1>2, <1>3, <2>1, <2>2, <2>3, <2>4, <2>5
  <2>7. FileOf(q)' = FileOf(p) /\ FileOf(r)' = FileOf(q) /\ FileOf(p)' = Absent
    BY <1>2, <1>3, <1>6, <2>1, <2>6
       DEF FileOf, FileLen, FileContent, is_meta_file, InTable
  <2>8. \A x \in Path : x # p /\ x # q /\ x # r => FileOf(x)' = FileOf(x)
    <3>1. SUFFICES ASSUME NEW x \in Path, files'[x] = files[x]
                   PROVE  FileOf(x)' = FileOf(x)
      BY <2>6
    <3>2. CASE x \in MetaPath
      BY <1>6, <3>1, <3>2, MetaShownSame DEF InTable
    <3>3. CASE x \notin MetaPath
      BY <1>6, <3>1, <3>3, DataShownSame
    <3>4. QED
      BY <3>2, <3>3
  <2>9. \A x \in Path : FileOf(x)' = IF x = p THEN Absent
                                     ELSE IF x = q THEN FileOf(p)
                                     ELSE IF x = r THEN FileOf(q)
                                     ELSE FileOf(x)
    BY <2>7, <2>8
  <2>10. \A g \in Handle : handle'[g] = IF handle[g] = p THEN q
                                        ELSE IF handle[g] = q THEN r
                                        ELSE handle[g]
    BY <1>1, <1>6, <2>1 DEF Followed
  <2>11. Granted("rename")
    BY <1>6 DEF Granted, Reply
  <2>12. QED
    BY <1>1, <1>2, <1>3, <1>4, <2>1, <2>9, <2>10, <2>11, ReplaceStep
<1>7. CASE /\ ~is_meta_file(q)
           /\ files' = Moved(files, q, r)
           /\ handle' = Followed(handle, q, r)
           /\ Reply("rename", IF InTable(p) THEN "EINVAL" ELSE "ENOENT")
           /\ UNCHANGED <<real, length, fds, phase>>
  <2>1. q \in Path \ MetaPath
    BY <1>2, <1>7 DEF is_meta_file
  <2>2. Moves(q, r)
    BY <1>1, <1>2, <1>3, <1>7, RenamedShown DEF is_meta_file
  <2>3. Follows(q, r) /\ reply'.op = "rename" /\ reply'.ret # "OK"
    BY <1>7 DEF Followed, Follows, Reply
  <2>4. QED
    BY <1>1, <1>3, <1>4, <2>1, <2>2, <2>3, HideStep
<1>8. QED
  BY <1>1, <1>5, <1>6, <1>7

(* Nothing is shown of an empty table, or when nothing is mounted.         *)
LEMMA RestartRefines ==
  ASSUME TableInv, TypeOK', Mount \/ Unmount \/ Kill
  PROVE  Step
<1>1. HandleTypes
  BY DEF HandleTypes, TableInv, TypeOK
<1>2. \A x \in Path : FileOf(x)' = Absent
  BY DEF Mount, Unmount, Kill, l_destroy, l_init, FileOf, InTable
<1>3. \A h \in Handle : handle'[h] = Closed
  BY DEF Mount, Unmount, Kill, TableInv, Backed, ClosedWhenDown
<1>4. \/ Granted("kill")
      \/ /\ Granted("mount") \/ Granted("unmount")
         /\ \A h \in Handle : handle[h] = Closed
  BY DEF Mount, Unmount, Kill, Granted, Reply, TableInv, Backed, ClosedWhenDown
<1>5. QED
  BY <1>1, <1>2, <1>3, <1>4, RestartStep

(* Reading and asking change nothing.                                      *)
LEMMA LookRefines ==
  ASSUME Getattr \/ Read
  PROVE  Step
<1>1. \E op \in {"getattr", "read"} : \E ret : Answer(op, ret)
  BY DEF Getattr, l_getattr, Read, l_read
<1>2. QED
  BY <1>1, AnswerKeeps, LookStep

(* What the two directories have in common: every request but a write to a *)
(* metafile, CREATE for one that exists, and O_TRUNC for one.              *)
LEMMA CommonSteps ==
  ASSUME NoZeroByte, TableInv, TypeOK', Next
  PROVE  \/ Step
         \/ /\ phase = "mounted"
            /\ \/ RacyCreate /\ \E h \in Handle, p \in MetaPath, excl \in BOOLEAN :
                     InTable(p) /\ l_create(h, p, excl)
               \/ AtomicTrunc /\ \E h \in Handle, p \in MetaPath : l_open(h, p, TRUE)
               \/ \E h \in Handle, e \in 1..MaxSize :
                     handle[h] \in MetaPath /\ l_write(h, e)
<1>1. CASE Getattr \/ Read
  BY <1>1, LookRefines
<1>2. CASE Create
  BY <1>2, CreateRefines DEF Create
<1>3. CASE Open
  BY <1>3, OpenRefines DEF Open
<1>4. CASE Write
  BY <1>4, WriteDataRefines DEF Write
<1>5. CASE Truncate
  BY <1>5, TruncateRefines DEF Truncate
<1>6. CASE Release
  BY <1>6, ReleaseRefines DEF Release
<1>7. CASE Unlink
  BY <1>7, UnlinkActionRefines
<1>8. CASE Rename
  BY <1>8, RenameActionRefines
<1>9. CASE RenameOntoOpen
  BY <1>9, RenameOntoOpenRefines
<1>10. CASE Mount \/ Unmount \/ Kill
  BY <1>10, RestartRefines
<1>11. QED
  BY <1>1, <1>2, <1>3, <1>4, <1>5, <1>6, <1>7, <1>8, <1>9, <1>10 DEF Next

(* What is left of them changes no data file.                              *)
LEMMA MetaElsewhere ==
  ASSUME TableInv, TypeOK', phase = "mounted", NEW h \in Handle,
         \/ \E p \in MetaPath, excl \in BOOLEAN : InTable(p) /\ l_create(h, p, excl)
         \/ \E p \in MetaPath : l_open(h, p, TRUE)
         \/ \E e \in 1..MaxSize : handle[h] \in MetaPath /\ l_write(h, e)
  PROVE  DataDir!Elsewhere
<1>1. UNCHANGED phase
  BY DEF l_create, CreateExisting, l_open, OpenMeta, OpenData, l_write, Answer
<1>2. \A x \in Path \ MetaPath : files'[x] = files[x]
  BY MetaIsPath
     DEF l_create, CreateExisting, l_open, OpenMeta, OpenData, l_write, Answer,
         is_meta_file, TableInv, TypeOK
<1>3. \A x \in Path \ MetaPath : FileOf(x)' = FileOf(x)
  BY <1>1, <1>2, DataShownSame
<1>4. \A g \in Handle : \/ handle'[g] = handle[g]
                        \/ handle[g] = Closed /\ handle'[g] \in MetaPath
  BY DEF l_create, CreateExisting, l_open, OpenMeta, OpenData, l_write, Answer,
         is_meta_file, TableInv, TypeOK
<1>5. \A g \in Handle : (IF handle'[g] \in MetaPath THEN Closed ELSE handle'[g])
                        = (IF handle[g] \in MetaPath THEN Closed ELSE handle[g])
  BY <1>4, PathsDisjoint, MetaIsPath
<1>6. QED
  BY <1>3, <1>5 DEF DataDir!Elsewhere

(* The daemon, without sharing, keeps what a flat directory promises: its  *)
(* handles follow renames, each write reaches the file it was opened on    *)
(* and no other, renames keep length and content, and what fails changes   *)
(* nothing but what FlatDir says.                                          *)
THEOREM ImplementsFlatDir ==
  ASSUME ~Sharing, ~RacyCreate, ~AtomicTrunc, NoZeroByte
  PROVE  Spec => FlatDirSpec
<1>1. Init => Dir!Init
  BY DEF Init, Dir!Init, FileOf
<1>2. ServedInv /\ ServedInv' /\ [Next]_vars => [Dir!Next]_Dir!vars
  <2>1. SUFFICES ASSUME ServedInv, ServedInv', [Next]_vars
                 PROVE  [Dir!Next]_Dir!vars
    OBVIOUS
  <2>2. TableInv /\ TypeOK'
    BY <2>1 DEF ServedInv, TableInv
  <2>3. CASE Next
    <3>1. CASE Step
      BY <3>1 DEF Step
    <3>2. CASE phase = "mounted" /\ \E h \in Handle, e \in 1..MaxSize :
                 handle[h] \in MetaPath /\ l_write(h, e)
      BY <2>1, <2>2, <3>2, WriteMetaRefines DEF Step
    <3>3. QED
      BY <2>2, <2>3, <3>1, <3>2, CommonSteps
  <2>4. CASE UNCHANGED vars
    BY <2>4 DEF vars, Dir!vars, FileOf, FileLen, FileContent, InTable
  <2>5. QED
    BY <2>1, <2>3, <2>4
<1>3. Spec => []ServedInv
  BY ServedInvariant
<1>4. QED
  BY <1>1, <1>2, <1>3, PTL DEF Spec, FlatDirSpec, Dir!Spec

(* In every mode it keeps that promise of its data files: what becomes of  *)
(* metafiles, whatever descriptors they share, lose or are given, reaches  *)
(* no data file.                                                           *)
THEOREM ImplementsDataDir ==
  ASSUME NoZeroByte
  PROVE  Spec => DataDirSpec
<1>1. Init => DataDir!Init
  BY PathsDisjoint, MetaIsPath DEF Init, DataDir!Init, FileOf
<1>2. TableInv /\ TableInv' /\ [Next]_vars
        => [DataDir!Next \/ DataDir!Elsewhere]_DataDir!vars
  <2>1. SUFFICES ASSUME TableInv, TableInv', [Next]_vars
                 PROVE  [DataDir!Next \/ DataDir!Elsewhere]_DataDir!vars
    OBVIOUS
  <2>2. TypeOK'
    BY <2>1 DEF TableInv
  <2>3. CASE Next
    BY <2>1, <2>2, <2>3, CommonSteps, MetaElsewhere DEF Step
  <2>4. CASE UNCHANGED vars
    BY <2>4 DEF vars, DataDir!vars, FileOf, FileLen, FileContent, InTable
  <2>5. QED
    BY <2>1, <2>3, <2>4
<1>3. Spec => []TableInv
  BY TableInvariant
<1>4. QED
  BY <1>1, <1>2, <1>3, PTL DEF Spec, DataDirSpec, DataDir!PartSpec
=============================================================================
