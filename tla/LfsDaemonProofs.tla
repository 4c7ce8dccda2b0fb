-------------------------- MODULE LfsDaemonProofs --------------------------
(***************************************************************************)
(* Theorems about LfsDaemon: the setup and the end of the daemon, and the  *)
(* reads it serves meanwhile.  The two parts share no variable, so that    *)
(* each has an invariant of its own.                                       *)
(***************************************************************************)
EXTENDS LfsDaemon, TLAPS

-----------------------------------------------------------------------------
(* The setup.  What each call needs is there: each step of l_setup() and   *)
(* of fuse_teardown() leaves what the next ones use, whichever it is.      *)
Needed ==
  /\ pc \in {"realstore", "parse_cmdline", "mount", "new"} => "args" \in heap
  /\ pc \notin {"options", "realstore", "parse_cmdline", "ended"} => "mountpoint" \in heap
  /\ pc \in {"new", "daemonize", "set_signal_handlers", "err_unmount", "loop",
             "remove_signal_handlers", "unmount"} => "ch" \in heap
  /\ pc \in {"daemonize", "set_signal_handlers", "err_destroy", "loop",
             "remove_signal_handlers", "unmount", "destroy"} => "fuse" \in heap

(* A mount is there only where it is still to be undone.                   *)
MountUndone ==
  mounted => \/ pc \in {"new", "daemonize", "set_signal_handlers", "err_unmount",
                        "loop", "remove_signal_handlers", "unmount"}
             \/ end = "signal"

Resolved == pc \notin {"options", "realstore", "ended"} => metadir = "absolute"

SetupInv == SetupTypeOK /\ Needed /\ ~misused /\ MountUndone /\ Resolved

(* The first state of the setup.                                           *)
LEMMA SetupInitially == SetupInit => SetupInv
  BY DEF SetupInit, SetupInv, SetupTypeOK, Needed, MountUndone, Resolved, Object

(* Every call of the setup and of the end keeps the invariant.             *)
LEMMA SetupStep == SetupInv /\ SetupNext => SetupInv'
<1> SUFFICES ASSUME SetupInv, SetupNext PROVE SetupInv'
    OBVIOUS
<1> USE DEF SetupInv, SetupTypeOK, Needed, MountUndone, Resolved, Object,
            Goto, Exit, Uses, Frees, KeepsHeap
<1>1. CASE Options
      BY <1>1 DEF Options
<1>2. CASE Realstore
      BY <1>2 DEF Realstore
<1>3. CASE ParseCmdline
      BY <1>3 DEF ParseCmdline
<1>4. CASE Mount
      BY <1>4 DEF Mount
<1>5. CASE New
      BY <1>5 DEF New
<1>6. CASE Daemonize
      BY <1>6 DEF Daemonize
<1>7. CASE SetSignalHandlers
      BY <1>7 DEF SetSignalHandlers
<1>8. CASE ErrUnmount
      BY <1>8 DEF ErrUnmount
<1>9. CASE ErrDestroy
      BY <1>9 DEF ErrDestroy
<1>10. CASE ErrFree
      BY <1>10 DEF ErrFree
<1>11. CASE HandleInit
      BY <1>11 DEF HandleInit
<1>12. CASE LoopEnds
      BY <1>12 DEF LoopEnds
<1>13. CASE RemoveSignalHandlers
      BY <1>13 DEF RemoveSignalHandlers
<1>14. CASE Unmount
      BY <1>14 DEF Unmount
<1>15. CASE Destroy
      BY <1>15 DEF Destroy
<1>16. CASE Free
      BY <1>16 DEF Free
<1>17. CASE Killed
      BY <1>17 DEF Killed
<1>18. CASE Unmounted
      BY <1>18 DEF Unmounted
<1> QED
    BY <1>1, <1>2, <1>3, <1>4, <1>5, <1>6, <1>7, <1>8, <1>9, <1>10, <1>11, <1>12,
       <1>13, <1>14, <1>15, <1>16, <1>17, <1>18 DEF SetupNext

-----------------------------------------------------------------------------
(* One data file.  The record of a read, with all its fields.              *)
ReadRecord ==
  [pc : {"idle", "reading", "returned"}, offset : Offsets, count : Counts, i : Nat,
   buf : UNION {[0..c - 1 -> Byte] : c \in Counts}, lo : Sizes, hi : Sizes]

(* The byte that the name spells, at place b of the pattern.               *)
SpelledAt(b) == 16 * created[2 * b + 1] + created[2 * b + 2]

PatternInv == exists /\ Spelled(created) => \A b \in 0..3 : pattern[b] = SpelledAt(b)

(* The size is within what the history says, and the bytes put in buf so   *)
(* far were in the file at some time.                                      *)
ReadingInv ==
  /\ read.pc # "idle" => exists
  /\ Reading => /\ read.lo <= size /\ size <= read.hi
                /\ read.i > 0 => read.offset + read.i <= read.hi
  /\ Reading /\ Spelled(created) =>
       \A k \in 0..read.i - 1 : read.buf[k] = SpelledAt((read.offset + k) % 4)

DataInv == DataTypeOK /\ read \in ReadRecord /\ PatternInv /\ ReadingInv /\ ReadRight

USE Bounds DEF Sizes, Offsets, Counts

(* The file of the first state has not been created.                       *)
LEMMA DataInitially == DataInit => DataInv
<1> SUFFICES ASSUME DataInit PROVE DataInv
    OBVIOUS
<1>1. Uninit \in Byte
      BY DEF Byte
<1>2. read.buf \in [0..0 -> Byte] /\ 1 \in Counts /\ 0..0 = 0..1 - 1
      BY <1>1 DEF DataInit
<1>3. read \in ReadRecord
      BY <1>2 DEF DataInit, ReadRecord
<1>4. DataTypeOK
  <2>1. {name, created} \subseteq Name /\ size \in Sizes
        BY DEF DataInit
  <2>2. pattern \in [0..3 -> Byte]
        BY <1>1 DEF DataInit
  <2>3. /\ read.pc = "idle" /\ read.offset = 0 /\ read.count = 1 /\ read.i = 0
        /\ read.lo = 0 /\ read.hi = 0
        BY DEF DataInit
  <2>4. exists \in BOOLEAN
        BY DEF DataInit
  <2> QED
      BY <1>2, <2>1, <2>2, <2>3, <2>4 DEF DataTypeOK
<1>5. PatternInv /\ ReadingInv /\ ReadRight
      BY DEF DataInit, PatternInv, ReadingInv, ReadRight, Returns, Reading
<1> QED
    BY <1>3, <1>4, <1>5 DEF DataInv

(* A change of the size while the file is read widens the history.         *)
LEMMA ResizedKeeps ==
  ASSUME DataInv, NEW n \in Sizes, Resized(n), exists' \in BOOLEAN, exists => exists',
         exists => UNCHANGED created, {name', created'} \subseteq Name,
         pattern' \in [0..3 -> Byte], PatternInv'
  PROVE  DataInv'
<1> USE DEF DataInv
<1>1. /\ read'.pc = read.pc /\ read'.offset = read.offset /\ read'.count = read.count
      /\ read'.i = read.i /\ read'.buf = read.buf
      BY DEF Resized, ReadRecord
<1>2. /\ size' = n
      /\ read'.lo \in Sizes /\ read'.hi \in Sizes
      /\ read' \in ReadRecord
      BY DEF Resized, ReadRecord, Smaller, Larger
<1>3. DataTypeOK'
      BY <1>1, <1>2 DEF DataTypeOK
<1>4. Reading' = Reading
      BY <1>1 DEF Reading
<1>5. Reading => /\ read'.lo <= size' /\ size' <= read'.hi
                 /\ read'.i > 0 => read'.offset + read'.i <= read'.hi
  <2>1. read \in ReadRecord /\ ReadingInv /\ Resized(n) /\ n \in Sizes /\ size \in Sizes
        BY DEF DataTypeOK
  <2>2. /\ read.lo \in Nat /\ read.hi \in Nat /\ read.offset \in Nat /\ read.i \in Nat
        /\ n \in Nat /\ size \in Nat
        BY DEF DataTypeOK
  <2>3. Reading => read'.lo = Smaller(read.lo, n) /\ read'.hi = Larger(read.hi, n)
        BY ONLY <2>1 DEF Resized, ReadRecord
  <2>4. Reading => /\ read.lo <= size /\ size <= read.hi
                   /\ read.i > 0 => read.offset + read.i <= read.hi
        BY ONLY <2>1 DEF ReadingInv
  <2> QED
      BY ONLY <2>2, <2>3, <2>4, <1>1, <1>2 DEF Smaller, Larger
<1>6. ReadingInv'
      BY <1>1, <1>4, <1>5 DEF ReadingInv, Reading, SpelledAt
<1>7. ReadRight'
  <2>1. CASE read.pc = "returned"
        BY <2>1, <1>1 DEF Resized, Reading, ReadRight, Returns, ReadingInv, Available
  <2>2. CASE read.pc # "returned"
        BY <2>2, <1>1 DEF ReadRight, Returns
  <2> QED
      BY <2>1, <2>2
<1> QED
    BY <1>2, <1>3, <1>6, <1>7

(* A name spells bytes, and the pattern made of it is those.               *)
LEMMA PatternOfName ==
  ASSUME NEW s \in Name
  PROVE  /\ parse_pattern(s) \in [0..3 -> Byte]
         /\ Spelled(s) =>
              \A b \in 0..3 : parse_pattern(s)[b] = 16 * s[2 * b + 1] + s[2 * b + 2]
<1>1. ASSUME NEW b \in 0..3, Len(s) = 8, s[2 * b + 1] # Other
      PROVE  Digits(s, b) \in Byte
  <2>1. s \in [1..8 -> 0..15 \union {Other}]
        BY <1>1, Names
  <2>2. 2 * b + 1 \in 1..8 /\ 2 * b + 2 \in 1..8
        OBVIOUS
  <2>3. s[2 * b + 1] \in 0..15 /\ s[2 * b + 2] \in 0..15 \union {Other}
        BY <2>1, <2>2, <1>1
  <2> QED
      BY <2>3 DEF Digits, Byte
<1>2. ASSUME NEW b \in 0..3
      PROVE  parse_pattern(s)[b] \in Byte
      BY <1>1 DEF parse_pattern, Byte
<1>3. parse_pattern(s) \in [0..3 -> Byte]
      BY <1>2 DEF parse_pattern
<1>4. ASSUME Spelled(s), NEW b \in 0..3
      PROVE  parse_pattern(s)[b] = 16 * s[2 * b + 1] + s[2 * b + 2]
  <2>1. \A j \in 0..3 : 2 * j + 1 \in 1..8 /\ 2 * j + 2 \in 1..8
        OBVIOUS
  <2>2. Len(s) = 8 /\ \A j \in 0..3 : s[2 * j + 1] # Other /\ s[2 * j + 2] # Other
        BY <1>4, <2>1 DEF Spelled
  <2> QED
      BY <2>2 DEF parse_pattern, Digits
<1> QED
    BY <1>3, <1>4

(* A creation makes the pattern that the name spells.                      *)
LEMMA CreateKeeps == DataInv /\ l_create => DataInv'
<1> SUFFICES ASSUME DataInv, l_create PROVE DataInv'
    OBVIOUS
<1>1. 0 \in Sizes /\ Resized(0)
      BY DEF l_create
<1>2. /\ exists' = TRUE
      /\ {name', created'} \subseteq Name
      /\ exists => UNCHANGED created
      /\ pattern' \in [0..3 -> Byte]
      BY PatternOfName DEF l_create, DataInv, DataTypeOK
<1>3. PatternInv'
  <2>1. CASE exists
        BY <2>1 DEF l_create, DataInv, PatternInv, SpelledAt
  <2>2. CASE ~exists
        BY <2>2, PatternOfName DEF l_create, PatternInv, SpelledAt
  <2> QED
      BY <2>1, <2>2
<1> QED
    BY <1>1, <1>2, <1>3, ResizedKeeps

(* A write changes the size only.                                          *)
LEMMA WriteKeeps == DataInv /\ l_write => DataInv'
<1> SUFFICES ASSUME DataInv, l_write PROVE DataInv'
    OBVIOUS
<1>1. PICK offset \in Sizes, count \in Counts :
        offset + count <= MaxSize /\ Resized(Larger(size, offset + count))
      BY DEF l_write
<1>2. Larger(size, offset + count) \in Sizes
      BY <1>1 DEF DataInv, DataTypeOK, Larger
<1>3. PatternInv'
      BY DEF l_write, DataInv, PatternInv, SpelledAt
<1> QED
    BY <1>1, <1>2, <1>3, ResizedKeeps DEF l_write, DataInv, DataTypeOK

(* A truncation changes the size only.                                     *)
LEMMA TruncateKeeps == DataInv /\ l_truncate => DataInv'
<1> SUFFICES ASSUME DataInv, l_truncate PROVE DataInv'
    OBVIOUS
<1>1. PatternInv'
      BY DEF l_truncate, DataInv, PatternInv, SpelledAt
<1> QED
    BY <1>1, ResizedKeeps DEF l_truncate, DataInv, DataTypeOK

(* A rename copies a pattern without a zero byte whole.                    *)
LEMMA RenameKeeps == DataInv /\ l_rename => DataInv'
<1> SUFFICES ASSUME DataInv, l_rename PROVE DataInv'
    OBVIOUS
<1> USE DEF DataInv, l_rename
<1>1. pattern' \in [0..3 -> Byte]
  <2>1. 0 \in Byte /\ \A b \in 0..3 : pattern[b] \in Byte
        BY DEF DataTypeOK, Byte
  <2> QED
      BY <2>1 DEF strncpy
<1>2. PatternInv'
  <2> SUFFICES ASSUME Spelled(created), NEW b \in 0..3
               PROVE  pattern'[b] = SpelledAt(b)
      BY DEF PatternInv, SpelledAt
  <2>1. \A j \in 0..3 : pattern[j] = SpelledAt(j) /\ SpelledAt(j) # 0
        BY DEF PatternInv, Spelled, SpelledAt
  <2>2. ~ \E j \in 0..b : pattern[j] = 0
        BY <2>1
  <2> QED
      BY <2>1, <2>2 DEF strncpy
<1>3. UNCHANGED <<exists, created, size, read>> /\ name' \in Name
      OBVIOUS
<1>4. ReadingInv' /\ ReadRight'
      BY <1>3 DEF ReadingInv, ReadRight, Returns, Reading, SpelledAt, Available
<1> QED
    BY <1>1, <1>2, <1>3, <1>4 DEF DataTypeOK

(* A read begins with no byte in buf.                                      *)
LEMMA ReadKeeps == DataInv /\ l_read => DataInv'
<1> SUFFICES ASSUME DataInv, l_read PROVE DataInv'
    OBVIOUS
<1> USE DEF DataInv
<1>1. PICK offset \in Offsets, count \in Counts :
        read' = [pc |-> "reading", offset |-> offset, count |-> count, i |-> 0,
                 buf |-> [k \in 0..count - 1 |-> Uninit], lo |-> size, hi |-> size]
      BY DEF l_read
<1>2. UNCHANGED <<exists, name, created, size, pattern>> /\ exists
      BY DEF l_read
<1>3. [k \in 0..count - 1 |-> Uninit] \in [0..count - 1 -> Byte]
      BY DEF Byte
<1>4. read' \in ReadRecord
      BY <1>1, <1>3 DEF ReadRecord, DataTypeOK
<1>5. DataTypeOK'
  <2>1. /\ read'.pc = "reading" /\ read'.offset = offset /\ read'.count = count
        /\ read'.i = 0 /\ read'.buf = [k \in 0..count - 1 |-> Uninit]
        /\ read'.lo = size /\ read'.hi = size
        BY <1>1
  <2>2. 0 \in 0..count
        OBVIOUS
  <2> QED
      BY <1>2, <1>3, <2>1, <2>2 DEF DataTypeOK
<1>6. PatternInv'
      BY <1>2 DEF PatternInv, SpelledAt
<1>7. ReadingInv' /\ ReadRight'
  <2>1. read'.pc = "reading" /\ read'.i = 0 /\ read'.lo = size /\ read'.hi = size
        BY <1>1
  <2>2. size \in Nat
        BY DEF DataTypeOK
  <2> QED
      BY <1>2, <2>1, <2>2 DEF ReadingInv, ReadRight, Reading
<1> QED
    BY <1>4, <1>5, <1>6, <1>7

(* A place in the pattern.                                                 *)
LEMMA ModFour == \A n \in Nat : n % 4 \in 0..3
  OBVIOUS

(* A read that goes on is a read.                                          *)
LEMMA RecordStep ==
  ASSUME NEW r \in ReadRecord, NEW j \in Nat,
         NEW f \in UNION {[0..c - 1 -> Byte] : c \in Counts}
  PROVE  [r EXCEPT !.buf = f, !.i = j] \in ReadRecord
  BY DEF ReadRecord

(* One more byte is in buf.                                                *)
LEMMA NextByteKeeps == DataInv /\ NextByte => DataInv'
<1> SUFFICES ASSUME DataInv, NextByte PROVE DataInv'
    OBVIOUS
<1> USE DEF DataInv, NextByte
<1> DEFINE b == pattern[(read.offset + read.i) % 4]
<1>1. /\ read.offset \in Nat /\ read.count \in Nat /\ read.i \in Nat
      /\ read.i < read.count /\ read.buf \in [0..read.count - 1 -> Byte]
      /\ read.offset + read.i < size /\ read.pc = "reading"
      /\ size \in Sizes
      BY DEF DataTypeOK, Reading, AtEnd
<1>2. (read.offset + read.i) % 4 \in 0..3
      BY <1>1, ModFour
<1>3. b \in Byte
      BY <1>2 DEF DataTypeOK
<1>4. /\ read'.pc = read.pc /\ read'.offset = read.offset /\ read'.count = read.count
      /\ read'.lo = read.lo /\ read'.hi = read.hi /\ read'.i = read.i + 1
      /\ read'.buf = [read.buf EXCEPT ![read.i] = b]
      BY DEF ReadRecord
<1>5. read'.buf \in [0..read.count - 1 -> Byte]
      BY <1>1, <1>3, <1>4
<1>6. read' \in ReadRecord
  <2>1. read.count \in Counts
        BY DEF DataTypeOK
  <2>2. read'.buf \in UNION {[0..c - 1 -> Byte] : c \in Counts}
        BY <1>5, <2>1
  <2>3. read' = [read EXCEPT !.buf = read'.buf, !.i = read.i + 1]
        BY <1>4
  <2>4. read \in ReadRecord /\ read.i + 1 \in Nat
        BY <1>1
  <2> HIDE DEF DataInv, NextByte
  <2> QED
    <3> DEFINE f == read'.buf
               j == read.i + 1
    <3>1. f \in UNION {[0..c - 1 -> Byte] : c \in Counts} /\ j \in Nat
          BY <2>2, <2>4
    <3>2. read \in ReadRecord
          BY <2>4
    <3> HIDE DEF f, j
    <3>3. [read EXCEPT !.buf = f, !.i = j] \in ReadRecord
          BY <3>1, <3>2, RecordStep
    <3> QED
        BY <2>3, <3>3 DEF f, j
<1>7. DataTypeOK'
  <2>1. DataTypeOK /\ UNCHANGED <<exists, name, created, size, pattern>>
        BY DEF NextByte
  <2>2. read.i + 1 \in 0..read.count
        BY <1>1
  <2> HIDE DEF DataInv, NextByte
  <2> QED
      BY ONLY <1>1, <1>4, <1>5, <2>1, <2>2 DEF DataTypeOK
<1>8. PatternInv'
      BY DEF PatternInv, SpelledAt
<1>9. Spelled(created) =>
        \A k \in 0..read'.i - 1 : read'.buf[k] = SpelledAt((read.offset + k) % 4)
  <2> SUFFICES ASSUME Spelled(created), NEW k \in 0..read.i
               PROVE  read'.buf[k] = SpelledAt((read.offset + k) % 4)
      BY <1>1, <1>4
  <2>1. CASE k = read.i
    <3>1. b = SpelledAt((read.offset + read.i) % 4)
          BY <1>1, <1>2 DEF PatternInv, ReadingInv
    <3> QED
        BY <2>1, <3>1, <1>1, <1>4
  <2>2. CASE k # read.i
    <3>1. k \in 0..read.i - 1 /\ k \in 0..read.count - 1
          BY <2>2, <1>1
    <3>2. read.buf[k] = SpelledAt((read.offset + k) % 4)
          BY <3>1, <1>1 DEF ReadingInv, Reading
    <3> QED
        BY <2>2, <3>1, <3>2, <1>1, <1>4
  <2> QED
      BY <2>1, <2>2
<1>10. ReadingInv'
  <2>1. read'.lo <= size' /\ size' <= read'.hi /\ read'.offset + read'.i <= read'.hi
        BY <1>1, <1>4 DEF ReadingInv, Reading, DataTypeOK
  <2>2. exists'
        BY <1>1 DEF ReadingInv
  <2> QED
      BY <1>4, <1>9, <2>1, <2>2 DEF ReadingInv, SpelledAt
<1>11. ReadRight'
      BY <1>1, <1>4 DEF ReadRight, Returns
<1> QED
    BY <1>6, <1>7, <1>8, <1>10, <1>11

(* The read ends before the count is reached: zeros follow the bytes.      *)
LEMMA EndOfFileKeeps == DataInv /\ EndOfFile => DataInv'
<1> SUFFICES ASSUME DataInv, EndOfFile PROVE DataInv'
    OBVIOUS
<1> USE DEF DataInv, EndOfFile
<1> DEFINE zeroed == [k \in DOMAIN read.buf |-> IF k < read.i THEN read.buf[k] ELSE 0]
<1>1. /\ read.offset \in Nat /\ read.count \in Nat /\ read.i \in Nat
      /\ read.i < read.count /\ read.buf \in [0..read.count - 1 -> Byte]
      /\ read.offset + read.i >= size /\ read.pc = "reading"
      /\ size \in Nat /\ read.lo \in Nat /\ read.hi \in Nat
      BY DEF DataTypeOK, Reading, AtEnd
<1>2. /\ read'.pc = "returned" /\ read'.offset = read.offset /\ read'.count = read.count
      /\ read'.lo = read.lo /\ read'.hi = read.hi /\ read'.i = read.i
      /\ read'.buf = zeroed
      BY DEF ReadRecord
<1>3. zeroed \in [0..read.count - 1 -> Byte]
  <2>1. 0 \in Byte /\ DOMAIN read.buf = 0..read.count - 1
        BY <1>1 DEF Byte
  <2>2. \A k \in 0..read.count - 1 : read.buf[k] \in Byte
        BY <1>1
  <2> QED
      BY <2>1, <2>2
<1>4. read' \in ReadRecord
  <2>1. read'.buf \in UNION {[0..c - 1 -> Byte] : c \in Counts}
        BY <1>2, <1>3 DEF DataTypeOK
  <2> QED
      BY <1>2, <2>1 DEF ReadRecord
<1>5. DataTypeOK'
      BY <1>1, <1>2, <1>3 DEF DataTypeOK
<1>6. PatternInv' /\ ReadingInv'
      BY <1>1, <1>2 DEF PatternInv, SpelledAt, ReadingInv, Reading
<1>7. read.i \in Available(read.lo)..Available(read.hi)
  <2>1. /\ read.lo <= size /\ size <= read.hi
        /\ read.i > 0 => read.offset + read.i <= read.hi
        BY <1>1 DEF ReadingInv, Reading
  <2> HIDE DEF DataInv, EndOfFile
  <2>2. Available(read.lo) \in 0..read.i
        BY <1>1, <2>1 DEF Available, Smaller, Larger
  <2>3. Available(read.hi) \in Nat /\ read.i <= Available(read.hi)
        BY <1>1, <2>1 DEF Available, Smaller, Larger
  <2> QED
      BY <1>1, <2>2, <2>3
<1>8. Available(read.lo)' = Available(read.lo) /\ Available(read.hi)' = Available(read.hi)
      BY <1>2 DEF Available
<1>9. Spelled(created) =>
        \A k \in 0..read.count - 1 :
          zeroed[k] = IF k < read.i THEN SpelledAt((read.offset + k) % 4) ELSE 0
  <2> SUFFICES ASSUME Spelled(created), NEW k \in 0..read.count - 1
               PROVE  zeroed[k] = IF k < read.i THEN SpelledAt((read.offset + k) % 4) ELSE 0
      OBVIOUS
  <2>1. k < read.i => read.buf[k] = SpelledAt((read.offset + k) % 4)
        BY <1>1 DEF ReadingInv, Reading
  <2> QED
      BY <2>1, <1>1
<1>10. ReadRight'
      BY <1>2, <1>7, <1>8, <1>9 DEF ReadRight, Returns, SpelledAt
<1> QED
    BY <1>4, <1>5, <1>6, <1>10

(* All bytes have been read, so that none is to be filled.                 *)
LEMMA AllReadKeeps == DataInv /\ AllRead => DataInv'
<1> SUFFICES ASSUME DataInv, AllRead PROVE DataInv'
    OBVIOUS
<1> USE DEF DataInv, AllRead
<1>1. /\ read.offset \in Nat /\ read.count \in Nat \ {0} /\ read.i = read.count
      /\ read.pc = "reading"
      /\ size \in Nat /\ read.lo \in Nat /\ read.hi \in Nat
      BY DEF DataTypeOK, Reading
<1>2. /\ read'.pc = "returned" /\ read'.offset = read.offset /\ read'.count = read.count
      /\ read'.lo = read.lo /\ read'.hi = read.hi /\ read'.i = read.i
      /\ read'.buf = read.buf
      /\ read' \in ReadRecord
      BY DEF ReadRecord
<1>3. DataTypeOK'
      BY <1>2 DEF DataTypeOK
<1>4. PatternInv' /\ ReadingInv'
      BY <1>1, <1>2 DEF PatternInv, SpelledAt, ReadingInv, Reading
<1>5. read.i \in Available(read.lo)..Available(read.hi)
      BY <1>1 DEF ReadingInv, Reading, Available, Smaller, Larger
<1>6. Available(read.lo)' = Available(read.lo) /\ Available(read.hi)' = Available(read.hi)
      BY <1>2 DEF Available
<1>7. Spelled(created) =>
        \A k \in 0..read.count - 1 :
          k < read.i /\ read.buf[k] = SpelledAt((read.offset + k) % 4)
      BY <1>1 DEF ReadingInv, Reading
<1>8. ReadRight'
      BY <1>2, <1>5, <1>6, <1>7 DEF ReadRight, Returns, SpelledAt
<1> QED
    BY <1>2, <1>3, <1>4, <1>8

(* Every step of a handler keeps the invariant of the file.                *)
LEMMA DataStep ==
  ASSUME NEW m \in BOOLEAN, DataInv, DataNext(m) PROVE DataInv'
  BY CreateKeeps, WriteKeeps, TruncateKeeps, RenameKeeps, ReadKeeps, NextByteKeeps,
     EndOfFileKeeps, AllReadKeeps DEF DataNext

-----------------------------------------------------------------------------
(* The daemon.                                                             *)
Inv == SetupInv /\ DataInv

(* Either part of the daemon steps, or neither.                            *)
LEMMA InvInductive == Inv /\ [Next]_vars => Inv'
<1> SUFFICES ASSUME Inv, [Next]_vars PROVE Inv'
    OBVIOUS
<1>1. UNCHANGED setupVars => SetupInv'
      BY DEF Inv, SetupInv, SetupTypeOK, Needed, MountUndone, Resolved, setupVars
<1>2. UNCHANGED dataVars => DataInv'
      BY DEF Inv, DataInv, DataTypeOK, PatternInv, SpelledAt, ReadingInv, Reading,
             ReadRight, Returns, Available, dataVars
<1>3. CASE Serve
      BY <1>1, <1>3, DataStep DEF Serve, Inv, SetupInv, SetupTypeOK
<1>4. CASE Run
      BY <1>2, <1>4, SetupStep DEF Run, Inv
<1>5. CASE UNCHANGED vars
  <2>1. UNCHANGED setupVars /\ UNCHANGED dataVars
        BY <1>5 DEF vars, setupVars, dataVars
  <2> QED
      BY <1>1, <1>2, <2>1 DEF Inv
<1> QED
    BY <1>3, <1>4, <1>5 DEF Next

(* The invariant holds in every behaviour.                                 *)
LEMMA InvAlways == Spec => []Inv
<1>1. Init => Inv
      BY SetupInitially, DataInitially DEF Init, Inv
<1> QED
    BY <1>1, InvInductive, PTL DEF Spec

(* Every variable has its type.                                            *)
THEOREM TypeCorrect == Spec => []TypeOK
<1>1. Inv => TypeOK
      BY DEF Inv, SetupInv, DataInv, TypeOK
<1> QED
    BY <1>1, InvAlways, PTL

(* The realstore is resolved before the daemon leaves its directory        *)
(* (lfs.c:716).                                                            *)
THEOREM RealstoreIsReached == Spec => []RealstoreReached
<1>1. Inv => RealstoreReached
      BY DEF Inv, SetupInv, Resolved, RealstoreReached
<1> QED
    BY <1>1, InvAlways, PTL

(* No path through l_setup() and fuse_teardown() leaves a mount behind, or *)
(* uses what is not there.                                                 *)
THEOREM EndIsClean == Spec => []EndsClean
<1>1. Inv => EndsClean
      BY DEF Inv, SetupInv, SetupTypeOK, MountUndone, EndsClean
<1> QED
    BY <1>1, InvAlways, PTL

(* A read returns the bytes that the name spells under which its file was  *)
(* created, of a file that has been renamed any number of times and whose  *)
(* size changes in any way while it is read (lfs.c:259-295, 513-526).      *)
THEOREM ReadsAreRight == Spec => []ReadRight
<1>1. Inv => ReadRight
      BY DEF Inv, DataInv
<1> QED
    BY <1>1, InvAlways, PTL
=============================================================================
