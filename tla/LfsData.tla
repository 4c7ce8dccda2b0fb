------------------------------- MODULE LfsData -------------------------------
(***************************************************************************)
(* lfs.c: the bytes of one data file, which are never stored: l_read()     *)
(* makes them from the pattern that the file's name spells, byte by byte,  *)
(* and compares the file's size anew for each.  On several threads other   *)
(* handlers change the size in between.  Those are one step each: they     *)
(* need the kernel's lock on the inode, which a read does not take.        *)
(*                                                                         *)
(* A name is the sequence of its first eight characters, fewer if it is    *)
(* shorter: a hexadecimal digit is its value and any other character       *)
(* Other.  (Blanks, signs and x, which sscanf() takes for part of a        *)
(* number, do not occur.)                                                  *)
(***************************************************************************)
EXTENDS Integers, Sequences

CONSTANTS
  Name,      \* the names a file may be created under
  Other,
  Uninit,    \* a byte of memory that has never been written
  MaxSize,   \* bound: longest file
  MaxOffset, \* bound: where a read begins
  MaxCount   \* bound: longest read

ASSUME Bounds ==
  /\ MaxSize \in Nat /\ MaxOffset \in Nat /\ MaxCount \in Nat \ {0}

ASSUME Names ==
  /\ Other \notin 0..15
  /\ Uninit \notin 0..255
  /\ \A s \in Name : Len(s) \in 1..8 /\ s \in [1..Len(s) -> 0..15 \union {Other}]

VARIABLES
  exists,  \* the file has been created
  name,    \* file->path
  created, \* history: the name it was created under
  size,    \* file->size
  pattern, \* file->pattern
  read     \* the call of l_read() that runs, or ran last

dataVars == <<exists, name, created, size, pattern, read>>

Smaller(m, n) == IF m < n THEN m ELSE n
Larger(m, n) == IF m < n THEN n ELSE m

Byte == 0..255 \union {Uninit}
Sizes == 0..MaxSize
Offsets == 0..MaxOffset
Counts == 1..MaxCount

-----------------------------------------------------------------------------
(* "%2hhx": a digit, and a second one if there is one.                     *)
Digits(s, i) ==
  IF s[2 * i + 2] = Other THEN s[2 * i + 1] ELSE 16 * s[2 * i + 1] + s[2 * i + 2]

(* It stops at the first two characters that begin with no digit, and what *)
(* malloc() left is there from then on; l_create() does not check that.    *)
parse_pattern(s) ==
  [i \in 0..3 |->
     IF Len(s) = 8 /\ \A j \in 0..i : s[2 * j + 1] # Other
     THEN Digits(s, i) ELSE Uninit]

(* strncpy() of four bytes, in l_rename().                                 *)
strncpy(p) == [i \in 0..3 |-> IF \E j \in 0..i : p[j] = 0 THEN 0 ELSE p[i]]

-----------------------------------------------------------------------------
Reading == read.pc = "reading"

(* The sizes the file has had during the call are between lo and hi.       *)
Resized(n) ==
  /\ size' = n
  /\ read' = IF Reading
             THEN [read EXCEPT !.lo = Smaller(@, n), !.hi = Larger(@, n)] ELSE read

(* A new file gets its pattern; one that is there is emptied, as it is by  *)
(* O_TRUNC where the kernel leaves that to open().                         *)
l_create ==
  /\ \/ /\ ~exists
        /\ exists' = TRUE
        /\ name' \in Name
        /\ created' = name'
        /\ pattern' = parse_pattern(name')
     \/ /\ exists
        /\ UNCHANGED <<exists, name, created, pattern>>
  /\ Resized(0)

l_write ==
  /\ exists
  /\ \E offset \in Sizes, count \in Counts :
       /\ offset + count <= MaxSize
       /\ Resized(Larger(size, offset + count))
  /\ UNCHANGED <<exists, name, created, pattern>>

l_truncate ==
  /\ exists
  /\ \E n \in Sizes : Resized(n)
  /\ UNCHANGED <<exists, name, created, pattern>>

(* A file gets a name that no file has, and keeps the pattern of its old   *)
(* one.  libfuse's lock on the path keeps a rename out while it is read.   *)
l_rename ==
  /\ exists /\ ~Reading
  /\ name' \in Name \ {name}
  /\ pattern' = strncpy(pattern)
  /\ UNCHANGED <<exists, created, size, read>>

-----------------------------------------------------------------------------
(* l_read() of count bytes, of which i have been put in buf.               *)
l_read ==
  /\ exists /\ ~Reading
  /\ \E offset \in Offsets, count \in Counts :
       read' = [pc |-> "reading", offset |-> offset, count |-> count, i |-> 0,
                buf |-> [k \in 0..count - 1 |-> Uninit], lo |-> size, hi |-> size]
  /\ UNCHANGED <<exists, name, created, size, pattern>>

(* Fault: a byte too many.                                                 *)
AtEndLate == read.offset + read.i > size

AtEnd == read.offset + read.i >= size

(* Fault: the loop goes on to i = count.                                   *)
NextByteBeyond ==
  /\ Reading /\ read.i <= read.count /\ ~AtEnd
  /\ read' = [read EXCEPT !.buf[read.i] = pattern[(read.offset + read.i) % 4],
                          !.i = @ + 1]
  /\ UNCHANGED <<exists, name, created, size, pattern>>

NextByte ==
  /\ Reading /\ read.i < read.count /\ ~AtEnd
  /\ read' = [read EXCEPT !.buf[read.i] = pattern[(read.offset + read.i) % 4],
                          !.i = @ + 1]
  /\ UNCHANGED <<exists, name, created, size, pattern>>

(* The end of the file: zeros fill the buffer.                             *)
EndOfFile ==
  /\ Reading /\ read.i < read.count /\ AtEnd
  /\ read' = [read EXCEPT !.pc = "returned",
                          !.buf = [k \in DOMAIN @ |-> IF k < read.i THEN @[k] ELSE 0]]
  /\ UNCHANGED <<exists, name, created, size, pattern>>

AllRead ==
  /\ Reading /\ read.i = read.count
  /\ read' = [read EXCEPT !.pc = "returned"]
  /\ UNCHANGED <<exists, name, created, size, pattern>>

-----------------------------------------------------------------------------
DataInit ==
  /\ exists = FALSE
  /\ name \in Name
  /\ created = name
  /\ size = 0
  /\ pattern = [i \in 0..3 |-> Uninit]
  /\ read = [pc |-> "idle", offset |-> 0, count |-> 1, i |-> 0,
             buf |-> [k \in 0..0 |-> Uninit], lo |-> 0, hi |-> 0]

(* On one thread no other handler runs during a read.                      *)
DataNext(multithreaded) ==
  \/ l_read \/ NextByte \/ EndOfFile \/ AllRead
  \/ /\ multithreaded \/ ~Reading
     /\ l_create \/ l_write \/ l_truncate \/ l_rename

DataTypeOK ==
  /\ exists \in BOOLEAN
  /\ {name, created} \subseteq Name
  /\ size \in Sizes
  /\ pattern \in [0..3 -> Byte]
  /\ read.pc \in {"idle", "reading", "returned"}
  /\ read.offset \in Offsets /\ read.count \in Counts
  /\ read.i \in 0..read.count
  /\ read.buf \in [0..read.count - 1 -> Byte]
  /\ read.lo \in Sizes /\ read.hi \in Sizes

-----------------------------------------------------------------------------
(* A name of hexadecimal digits spells a pattern, and strncpy() copies it  *)
(* whole if it has no byte of zero.                                        *)
Spelled(s) ==
  /\ Len(s) = 8 /\ \A i \in 1..8 : s[i] # Other
  /\ \A i \in 0..3 : 16 * s[2 * i + 1] + s[2 * i + 2] # 0

(* What a read at one time, of a file of n bytes, would return.            *)
Available(n) == Larger(0, Smaller(read.count, n - read.offset))

(* A read that returned has the bytes that s spells; there are as many as  *)
(* the file had at some size between the least and the greatest during the *)
(* call, so that on one thread it is exact; and zeros follow them.         *)
Returns(s) ==
  /\ read.i \in Available(read.lo)..Available(read.hi)
  /\ \A k \in 0..read.count - 1 :
       read.buf[k] =
         IF k < read.i
         THEN LET b == (read.offset + k) % 4 IN 16 * s[2 * b + 1] + s[2 * b + 2]
         ELSE 0

(* "Iteratively returns a byte from a 4-byte preset pattern" (lfs.c:259):  *)
(* the bytes returned are those that the name spells under which the file  *)
(* was created, whatever it is renamed to, and whatever happens to its     *)
(* size meanwhile.                                                         *)
ReadRight == read.pc = "returned" /\ Spelled(created) => Returns(created)

(* The same of the name that the file has now: a rename copies the pattern *)
(* and makes none of the new name (lfs.c:523).                             *)
PresentNameRead == read.pc = "returned" /\ Spelled(name) => Returns(name)
=============================================================================
