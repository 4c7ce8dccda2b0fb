------------------------------ MODULE FlatDir ------------------------------
(***************************************************************************)
(* What a user of a mounted LFS is promised, without saying how it is      *)
(* kept: one directory of named files.  A file has a length and a content, *)
(* the content stays with the file when it is renamed, and an open handle  *)
(* keeps naming the file it was opened on.  What a request may change is   *)
(* told by the reply to it.                                                *)
(***************************************************************************)
EXTENDS Naturals

CONSTANTS
  Path,     \* file names
  Hidden,   \* those that files go on under when they are unlinked while open
  Handle,   \* open file descriptions
  Content,  \* what distinguishes the bytes of two files of one length
  MaxLen,   \* longest file
  NoFile,   \* no file has this name
  Closed    \* the handle is not open

VARIABLES
  dir,      \* Path -> the file of that name
  open,     \* Handle -> the name, by now, of the file it was opened on
  reply     \* the last request, whether it succeeded, and of a write the handle

vars == <<dir, open, reply>>

Exists(p) == dir[p] # NoFile
IsOpen(p) == \E h \in Handle : open[h] = p

(* The request op has been granted.                                        *)
Done(op) == reply'.op = op /\ reply'.ret = "OK"

(* From now on what was named p is named q.                                *)
Follow(p, q) == open' = [h \in Handle |-> IF open[h] = p THEN q ELSE open[h]]

Init ==
  /\ dir = [p \in Path |-> NoFile]
  /\ open = [h \in Handle |-> Closed]

(* A new, empty file, open on h.  The content is the creator's choice.     *)
Create(h, p, c) ==
  /\ open[h] = Closed
  /\ ~Exists(p)
  /\ dir' = [dir EXCEPT ![p] = [len |-> 0, content |-> c]]
  /\ open' = [open EXCEPT ![h] = p]
  /\ Done("create")

Open(h, p) ==
  /\ open[h] = Closed
  /\ Exists(p)
  /\ open' = [open EXCEPT ![h] = p]
  /\ Done("open")
  /\ UNCHANGED dir

(* Opening with O_TRUNC, or creating what exists.                          *)
OpenEmptied(h, p) ==
  /\ open[h] = Closed
  /\ Exists(p)
  /\ dir' = [dir EXCEPT ![p].len = 0]
  /\ open' = [open EXCEPT ![h] = p]
  /\ Done("opentrunc") \/ Done("create")

(* With its last handle goes a file that was unlinked while open.          *)
Close(h) ==
  /\ open[h] # Closed
  /\ dir' = IF open[h] \in Hidden /\ \A g \in Handle \ {h} : open[g] # open[h]
            THEN [dir EXCEPT ![open[h]] = NoFile] ELSE dir
  /\ open' = [open EXCEPT ![h] = Closed]
  /\ Done("release")

(* A write that ends at byte e grows the file to e, and only that file.    *)
Write(h, e) ==
  /\ open[h] # Closed
  /\ Exists(open[h])
  /\ dir' = [dir EXCEPT ![open[h]].len = IF e > @ THEN e ELSE @]
  /\ Done("write")
  /\ reply'.through = h
  /\ UNCHANGED open

Resize(p, n) ==
  /\ Exists(p)
  /\ dir' = [dir EXCEPT ![p].len = n]
  /\ Done("truncate")
  /\ UNCHANGED open

(* The file moves with its length, its content and its handles.            *)
Move(p, q) ==
  /\ Exists(p) /\ ~Exists(q)
  /\ q \notin Hidden
  /\ dir' = [dir EXCEPT ![q] = dir[p], ![p] = NoFile]
  /\ Follow(p, q)
  /\ Done("rename")

(* The file p takes the name q of an open file, which goes on under r.     *)
Replace(p, q, r) ==
  /\ Exists(p) /\ Exists(q) /\ ~Exists(r)
  /\ IsOpen(q)
  /\ r \in Hidden
  /\ dir' = [dir EXCEPT ![r] = dir[q], ![q] = dir[p], ![p] = NoFile]
  /\ open' = [h \in Handle |-> IF open[h] = p THEN q
                               ELSE IF open[h] = q THEN r ELSE open[h]]
  /\ Done("rename")

(* Unlinking an open file: it goes on, under a name of nobody's.  So it    *)
(* does where what should have replaced it could not be renamed.           *)
Hide(p, r) ==
  /\ Exists(p) /\ ~Exists(r)
  /\ IsOpen(p)
  /\ r \in Hidden
  /\ dir' = [dir EXCEPT ![r] = dir[p], ![p] = NoFile]
  /\ Follow(p, r)
  /\ \/ Done("unlink")
     \/ reply'.op = "rename" /\ reply'.ret # "OK"

(* The file goes, whatever is said to have failed.                         *)
Remove(p) ==
  /\ Exists(p)
  /\ ~IsOpen(p)
  /\ dir' = [dir EXCEPT ![p] = NoFile]
  /\ reply'.op = "unlink"
  /\ UNCHANGED open

(* No file outlives a mount.  Only being killed ends one that is used.     *)
Restart ==
  /\ Done("mount") \/ Done("unmount") \/ Done("kill")
  /\ reply'.op = "kill" \/ \A h \in Handle : open[h] = Closed
  /\ dir' = [p \in Path |-> NoFile]
  /\ open' = [h \in Handle |-> Closed]

(* What only looks, and what fails, changes nothing.                       *)
Look ==
  /\ reply'.op \in {"getattr", "read"} \/ reply'.ret # "OK"
  /\ UNCHANGED <<dir, open>>

Next ==
  \/ Look
  \/ Restart
  \/ \E h \in Handle :
       \/ Close(h)
       \/ \E e \in 1..MaxLen : Write(h, e)
  \/ \E p \in Path :
       \/ \E n \in 0..MaxLen : Resize(p, n)
       \/ Remove(p)
  \/ \E h \in Handle, p \in Path :
       \/ \E c \in Content : Create(h, p, c)
       \/ Open(h, p)
       \/ OpenEmptied(h, p)
  \/ \E p, q \in Path :
       \/ Move(p, q)
       \/ Hide(p, q)
       \/ \E r \in Path : Replace(p, q, r)

Spec == Init /\ [][Next]_vars

(* A part of a directory: requests for the other files change nothing.     *)
Elsewhere == UNCHANGED <<dir, open>>

PartSpec == Init /\ [][Next \/ Elsewhere]_vars
=============================================================================
