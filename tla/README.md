# Verification of LFS and its tools

LFS (`src/lfs.c`) is a FUSE file system for experiments with libswift. It
pretends to store large data files: a read returns a four-byte pattern that the
file's name spells, and only the metafiles libswift keeps beside its data
(`.mhash`, `.mbinmap`) are forwarded to a real directory. Around it are Python
tools that prepare files, keep libswift's metafiles in a database, run commands
under supervision, and a SystemTap script that measures a process.

This directory holds TLA+ modules of those parts, the TLC configurations that
check them, and theorems about them that TLAPS proves. `PROJECT.json` lists the
runs, the mutants every property is tested with, and the source lines behind
every definition.

    tlc -workers 2 -config LfsMC_core.cfg LfsMC     one run
    tlapm LfsProofs.tla                             the proofs

## 1. Inventory

### The file system: `lfs.c`

| Part | State | Operations |
|---|---|---|
| File table | `l_data.files`, a uthash table: name -> size, `realfd`, pattern | made by `main`, emptied by `l_destroy` |
| Handlers | none of their own | `l_getattr`, `l_create`, `l_open`, `l_read`, `l_write`, `l_truncate`, `l_ftruncate`, `l_release`, `l_unlink`, `l_rename`, `l_readdir`; `l_opendir`, `l_access`, `l_flush`, `l_lock`, `l_getxattr` answer without state |
| Real directory | names, inodes, lengths (outside the repository) | `open`, `pread`, `pwrite`, `truncate`, `unlink`, `rename`, `close`, `stat` |
| Daemon | mounted, finished, dead; while it starts and ends: what is allocated, the working directory, signal handlers | `main`, `l_setup`, `l_main`, `l_init`, `l_destroy`; a kill |

The kernel sends requests through libfuse, which translates an open file to its
present path, hides a file that is unlinked while it is open under a name of
its own, and runs handlers one at a time (`fuse_loop`) or on several threads
(`fuse_loop_mt`). A handler looks its file up in the table, changes the table,
and for a metafile calls the real file system, before or after.

*Hard:* two steps, one real and one on the table, of which one fails; one
`realfd` per file for any number of opens; paths of open files that change
under renames and unlinks; no lock on the table when there are several threads;
a table that is lost at every restart while the real directory stays; a size
that changes while `l_read()` makes bytes up to it; a setup in five steps, each of
which may fail; a daemon that goes to another directory.

*Correct if:* open files stay in the table; entries keep real files of their
own; an open metafile reads and writes the file of its name; no descriptor is
lost; to its users it is one flat directory; a read returns what the file's name
spells, up to its size; no mount outlives the daemon.

### The hash table: `uthash.h`

A chained table whose elements are also in a doubly linked list. State: the
list's head and tail, two links of each element in the list and two in the chain
of its bucket, the buckets' heads and counts, and whether expansion has been given
up. Operations used by `lfs.c`: add, delete, find, iterate; adding doubles the
buckets when a chain gets long. *Hard:* expansion in place; deletion at both
ends of the list and of a chain. *Correct if:* all links go both ways, it is a set in order of addition, and what iteration meets
is what lookups find.

### The process guard: `process_guard.py`

State: `pid_dict` (shells it started), `pid_list` (processes it samples),
`ignore_pid_list`, `last_died`, `stopping`, the monitor file. Operations: start
commands, prune, scan `/proc`, sample, time out, stop; the SIGTERM handler runs
`stop()` between any two steps of the loop, and SIGINT breaks off whatever runs
and has the main program run `stop()`. Processes fork, die, and reuse ids
at any time. *Hard:* the handler changes what the loop iterates over;
everything read of a process may be out of date when it is used; a process that
cannot be read is taken for dead; it must end.
*Correct if:* no running child is lost or killed early, none survives a stop,
and the guard ends when it must.

### The metadata database: `tools/metadb.py`, `precompute_meta.py`

State: the database file, the directory's metafiles, `self.db`. Operations:
load, add (which runs libswift), save, restore; two formats, of which the program
uses the binary one (`BinaryMetaDB`) and never makes a database of the other
(`MetaDB`, its base class). A file is known by
its size, which is in its name as `1gb`, and which `tools/create_mocks.py` turns
into bytes and back. *Hard:* saving empties the file first; a kill or an
exception in between; libswift's status is ignored; a database that cannot be
opened or read is taken for an empty one; restoring makes the name up
again. *Correct if:* what was stored is found later, whole, and comes back to its
file.

### Scheduler probes: `stap/cpu_io_mem_2.stp`

State: the target's state, the time of the last event, four sums, a flag for
I/O. Operations: probes on switches and wakeups. *Hard:* events that mean
something else than they seem to. *Correct if:* no time is counted twice or
lost, and the times are the target's.

### Without a model

Usage texts, logging and the build; unique random patterns (`create_mocks.py`); `stap/cpu_io_mem.stp` (hands events to
SystemTap's statistics); `experiment/` and `benchmark/` (sequential scripts,
plots, a timing loop); the `truncate_*.sh` lists; `create_metadb.py` (empty).

## 2. Modules

| Module | Models | Stands on |
|---|---|---|
| `FlatDir` | what users are promised: a directory of files, handles that follow them, and which replies go with which changes | |
| `Lfs` | `lfs.c` with one request at a time, real directory, daemon | `FlatDir` (refinement) |
| `LfsThreads` | lookups along with a change of the table, by single memory accesses | |
| `LfsSetup` | `main()`, `l_setup()`, `l_main()` and `fuse_teardown()`, call by call | |
| `LfsData` | one data file: its pattern, its size, and `l_read()` byte by byte | |
| `LfsDaemon` | the daemon from start to end | `LfsSetup`, `LfsData` (composition) |
| `OrderedSet`, `Uthash` | a set in order; uthash's structure and expansion | refinement |
| `UthashSort` | `HASH_SRT()` as an algorithm on a sequence | |
| `ProcessGuard` | main loop, SIGTERM handler, SIGINT, processes | |
| `MetaDb` | the database program, sizes in names, libswift, errors of reading, kills | |
| `SchedTimes` | the probes and a kernel that schedules the target | |
| `*MC` | constants, patterns and symmetry for TLC | |
| `Lists`, `HashBuckets` | operators of several modules: taking out of a list, following links; the buckets of a table | |
| `ListProofs` | lemmas about those, about numbers and finite sets | `Lists`, `HashBuckets`, the library's theorems |
| `LfsProofs`, `LfsDaemonProofs`, `LfsThreadsProofs`, `UthashProofs`, `ProcessGuardProofs`, `MetaDbProofs`, `SchedTimesProofs` | theorems | the module of that name, and `ListProofs` where there are lists |

A definition whose comment says *Fault* is a plausible bug; it is used only in
the mutants of `PROJECT.json`, where it takes the place of the definition after
it and must break a property.

### Lfs

A handler is one action, as `fuse_loop()` runs one request to its end. The
variables are the table (`files`), the real directory (`real`, `length`, `fds`),
the path libfuse passes for each open file (`handle`), the daemon's `phase`, and
the last `reply`, which says what was asked, what was answered and, of a write,
through which handle it came (`through`, which is no part of the code and is only
compared with `FlatDir`). Operators named like C functions (`l_rename(p, q, op)`) are
the handlers; the actions above them (`Unlink`, `RenameOntoOpen`) are what
libfuse makes of a request, which is outside the repository and modelled from
how the handlers rely on it. A call on the real file system fails where the code
gives it cause (no such file, no free descriptor) and, with `Faults`, at any
time. Memory never written is the value `Uninit`. Contents are abstract: a
metafile's is its inode, a data file's its pattern; `strncpy()` is modelled on
the pattern's bytes, as it stops at a zero.

Assumed: users do not name libfuse's hidden files; there is one hidden name at a
time in the instances; a metafile that is open is not opened again unless
`Sharing`; the kernel sends CREATE for names that do not exist, unless
`RacyCreate`.

### LfsSetup, LfsData, LfsDaemon

`LfsSetup` has one action for each call of libfuse and for each label of
`l_setup()`'s error path. `heap` is what has been allocated and not been freed, and
`misused` notes that a call was given something that is not in it. A call of
libfuse may fail at any time; what it frees is taken from libfuse 2, of which
`fuse_daemonize()` goes to the root directory, in some versions only when it
really goes to the background. SIGTERM and `fusermount -u` come at any time. A
kill that no handler catches is in `Lfs`.

`LfsData` has one file; a read is as many steps as it has bytes, since on several
threads another handler may change `file->size` before each comparison. Those
handlers are one step each, as the kernel's lock on the inode keeps them apart;
renames are kept out of a read by libfuse's lock on the path. A character of a name
is the value of its hexadecimal digit, or `Other`. A rename gives the file another
name and copies the pattern it had; `created` notes the name whose bytes that are.
`lo` and `hi` note between which
sizes the file has been during the read. `LfsDaemon` serves requests while the loop
runs, and the loop ends only between requests.

### LfsThreads

One writer (the kernel serialises requests that change a directory) creates,
unlinks or renames, in steps of single stores; one reader does `HASH_FIND`.
`locking` is what libfuse offers: one thread, a lock on the whole tree for
removals (2.8), or one on paths (2.9). Freed memory reads as anything. The
stores of one chain are seen in program order; those of `tbl->buckets` and
`tbl->num_buckets` in either order, as gcc -O3 exchanges them. Hash values are
chosen once for each name, as any function may be the hash function; a table
begins with `2^InitialLog2` buckets and is not expanded beyond `2^MaxLog2`. It
begins after the first creation, with one file in it: that `HASH_FIND` does nothing
on an empty table, and that the first addition makes the table, are left out.

### ProcessGuard

`pc` is where the main program is, `trap` where the handler is; while the
handler runs the main program does not. A step of the main program is a stretch
of code that touches shared state once: looking a process up in a list and removing
it from there are two steps (`RemoveNext` to `RemoveList`; `Stat` and `Gone`), between
which the handler may remove it, so that the second raises. `terminate()` is two
steps, before and after its `sleep(0.1)`, shared by both. A process is its id; ids
are reused. `at`, `seen`, `to_remove`, `todo` and `index` are local variables of
loops, and are forgotten where the loop ends.

Reading `/proc/<pid>` fails (`ReadFails`) for a process that is gone or a zombie,
and may fail for those in `Unreadable`, as for a command that becomes a program its
user may not look into: any `IOError` then removes it from the list
(`process_guard.py:105`). `unread` notes the children that ran when that happened.

`Interrupt` is SIGINT: `KeyboardInterrupt` ends the loop, or the handler, wherever it
is, and `stop()` begins anew (lines 287-289); a second one while that runs is caught
by nobody and ends the guard (`"interrupted"`). Before `monitoring_loop()` either signal ends
it (`TermEarly`).

Assumed: names of processes have no blanks, so that fields 1 and 4 of `stat` are
what the code takes them for; a process of the group may be signalled by the guard;
an interrupt while the files of the output are closed has no effect. Lines 225-227
are left out: only a negative interval leads there.

### MetaDb, SchedTimes, Uthash

`MetaDb` goes through the program from `load()` to `persist()` or to
`restore_metafiles()`. libswift is a step that may fail and leave of each metafile
what was there, a part or all (`Unfinished`), and so does a kill while it runs; it is
taken to have ended when the program has. A kill at any other step leaves a first part
of what was written (`Beginnings`), and so does an error of `write()`. An error of
`open()` or `read()` has `load()` go on with what it has read so far
(`ReadErrors`; `unread` notes it). Dictionaries are written in any order. A
blob is absent, whole, a part that libswift left, cut off in the database, or the
`None` that the binary format encodes it as. A data file is named by count and unit;
its key in the database is its size in bytes (`parse_size()`), and the name it is
restored to is `compact_size()` of that, in Python 2's integers and with the
dictionary's order kb, tb, gb, mb, which decides what `m` is after the loop. `of`
notes the size of the file that metafiles were made of. Only the binary format is
restored. The program makes databases of the binary format only (line 169); the text
format is what the base class would do in its place, and is the only one of the two
in which an entry that the program itself adds can be saved.

`SchedTimes` runs the probes on the events of a target that runs, waits and
sleeps; wakeups may come in any of the three, successful (`$success`) or not.
`misled` notes that an event said something else than what happened. Its
target has one thread, and `$rq` is taken to be there.

`Uthash` has both pairs of links of each element, in the list and in the chain of
its bucket, and what `HASH_FIND` and `HASH_ITER` meet is what a walk along them meets
(`Followed`, which is cut off if it goes round in a circle). Each macro is one action.
A hash value is chosen for each element. `UthashSort` merges runs of length 1, 2, 4 ... as
the macro does; `UthashMC` assumes, and TLC evaluates, that the result is sorted
and stable. `lfs.c` does not sort its table; the macro is there for any program
that includes the header.

## 3. Runs

| Run | Question | Bounds |
|---|---|---|
| `lfs_core` | With metafiles open once at a time, over a directory that fails: is the right file reached, has each metafile a real file of its own, is every descriptor given back, is it a flat directory? | 2 metafiles, 1 data file, 2 handles, 2 descriptors, 3 inodes |
| `lfs_liberal` | What remains true with sharing, O_TRUNC, racing CREATE, too few descriptors: do open files stay in the table, are data files still a flat directory? | 1 metafile, 2 data files, 2 handles, 1 descriptor |
| `lfs_sharing` | *violation:* two opens of a metafile | |
| `uthash_small` | Is the table a set in order, through expansions? | 6 elements, all hashes of 2 bits, capacity 3 |
| `threads_all` | Which lookups are safe beside a change of the table? | 3 names, 4 pieces of memory, hashes 0, 2, 3 and 7, from 2 buckets to 8 (two expansions) |
| `threads_expand` | *violation:* a lookup during expansion | hashes 0 and 1, from 1 bucket to 2 |
| `guard_wild` | Lists, signals, timeouts, reused ids: is a child ever lost, killed early, left behind; does the guard end? | 2 children that may be unreadable, 1 id for what they start, 1 id of the three for processes of others, timeout 1 s or none, window 2 s, SIGTERM and SIGINT |
| `guard_survivor` | *violation:* what a command left behind | |
| `metadb_both` | Is what was stored kept, and kept whole, over failures and kills, and do metafiles of gb sizes come back to their file? | 2 names, both formats, any number of runs |
| `metadb_lost` | *violation:* the binary format | |
| `daemon_all` | Does the mount end with the process through every failure, is the realstore still reached, do reads return what the name the file was created under spells? | 5 names (one with a zero byte, two with a character that is no digit, one short), sizes to 6, offsets to 3, reads of up to 3 bytes |
| `sched_any` | Do the times add up, and are they true? | 5 ticks, any events |

Why these are enough. *Lfs:* everything that goes wrong here is a matter of one
file against another of its kind, of one open against another, and of an inode
that is one of the two or neither; three inodes leave one free while two names
hold one each. `MaxSize` 1 tells empty from not empty, which is all that reset,
growth and truncation differ in. *Uthash:* six elements reach the expansion
thresholds of one, two and four buckets, and hashes that collide in every bit
make expansion ineffective twice, which is when it is given up. *LfsThreads:*
three names fill a chain with a first, a middle and a last element, as hashes that
are equal in every bit may be chosen; 0 and 2 part in the first expansion, 3 and 7
in the second, which starts from buckets that were expanded. *ProcessGuard:*
one child outlives the other, the third id is a descendant, and that of a child is
used again by what it started or by somebody else; the window of two seconds is
open for one scan, and the timeout comes in either order with it and with every death.
*MetaDb:* one entry is whole while the other is written, cut off, or to come; the
names are 1gb, which is restored to itself, and 1500mb, which is restored to
1gb, so that the metafiles of either may take the place of the other's. *LfsDaemon:* reads
begin at each byte of the pattern and go over its end, and end before, at and
after the end of the file; a file can be longer than any read ends. *UthashSort:*
lists of up to 7, which take three rounds, the last runs shorter than the others. *SchedTimes:* five ticks are enough for each
state to be entered twice. The clock and the number of buckets are the only
quantities cut off (`MaxTime`, `Late`, `MaxLog2`); nothing depends on the guard's
clock beyond `Late`.

Deadlock is checked but in `ProcessGuard` and `LfsDaemon`, which end; the
clock's stop in `SchedTimes` leaves other steps enabled.

Handles, descriptors, inodes, elements and pieces of memory are symmetric: no
definition tells two of them apart, and no liveness property is checked in those
runs.

### Fairness

Only `ProcessGuard` has liveness properties. It assumes weak fairness of the
main program and of the handler, each as a whole: the interpreter goes on
executing the guard's own code, and none of its steps waits for another process
(`poll()` and `kill(pid, 0)` return at once, sleeps end). Nothing is assumed of
the processes, which may never end or fork for ever, nor that a signal comes.
`EndsAfterAll` has the condition that no process of somebody else takes an id of
the list for good, since `kill(pid, 0)` cannot tell, and the guard then runs on.

### What the properties say

*Lfs.* `HandleServed`: an open metafile's `realfd` is open, on the real file of
its present name. `NoFdLeak`: a descriptor is held only by an entry that is
open. `HandleNamed`: the path of an open file is in the table, so that nothing
done to an open file answers ENOENT. `EntryBacked`: an entry has a real file and
shares it with none. `FlatDirSpec`: each step is a step of `FlatDir` or none at
all, with the mapping of `Lfs`'s last lines. `FlatDir` ties each change to the
request that may make it: a rename keeps length and content, a write reaches the
file its handle was opened on and no other, only what is opened for it is emptied,
and a failed call has no effect, except that of an unlink, which may fail and have
removed the file, and of a rename onto an open file, which may fail and have hidden
it. It is checked where `Sharing`, `RacyCreate` and `AtomicTrunc` are false: two opens
of a metafile share a descriptor, a CREATE of a name that exists loses one, and
O_TRUNC does not truncate a metafile (section 4). `DataDirSpec`: the same of data
files alone, in every mode. Neither holds of patterns with a byte of zero
(`LfsMC_zero`).

*Threads.* `FileFound`, `FoundRight`, `NoFreedAccess`, under `Safe`: one thread,
or a tree lock until the buckets are first expanded. `TypeOK` holds the writer's
part for any locking: no dangling pointer stays in the table.

*Guard.* `RunningChildMonitored`: a child that runs is in `pid_dict`, and in
`pid_list` unless reading it failed once, which costs it its samples. `NoEarlyKill`:
the main program comes to the end of `stop()` of its own accord only when the time
is up, or when none of the children that run could be read; a mistaken `last_died`
costs no other child its life. `ChildrenKilled`: when the guard has ended after a
stop, no child runs, unless a second SIGINT broke the stop off. `EndsInTime`,
`StopEnds`, `EndsAfterAll`: it ends once the time is up, after a stop, and after all
have died.

*Daemon.* `RealstoreReached`: the real directory is the one named at the start,
wherever the daemon goes. `EndsClean`: the mount does not outlive the process, and
nothing is used or freed that is not there, unless a signal comes before its
handler is set or after it is reset. `ReadRight`: a read returns the bytes that
the name spells under which the file was created, whatever it has been renamed to
since, as many as the file had at some size between the least and the
greatest during the read, then zeros. It needs a name of eight digits without a
byte of zero. Of the name that the file has now it does not hold (section 4).

*Database*, in both formats. `EntriesKeptUnlessLost`: what was in a complete
database is in it after later runs, as long as none of them was killed while it
saved, passed over an error of `open()` or `read()`, or failed half-way through
saving (which leaves a database that cannot be decoded). `FilesStored`: a run that
ends without an error has stored every file with metafiles. `MbinmapsNotCut`: no
`.mbinmap` is loaded of which a part was cut off in the database or by an error of
`read()`, nor an `.mhash` in the text format. `DamagedKept`: a database that cannot
be decoded is not overwritten, unless an error of `open()` or `read()` hid that.
`RestoredOfGb`: metafiles of 1gb to 1023gb are never restored to a file of another
size. What the exceptions stand for is in section 4.

*Probes.* `TimesAddUp`, `WaitIsSleep`; `TimesTrue` until the script is misled.

*uthash.* `HASH_FSCK`: all that the macro of that name checks, the links of each
chain and of the list both ways and the counts, and that the list ends with `tail`.
`FoundIffListed`, `OrderedSetSpec`.

## 4. Known disagreements

Four are runs, with findings in `PROJECT.json`:

- `lfs_sharing`: `l_open()` stores the descriptor in the one `realfd` of the
  entry (`lfs.c:243`), and the first `close()` closes the other open's.
- `threads_expand`: on several threads a lookup beside an expansion misses a
  file that exists (`lfs.c:679`, `uthash.h:663-689`).
- `guard_survivor`: `terminate()` signals the group only while a shell lives
  (`process_guard.py:156`), so that what a command left running survives.
- `metadb_lost`: `BinaryMetaDB._encode()` returns `None`, and saving raises after
  the database was emptied (`metadb.py:103, 89, 97`).

Others are kept as configurations that reproduce them, with the property each
one violates; they are not among the runs:

| Configuration | Property | What happens |
|---|---|---|
| `LfsMC_zero` | `PatternSpelled` | a rename cuts a pattern off at a zero byte (`lfs.c:523`) |
| `LfsMC_trunc` | `OpenTruncates` | O_TRUNC is dropped for metafiles (`lfs.c:239`; 215 says it may come) |
| `LfsMC_destroy` | `DestroyRemovesAll` | `l_init()` returns NULL, `l_destroy()` reads through it (`lfs.c:551, 389`) |
| `LfsMC_stored` | `StoredMetaServed` | metafiles in the real directory are not served after a restart (`lfs.c:713`) |
| `ProcessGuardMC_scan` | `AllKilled` | a process ends between `access()` and `open()`, and the guard dies (`process_guard.py:123`) |
| `ProcessGuardMC_early` | `AllKilled` | SIGTERM before its handler is installed (`process_guard.py:185`) |
| `ProcessGuardMC_said` | `EveryoneReallyDead` | "All child processes have died" is said too early (`process_guard.py:69, 215`) |
| `ProcessGuardMC_round` | `NoneSkipped` | removing from the list iterated over skips the next (`process_guard.py:106`) |
| `ProcessGuardMC_unread` | `EveryoneReallyDead` | a child that cannot be read is taken for dead, and the group is signalled while it runs (`process_guard.py:105-108`) |
| `LfsDaemonMC_renamed` | `PresentNameRead` | after a rename reads return the bytes of the old name (`lfs.c:523`) |
| `MetaDbMC_cut` | `NoneCut` | a `.mhash` cut off by a kill loads as whole (`metadb.py:78`) |
| `MetaDbMC_part` | `WholeEntries` | metafiles that a failing libswift left half-written are stored (`metadb.py:36`) |
| `MetaDbMC_unread` | `EntriesKept` | a database that cannot be opened or read is taken for empty, and then overwritten (`metadb.py:21-22, 85-86`) |
| `MetaDbMC_units` | `MetafilesMatch` | metafiles of sizes other than gb are restored to other names, and then stored as those files' (`create_mocks.py:61`) |

Two more need no configuration: a data file whose name spells no pattern gets
uninitialised memory, and one with a character that is no digit from that byte on
(`lfs.c:458-459`; `ReadRight` leaves them out), and the -1 of a forwarded call is
returned as if it were an errno, EPERM (`lfs.c:128`). A target preempted when it is about to sleep misleads the probes
(`cpu_io_mem_2.stp:114`), and so does one that is woken up then, if that is the first
event (149), which is why `TimesTrue` has its condition.

## 5. Proofs

Every theorem is for all values of the constants that satisfy the named
assumptions of the module.

**`LfsProofs`.** Assumptions: paths of the three kinds are disjoint, the values
standing for "none" are none of the others, a copied pattern is a pattern
(`PathsDisjoint`, `NamePatternType`, `PatternCopies`, `Distinct`, `MaxSizeNat`,
`ModesBoolean`). Nothing is assumed finite.

- `TypeCorrect`: `TypeOK`, one lemma per handler.
- `HandlesNamed`, `EntriesBacked`: in every mode. Neither is inductive alone. The
  inductive invariant is `TableInv`: types; nothing is open while the daemon is
  down (or a mount would leave handles without entries); handles name entries;
  no two names of the real directory are one file, *whether or not they are in
  the table* (or a create of a stored name could take another's file); entries
  have real files.
- `HandlesServed`, `NoFdsLeaked`: where `Sharing` and `RacyCreate` are false, as
  stated in the theorems. `ServedInv` adds that
  a metafile is open once at a time, that the descriptor of an open metafile is
  open on its real file, and that no other descriptor is: then `l_release()`
  closes its own, and a new descriptor is free of others.

Each is `Init => Inv`, `Inv /\ [Next]_vars => Inv'` by a lemma per action, and
`Inv => property`, put together by temporal logic.

**`LfsDaemonProofs`.** Assumptions: the bounds are natural numbers, and a name has
at most eight characters (`Bounds`, `Names`). `TypeCorrect`,
`RealstoreIsReached`, `EndIsClean` and `ReadsAreRight` follow from two invariants
that share no variable. `SetupInv` says which objects each call can rely on
(`Needed`), where a mount may still be there (`MountUndone`), and from when on the
path is absolute. `DataInv` says that the pattern is what the name spells under which the file was created
(`PatternInv`, which a rename keeps as no byte is zero), and what a read that is
under way has done so far (`ReadingInv`): its bytes are those spelled, and the last
of them was in the file at some time; without that, nothing would follow about
how many a finished read may have returned.

**`SchedTimesProofs`.** Assumptions: the bounds are natural numbers.
`TypeCorrect`, `AddUp`, `WaitsAreSleeps` follow from `Inv`, which adds to the
three that nothing has been counted before the first event. `TimesAreTrue`
needs `Knows` besides: until it is misled, the script's state is the target's.

**`LfsProofs`, the refinements.** `ImplementsFlatDir`: `Spec => FlatDirSpec`, where
`Sharing`, `RacyCreate` and `AtomicTrunc` are false and no pattern has a zero byte,
which are the conditions the run checks it under (section 3 says why). The invariants before and
after a step (`ServedInv`, `ServedInv'`) give what the table and the real directory
have to do with each other; then one lemma per action of `Lfs` says what becomes of
the files (`Sets`, `Moves`, `Keeps`) and of the handles (`Opens`, `Follows`), and
names the step of `FlatDir` that does the same. `ImplementsDataDir`:
`Spec => DataDirSpec` in *every* mode, from `TableInv` alone, since data files have no
descriptors to share.

**`LfsThreadsProofs`.** Assumptions: names and pieces of memory are finite in number,
hash values are natural numbers (`ConstantTypes`). Nothing is assumed of how many
expansions there are. `TypeSafe`, `FilesFound`, `RightFileFound`,
`NothingFreedRead` follow from `Inv`, which has three parts. `TableInv` is the
writer's, under any locking: what each of its local variables points to is allocated
at each of its steps, the arrays agree with `num` and `buckets` in either order of
their stores, and `Settled`, the part that makes it inductive: there are lists, one
to a bucket, whose elements the links follow and which hold each node of the table
in the bucket of its hash, but for those an expansion has still to move. `Served` is
the reader's, while `Safe`: nothing that is under way can disturb it
(`Undisturbed`), and from where it stands the links lead to the file it looks for.

**`UthashProofs`.** Assumptions: there are finitely many elements, hash values and
thresholds are natural numbers (`ConstantTypes`). `TypeSafe`, `TableIntegrity`,
`FindAndIterate` and the refinement `ImplementsOrderedSet` follow from `Inv`: the
links of the list are, both ways, those of the sequence that `HASH_ITER` meets
(`Listed`); the links of each chain are those of a sequence as well, which begins at
the head of its bucket, is as long as that counts, and has the elements of that hash
(`InChains`, by `Filled`); a table that is not there has left nothing behind (`Fresh`,
which the next first addition needs). `ListOf` says of links that they are those of a
sequence, once for both. The lemmas about it are one for each change that the macros
make of links: an element put at the end (`ListMore`), put before the head
(`ListPushed`), taken out (`ListLess`), and links of other elements changed
(`ListSame`), which is why a change of one chain leaves the others. An expansion
gives each new bucket the elements of one old chain that belong there, pushed one by
one (`MovedIs`, `PushesFollows`, `FilledExpanded`, from `h % 2n % n = h % n`), and
what the buckets count adds up to the number of elements (`CountedAll`). It holds
for any hash function, also one that puts all in one bucket.

**`ProcessGuardProofs`.** Assumptions: there are finitely many process ids and
timeouts (`ConstantTypes`). `GuardTypeOK`, `ChildMonitored`, `KillsLate` and
`NoChildLeft` follow from `GuardInv`. It says what each interruption leaves: every
shell that runs is in `pid_dict`, and in `pid_list` or `unread`
(`RunningChildMonitored`, which is inductive with the rest); what `prune_pid_list()`
is about to remove has finished and stays so, and what `get_raw_stats()` is about to
remove could not be read (`RemovesFinished`), although the handler may prune in
between; what `update_pid_tree()` is about to append is not in the list (`ReadsNew`),
or it could be there twice; `last_died` is right about shells but those that could not
be read, if not about descendants (`DiedNoChild`); the main program comes to stop by
itself only when the time is up or no other shell is left (`MainStops`); and after a
stop none runs (`Stopped`).

**`MetaDbProofs`.** Assumptions: there are finitely many names, of a count and a unit
(`ConstantTypes`). `DbTypeOK`, `DbKept`, `DbNotCut`, `DbRestored`, `DbStored` and
`DbDamagedKept` follow from `DbInv`: a run goes on only from a database it could
decode or did not read to the end (`ReadFirst`); metafiles are kept under the size of
the file they were made of (`OfTheirKey`, and `TextOwn` where nothing is restored);
what has been cut off is nowhere taken for whole but in an `.mhash` of the binary
format (`NoneCutOff`); the keys of a complete database go from the file to `self.db`
and from there to the file and what is still to be written (`KeysKept`), as do those of
the files visited (`VisitedStored`). `DbRestored` rests on arithmetic besides: the
loop of `compact_size()` over kb, tb, gb, mb gives back the name of 1 to 1023 gb
(`AllRight`). `DbStored` and `DbDamagedKept` are of action properties, each a fact about
one step and the invariant before it.

**`ListProofs`.** What these share: taking out of a list, linked lists, reversal,
flattening, the number of different members, the buckets. `Without()`, `Linked()`,
`NumBuckets` and `Counted()` are recursive functions; that each has a solution on its
domain, and that it is what the definition says, is proved by induction over *sets*
of numbers (`Induction`: a set that holds 0 and with each number the next holds them
all), which follows from the well-foundedness of `<`.

**Only model-checked.** Liveness of the guard (`EndsInTime`, `StopEnds`,
`EndsAfterAll`), which is beyond the prover; that `HASH_SRT` is a stable sort
(`UthashSort`), where a recursion over lists would have to be unfolded without bound;
and what the runs that expect a violation show.

## 6. Plan

Done: every module of section 2, and a theorem for each safety property and each
refinement that a run checks.

Next:

1. *Two opens of one metafile* on several threads: `realfd` by `l_open()` and
   `l_release()`. On one thread two opens already lose a descriptor
   (`lfs_sharing`), so that this would only add ways to the same end.
2. *What the configurations of section 4 show*, stated positively: under which
   conditions on names and kernels each of those properties holds, and proved where
   an invariant already says most of it.

## 7. Not modelled, and why

- *`l_readdir()`'s listing.* On one thread it is the iteration of `Uthash`
  (`OrderedSetSpec` says what it meets). Beside a writer it reads freed memory as
  lookups do, which `LfsThreads` has.
- *Two writers of the table.* The last RELEASE of a hidden data file unlinks it
  without the kernel's lock on the directory (`lfs.c:380` is reached through
  libfuse). `LfsThreads` assumes one writer; nothing in the code would protect
  two.
- *Integer widths in `l_read()`.* The kernel bounds offset and count by the
  largest file size before it sends a request, so that neither sum of lines 280
  and 319 overflows.
- *Lengths of paths* (50 and 255 characters) are not checked by the code, so that
  a model would restate the buffer.
- *Random patterns* (`create_mocks.py:23-43`) draw until they are unique: that
  ends with probability one, which is not a property of behaviours, and
  uniqueness is the loop's condition.
- *`HASH_CLEAR`, `HASH_SELECT`, the Bloom filter and emitted keys* of `uthash.h`
  are not used by `lfs.c`, and neither is `HASH_SRT`, which is modelled as a pure
  algorithm; the hash functions are taken as any function, since no property may
  depend on which it is.
- Permissions, owners and times of `l_getattr()` are constants there. Memory
  that leaks on failing paths has no effect but its exhaustion. The case of unit
  letters is ignored by `parse_size()`. The read rates of `cpu_io_mem_2.stp` are
  sums nothing depends on. Usage texts and the formats of logs and samples are
  left out.
