------------------------------ MODULE LfsSetup ------------------------------
(***************************************************************************)
(* lfs.c: main(), l_setup() and l_main(), from the command line to the     *)
(* loop that serves requests and to the end of the process.                *)
(*                                                                         *)
(* libfuse 2 is external, and modelled as far as lfs.c relies on it: any   *)
(* of its calls may fail; fuse_daemonize() goes to the root directory (in  *)
(* the foreground some versions do, some do not); fuse_unmount() frees the *)
(* channel, and fuse_destroy() the session with its channel, if it is      *)
(* still there; fuse_teardown() undoes all four steps of the setup.        *)
(***************************************************************************)
EXTENDS Naturals

VARIABLES
  pc,            \* the call the process is at
  cwd,           \* its working directory: where it was "started", or "root"
  metadir,       \* l_data.metadir: "unset", a path "relative" to cwd, "absolute"
  heap,          \* what has been allocated and not been freed
  misused,       \* history: something freed, or never there, was used
  mounted,       \* the file system is mounted
  multithreaded,
  handlers,      \* SIGTERM, SIGINT and SIGHUP end the loop, not the process
  inited,        \* libfuse has handled the kernel's INIT
  end            \* how the process ended, or "none"

setupVars ==
  <<pc, cwd, metadir, heap, misused, mounted, multithreaded, handlers, inited, end>>

Object == {"args", "mountpoint", "ch", "fuse"}

Goto(from, to) ==
  /\ pc = from
  /\ pc' = to
  /\ UNCHANGED end

Exit(from) ==
  /\ pc = from
  /\ pc' = "ended"
  /\ end' = "exit"

Uses(objects) == misused' = (misused \/ ~(objects \subseteq heap))
Frees(objects) == Uses(objects) /\ heap' = heap \ objects
KeepsHeap == UNCHANGED <<heap, misused>>

-----------------------------------------------------------------------------
(* main().  It refuses to run as root; -h and -V end it in l_opt_proc().   *)
Options ==
  /\ Exit("options") \/ Goto("options", "realstore")
  /\ heap' = heap \union {"args"}
  /\ UNCHANGED <<cwd, metadir, misused, mounted, multithreaded, handlers, inited>>

(* Fault: the path is kept as it was given.                                *)
RealstoreAsGiven ==
  /\ \/ Exit("realstore") /\ UNCHANGED metadir
     \/ Goto("realstore", "parse_cmdline") /\ metadir # "unset" /\ UNCHANGED metadir
  /\ KeepsHeap
  /\ UNCHANGED <<cwd, mounted, multithreaded, handlers, inited>>

(* The realstore has to be given and to exist.                             *)
Realstore ==
  /\ \/ Exit("realstore") /\ UNCHANGED metadir
     \/ Goto("realstore", "parse_cmdline") /\ metadir # "unset" /\ metadir' = "absolute"
  /\ KeepsHeap
  /\ UNCHANGED <<cwd, mounted, multithreaded, handlers, inited>>

(* l_setup().                                                              *)
ParseCmdline ==
  /\ \/ Exit("parse_cmdline") /\ UNCHANGED <<heap, multithreaded>>
     \/ /\ Goto("parse_cmdline", "mount")
        /\ heap' = heap \union {"mountpoint"}
        /\ multithreaded' \in BOOLEAN
  /\ UNCHANGED <<cwd, metadir, misused, mounted, handlers, inited>>

Mount ==
  /\ \/ Goto("mount", "err_free") /\ Frees({"args"}) /\ UNCHANGED mounted
     \/ /\ Goto("mount", "new")
        /\ Uses({"mountpoint", "args"}) /\ heap' = heap \union {"ch"}
        /\ mounted' = TRUE
  /\ UNCHANGED <<cwd, metadir, multithreaded, handlers, inited>>

New ==
  /\ Uses({"ch", "args"})
  /\ \/ Goto("new", "err_unmount") /\ heap' = heap \ {"args"}
     \/ Goto("new", "daemonize") /\ heap' = (heap \ {"args"}) \union {"fuse"}
  /\ UNCHANGED <<cwd, metadir, mounted, multithreaded, handlers, inited>>

(* Fault: what has been mounted stays if it fails.                         *)
DaemonizeLeaves ==
  /\ \/ Goto("daemonize", "err_free") /\ UNCHANGED cwd
     \/ Goto("daemonize", "set_signal_handlers") /\ cwd' \in {cwd, "root"}
  /\ KeepsHeap
  /\ UNCHANGED <<metadir, mounted, multithreaded, handlers, inited>>

Daemonize ==
  /\ \/ Goto("daemonize", "err_unmount") /\ UNCHANGED cwd
     \/ Goto("daemonize", "set_signal_handlers") /\ cwd' \in {cwd, "root"}
  /\ KeepsHeap
  /\ UNCHANGED <<metadir, mounted, multithreaded, handlers, inited>>

SetSignalHandlers ==
  /\ \/ Goto("set_signal_handlers", "err_unmount") /\ UNCHANGED handlers
     \/ Goto("set_signal_handlers", "loop") /\ handlers' = TRUE
  /\ Uses({"fuse"})
  /\ UNCHANGED <<cwd, metadir, heap, mounted, multithreaded, inited>>

(* Its error path.  As nothing has been served yet, fuse_destroy() does    *)
(* not call l_destroy() here.                                              *)
ErrUnmount ==
  /\ Goto("err_unmount", IF "fuse" \in heap THEN "err_destroy" ELSE "err_free")
  /\ Uses({"mountpoint", "ch"}) /\ heap' = heap \ {"ch"}
  /\ mounted' = FALSE
  /\ UNCHANGED <<cwd, metadir, multithreaded, handlers, inited>>

ErrDestroy ==
  /\ Goto("err_destroy", "err_free")
  /\ Uses({"fuse"}) /\ heap' = heap \ {"fuse", "ch"}
  /\ UNCHANGED <<cwd, metadir, mounted, multithreaded, handlers, inited>>

ErrFree ==
  /\ Exit("err_free")
  /\ Frees({"mountpoint"})
  /\ UNCHANGED <<cwd, metadir, mounted, multithreaded, handlers, inited>>

-----------------------------------------------------------------------------
(* l_main(): the loop, which a signal, an unmount or an error ends ...     *)
HandleInit ==
  /\ Goto("loop", "loop")
  /\ inited' = TRUE
  /\ Uses({"fuse", "ch"})
  /\ UNCHANGED <<cwd, metadir, heap, mounted, multithreaded, handlers>>

LoopEnds ==
  /\ Goto("loop", "remove_signal_handlers")
  /\ Uses({"fuse", "ch"})
  /\ UNCHANGED <<cwd, metadir, heap, mounted, multithreaded, handlers, inited>>

(* ... and fuse_teardown().                                                *)
RemoveSignalHandlers ==
  /\ Goto("remove_signal_handlers", "unmount")
  /\ handlers' = FALSE
  /\ Uses({"fuse"})
  /\ UNCHANGED <<cwd, metadir, heap, mounted, multithreaded, inited>>

Unmount ==
  /\ Goto("unmount", "destroy")
  /\ Uses({"mountpoint", "ch"}) /\ heap' = heap \ {"ch"}
  /\ mounted' = FALSE
  /\ UNCHANGED <<cwd, metadir, multithreaded, handlers, inited>>

(* l_destroy() gets what l_init() returned, NULL, for the state to free.   *)
Destroy ==
  /\ Uses({"fuse"})
  /\ \/ /\ ~inited
        /\ Goto("destroy", "free")
        /\ heap' = heap \ {"fuse", "ch"}
     \/ /\ inited
        /\ pc = "destroy" /\ pc' = "ended" /\ end' = "segfault"
        /\ UNCHANGED heap
  /\ UNCHANGED <<cwd, metadir, mounted, multithreaded, handlers, inited>>

Free ==
  /\ Exit("free")
  /\ Frees({"mountpoint"})
  /\ UNCHANGED <<cwd, metadir, mounted, multithreaded, handlers, inited>>

(* From outside: SIGTERM without a handler for it, and fusermount -u.      *)
Killed ==
  /\ pc # "ended" /\ ~handlers
  /\ pc' = "ended" /\ end' = "signal"
  /\ KeepsHeap
  /\ UNCHANGED <<cwd, metadir, mounted, multithreaded, handlers, inited>>

Unmounted ==
  /\ mounted
  /\ mounted' = FALSE
  /\ UNCHANGED <<pc, cwd, metadir, heap, misused, multithreaded, handlers, inited, end>>

-----------------------------------------------------------------------------
SetupInit ==
  /\ pc = "options"
  /\ cwd = "started"
  /\ metadir \in {"unset", "relative", "absolute"}
  /\ heap = {}
  /\ misused = FALSE
  /\ mounted = FALSE
  /\ multithreaded = FALSE
  /\ handlers = FALSE
  /\ inited = FALSE
  /\ end = "none"

SetupNext ==
  \/ Options \/ Realstore
  \/ ParseCmdline \/ Mount \/ New \/ Daemonize \/ SetSignalHandlers
  \/ ErrUnmount \/ ErrDestroy \/ ErrFree
  \/ HandleInit \/ LoopEnds
  \/ RemoveSignalHandlers \/ Unmount \/ Destroy \/ Free
  \/ Killed \/ Unmounted

SetupTypeOK ==
  /\ pc \in {"options", "realstore", "parse_cmdline", "mount", "new", "daemonize",
             "set_signal_handlers", "err_unmount", "err_destroy", "err_free", "loop",
             "remove_signal_handlers", "unmount", "destroy", "free", "ended"}
  /\ cwd \in {"started", "root"}
  /\ metadir \in {"unset", "relative", "absolute"}
  /\ heap \subseteq Object
  /\ {misused, mounted, multithreaded, handlers, inited} \subseteq BOOLEAN
  /\ end \in {"none", "exit", "signal", "segfault"}
  /\ (pc = "ended") = (end # "none")
=============================================================================
