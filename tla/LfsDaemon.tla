------------------------------ MODULE LfsDaemon ------------------------------
(***************************************************************************)
(* The daemon of lfs.c from its start to its end: LfsSetup, and LfsData    *)
(* while the loop serves requests, on one thread or on several as the      *)
(* command line said.                                                      *)
(***************************************************************************)
EXTENDS LfsSetup, LfsData

vars == <<setupVars, dataVars>>

Init == SetupInit /\ DataInit

(* The first request is the kernel's INIT.                                 *)
Serve ==
  /\ pc = "loop" /\ inited
  /\ DataNext(multithreaded)
  /\ UNCHANGED setupVars

(* The loop waits for the handlers that run before it ends.                *)
Run ==
  /\ SetupNext
  /\ LoopEnds => ~Reading
  /\ UNCHANGED dataVars

Next == Serve \/ Run

Spec == Init /\ [][Next]_vars

-----------------------------------------------------------------------------
TypeOK == SetupTypeOK /\ DataTypeOK

(* While requests are served, l_data.metadir names the directory it named  *)
(* when the daemon was started: "Get and resolve libswift meta files dir"  *)
(* (lfs.c:710).                                                            *)
RealstoreReached ==
  pc = "loop" => metadir = "absolute" \/ (metadir = "relative" /\ cwd = "started")

(* The mount does not outlive the process, unless a signal ends it before  *)
(* its handlers are installed or after they have been removed, and nothing *)
(* is used that is not there: through every error path of l_setup(), and   *)
(* though l_destroy() ends the process by a signal of its own.             *)
EndsClean == (end \in {"exit", "segfault"} => ~mounted) /\ ~misused
=============================================================================
