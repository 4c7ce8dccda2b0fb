---------------------------- MODULE ProcessGuard ----------------------------
(***************************************************************************)
(* process_guard.py: it runs commands in a process group of its own,       *)
(* samples what they use, and stops them after a timeout, when it is sent  *)
(* SIGTERM, or itself when all have died.                                  *)
(*                                                                         *)
(* The main program and the SIGTERM handler, which may interrupt it        *)
(* between any two steps and runs to its end before the main program goes  *)
(* on, share the lists of processes.  SIGINT breaks off both, and stops    *)
(* the guard from the main program's exception handler.  Around them the   *)
(* processes of the group fork and die, and others come and go, at any     *)
(* time.  A process is its process id, which is used again once it is      *)
(* free.                                                                   *)
(***************************************************************************)
EXTENDS Naturals, Sequences, FiniteSets, SequencesExt, Lists

CONSTANTS
  Pid,       \* process ids
  Child,     \* ids of the shells the commands are run by
  Window,    \* check_for_new_processes: new ones are looked for this long
  Timeouts,  \* in seconds, or 0 for none
  Monitor,   \* a monitor directory was given
  Forking,   \* commands start processes of their own
  Others,    \* ids that processes which are not the guard's may take
  ScanRace,  \* a process may end while /proc is read
  Unreadable, \* processes whose files in /proc may not be readable
  Interrupts, \* SIGINT may come
  EarlyTerm  \* either may come before it is handled

ASSUME ConstantTypes ==
  /\ Child \subseteq Pid /\ Others \subseteq Pid /\ Unreadable \subseteq Pid
  /\ IsFiniteSet(Pid)
  /\ Window \in Nat
  /\ Timeouts \subseteq Nat /\ IsFiniteSet(Timeouts)
  /\ {Monitor, Forking, ScanRace, Interrupts, EarlyTerm} \subseteq BOOLEAN

VARIABLES
  proc,      \* Pid -> what the process of that id is
  pid_dict,  \* Popen objects of the children not known to have finished
  pid_list,  \* processes monitored, in order
  ignore_pid_list,
  last_died,
  stopping,
  end_time,  \* when the time is up, or 0
  file,      \* the monitor file: "open" or "closed", or "none"
  now,       \* seconds since the start
  last_subprocess_update,
  pc,        \* where the main program is
  trap,      \* where the SIGTERM handler is
  seen,      \* pid_dict when prune_pid_list() began to iterate over it
  to_remove, \* pids_to_remove in prune_pid_list()
  todo,      \* what the loop over pids_to_remove, or over /proc, has left
  at,        \* the process that this loop is at, or none
  index,     \* position of get_raw_stats() in pid_list
  interrupted, \* the main program is in its handler of KeyboardInterrupt
  unread,    \* children that ran when get_raw_stats() could not read them
  ended      \* how the guard ended

lists == <<pid_dict, pid_list, last_died, unread>>
stops == <<stopping, file, interrupted>>
times == <<end_time, now, last_subprocess_update>>
locals == <<seen, to_remove, todo, at, index>>
guardVars == <<lists, ignore_pid_list, stops, times, trap, locals>>
vars == <<proc, guardVars, pc, ended>>

Kind == {"free", "child", "descendant", "zombie", "other"}
Running(p) == proc[p] \in {"child", "descendant"}
Group == {p \in Pid : Running(p)}

(* Bound: the clock stops where nothing depends on it any more.            *)
Late ==
  LET up == Max(Timeouts \union {0}) + 1 IN IF Window > up THEN Window ELSE up

-----------------------------------------------------------------------------
(* Parts of the handlers.                                                  *)

(* prune_pid_list(): poll() reaps the children that are zombies, and       *)
(* kill(pid, 0) tells of the others whether there is such a process.       *)
(* Fault: "not poll()", which is true of None.                             *)
FinishedOrNone ==
  pid_dict \union {p \in ToSet(pid_list) : proc[p] = "free"}

Finished ==
  LET dead == {p \in pid_dict : proc[p] # "child"}
  IN dead \union {p \in ToSet(pid_list) : proc[p] = "free"}

Reap == proc' = [p \in Pid |-> IF p \in pid_dict /\ proc[p] = "zombie"
                               THEN "free" ELSE proc[p]]

(* What the handler does without being interrupted in turn.                *)
Remove_pids(gone) ==
  /\ pid_dict' = pid_dict \ gone
  /\ pid_list' = Without(pid_list, gone)
  /\ last_died' = (last_died \/ (pid_list' = <<>> /\ gone # {}))
  /\ UNCHANGED unread

is_everyone_dead == last_died \/ pid_list = <<>>

(* stop() up to terminate(): later SIGTERMs have no effect.                *)
BeginStop(interrupt) ==
  /\ stopping' = TRUE
  /\ interrupted' = interrupt
  /\ file' = IF file = "open" THEN "closed" ELSE file

(* end_time, of the last timestamp.                                        *)
(* Fault: any timeout is up at once, or is looked at without a file only.  *)
TimeIsUpAtOnce == end_time # 0
TimeIsUpUnmonitored == end_time # 0 /\ now > end_time /\ file = "none"

TimeIsUp == end_time # 0 /\ now > end_time

(* Reading /proc/<pid> fails: the process is gone, has no memory to tell   *)
(* of, or has become one that its user may not look into.                  *)
ReadFails(p) == proc[p] \in {"free", "zombie"} \/ p \in Unreadable

(* terminate() up to its sleep(0.1), and from there: what it leaves to do  *)
(* is in the variable s, pc of the main program or trap of the handler.    *)
(* Fault: after SIGTERM nothing is done.                                   *)
TermGroupOnce(s, done) ==
  /\ Remove_pids(Finished)
  /\ Reap
  /\ s' = done
  /\ UNCHANGED ended

TermGroup(s, done) ==
  /\ Remove_pids(Finished)
  /\ Reap
  /\ s' = IF pid_dict' = {} THEN done ELSE "wait"
  /\ UNCHANGED ended

(* Fault: it waits until SIGTERM has done.                                 *)
KillGroupPatient(s, done) ==
  /\ Remove_pids(Finished)
  /\ Reap
  /\ s' = IF pid_dict' = {} THEN done ELSE s
  /\ UNCHANGED ended

KillGroup(s, done) ==
  /\ Remove_pids(Finished)
  /\ s' = done
  /\ IF pid_dict' = {}
     THEN /\ Reap
          /\ UNCHANGED ended
     ELSE /\ proc' = [p \in Pid |-> IF proc[p] = "other" THEN "other" ELSE "free"]
          /\ ended' = "killed"

(* An exception that nobody catches.                                       *)
Crash == ended' = "crashed" /\ UNCHANGED <<proc, guardVars, pc>>

-----------------------------------------------------------------------------
(* The main program: ResourceMonitor.__init__(), monitoring_loop().        *)

Main(label) == ended = "no" /\ trap = "idle" /\ pc = label

Run ==
  /\ Main("setup")
  /\ \E p \in Child \ pid_dict :
       /\ proc[p] = "free"
       /\ proc' = [proc EXCEPT ![p] = "child"]
       /\ pid_dict' = pid_dict \union {p}
       /\ pid_list' = Append(pid_list, p)
  /\ UNCHANGED <<ignore_pid_list, last_died, unread, stops, times, trap,
                 locals, pc, ended>>

(* Opens the monitor file, installs the handler and enters the try.        *)
Install ==
  /\ Main("setup")
  /\ Child \subseteq pid_dict
  /\ pc' = "loop"
  /\ file' = IF Monitor THEN "open" ELSE "none"
  /\ UNCHANGED <<proc, lists, ignore_pid_list, stopping, interrupted, times,
                 trap, locals, ended>>

(* Fault: while True.                                                      *)
LoopForever ==
  /\ Main("loop")
  /\ pc' = "poll"
  /\ seen' = pid_dict
  /\ UNCHANGED <<proc, lists, ignore_pid_list, stops, times, trap, to_remove,
                 todo, at, index, ended>>

Loop ==
  /\ Main("loop")
  /\ IF stopping
     THEN /\ ended' = "returned"
          /\ UNCHANGED <<pc, seen>>
     ELSE /\ pc' = "poll"
          /\ seen' = pid_dict
          /\ UNCHANGED ended
  /\ UNCHANGED <<proc, lists, ignore_pid_list, stops, times, trap, to_remove,
                 todo, at, index>>

(* Iterating over a dictionary that the handler changed meanwhile raises.  *)
Poll ==
  /\ Main("poll")
  /\ \/ pid_dict # seen /\ Crash
     \/ /\ Reap
        /\ to_remove' = Finished
        /\ todo' = Finished
        /\ seen' = {}
        /\ pc' = "remove"
        /\ UNCHANGED <<lists, ignore_pid_list, stops, times, trap, at, index,
                       ended>>

(* Each of them is looked for in the two lists and then removed, of which  *)
(* the second raises if the handler has removed it in between.             *)
RemoveNext ==
  /\ Main("remove")
  /\ \E p \in todo :
       /\ todo' = todo \ {p}
       /\ \/ /\ p \in pid_dict
             /\ pc' = "del" /\ at' = {p}
          \/ /\ p \notin pid_dict /\ p \in ToSet(pid_list)
             /\ pc' = "unlist" /\ at' = {p}
          \/ /\ p \notin pid_dict /\ p \notin ToSet(pid_list)
             /\ UNCHANGED <<pc, at>>
  /\ UNCHANGED <<proc, lists, ignore_pid_list, stops, times, trap, seen,
                 to_remove, index, ended>>

RemoveDict ==
  /\ Main("del")
  /\ \/ ~(at \subseteq pid_dict) /\ Crash
     \/ /\ at \subseteq pid_dict
        /\ pid_dict' = pid_dict \ at
        /\ pc' = "test"
        /\ UNCHANGED <<proc, pid_list, last_died, unread, ignore_pid_list,
                       stops, times, trap, locals, ended>>

RemoveTest ==
  /\ Main("test")
  /\ IF at \subseteq ToSet(pid_list)
     THEN pc' = "unlist" /\ UNCHANGED at
     ELSE pc' = "remove" /\ at' = {}
  /\ UNCHANGED <<proc, lists, ignore_pid_list, stops, times, trap, seen,
                 to_remove, todo, index, ended>>

RemoveList ==
  /\ Main("unlist")
  /\ \/ ~(at \subseteq ToSet(pid_list)) /\ Crash
     \/ /\ at \subseteq ToSet(pid_list)
        /\ pid_list' = Without(pid_list, at)
        /\ pc' = "remove"
        /\ at' = {}
        /\ UNCHANGED <<proc, pid_dict, last_died, unread, ignore_pid_list,
                       stops, times, trap, seen, to_remove, todo, index, ended>>

(* Then new processes are looked for once a second, at first.              *)
RemoveEnd ==
  /\ Main("remove")
  /\ todo = {}
  /\ last_died' = (last_died \/ (pid_list = <<>> /\ to_remove # {}))
  /\ IF now < Window /\ now - last_subprocess_update >= 1
     THEN /\ todo' = {p \in Pid : proc[p] # "free"}
          /\ last_subprocess_update' = now
          /\ pc' = "scan"
     ELSE /\ pc' = "check"
          /\ UNCHANGED <<todo, last_subprocess_update>>
  /\ to_remove' = {}
  /\ UNCHANGED <<proc, pid_dict, pid_list, unread, ignore_pid_list, stops,
                 end_time, now, trap, seen, at, index, ended>>

(* Fault: it is not looked up in the lists.                                *)
ScanAccessAnew ==
  /\ Main("scan")
  /\ \E p \in todo :
       /\ todo' = todo \ {p}
       /\ \/ ReadFails(p) /\ UNCHANGED <<pc, at>>
          \/ proc[p] # "free" /\ pc' = "read" /\ at' = {p}
  /\ UNCHANGED <<proc, lists, ignore_pid_list, stops, times, trap, seen,
                 to_remove, index, ended>>

(* update_pid_tree(): access() tells that the process can be read ...      *)
ScanAccess ==
  /\ Main("scan")
  /\ \E p \in todo :
       /\ todo' = todo \ {p}
       /\ \/ /\ p \in ToSet(pid_list) \union ignore_pid_list \/ ReadFails(p)
             /\ UNCHANGED <<pc, at>>
          \/ /\ p \notin ToSet(pid_list) \union ignore_pid_list
             /\ proc[p] # "free"
             /\ pc' = "read" /\ at' = {p}
  /\ UNCHANGED <<proc, lists, ignore_pid_list, stops, times, trap, seen,
                 to_remove, index, ended>>

(* ... and then its stat file is opened, which raises if it is not there.  *)
ScanRead ==
  /\ Main("read")
  /\ \E p \in at :
     \/ proc[p] = "free" /\ Crash
     \/ /\ proc[p] # "free"
        /\ pc' = "scan"
        /\ at' = {}
        /\ IF proc[p] = "other"
           THEN /\ ignore_pid_list' = ignore_pid_list \union {p}
                /\ UNCHANGED pid_list
           ELSE /\ pid_list' = Append(pid_list, p)
                /\ UNCHANGED ignore_pid_list
        /\ UNCHANGED <<proc, pid_dict, last_died, unread, stops, times, trap,
                       seen, to_remove, todo, index, ended>>

ScanEnd ==
  /\ Main("scan")
  /\ todo = {}
  /\ pc' = "check"
  /\ UNCHANGED <<proc, guardVars, ended>>

(* "All child processes have died, exiting".                               *)
EveryoneDead ==
  /\ Main("check")
  /\ is_everyone_dead
  /\ BeginStop(FALSE)
  /\ pc' = "term"
  /\ UNCHANGED <<proc, lists, ignore_pid_list, times, trap, locals, ended>>

SomeoneAlive ==
  /\ Main("check")
  /\ ~is_everyone_dead
  /\ pc' = IF file = "none" THEN "timeout" ELSE "stat"
  /\ UNCHANGED <<proc, guardVars, ended>>

(* get_raw_stats(): a shell is skipped, here or among what it started.  A  *)
(* process of which the files cannot be read is taken for gone ...         *)
Stat ==
  /\ Main("stat")
  /\ index <= Len(pid_list)
  /\ LET p == pid_list[index] IN
     \/ /\ proc[p] # "free"
        /\ pc' = "write"
        /\ UNCHANGED <<unread, index, at>>
     \/ /\ proc[p] # "free"
        /\ index' = index + 1
        /\ UNCHANGED <<unread, at, pc>>
     \/ /\ ReadFails(p)
        /\ pc' = "gone"
        /\ at' = {p}
        /\ unread' = IF proc[p] = "child" THEN unread \union {p} ELSE unread
        /\ UNCHANGED index
  /\ UNCHANGED <<proc, pid_dict, pid_list, last_died, ignore_pid_list, stops,
                 times, trap, seen, to_remove, todo, ended>>

(* ... and removed from the list being iterated over, which shifts the     *)
(* rest, and raises if the handler has removed it.                         *)
Gone ==
  /\ Main("gone")
  /\ \/ ~(at \subseteq ToSet(pid_list)) /\ Crash
     \/ /\ at \subseteq ToSet(pid_list)
        /\ pid_list' = Without(pid_list, at)
        /\ last_died' = (last_died \/ pid_list' = <<>>)
        /\ index' = index + 1
        /\ pc' = "stat"
        /\ at' = {}
        /\ UNCHANGED <<proc, pid_dict, unread, ignore_pid_list, stops, times,
                       trap, seen, to_remove, todo, ended>>

(* Writing to the file that the handler closed meanwhile raises.           *)
Write ==
  /\ Main("write")
  /\ \/ file = "closed" /\ Crash
     \/ /\ file = "open"
        /\ index' = index + 1
        /\ pc' = "stat"
        /\ UNCHANGED <<proc, lists, ignore_pid_list, stops, times, trap, seen,
                       to_remove, todo, at, ended>>

StatEnd ==
  /\ Main("stat")
  /\ index > Len(pid_list)
  /\ pc' = "timeout"
  /\ index' = 1
  /\ UNCHANGED <<proc, lists, ignore_pid_list, stops, times, trap, seen,
                 to_remove, todo, at, ended>>

(* "Time out, killing monitored processes."                                *)
TimeOut ==
  /\ Main("timeout")
  /\ TimeIsUp
  /\ BeginStop(FALSE)
  /\ pc' = "term"
  /\ UNCHANGED <<proc, lists, ignore_pid_list, times, trap, locals, ended>>

NoTimeOut ==
  /\ Main("timeout")
  /\ ~TimeIsUp
  /\ pc' = "sleep"
  /\ UNCHANGED <<proc, guardVars, ended>>

Sleep ==
  /\ Main("sleep")
  /\ now' = IF now < Late THEN now + 1 ELSE now
  /\ pc' = "loop"
  /\ UNCHANGED <<proc, lists, ignore_pid_list, stops, end_time,
                 last_subprocess_update, trap, locals, ended>>

MainTerm ==
  /\ Main("term")
  /\ TermGroup(pc, "loop")
  /\ UNCHANGED <<ignore_pid_list, stops, times, trap, locals>>

MainKill ==
  /\ Main("wait")
  /\ KillGroup(pc, "loop")
  /\ UNCHANGED <<ignore_pid_list, stops, times, trap, locals>>

MainStep ==
  \/ Run \/ Install \/ Loop \/ Poll
  \/ RemoveNext \/ RemoveDict \/ RemoveTest \/ RemoveList \/ RemoveEnd
  \/ ScanAccess \/ ScanRead \/ ScanEnd \/ EveryoneDead \/ SomeoneAlive
  \/ Stat \/ Gone \/ Write \/ StatEnd \/ TimeOut \/ NoTimeOut \/ Sleep
  \/ MainTerm \/ MainKill

-----------------------------------------------------------------------------
(* The signals: _termTrap(), and the end of the program's text.            *)

Term ==
  /\ ended = "no" /\ trap = "idle"
  /\ pc # "setup" /\ ~stopping
  /\ BeginStop(FALSE)
  /\ trap' = "term"
  /\ UNCHANGED <<proc, lists, ignore_pid_list, times, locals, pc, ended>>

TrapTerm ==
  /\ ended = "no" /\ trap = "term"
  /\ TermGroup(trap, "idle")
  /\ UNCHANGED <<ignore_pid_list, stops, times, locals, pc>>

TrapKill ==
  /\ ended = "no" /\ trap = "wait"
  /\ KillGroup(trap, "idle")
  /\ UNCHANGED <<ignore_pid_list, stops, times, locals, pc>>

TrapStep == TrapTerm \/ TrapKill

(* SIGINT: KeyboardInterrupt is raised where the main program or the       *)
(* handler is, and stop() called where it is caught.  What was broken off  *)
(* in the middle of a stop, that does again; it is not caught twice.       *)
Interrupt ==
  /\ Interrupts
  /\ ended = "no" /\ pc # "setup"
  /\ \/ /\ ~interrupted
        /\ BeginStop(TRUE)
        /\ pc' = "term"
        /\ trap' = "idle"
        /\ seen' = {} /\ to_remove' = {} /\ todo' = {} /\ at' = {} /\ index' = 1
        /\ UNCHANGED <<proc, lists, ignore_pid_list, times, ended>>
     \/ /\ interrupted
        /\ ended' = "interrupted"
        /\ UNCHANGED <<proc, guardVars, pc>>

(* Before it is handled either of the two ends the guard.                  *)
TermEarly ==
  /\ EarlyTerm
  /\ ended = "no" /\ pc = "setup"
  /\ ended' = "terminated"
  /\ UNCHANGED <<proc, guardVars, pc>>

-----------------------------------------------------------------------------
(* The processes.                                                          *)

(* A child that ends is a zombie until the guard polls it.                 *)
Exit ==
  /\ \E p \in Pid :
       /\ proc[p] \in {"child", "descendant", "other"}
       /\ pc = "read" /\ p \in at => ScanRace
       /\ proc' = [proc EXCEPT ![p] = IF @ = "child" THEN "zombie" ELSE "free"]
  /\ UNCHANGED <<guardVars, pc, ended>>

Fork ==
  /\ Forking
  /\ Group # {}
  /\ \E p \in Pid :
       /\ proc[p] = "free"
       /\ pc = "setup" => p \notin Child
       /\ proc' = [proc EXCEPT ![p] = "descendant"]
  /\ UNCHANGED <<guardVars, pc, ended>>

OtherStart ==
  /\ \E p \in Others :
       /\ proc[p] = "free"
       /\ pc = "setup" => p \notin Child
       /\ proc' = [proc EXCEPT ![p] = "other"]
  /\ UNCHANGED <<guardVars, pc, ended>>

World == ended = "no" /\ (Exit \/ Fork \/ OtherStart)

-----------------------------------------------------------------------------
Init ==
  /\ proc = [p \in Pid |-> "free"]
  /\ pid_dict = {}
  /\ pid_list = <<>>
  /\ ignore_pid_list = {}
  /\ last_died = FALSE
  /\ stopping = FALSE
  /\ end_time \in Timeouts
  /\ file = "none"
  /\ now = 0
  /\ last_subprocess_update = 0
  /\ pc = "setup"
  /\ trap = "idle"
  /\ seen = {}
  /\ to_remove = {}
  /\ todo = {}
  /\ at = {}
  /\ index = 1
  /\ interrupted = FALSE
  /\ unread = {}
  /\ ended = "no"

Next == MainStep \/ Term \/ TrapStep \/ Interrupt \/ TermEarly \/ World

(* The guard's own code goes on.  Nothing is assumed of the processes, nor *)
(* that anybody sends a signal.                                            *)
Spec == Init /\ [][Next]_vars /\ WF_vars(MainStep) /\ WF_vars(TrapStep)

-----------------------------------------------------------------------------
(* Properties.                                                             *)

Label == {"setup", "loop", "poll", "remove", "del", "test", "unlist", "scan",
          "read", "check", "stat", "gone", "write", "timeout", "sleep", "term",
          "wait"}

TypeOK ==
  /\ proc \in [Pid -> Kind]
  /\ pid_dict \subseteq Child
  /\ pid_list \in Seq(Pid) /\ IsInjective(pid_list)
  /\ ignore_pid_list \subseteq Pid
  /\ last_died \in BOOLEAN
  /\ stopping \in BOOLEAN
  /\ end_time \in Timeouts
  /\ file \in {"none", "open", "closed"}
  /\ now \in 0..Late
  /\ last_subprocess_update \in 0..Late
  /\ pc \in Label
  /\ trap \in {"idle", "term", "wait"}
  /\ seen \subseteq Child
  /\ to_remove \subseteq Pid
  /\ todo \subseteq Pid
  /\ at \subseteq Pid
  /\ index \in 1..(Cardinality(Pid) + 1)
  /\ interrupted \in BOOLEAN
  /\ unread \subseteq Child
  /\ ended \in {"no", "returned", "killed", "crashed", "interrupted",
               "terminated"}

(* The guard leaves no process of its group behind, however it ends: "all  *)
(* the child processes will be killed" (process_guard.py:242, also 183).   *)
AllKilled == ended # "no" => Group = {}

(* This holds of the children themselves, where the guard has come to stop *)
(* them and is not broken off twice, whatever the handler and the main     *)
(* program have made of the lists (process_guard.py:177-182, 287-289).     *)
ChildrenKilled ==
  ended \notin {"no", "interrupted"} /\ stopping
    => \A p \in Pid : proc[p] # "child"

(* A child that runs is not lost sight of: the main program and the        *)
(* handler remove it from neither list in one place or another, but for    *)
(* the one place where reading it fails, which costs it its samples and no *)
(* more (process_guard.py:55-67, 105-106).                                 *)
RunningChildMonitored ==
  \A p \in Pid : proc[p] = "child"
    => p \in pid_dict /\ p \in ToSet(pid_list) \union unread

(* The main program goes on to signal the group of its own accord only     *)
(* once the time is up, or where none of the children that still run could *)
(* be read: a mistaken last_died costs no other child its life             *)
(* (process_guard.py:105-108, 214, 229).                                   *)
NoEarlyKill ==
  pc = "wait" /\ ~interrupted
    => \/ end_time # 0 /\ now > end_time
       \/ \A p \in Pid : proc[p] = "child" => p \in unread

(* "All child processes have died" is said when they have: "no more        *)
(* processes will appear" (process_guard.py:69, 215).                      *)
EveryoneReallyDead ==
  [][pc = "check" /\ pc' = "term" => Group = {}]_vars

(* A round of samples visits every process of the list, "check[ing]        *)
(* processes/threads every FLOAT seconds" (process_guard.py:267): the next *)
(* one visited is the next one there was.                                  *)
NoneSkipped ==
  [][index' = index + 1 /\ index < Len(pid_list)
       => /\ index' <= Len(pid_list')
          /\ pid_list'[index'] = pid_list[index']]_vars

(* The guard ends in time where there is a timeout (process_guard.py:242). *)
EndsInTime == end_time # 0 => <>(ended # "no")

(* It ends when it was told to, by SIGTERM or by itself.                   *)
StopEnds == stopping ~> ended # "no"

(* It ends when all of its processes have died (process_guard.py:214), and *)
(* no other process has the id of one in the list.                         *)
EndsAfterAll ==
  <>[](Group = {} /\ \A p \in ToSet(pid_list) : proc[p] # "other")
    => <>(ended # "no")
=============================================================================
