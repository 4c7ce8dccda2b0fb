------------------------- MODULE ProcessGuardProofs -------------------------
(***************************************************************************)
(* What is proved of ProcessGuard, for every set of processes, whatever    *)
(* the clock, SIGTERM and the processes do.                                *)
(***************************************************************************)
EXTENDS ProcessGuard, ListProofs

NoChild == \A p \in Pid : proc[p] # "child"

(* No child runs that get_raw_stats() could read whenever it tried to.     *)
NoneReadable == \A p \in Pid : proc[p] = "child" => p \in unread

(* What prune_pid_list() is about to remove has finished, and stays so,    *)
(* and what get_raw_stats() is about to remove could not be read.          *)
RemovesFinished ==
  /\ pc \in {"remove", "del", "test", "unlist"}
       => \A p \in todo \union at : proc[p] # "child"
  /\ pc = "gone" => \A p \in at : proc[p] = "child" => p \in unread

(* Until the handler is installed nothing has been stopped, and only the   *)
(* shells are monitored.                                                   *)
FreshInSetup ==
  pc = "setup" => /\ ~last_died /\ ~stopping /\ ~interrupted /\ trap = "idle"
                  /\ ToSet(pid_list) \subseteq pid_dict

(* What update_pid_tree() is about to append is not in the list.           *)
ReadsNew ==
  /\ pc = "read" => at \intersect ToSet(pid_list) = {}
  /\ pc \notin {"del", "test", "unlist", "read", "gone"} => at = {}

(* get_raw_stats() writes what it found before the end of the list, however *)
(* short the handler has made the list since.                              *)
WritesWithin == pc \in {"write", "gone"} => index <= Cardinality(Pid)

(* last_died, right or wrong about descendants, is right about children,   *)
(* those but that could not be read.                                       *)
DiedNoChild == last_died => NoneReadable

(* Only stop() terminates, and it is entered once.                         *)
StopFirst == trap # "idle" \/ pc \in {"term", "wait"} => stopping

(* Where the main program stops by itself the time is up or all shells are *)
(* gone, those but that could not be read.                                 *)
MainStops ==
  pc \in {"term", "wait"} /\ ~interrupted => TimeIsUp \/ NoneReadable

(* Once stop() is through no shell runs.                                   *)
Stopped ==
  stopping /\ trap = "idle" /\ pc \notin {"term", "wait"} => NoChild

GuardInv ==
  /\ TypeOK
  /\ RunningChildMonitored
  /\ RemovesFinished
  /\ FreshInSetup
  /\ ReadsNew
  /\ WritesWithin
  /\ DiedNoChild
  /\ StopFirst
  /\ MainStops
  /\ Stopped
  /\ ChildrenKilled
-----------------------------------------------------------------------------
(* Lemmas about the state.                                                 *)

(* The clock's bound is a number.                                          *)
LEMMA LateType == Late \in Nat /\ Late >= 1
<1>1. /\ Timeouts \union {0} \in SUBSET Nat
      /\ IsFiniteSet(Timeouts \union {0})
  BY ConstantTypes, FS_AddElement
<1>2. Max(Timeouts \union {0}) \in Nat /\ Window \in Nat
  BY <1>1, Greatest, ConstantTypes
<1> QED BY <1>2 DEF Late

(* Pruning leaves a list of different processes, those not pruned.         *)
LEMMA PrunedList ==
  ASSUME pid_list \in Seq(Pid), IsInjective(pid_list), NEW gone,
         pid_list' = Without(pid_list, gone)
  PROVE  /\ pid_list' \in Seq(Pid) /\ IsInjective(pid_list')
         /\ ToSet(pid_list') = ToSet(pid_list) \ gone
         /\ pid_list' = <<>> => ToSet(pid_list') = {}
<1>1. /\ pid_list' \in Seq(Pid) /\ IsInjective(pid_list')
      /\ ToSet(pid_list') = ToSet(pid_list) \ gone
  BY WithoutMembers
<1>2. ToSet(<<>>) = {}
  BY DEF ToSet
<1> QED BY <1>1, <1>2

(* A process that is appended is new.                                      *)
LEMMA GrownList ==
  ASSUME pid_list \in Seq(Pid), IsInjective(pid_list),
         NEW p \in Pid \ ToSet(pid_list), pid_list' = Append(pid_list, p)
  PROVE  /\ pid_list' \in Seq(Pid) /\ IsInjective(pid_list')
         /\ ToSet(pid_list') = ToSet(pid_list) \union {p}
BY AppendMembers

(* The list is no longer than there are processes.                         *)
LEMMA ListLength ==
  ASSUME pid_list \in Seq(Pid), IsInjective(pid_list)
  PROVE  /\ Cardinality(Pid) \in Nat
         /\ Len(pid_list) \in Nat /\ Len(pid_list) <= Cardinality(Pid)
BY ConstantTypes, LenOfDifferent, FS_CardinalityType, LenProperties

(* The guard starts with nothing to do.                                    *)
LEMMA GuardInit == Init => GuardInv
<1> SUFFICES ASSUME Init PROVE GuardInv
  OBVIOUS
<1>1. ToSet(<<>>) = {} /\ <<>> \in Seq(Pid) /\ IsInjective(<<>>)
  BY DEF ToSet, IsInjective
<1>2. /\ Cardinality(Pid) \in Nat /\ Late \in Nat
  BY ConstantTypes, FS_CardinalityType, LateType
<1>3. /\ pid_list \in Seq(Pid) /\ IsInjective(pid_list)
      /\ ToSet(pid_list) = {}
  BY <1>1 DEF Init
<1>4. /\ now \in 0..Late /\ last_subprocess_update \in 0..Late
      /\ index \in 1..Cardinality(Pid) + 1
  BY <1>2 DEF Init
<1>5. TypeOK
  BY <1>3, <1>4 DEF Init, TypeOK, Kind, Label
<1> QED
  BY <1>2, <1>3, <1>5 DEF Init, GuardInv, RunningChildMonitored,
     RemovesFinished, NoneReadable, FreshInSetup, ReadsNew, WritesWithin, DiedNoChild,
     StopFirst, MainStops, Stopped, ChildrenKilled

(* The members of the list are processes.                                  *)
LEMMA ListMembers ==
  ASSUME pid_list \in Seq(Pid)
  PROVE  ToSet(pid_list) \subseteq Pid
BY LenProperties, ElementOfSeq DEF ToSet

(* Pruning what has finished loses no shell that runs, and does not take   *)
(* the death of others for the death of all shells.                        *)
LEMMA PruneKeeps ==
  ASSUME GuardInv, pc # "setup", NEW gone \in SUBSET Pid,
         \A p \in gone : proc[p] # "child",
         Remove_pids(gone), Reap \/ UNCHANGED proc
  PROVE  /\ pid_dict' = pid_dict \ gone
         /\ pid_list' \in Seq(Pid) /\ IsInjective(pid_list')
         /\ ToSet(pid_list') = ToSet(pid_list) \ gone
         /\ proc' \in [Pid -> Kind] /\ last_died' \in BOOLEAN
         /\ \A p \in Pid : proc'[p] = "child" <=> proc[p] = "child"
         /\ RunningChildMonitored' /\ DiedNoChild'
         /\ NoChild => NoChild'
         /\ NoneReadable => NoneReadable'
<1>1. proc \in [Pid -> Kind] /\ pid_dict \subseteq Pid
  BY ConstantTypes DEF GuardInv, TypeOK
<1>2. /\ proc' \in [Pid -> Kind]
      /\ \A p \in Pid : proc'[p] = "child" <=> proc[p] = "child"
  <2>1. CASE Reap
    BY <1>1, <2>1 DEF Reap, Kind
  <2>2. CASE UNCHANGED proc
    BY <1>1, <2>2
  <2> QED BY <2>1, <2>2
<1>3. /\ pid_dict' = pid_dict \ gone
      /\ pid_list' = Without(pid_list, gone)
      /\ last_died' = (last_died \/ (pid_list' = <<>> /\ gone # {}))
  BY DEF Remove_pids
<1>4. /\ pid_list' \in Seq(Pid) /\ IsInjective(pid_list')
      /\ ToSet(pid_list') = ToSet(pid_list) \ gone
      /\ pid_list' = <<>> => ToSet(pid_list') = {}
  BY <1>3, PrunedList DEF GuardInv, TypeOK
<1>5. RunningChildMonitored' /\ UNCHANGED unread
  BY <1>1, <1>2, <1>3, <1>4 DEF GuardInv, RunningChildMonitored, Remove_pids
<1>6. /\ NoChild => NoChild'
      /\ NoneReadable => NoneReadable'
  BY <1>2, <1>5 DEF NoChild, NoneReadable
<1>7. DiedNoChild'
  <2>1. CASE last_died
    BY <1>6, <2>1 DEF GuardInv, DiedNoChild
  <2>2. CASE pid_list' = <<>>
    BY <1>4, <1>5, <2>2 DEF RunningChildMonitored, DiedNoChild, NoneReadable
  <2>3. CASE ~last_died /\ pid_list' # <<>>
    BY <1>3, <2>3 DEF DiedNoChild
  <2> QED BY <2>1, <2>2, <2>3
<1>8. last_died' \in BOOLEAN
  BY <1>3
<1> QED BY <1>2, <1>3, <1>4, <1>5, <1>6, <1>7, <1>8

(* terminate() prunes what has finished.                                   *)
LEMMA FinishedDead ==
  ASSUME GuardInv
  PROVE  Finished \in SUBSET Pid /\ \A p \in Finished : proc[p] # "child"
<1>1. pid_dict \subseteq Pid /\ ToSet(pid_list) \subseteq Pid
  BY ConstantTypes, ListMembers DEF GuardInv, TypeOK
<1> QED BY <1>1 DEF Finished

(* Before the first SIGTERM to the group: no shell is left, or the second  *)
(* pruning is waited for.                                                  *)
LEMMA TermKeeps ==
  ASSUME GuardInv, pc # "setup", Remove_pids(Finished), Reap
  PROVE  pid_dict' = {} => NoChild'
BY PruneKeeps, FinishedDead DEF RunningChildMonitored, NoChild

(* After it no shell is left: SIGKILL takes the whole group.               *)
LEMMA KillKeeps ==
  ASSUME GuardInv, pc # "setup", Remove_pids(Finished),
         \/ pid_dict' = {} /\ Reap /\ UNCHANGED ended
         \/ /\ proc' = [p \in Pid |-> IF proc[p] = "other" THEN "other"
                                     ELSE "free"]
            /\ ended' = "killed"
  PROVE  /\ NoChild' /\ proc' \in [Pid -> Kind]
         /\ pid_dict' = pid_dict \ Finished
         /\ pid_list' \in Seq(Pid) /\ IsInjective(pid_list')
         /\ ToSet(pid_list') = ToSet(pid_list) \ Finished
         /\ last_died' \in BOOLEAN /\ unread' = unread
         /\ ended' \in {ended, "killed"}
<1>1. /\ pid_dict' = pid_dict \ Finished
      /\ pid_list' \in Seq(Pid) /\ IsInjective(pid_list')
      /\ ToSet(pid_list') = ToSet(pid_list) \ Finished
      /\ last_died' \in BOOLEAN /\ unread' = unread
  BY PrunedList DEF Remove_pids, GuardInv, TypeOK
<1>2. CASE pid_dict' = {} /\ Reap /\ UNCHANGED ended
  <2>1. NoChild' /\ proc' \in [Pid -> Kind]
    BY <1>2, PruneKeeps, FinishedDead DEF RunningChildMonitored, NoChild
  <2> QED BY <1>1, <1>2, <2>1
<1>3. CASE /\ proc' = [p \in Pid |-> IF proc[p] = "other" THEN "other"
                                     ELSE "free"]
           /\ ended' = "killed"
  <2>1. NoChild' /\ proc' \in [Pid -> Kind]
    BY <1>3 DEF NoChild, Kind
  <2> QED BY <1>1, <1>3, <2>1
<1> QED BY <1>2, <1>3

(* Every step of the guard, of the handler and of the processes keeps the  *)
(* invariant.                                                              *)
LEMMA GuardNext == GuardInv /\ [Next]_vars => GuardInv'
<1> SUFFICES ASSUME GuardInv, [Next]_vars PROVE GuardInv'
  OBVIOUS
<1> USE DEF GuardInv, NoneReadable, RunningChildMonitored, RemovesFinished,
            FreshInSetup, ReadsNew, WritesWithin, DiedNoChild, StopFirst,
            MainStops, Stopped, ChildrenKilled, TypeOK, Kind, Label, lists,
            stops, times, locals, guardVars, Main, TimeIsUp
<1>a. /\ Late \in Nat /\ Late >= 1
      /\ Cardinality(Pid) \in Nat /\ Child \subseteq Pid
      /\ Len(pid_list) \in Nat /\ Len(pid_list) <= Cardinality(Pid)
      /\ ToSet(pid_list) \subseteq Pid
      /\ Others \subseteq Pid
  BY LateType, ListLength, ListMembers, ConstantTypes
<1>1. ASSUME Run PROVE GuardInv'
  BY <1>a, <1>1, GrownList DEF Run, NoChild
<1>2. ASSUME Install PROVE GuardInv'
  BY <1>a, <1>2 DEF Install, NoChild
<1>3. ASSUME Loop PROVE GuardInv'
  BY <1>a, <1>3 DEF Loop, NoChild
<1>4. ASSUME Poll PROVE GuardInv'
  <2>1. CASE pid_dict # seen /\ Crash
    BY <1>4, <2>1 DEF Poll, Crash, NoChild
  <2>2. CASE /\ Reap
             /\ to_remove' = Finished /\ todo' = Finished /\ seen' = {}
             /\ pc' = "remove"
             /\ UNCHANGED <<lists, ignore_pid_list, stops, times, trap, at,
                            index, ended>>
    <3>1. /\ proc' \in [Pid -> Kind]
          /\ \A p \in Pid : proc'[p] = "child" <=> proc[p] = "child"
      BY <2>2 DEF Reap
    <3>2. /\ to_remove' \in SUBSET Pid /\ todo' = to_remove'
          /\ \A p \in to_remove' : proc'[p] # "child"
      BY <2>2, <3>1, FinishedDead
    <3>3. at' \subseteq Pid /\ pc = "poll"
      BY <1>4, <2>2 DEF Poll
    <3>4. Main("poll")
      BY <1>4 DEF Poll
    <3>5. \A p \in (todo \union at)' : proc'[p] # "child"
      BY <2>2, <3>1, <3>2, <3>3
    <3> QED BY <1>a, <2>2, <3>1, <3>2, <3>3, <3>4, <3>5 DEF NoChild
  <2> QED BY <1>4, <2>1, <2>2 DEF Poll
<1>5. ASSUME RemoveNext PROVE GuardInv'
  BY <1>a, <1>5 DEF RemoveNext, NoChild
<1>6. ASSUME RemoveDict PROVE GuardInv'
  BY <1>a, <1>6 DEF RemoveDict, NoChild, Crash
<1>7. ASSUME RemoveTest PROVE GuardInv'
  BY <1>a, <1>7 DEF RemoveTest, NoChild
<1>8. ASSUME RemoveList PROVE GuardInv'
  <2>1. CASE Crash
    BY <1>8, <2>1 DEF RemoveList, Crash, NoChild
  <2>2. CASE pid_list' = Without(pid_list, at)
    <3>1. /\ pid_list' \in Seq(Pid) /\ IsInjective(pid_list')
          /\ ToSet(pid_list') = ToSet(pid_list) \ at
      BY <2>2, PrunedList
    <3>2. \A p \in at : proc[p] # "child"
      BY <1>8 DEF RemoveList
    <3>3. (pc' # "read" /\ at' \subseteq Pid) \/ Crash
      BY <1>8 DEF RemoveList
    <3> QED BY <1>a, <1>8, <2>1, <3>1, <3>2, <3>3 DEF RemoveList, NoChild
  <2> QED BY <1>8, <2>1, <2>2 DEF RemoveList
<1>9. ASSUME RemoveEnd PROVE GuardInv'
  <2>1. pid_list = <<>> => ToSet(pid_list) = {}
    BY DEF ToSet
  <2>2. DiedNoChild'
    BY <1>9, <2>1 DEF RemoveEnd
  <2> QED BY <1>a, <1>9, <2>2 DEF RemoveEnd, NoChild
<1>10. ASSUME ScanAccess PROVE GuardInv'
  BY <1>a, <1>10 DEF ScanAccess, NoChild
<1>11. ASSUME ScanRead PROVE GuardInv'
  BY <1>a, <1>11, GrownList DEF ScanRead, NoChild, Crash
<1>12. ASSUME ScanEnd PROVE GuardInv'
  BY <1>a, <1>12 DEF ScanEnd, NoChild
<1>13. ASSUME EveryoneDead PROVE GuardInv'
  <2>1. NoneReadable
    <3>1. pid_list = <<>> => ToSet(pid_list) = {}
      BY DEF ToSet
    <3> QED BY <1>13, <3>1 DEF EveryoneDead, is_everyone_dead
  <2> QED BY <1>13, <2>1 DEF EveryoneDead, BeginStop, NoChild
<1>14. ASSUME SomeoneAlive PROVE GuardInv'
  BY <1>a, <1>14 DEF SomeoneAlive, NoChild, is_everyone_dead
<1>15. ASSUME Stat PROVE GuardInv'
  <2> DEFINE p == pid_list[index]
  <2>1. p \in Pid
    BY <1>15, ElementOfSeq DEF Stat
  <2>2. /\ unread \subseteq unread' /\ unread' \subseteq Child
        /\ pc = "stat" /\ index <= Len(pid_list)
        /\ UNCHANGED <<proc, pid_dict, pid_list, last_died, ignore_pid_list,
                       stops, times, trap, seen, to_remove, todo, ended>>
        /\ \/ pc' = "write" /\ UNCHANGED <<index, at>>
           \/ index' = index + 1 /\ UNCHANGED <<at, pc>>
           \/ /\ pc' = "gone" /\ at' = {p} /\ UNCHANGED index
              /\ proc[p] = "child" => p \in unread'
    BY <1>15, <2>1 DEF Stat
  <2> HIDE DEF p
  <2> QED BY <1>a, <2>1, <2>2 DEF NoChild
<1>16. ASSUME Gone PROVE GuardInv'
  <2>1. CASE Crash
    BY <1>16, <2>1 DEF Gone, Crash, NoChild
  <2>2. CASE /\ pid_list' = Without(pid_list, at)
             /\ last_died' = (last_died \/ pid_list' = <<>>)
             /\ index' = index + 1 /\ pc' = "stat" /\ at' = {}
             /\ UNCHANGED <<proc, pid_dict, unread, ignore_pid_list, stops,
                            times, trap, seen, to_remove, todo, ended>>
    <3>1. /\ pid_list' \in Seq(Pid) /\ IsInjective(pid_list')
          /\ ToSet(pid_list') = ToSet(pid_list) \ at
          /\ pid_list' = <<>> => ToSet(pid_list') = {}
      BY <2>2, PrunedList
    <3>2. /\ \A p \in at : proc[p] = "child" => p \in unread
          /\ index <= Cardinality(Pid) /\ last_died' \in BOOLEAN
          /\ pc = "gone"
      BY <1>16, <2>2 DEF Gone
    <3>3. RunningChildMonitored'
      BY <2>2, <3>1, <3>2
    <3>4. DiedNoChild'
      BY <2>2, <3>1, <3>3
    <3>5. TypeOK'
      BY <1>a, <2>2, <3>1, <3>2
    <3> QED BY <2>2, <3>2, <3>3, <3>4, <3>5 DEF NoChild
  <2> QED BY <1>16, <2>1, <2>2 DEF Gone
<1>17. ASSUME Write PROVE GuardInv'
  BY <1>a, <1>17 DEF Write, NoChild, Crash
<1>18. ASSUME StatEnd PROVE GuardInv'
  BY <1>a, <1>18 DEF StatEnd, NoChild
<1>19. ASSUME TimeOut PROVE GuardInv'
  BY <1>a, <1>19 DEF TimeOut, NoChild, BeginStop
<1>20. ASSUME NoTimeOut PROVE GuardInv'
  BY <1>a, <1>20 DEF NoTimeOut, NoChild
<1>21. ASSUME Sleep PROVE GuardInv'
  BY <1>a, <1>21 DEF Sleep, NoChild
<1>22. ASSUME MainTerm PROVE GuardInv'
  <2>1. /\ Remove_pids(Finished) /\ Reap /\ pc # "setup" /\ ended = "no"
        /\ UNCHANGED <<ignore_pid_list, stops, times, locals, trap, ended>>
        /\ pc' = IF pid_dict' = {} THEN "loop" ELSE "wait"
        /\ pc = "term" /\ trap = "idle"
    BY <1>22 DEF MainTerm, TermGroup
  <2>2. /\ pid_dict' = pid_dict \ Finished
        /\ pid_list' \in Seq(Pid) /\ IsInjective(pid_list')
        /\ ToSet(pid_list') = ToSet(pid_list) \ Finished
        /\ proc' \in [Pid -> Kind] /\ last_died' \in BOOLEAN
        /\ \A p \in Pid : proc'[p] = "child" <=> proc[p] = "child"
        /\ RunningChildMonitored' /\ DiedNoChild'
        /\ NoneReadable => NoneReadable'
        /\ unread' = unread
    BY <2>1, PruneKeeps, FinishedDead DEF Remove_pids
  <2>3. pid_dict' = {} => NoChild'
    BY <2>1, TermKeeps
  <2>4. TypeOK'
    BY <1>a, <2>1, <2>2
  <2>5. RemovesFinished' /\ ReadsNew' /\ WritesWithin' /\ FreshInSetup'
    BY <2>1, <2>2
  <2>6. MainStops' /\ StopFirst'
    BY <2>1, <2>2
  <2>7. Stopped' /\ ChildrenKilled'
    BY <2>1, <2>3
  <2> QED BY <2>2, <2>4, <2>5, <2>6, <2>7
<1>23. ASSUME MainKill PROVE GuardInv'
  BY <1>a, <1>23, KillKeeps DEF MainKill, NoChild, KillGroup
<1>24. ASSUME Term PROVE GuardInv'
  BY <1>a, <1>24 DEF Term, NoChild, BeginStop
<1>25. ASSUME TrapTerm PROVE GuardInv'
  <2>1. /\ Remove_pids(Finished) /\ Reap /\ pc # "setup" /\ ended = "no"
        /\ UNCHANGED <<ignore_pid_list, stops, times, locals, pc, ended>>
        /\ trap' = IF pid_dict' = {} THEN "idle" ELSE "wait"
        /\ trap = "term" /\ stopping
    BY <1>25 DEF TrapTerm, TermGroup
  <2>2. /\ pid_dict' = pid_dict \ Finished
        /\ pid_list' \in Seq(Pid) /\ IsInjective(pid_list')
        /\ ToSet(pid_list') = ToSet(pid_list) \ Finished
        /\ proc' \in [Pid -> Kind] /\ last_died' \in BOOLEAN
        /\ \A p \in Pid : proc'[p] = "child" <=> proc[p] = "child"
        /\ RunningChildMonitored' /\ DiedNoChild'
        /\ NoneReadable => NoneReadable'
        /\ unread' = unread
    BY <2>1, PruneKeeps, FinishedDead DEF Remove_pids
  <2>3. pid_dict' = {} => NoChild'
    BY <2>1, TermKeeps
  <2>4. TypeOK'
    BY <1>a, <2>1, <2>2
  <2>5. RemovesFinished' /\ ReadsNew' /\ WritesWithin' /\ FreshInSetup'
    BY <2>1, <2>2
  <2>6. MainStops' /\ StopFirst'
    BY <2>1, <2>2
  <2>7. Stopped' /\ ChildrenKilled'
    BY <2>1, <2>3
  <2> QED BY <2>2, <2>4, <2>5, <2>6, <2>7
<1>26. ASSUME TrapKill PROVE GuardInv'
  BY <1>a, <1>26, KillKeeps DEF TrapKill, NoChild, KillGroup
<1>27. ASSUME Interrupt PROVE GuardInv'
  <2>1. CASE interrupted
    BY <1>27, <2>1 DEF Interrupt, NoChild, BeginStop
  <2>2. CASE ~interrupted
    <3>1. /\ stopping' = TRUE /\ interrupted' = TRUE
          /\ file' \in {"none", "open", "closed"}
          /\ pc' = "term" /\ trap' = "idle" /\ ended = "no"
          /\ seen' = {} /\ to_remove' = {} /\ todo' = {} /\ at' = {}
          /\ index' = 1
          /\ UNCHANGED <<proc, lists, ignore_pid_list, times, ended>>
      BY <1>27, <2>2 DEF Interrupt, BeginStop
    <3>2. TypeOK'
      BY <1>a, <3>1
    <3>3. RunningChildMonitored' /\ DiedNoChild'
      BY <3>1
    <3> QED BY <3>1, <3>2, <3>3 DEF NoChild
  <2> QED BY <2>1, <2>2
<1>28. ASSUME TermEarly PROVE GuardInv'
  BY <1>a, <1>28 DEF TermEarly, NoChild
<1>29. ASSUME World /\ Exit PROVE GuardInv'
  BY <1>a, <1>29 DEF World, Exit, NoChild
<1>30. ASSUME World /\ Fork PROVE GuardInv'
  BY <1>a, <1>30 DEF World, Fork, NoChild
<1>31. ASSUME World /\ OtherStart PROVE GuardInv'
  BY <1>a, <1>31 DEF World, OtherStart, NoChild
<1>32. CASE UNCHANGED vars
  BY <1>32 DEF vars, NoChild
<1> QED
  BY <1>1, <1>2, <1>3, <1>4, <1>5, <1>6, <1>7, <1>8, <1>9, <1>10, <1>11,
     <1>12, <1>13, <1>14, <1>15, <1>16, <1>17, <1>18, <1>19, <1>20, <1>21,
     <1>22, <1>23, <1>24, <1>25, <1>26, <1>27, <1>28, <1>29, <1>30, <1>31,
     <1>32
     DEF Next, MainStep, TrapStep, World

-----------------------------------------------------------------------------
(* The inductive invariant holds from the start to the end.                *)
THEOREM GuardInvariant == Spec => []GuardInv
<1> QED BY GuardInit, GuardNext, PTL DEF Spec

(* What the guard knows of the processes has its type: its list holds no   *)
(* process twice, however handler and main program change it               *)
(* (process_guard.py:55-67, 105, 126).                                     *)
THEOREM GuardTypeOK == Spec => []TypeOK
<1>1. GuardInv => TypeOK
  BY DEF GuardInv
<1> QED BY <1>1, GuardInvariant, PTL

(* A running child stays in pid_dict, and in pid_list too unless reading   *)
(* it failed, whatever the handler, SIGINT and the reuse of ids interrupt  *)
(* (process_guard.py:55-67, 105-106).                                      *)
THEOREM ChildMonitored == Spec => []RunningChildMonitored
<1>1. GuardInv => RunningChildMonitored
  BY DEF GuardInv
<1> QED BY <1>1, GuardInvariant, PTL

(* The main program waits to kill the group only once the time is up, when *)
(* it was interrupted, or where each child that still runs could not be    *)
(* read (process_guard.py:105-108, 214, 229).                              *)
THEOREM KillsLate == Spec => []NoEarlyKill
<1>1. GuardInv => NoEarlyKill
  BY DEF GuardInv, MainStops, NoEarlyKill, TimeIsUp, NoneReadable
<1> QED BY <1>1, GuardInvariant, PTL

(* Where the guard has come to stop its shells none is left at its end     *)
(* (process_guard.py:183, 242).                                            *)
THEOREM NoChildLeft == Spec => []ChildrenKilled
<1>1. GuardInv => ChildrenKilled
  BY DEF GuardInv
<1> QED BY <1>1, GuardInvariant, PTL
=============================================================================
