----------------------------- MODULE SchedTimes -----------------------------
(***************************************************************************)
(* The CPU part of stap/cpu_io_mem_2.stp: its probes on the scheduler's    *)
(* events add up how long the target runs, waits for a processor, sleeps,  *)
(* and sleeps on I/O.                                                      *)
(*                                                                         *)
(* The target is a task of the kernel, which is running when the script    *)
(* begins, or is not.                                                      *)
(***************************************************************************)
EXTENDS Naturals, Integers

CONSTANTS
  MaxTime, \* bound: the clock stops here
  MaxWait  \* bound of nr_iowait

ASSUME ConstantTypes ==
  /\ MaxTime \in Nat
  /\ MaxWait \in Nat

VARIABLES
  state, prev_time, run_time, queued_time, sleep_time, io_wait_time,
  io_wait_count, io_wait_incremented, \* globals of the script
  clock,     \* gettimeofday_us()
  nr_iowait, \* tasks of the processor that wait for I/O
  task,      \* what the target really does
  real,      \* history: for how long, since the first event seen
  first,     \* history: when that was
  misled     \* history: an event said something else than what happened

times == <<run_time, queued_time, sleep_time, io_wait_time>>
script == <<state, prev_time, times, io_wait_count, io_wait_incremented>>
vars == <<script, clock, nr_iowait, task, real, first, misled>>

State == {"RUNNING", "QUEUED", "SLEEPING"}

-----------------------------------------------------------------------------
(* The probes.                                                             *)

(* The first event seen starts the clock.                                  *)
(* Fault: it does not.                                                     *)
BeginUntimed(s) ==
  /\ state = "UNSET"
  /\ state' = s
  /\ first' = clock
  /\ UNCHANGED <<prev_time, times, io_wait_incremented, real>>

Begin(s) ==
  /\ state = "UNSET"
  /\ state' = s
  /\ prev_time' = clock
  /\ first' = clock
  /\ UNCHANGED <<times, io_wait_incremented, real>>

Ignore == UNCHANGED <<state, prev_time, times, io_wait_incremented, real, first>>

(* sched_switch where the target is $prev; asleep is $prev->state > 0.     *)
(* Fault: prev_time is not moved on.                                       *)
SwitchOutStale(asleep) ==
  LET s == IF asleep THEN "SLEEPING" ELSE "QUEUED" IN
  /\ \/ Begin(s)
     \/ /\ state = "RUNNING"
        /\ state' = s
        /\ run_time' = run_time + (clock - prev_time)
        /\ io_wait_incremented' =
             IF asleep /\ nr_iowait > io_wait_count THEN 1 ELSE io_wait_incremented
        /\ UNCHANGED <<prev_time, queued_time, sleep_time, io_wait_time, real, first>>
     \/ state \in {"QUEUED", "SLEEPING"} /\ Ignore
  /\ UNCHANGED io_wait_count

SwitchOut(asleep) ==
  LET s == IF asleep THEN "SLEEPING" ELSE "QUEUED" IN
  /\ \/ Begin(s)
     \/ /\ state = "RUNNING"
        /\ state' = s
        /\ run_time' = run_time + (clock - prev_time)
        /\ prev_time' = clock
        /\ io_wait_incremented' =
             IF asleep /\ nr_iowait > io_wait_count THEN 1 ELSE io_wait_incremented
        /\ UNCHANGED <<queued_time, sleep_time, io_wait_time, real, first>>
     \/ state \in {"QUEUED", "SLEEPING"} /\ Ignore
  /\ UNCHANGED io_wait_count

(* sched_switch where the target is $next.                                 *)
(* Fault: the wait for the processor is counted as running.                *)
SwitchInAsRun ==
  /\ io_wait_count' = nr_iowait
  /\ \/ Begin("RUNNING")
     \/ /\ state = "QUEUED"
        /\ state' = "RUNNING"
        /\ run_time' = run_time + (clock - prev_time)
        /\ prev_time' = clock
        /\ UNCHANGED <<queued_time, sleep_time, io_wait_time, io_wait_incremented,
                       real, first>>
     \/ state \in {"RUNNING", "SLEEPING"} /\ Ignore

SwitchIn ==
  /\ io_wait_count' = nr_iowait
  /\ \/ Begin("RUNNING")
     \/ /\ state = "QUEUED"
        /\ state' = "RUNNING"
        /\ queued_time' = queued_time + (clock - prev_time)
        /\ prev_time' = clock
        /\ UNCHANGED <<run_time, sleep_time, io_wait_time, io_wait_incremented,
                       real, first>>
     \/ state \in {"RUNNING", "SLEEPING"} /\ Ignore

(* sched_wakeup of the target; success is $success.                        *)
(* Fault: the flag is left as it is.                                       *)
WakeupForgets(success) ==
  /\ \/ success /\ Begin("QUEUED")
     \/ /\ state = "SLEEPING"
        /\ state' = "QUEUED"
        /\ sleep_time' = sleep_time + (clock - prev_time)
        /\ io_wait_time' = IF io_wait_incremented = 1
                           THEN io_wait_time + (clock - prev_time)
                           ELSE io_wait_time
        /\ prev_time' = clock
        /\ UNCHANGED <<run_time, queued_time, io_wait_incremented, real, first>>
     \/ state = "UNSET" /\ ~success /\ Ignore
     \/ state \in {"RUNNING", "QUEUED"} /\ Ignore
  /\ UNCHANGED io_wait_count

Wakeup(success) ==
  /\ \/ success /\ Begin("QUEUED")
     \/ /\ state = "SLEEPING"
        /\ state' = "QUEUED"
        /\ sleep_time' = sleep_time + (clock - prev_time)
        /\ io_wait_time' = IF io_wait_incremented = 1
                           THEN io_wait_time + (clock - prev_time)
                           ELSE io_wait_time
        /\ io_wait_incremented' = 0
        /\ prev_time' = clock
        /\ UNCHANGED <<run_time, queued_time, real, first>>
     \/ state = "UNSET" /\ ~success /\ Ignore
     \/ state \in {"RUNNING", "QUEUED"} /\ Ignore
  /\ UNCHANGED io_wait_count

-----------------------------------------------------------------------------
(* The kernel.                                                             *)

GoesToSleep ==
  /\ task = "RUNNING"
  /\ task' = "SLEEPING"
  /\ SwitchOut(TRUE)
  /\ UNCHANGED <<clock, nr_iowait, misled>>

Preempted ==
  /\ task = "RUNNING"
  /\ task' = "QUEUED"
  /\ SwitchOut(FALSE)
  /\ UNCHANGED <<clock, nr_iowait, misled>>

(* The target has set its state and then is preempted: it stays queued.    *)
PreemptedAsleep ==
  /\ task = "RUNNING"
  /\ task' = "QUEUED"
  /\ SwitchOut(TRUE)
  /\ misled' = TRUE
  /\ UNCHANGED <<clock, nr_iowait>>

Runs ==
  /\ task = "QUEUED"
  /\ task' = "RUNNING"
  /\ SwitchIn
  /\ UNCHANGED <<clock, nr_iowait, misled>>

WakesUp ==
  /\ task = "SLEEPING"
  /\ task' = "QUEUED"
  /\ Wakeup(TRUE)
  /\ UNCHANGED <<clock, nr_iowait, misled>>

(* The target is woken up although it does not sleep: it waits already, or *)
(* it has set its state and is woken up before it is switched out.  It is  *)
(* not queued by that: as the first event, it would say so.                *)
WokenAwake ==
  /\ task \in {"RUNNING", "QUEUED"}
  /\ \E success \in BOOLEAN :
       /\ Wakeup(success)
       /\ misled' = (misled \/ (success /\ state = "UNSET" /\ task = "RUNNING"))
  /\ UNCHANGED <<clock, nr_iowait, task>>

OthersWait ==
  /\ nr_iowait' \in 0..MaxWait
  /\ UNCHANGED <<script, clock, task, real, first, misled>>

Tick ==
  /\ clock < MaxTime
  /\ clock' = clock + 1
  /\ real' = IF state = "UNSET" THEN real ELSE [real EXCEPT ![task] = @ + 1]
  /\ UNCHANGED <<script, nr_iowait, task, first, misled>>

Init ==
  /\ state = "UNSET"
  /\ prev_time = 0
  /\ run_time = 0 /\ queued_time = 0 /\ sleep_time = 0 /\ io_wait_time = 0
  /\ io_wait_count = 0
  /\ io_wait_incremented = 0
  /\ clock = 0
  /\ nr_iowait \in 0..MaxWait
  /\ task \in State
  /\ real = [s \in State |-> 0]
  /\ first = 0
  /\ misled = FALSE

Next ==
  \/ GoesToSleep \/ Preempted \/ PreemptedAsleep \/ Runs \/ WakesUp \/ WokenAwake
  \/ OthersWait \/ Tick

Spec == Init /\ [][Next]_vars

-----------------------------------------------------------------------------
(* Properties.                                                             *)

TypeOK ==
  /\ state \in State \union {"UNSET"}
  /\ prev_time \in 0..clock /\ first \in 0..prev_time
  /\ run_time \in Nat /\ queued_time \in Nat /\ sleep_time \in Nat
  /\ io_wait_time \in Nat
  /\ io_wait_count \in 0..MaxWait /\ nr_iowait \in 0..MaxWait
  /\ io_wait_incremented \in {0, 1}
  /\ clock \in Nat
  /\ task \in State
  /\ real \in [State -> Nat]
  /\ misled \in BOOLEAN

(* The times printed are those the target spent, up to the last event: no  *)
(* event is missed, and none is taken for another (cpu_io_mem_2.stp:188),  *)
(* unless the kernel preempts the target when it is about to sleep, or     *)
(* wakes it up before it does and that is the first event.                 *)
Spent(s) == IF state = s THEN clock - prev_time ELSE 0

TimesTrue ==
  ~misled =>
    /\ real["RUNNING"] = run_time + Spent("RUNNING")
    /\ real["QUEUED"] = queued_time + Spent("QUEUED")
    /\ real["SLEEPING"] = sleep_time + Spent("SLEEPING")

(* The times add up to the time since the first event, whatever happens:   *)
(* none is counted twice or not at all (cpu_io_mem_2.stp:110-157).         *)
TimesAddUp == run_time + queued_time + sleep_time = prev_time - first

(* Time waiting for I/O is time asleep, however long ago the flag was set  *)
(* (cpu_io_mem_2.stp:116, 153-156).                                        *)
WaitIsSleep ==
  /\ io_wait_time <= sleep_time
  /\ io_wait_incremented = 1 => state = "SLEEPING"
=============================================================================
