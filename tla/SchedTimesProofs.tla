-------------------------- MODULE SchedTimesProofs --------------------------
(***************************************************************************)
(* The times of SchedTimes add up, for any clock and any kernel, and they  *)
(* are the true ones unless an event has misled the script.                *)
(***************************************************************************)
EXTENDS SchedTimes, TLAPS

USE DEF State

-----------------------------------------------------------------------------
(* Any kernel.  Before the first event nothing has been counted.           *)

Uncounted ==
  state = "UNSET" =>
    /\ run_time = 0 /\ queued_time = 0 /\ sleep_time = 0
    /\ prev_time = first
    /\ real = [s \in State |-> 0]

Inv == TypeOK /\ TimesAddUp /\ WaitIsSleep /\ Uncounted

LEMMA InitInv == Init => Inv
<1> SUFFICES ASSUME Init PROVE Inv
  OBVIOUS
<1>1. misled \in BOOLEAN
  BY DEF Init
<1>2. TimesAddUp /\ WaitIsSleep /\ Uncounted
  BY DEF Init, TimesAddUp, WaitIsSleep, Uncounted
<1>3. real \in [State -> Nat]
  BY DEF Init
<1>4. TypeOK
  BY <1>1, <1>3, ConstantTypes DEF Init, TypeOK
<1> QED
  BY <1>2, <1>4 DEF Inv

(* What each probe does to the globals of the script.                      *)
LEMMA SwitchOutInv ==
  ASSUME Inv, NEW asleep \in BOOLEAN, SwitchOut(asleep),
         UNCHANGED <<clock, nr_iowait>>, task' \in State, misled' \in BOOLEAN
  PROVE  Inv'
<1> USE DEF Inv, TypeOK, TimesAddUp, WaitIsSleep, Uncounted, times
<1> USE ConstantTypes
<1>1. CASE state = "UNSET"
  BY <1>1 DEF SwitchOut, Begin, Ignore
<1>2. CASE state = "RUNNING"
  BY <1>2 DEF SwitchOut, Begin, Ignore
<1>3. CASE state \in {"QUEUED", "SLEEPING"}
  BY <1>3 DEF SwitchOut, Begin, Ignore
<1> QED
  BY <1>1, <1>2, <1>3

LEMMA SwitchInInv ==
  ASSUME Inv, SwitchIn, UNCHANGED <<clock, nr_iowait>>, task' \in State, misled' \in BOOLEAN
  PROVE  Inv'
<1> USE DEF Inv, TypeOK, TimesAddUp, WaitIsSleep, Uncounted, times
<1> USE ConstantTypes
<1>1. CASE state = "UNSET"
  BY <1>1 DEF SwitchIn, Begin, Ignore
<1>2. CASE state = "QUEUED"
  BY <1>2 DEF SwitchIn, Begin, Ignore
<1>3. CASE state \in {"RUNNING", "SLEEPING"}
  BY <1>3 DEF SwitchIn, Begin, Ignore
<1> QED
  BY <1>1, <1>2, <1>3

LEMMA WakeupInv ==
  ASSUME Inv, NEW success \in BOOLEAN, Wakeup(success), UNCHANGED <<clock, nr_iowait>>,
         task' \in State, misled' \in BOOLEAN
  PROVE  Inv'
<1> USE DEF Inv, TypeOK, TimesAddUp, WaitIsSleep, Uncounted, times
<1> USE ConstantTypes
<1>1. CASE state = "UNSET"
  BY <1>1 DEF Wakeup, Begin, Ignore
<1>2. CASE state = "SLEEPING"
  BY <1>2 DEF Wakeup, Begin, Ignore
<1>3. CASE state \in {"RUNNING", "QUEUED"}
  BY <1>3 DEF Wakeup, Begin, Ignore
<1> QED
  BY <1>1, <1>2, <1>3

LEMMA NextInv == Inv /\ [Next]_vars => Inv'
<1> SUFFICES ASSUME Inv, [Next]_vars PROVE Inv'
  OBVIOUS
<1>1. CASE GoesToSleep
  BY <1>1, SwitchOutInv DEF GoesToSleep, Inv, TypeOK
<1>2. CASE Preempted
  BY <1>2, SwitchOutInv DEF Preempted, Inv, TypeOK
<1>3. CASE PreemptedAsleep
  BY <1>3, SwitchOutInv DEF PreemptedAsleep
<1>4. CASE Runs
  BY <1>4, SwitchInInv DEF Runs, Inv, TypeOK
<1>5. CASE WakesUp
  BY <1>5, WakeupInv DEF WakesUp, Inv, TypeOK
<1>6. CASE WokenAwake
  BY <1>6, WakeupInv DEF WokenAwake, Inv, TypeOK
<1>7. CASE OthersWait
  BY <1>7
  DEF OthersWait, Inv, TypeOK, TimesAddUp, WaitIsSleep, Uncounted, script, times
<1>8. CASE Tick
  <2>1. real' \in [State -> Nat]
    BY <1>8 DEF Tick, Inv, TypeOK
  <2> QED
    BY <1>8, <2>1, ConstantTypes
    DEF Tick, Inv, TypeOK, TimesAddUp, WaitIsSleep, Uncounted, script, times
<1>9. CASE UNCHANGED vars
  BY <1>9
  DEF vars, Inv, TypeOK, TimesAddUp, WaitIsSleep, Uncounted, script, times
<1> QED
  BY <1>1, <1>2, <1>3, <1>4, <1>5, <1>6, <1>7, <1>8, <1>9 DEF Next

(* The globals keep their types.                                           *)
THEOREM TypeCorrect == Spec => []TypeOK
<1>1. Inv => TypeOK
  BY DEF Inv
<1> QED
  BY InitInv, NextInv, <1>1, PTL DEF Spec

(* No time is counted twice, and none is lost, whatever events come.       *)
THEOREM AddUp == Spec => []TimesAddUp
<1>1. Inv => TimesAddUp
  BY DEF Inv
<1> QED
  BY InitInv, NextInv, <1>1, PTL DEF Spec

(* The time waiting for I/O never exceeds the time asleep, and the flag of *)
(* one sleep is never left to the next.                                    *)
THEOREM WaitsAreSleeps == Spec => []WaitIsSleep
<1>1. Inv => WaitIsSleep
  BY DEF Inv
<1> QED
  BY InitInv, NextInv, <1>1, PTL DEF Spec

-----------------------------------------------------------------------------
(* As long as no event has misled it, the script knows what the target     *)
(* does.                                                                   *)

Knows == state = "UNSET" \/ misled \/ state = task

TrueInv == Inv /\ Knows /\ TimesTrue

LEMMA InitTrueInv == Init => TrueInv
  BY InitInv DEF Init, TrueInv, Knows, TimesTrue, Spent

LEMMA NextTrueInv == TrueInv /\ [Next]_vars => TrueInv'
<1> SUFFICES ASSUME TrueInv, [Next]_vars PROVE Knows' /\ TimesTrue'
  BY NextInv DEF TrueInv
<1> USE DEF TrueInv, Inv, TypeOK, Uncounted, Knows, TimesTrue, Spent, times
<1>1. CASE GoesToSleep
  BY <1>1 DEF GoesToSleep, SwitchOut, Begin, Ignore
<1>2. CASE Preempted
  BY <1>2 DEF Preempted, SwitchOut, Begin, Ignore
<1>3. CASE Runs
  BY <1>3 DEF Runs, SwitchIn, Begin, Ignore
<1>4. CASE WakesUp
  BY <1>4 DEF WakesUp, Wakeup, Begin, Ignore
<1>5. CASE OthersWait
  BY <1>5 DEF OthersWait, script
<1>6. CASE Tick
  BY <1>6 DEF Tick, script
<1>7. CASE PreemptedAsleep
  BY <1>7 DEF PreemptedAsleep
<1>8. CASE WokenAwake
  BY <1>8 DEF WokenAwake, Wakeup, Begin, Ignore
<1>9. CASE UNCHANGED vars
  BY <1>9 DEF vars, script
<1> QED
  BY <1>1, <1>2, <1>3, <1>4, <1>5, <1>6, <1>7, <1>8, <1>9 DEF Next

(* The times printed are those the target spent, if the kernel never       *)
(* preempts it when it is about to sleep, nor wakes it up then as the      *)
(* first event seen.                                                       *)
THEOREM TimesAreTrue == Spec => []TimesTrue
<1>1. TrueInv => TimesTrue
  BY DEF TrueInv
<1> QED
  BY InitTrueInv, NextTrueInv, <1>1, PTL DEF Spec
=============================================================================
