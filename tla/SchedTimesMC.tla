---------------------------- MODULE SchedTimesMC ----------------------------
(***************************************************************************)
(* Instances of SchedTimes for TLC.                                        *)
(***************************************************************************)
EXTENDS SchedTimes
=============================================================================
