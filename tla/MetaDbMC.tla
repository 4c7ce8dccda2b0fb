------------------------------ MODULE MetaDbMC ------------------------------
(***************************************************************************)
(* Instances of MetaDb for TLC: a directory of two data files.  The name   *)
(* that is made of the size of one of them is that of the other.           *)
(***************************************************************************)
EXTENDS MetaDb

TwoNames == {[count |-> 1, unit |-> "gb"], [count |-> 1500, unit |-> "mb"]}
=============================================================================
