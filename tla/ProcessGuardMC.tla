--------------------------- MODULE ProcessGuardMC ---------------------------
(***************************************************************************)
(* Instances of ProcessGuard for TLC: the children c1 and c2, and ids for  *)
(* what they start and for processes of others.                            *)
(***************************************************************************)
EXTENDS ProcessGuard
=============================================================================
