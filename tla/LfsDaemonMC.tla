----------------------------- MODULE LfsDaemonMC -----------------------------
(***************************************************************************)
(* An instance of LfsDaemon for TLC.  Reads begin in any place of the      *)
(* pattern and reach over its end.                                         *)
(***************************************************************************)
EXTENDS LfsDaemon

(* deadbeef, de00beef, dea_beef, _eadbeef and abc.                         *)
SomeNames ==
  {<<13, 14, 10, 13, 11, 14, 14, 15>>, <<13, 14, 0, 0, 11, 14, 14, 15>>,
   <<13, 14, 10, Other, 11, 14, 14, 15>>, <<Other, 14, 10, 13, 11, 14, 14, 15>>,
   <<10, 11, 12>>}
=============================================================================
