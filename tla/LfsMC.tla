------------------------------- MODULE LfsMC -------------------------------
(***************************************************************************)
(* Instances of Lfs for TLC.                                               *)
(***************************************************************************)
EXTENDS Lfs, TLC

CONSTANTS m1, m2, d1, d2

(* Patterns without a zero byte, one per name.                             *)
aa == <<1, 1, 2, 3>>
bb == <<2, 1, 1, 1>>
(* The pattern of a name such as 00112233_1gb_8192, and its first bytes.   *)
zz == <<1, 0, 2, 3>>

PlainPatterns == {aa, bb}
PlainNames == [p \in DataPath |-> IF p = d1 THEN aa ELSE bb]

ZeroPatterns == {zz, StrNCpy(zz)}
ZeroNames == [p \in DataPath |-> zz]

Symmetry == Permutations(Handle) \union Permutations(Fd) \union Permutations(Inode)
=============================================================================
