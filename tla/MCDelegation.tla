---------------------------- MODULE MCDelegation ----------------------------
(***************************************************************************)
(* Small instances of Delegation for TLC.                                  *)
(***************************************************************************)
EXTENDS Delegation, TLC

CONSTANTS p1, p2

Requests1 == {1}
Requests2 == {1, 2}
Turns2 == {1, 2}
Turns3 == {1, 2, 3}
OneParent == {p1}
TwoParents == {p1, p2}
ParentSymmetry == Permutations(TwoParents)
=============================================================================
