---------------------------- MODULE MCSessionLog ----------------------------
(* Model checking `SessionLog`: the shell and one worker's driver. *)
EXTENDS SessionLog, TLC

CONSTANTS shell, driver

MCProc == {shell, driver}

\* Bound: rewinds that go to two different positions.
TwoPoints == Cardinality(points) <= 2

\* The processes run the same code.
MCSymmetry == Permutations(MCProc)
=============================================================================
