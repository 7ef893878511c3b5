--------------------------- MODULE MCGitOperations ---------------------------
(* Instances of GitOperations for TLC. *)
EXTENDS GitOperations

CONSTANTS f1, f2, main, topic, p1
TwoFiles == {f1, f2}
TwoBranches == {main, topic}
OnePrep == {p1}
=============================================================================
