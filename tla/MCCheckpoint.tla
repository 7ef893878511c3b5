----------------------------- MODULE MCCheckpoint -----------------------------
(* Checkpoint on two files, two turns and a patch. *)
EXTENDS Checkpoint, TLC

CONSTANTS a, b, t1, t2, p1

TwoFiles == {a, b}
TwoTasks == {t1, t2}
OnePatch == {p1}

\* Of two files, two turns, and more than three requests, faults and steps in
\* all, one at a time.
OneTurn == \E t \in Task : turn[t] = "new"
OneFileOnly ==
  \E f \in File :
    /\ disk[f] = Absent /\ head[f] = Absent
    /\ \A p \in Patch : patch[p].base[f] = NotHere
    /\ \A t \in Task : manifest[t].was[f] = NotHere
FewSteps == requests + faults + steps <= MaxRequests

\* A command that writes over a deletion Git reported is explored on one file.
Undeleting == \E t \in Task : undeleted[t] # {}

SmallerCases ==
  /\ \/ OneTurn /\ FewSteps
     \/ OneFileOnly /\ FewSteps
     \/ OneFileOnly /\ OneTurn
  /\ Undeleting => OneFileOnly /\ OneTurn /\ FewSteps

\* Files and turns are interchangeable.
CheckpointSymmetry ==
  Permutations({a, b}) \cup Permutations({t1, t2})
=============================================================================
