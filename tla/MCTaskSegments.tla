---------------------------- MODULE MCTaskSegments ----------------------------
(* TaskSegments with small segments and budgets. *)
EXTENDS TaskSegments

SmallBudgets == {[action |-> 2, explore |-> 1, tokens |-> 30],
                 [action |-> 4, explore |-> 3, tokens |-> 9]}
TwoTokens == {2}

=============================================================================
