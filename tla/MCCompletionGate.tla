--------------------------- MODULE MCCompletionGate ---------------------------
(* CompletionGate with a plan of two steps. *)
EXTENDS CompletionGate, TLC

CONSTANTS unit, suite, f1, f2

SuiteLast == <<NoCheck, suite>>
SuiteFirst == <<suite, NoCheck>>
AnyPlan == {SuiteLast, SuiteFirst, <<NoCheck, NoCheck>>}
AnyFile == Permutations(File)

=============================================================================
