--------------------------- MODULE MCTaskRecovery ---------------------------
(* TaskRecovery on small sets of tasks. *)
EXTENDS TaskRecovery, TLC

CONSTANTS t1, w1   \* a task of the shell's session, and one of the worker's

OneTask == {t1}
WithWorker == {t1, w1}
OnlyWorker == {w1}
NoWorker == {}

\* At most one task asks for an approval, and none in a run in which a
\* repository vanishes.
OneAsks == Cardinality({t \in Task : link[t] # 0}) <= (IF vanished = {} THEN 1 ELSE 0)

\* The worker's driver is idle from the time a patch is proposed.
PatchesAlone == patches # {} => cur["worker"] = NoTask

\* At most one task calls the model: calls are counted one by one.
OneCalls == Cardinality({t \in Task : calls[t] # 0}) <= 1

=============================================================================
