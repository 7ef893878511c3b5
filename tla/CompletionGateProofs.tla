------------------------ MODULE CompletionGateProofs ------------------------
(* What the loop and the gate keep, for any plan, checks, files and bounds.   *)
EXTENDS CompletionGate, FiniteSetTheorems, WellFoundedInduction, TLAPS

\* The steps are done in order, and what has not begun has no evidence.
StepOrder ==
  /\ plan[1].status # "Pending"
  /\ \A i, j \in Step : i < j /\ plan[j].status # "Pending" => plan[i].status = "Completed"
  /\ \A i \in Step : plan[i].status = "Pending" => plan[i].evidence = <<>>

\* Only a turn that something waits for returns to it.
Stack == mode = "unwinding" => task.frames > 0

TypeInv == TypeOK /\ StepOrder /\ Stack

LEMMA GenerationIsNatural ==
  ASSUME TypeOK, StepOrder PROVE Generation \in Nat
<1> DEFINE begun == {i \in Step : plan[i].status # "Pending"}
<1>1. IsFiniteSet(Step) /\ begun \subseteq Step
  BY CompletionAssumption, FS_Interval DEF Step
<1>2. IsFiniteSet(begun) /\ Cardinality(begun) \in Nat
  BY <1>1, FS_Subset, FS_CardinalityType
<1>3. 1 \in begun
  BY CompletionAssumption DEF StepOrder, Step
<1>4. Cardinality(begun) # 0
  BY <1>2, <1>3, FS_EmptySet
<1> QED BY <1>2, <1>4 DEF Generation

LEMMA InitTypes == Init => TypeInv
<1> SUFFICES ASSUME Init PROVE TypeInv
  OBVIOUS
<1>1. PICK required \in Plans :
        plan = [i \in Step |-> [status |-> IF i = 1 THEN "InProgress" ELSE "Pending",
                                evidence |-> <<>>, check |-> required[i]]]
  BY DEF Init
<1>2. required \in [Step -> Check \cup {NoCheck}]
  BY CompletionAssumption DEF Step
<1>3. plan \in [Step -> PlanStep]
  BY <1>1, <1>2 DEF PlanStep, StepStatus
<1>4. fold \in FoldState
  BY DEF Init, FoldState, NoRun, CheckRun, Outcome, Finish
<1>5. due \in DueRecord /\ task \in TaskRecord /\ mode \in Mode
  BY DEF Init, DueRecord, TaskRecord, Mode, NoDue, Settlement
<1>6. run \in Verification /\ patch \in PatchReview
  BY DEF Init, Verification, PatchReview
<1>7. TypeOK
  <2>1. buffer \in Seq(Exit \cup Declined)
    BY DEF Init
  <2>2. /\ exits \subseteq Check /\ touched \subseteq File
        /\ repairs \in Nat /\ asked \in Nat /\ owed \in BOOLEAN /\ recorded \subseteq Check
    BY DEF Init
  <2>3. acts = 0 /\ MaxActs \in Nat
    BY CompletionAssumption DEF Init
  <2>4. acts \in 0..MaxActs
    BY <2>3
  <2> QED BY <1>3, <1>4, <1>5, <1>6, <2>1, <2>2, <2>4 DEF TypeOK
<1>8. StepOrder
  BY <1>1, CompletionAssumption DEF StepOrder, Step
<1> QED BY <1>7, <1>8 DEF TypeInv, Stack, Init

-----------------------------------------------------------------------------
(* The plan *)

LEMMA BufferIsEvidence == TypeOK => buffer \in Seq(Evidence)
  BY DEF TypeOK, Evidence

\* A step in progress is the last that has begun, and the others are done.
LEMMA RunningIsLast ==
  ASSUME TypeOK, StepOrder, NEW i \in Running
  PROVE  /\ i \in Step
         /\ \A j \in Step : j < i => plan[j].status = "Completed"
         /\ \A j \in Step : i < j => plan[j].status = "Pending"
         /\ Running = {i}
<1>1. i \in Step /\ plan[i].status = "InProgress"
  BY DEF Running
<1>2. \A j \in Step : j < i => plan[j].status = "Completed"
  BY <1>1 DEF StepOrder
<1>3. \A j \in Step : i < j => plan[j].status = "Pending"
  BY <1>1 DEF StepOrder
<1>4. \A j \in Running : j = i
  BY <1>1, <1>2, <1>3 DEF Running, Step
<1> QED BY <1>1, <1>2, <1>3, <1>4

LEMMA AppendKeepsPlan ==
  ASSUME TypeOK, StepOrder, NEW evidence \in Seq(Evidence), plan' = AppendEvidence(evidence)
  PROVE  plan' \in [Step -> PlanStep] /\ StepOrder'
<1>1. \A i \in Step : /\ plan[i].status \in StepStatus /\ plan[i].evidence \in Seq(Evidence)
                      /\ plan[i].check \in Check \cup {NoCheck} /\ plan[i] \in PlanStep
  BY DEF TypeOK, PlanStep
<1>2. \A i \in Step : plan[i].evidence \o evidence \in Seq(Evidence)
  BY <1>1
<1>3. \A i \in Step : /\ plan'[i] \in PlanStep
                      /\ plan'[i].status = plan[i].status
                      /\ i \notin Running => plan'[i] = plan[i]
  BY <1>1, <1>2 DEF AppendEvidence, PlanStep
<1>4. plan' \in [Step -> PlanStep]
  BY <1>3 DEF AppendEvidence
<1>5. 1 \in Step /\ \A i \in Step : plan[i].status = "Pending" => i \notin Running
  BY CompletionAssumption DEF Step, Running
<1>6. StepOrder'
  BY <1>3, <1>5 DEF StepOrder
<1> QED BY <1>4, <1>6

LEMMA CompleteKeepsPlan ==
  ASSUME TypeOK, StepOrder, CompleteStep
  PROVE  plan' \in [Step -> PlanStep] /\ StepOrder'
<1> USE DEF StepStatus
<1>1. PICK i \in IF Running # {} THEN Running
                ELSE {j \in Blocked : \A k \in Blocked : j <= k} :
        LET evidence == plan[i].evidence \o buffer
            status == StatusFromEvidence(evidence)
            pending == {j \in Step : status = "Completed" /\ plan[j].status = "Pending"}
        IN  plan' = [j \in Step |->
              IF j = i THEN [plan[i] EXCEPT !.evidence = evidence, !.status = status]
              ELSE IF j \in pending /\ \A k \in pending : j <= k
              THEN [plan[j] EXCEPT !.status = "InProgress"] ELSE plan[j]]
  BY DEF CompleteStep
<1> DEFINE evidence == plan[i].evidence \o buffer
           status == StatusFromEvidence(evidence)
           pending == {j \in Step : status = "Completed" /\ plan[j].status = "Pending"}
           next == {j \in pending : \A k \in pending : j <= k}
<1>2. i \in Step /\ plan[i].status \in {"InProgress", "Blocked"}
  BY <1>1 DEF Running, Blocked
<1>3. \A j \in Step : /\ plan[j] \in PlanStep /\ plan[j].status \in StepStatus
                      /\ plan[j].evidence \in Seq(Evidence)
                      /\ plan[j].check \in Check \cup {NoCheck}
  BY DEF TypeOK, PlanStep
<1>4. evidence \in Seq(Evidence)
  BY <1>2, <1>3, BufferIsEvidence
<1>5. status \in {"Completed", "Blocked"}
  BY DEF StatusFromEvidence
<1> HIDE DEF evidence, status
<1>6. plan' = [j \in Step |->
        IF j = i THEN [plan[i] EXCEPT !.evidence = evidence, !.status = status]
        ELSE IF j \in next THEN [plan[j] EXCEPT !.status = "InProgress"] ELSE plan[j]]
  BY <1>1 DEF evidence, status
<1>7. \A j \in Step : plan'[j] \in PlanStep
  BY <1>2, <1>3, <1>4, <1>5, <1>6 DEF PlanStep
<1>8. \A j \in Step : /\ j < i => plan[j].status = "Completed"
                      /\ i < j => plan[j].status = "Pending"
  BY <1>2 DEF StepOrder
<1>9. \A j \in Step : /\ j = i => plan'[j].status = status
                      /\ j \in next => plan'[j].status = "InProgress" /\ i < j
                      /\ j # i /\ j \notin next => plan'[j] = plan[j]
                      /\ j # i => plan'[j].evidence = plan[j].evidence
  BY <1>2, <1>3, <1>6, <1>8 DEF Step
<1>10. \A j, k \in Step : j < k /\ plan'[k].status # "Pending" => plan'[j].status = "Completed"
  <2> SUFFICES ASSUME NEW j \in Step, NEW k \in Step, j < k, plan'[k].status # "Pending"
               PROVE  plan'[j].status = "Completed"
    OBVIOUS
  <2>1. j \in Nat /\ k \in Nat /\ i \in Nat
    BY <1>2 DEF Step
  <2>2. CASE k <= i
    BY <1>8, <1>9, <2>1, <2>2
  <2>3. CASE i < k
    <3>1. k \in next /\ status = "Completed"
      BY <1>8, <1>9, <2>1, <2>3
    <3>2. CASE j < i
      BY <1>8, <1>9, <2>1, <3>2
    <3>3. CASE j = i
      BY <1>9, <3>1, <3>3
    <3>4. CASE i < j
      BY <1>8, <2>1, <3>1, <3>4
    <3> QED BY <2>1, <3>2, <3>3, <3>4
  <2> QED BY <2>1, <2>2, <2>3
<1>11. plan'[1].status # "Pending"
  <2>1. 1 \in Step /\ plan[1].status # "Pending"
    BY CompletionAssumption DEF Step, StepOrder
  <2> QED BY <1>5, <1>9, <2>1
<1>12. \A j \in Step : plan'[j].status = "Pending" => plan'[j].evidence = <<>>
  BY <1>5, <1>9 DEF StepOrder
<1> QED BY <1>6, <1>7, <1>10, <1>11, <1>12 DEF StepOrder

-----------------------------------------------------------------------------
(* The verification events and the task *)

LEMMA FoldFields ==
  ASSUME TypeOK
  PROVE  /\ fold.attempt \in Nat /\ fold.selected \subseteq Check
         /\ fold.finished \in Finish \cup {"none"}
         /\ fold.inProgress \in BOOLEAN /\ fold.repaired \in BOOLEAN
         /\ fold.runs \in [Check -> CheckRun]
         /\ \A c \in Check :
              /\ fold.runs[c] \in CheckRun /\ fold.runs[c].generation \in Nat
              /\ fold.runs[c].outcome \in Outcome \cup {"none", "declined"}
              /\ fold.runs[c].files \subseteq File /\ fold.runs[c].same \in BOOLEAN
  BY DEF TypeOK, FoldState, CheckRun

LEMMA DisturbedType == ASSUME TypeOK, NEW files PROVE Disturbed(files) \in FoldState
<1>1. \A c \in Check :
        [fold.runs[c] EXCEPT !.same = @ /\ fold.runs[c].files \cap files = {}] \in CheckRun
  BY FoldFields DEF CheckRun
<1>2. [c \in Check |-> [fold.runs[c] EXCEPT !.same = @ /\ fold.runs[c].files \cap files = {}]]
        \in [Check -> CheckRun]
  BY <1>1
<1> QED BY <1>2 DEF TypeOK, FoldState, Disturbed

LEMMA FinishedType ==
  ASSUME TypeOK, NEW outcome \in Finish
  PROVE  /\ Finished(outcome) \in FoldState
         /\ [Finished(outcome) EXCEPT !.repaired = TRUE] \in FoldState
  BY DEF TypeOK, FoldState, Finished

LEMMA RunFields ==
  ASSUME TypeOK
  PROVE  /\ run.chosen \subseteq Check /\ run.todo \subseteq Check /\ run.awaiting \subseteq Check
         /\ run.files \subseteq File /\ run.same \in BOOLEAN /\ run.stale \subseteq Check
  BY DEF TypeOK, Verification

LEMMA ResultsType ==
  ASSUME TypeOK, StepOrder, NEW checks,
         NEW outcome \in Outcome \cup {"declined"}
  PROVE  Results(checks, outcome) \in FoldState
<1> DEFINE result == [outcome |-> outcome, generation |-> Generation,
                      files |-> run.files, same |-> run.same]
<1>1. result \in CheckRun
  BY GenerationIsNatural, RunFields DEF CheckRun
<1> HIDE DEF result
<1>2. [c \in Check |-> IF c \in checks THEN result ELSE fold.runs[c]] \in [Check -> CheckRun]
  BY <1>1, FoldFields
<1> QED BY <1>2 DEF TypeOK, FoldState, Results, result

LEMMA TaskFields ==
  ASSUME TypeOK
  PROVE  /\ task.status \in Settlement \cup {"running", "waiting", "interrupted"}
         /\ task.repair \in BOOLEAN /\ task.resumed \in BOOLEAN /\ task.starter \in BOOLEAN
         /\ task.frames \in Nat /\ task.outer \in BOOLEAN
  BY DEF TypeOK, TaskRecord

LEMMA TurnType ==
  ASSUME TypeOK, NEW status \in Settlement \cup {"running", "waiting", "interrupted"},
         NEW repair \in BOOLEAN, NEW starter \in BOOLEAN, NEW frames \in Nat
  PROVE  Turn(status, repair, starter, frames) \in TaskRecord
  BY DEF TypeOK, TaskRecord, Turn

LEMMA ResumedType == TypeOK => Resumed \in TaskRecord
  BY DEF TypeOK, TaskRecord, Resumed

\* What is left when a turn's callers return.
LEMMA TaskUpdates ==
  ASSUME TypeOK, NEW status \in Settlement \cup {"running", "waiting", "interrupted"},
         NEW frames \in Nat
  PROVE  /\ [task EXCEPT !.status = status] \in TaskRecord
         /\ [task EXCEPT !.status = status, !.outer = FALSE] \in TaskRecord
         /\ [task EXCEPT !.status = status, !.frames = frames, !.outer = FALSE] \in TaskRecord
         /\ [task EXCEPT !.status = status, !.resumed = FALSE, !.frames = frames,
                         !.outer = FALSE] \in TaskRecord
         /\ [task EXCEPT !.outer = FALSE] \in TaskRecord
  BY DEF TypeOK, TaskRecord

-----------------------------------------------------------------------------
(* Types *)

LEMMA AttachTypes ==
  ASSUME TypeInv, AttachStepEvidence
  PROVE  /\ plan' \in [Step -> PlanStep] /\ StepOrder'
         /\ buffer' \in Seq(Exit \cup Declined) /\ recorded' \subseteq Check
<1>1. plan' \in [Step -> PlanStep] /\ StepOrder'
  BY BufferIsEvidence, AppendKeepsPlan DEF TypeInv, AttachStepEvidence
<1>2. buffer' \in Seq(Exit \cup Declined) /\ recorded' \subseteq Check
  BY DEF TypeInv, TypeOK, AttachStepEvidence, NowRecorded
<1> QED BY <1>1, <1>2

LEMMA OrderStays == StepOrder /\ UNCHANGED plan => StepOrder'
  BY DEF StepOrder

LEMMA ActType == TypeOK /\ Act => acts' \in 0..MaxActs
<1>1. MaxActs \in Nat
  BY CompletionAssumption
<1> QED BY <1>1 DEF TypeOK, Act

LEMMA ChosenIsChecks ==
  ASSUME TypeOK
  PROVE  Chosen \subseteq Check /\ FloorNeeded \subseteq Check
<1>1. due.checks \subseteq Check
  BY DEF TypeOK, DueRecord
<1> QED BY <1>1, CompletionAssumption DEF Chosen, Proposed, FloorNeeded, Floor

LEMMA NextAttemptType == TypeOK => NextAttempt \in Nat
  BY FoldFields DEF NextAttempt

LEMMA NextTypes ==
  ASSUME TypeInv, [Next]_vars PROVE TypeInv'
<1> USE DEF records, ghosts, Mode
<1>a. TypeOK /\ StepOrder /\ Stack
  BY DEF TypeInv
<1>1. CASE RunCommand
  <2>1. PICK c \in Check, passed \in BOOLEAN :
          /\ buffer' = Append(buffer, [kind |-> "exit", check |-> c, passed |-> passed])
          /\ task' = IF c \in NeedsApproval THEN Resumed ELSE task
          /\ asked' = IF c \in NeedsApproval THEN asked + 1 ELSE asked
    BY <1>1 DEF RunCommand
  <2>2. [kind |-> "exit", check |-> c, passed |-> passed] \in Exit \cup Declined
    BY DEF Exit
  <2>3. buffer' \in Seq(Exit \cup Declined) /\ task' \in TaskRecord /\ asked' \in Nat
    BY <1>a, <2>1, <2>2, ResumedType DEF TypeOK
  <2>4. TypeOK' /\ Stack' /\ UNCHANGED plan
    BY <1>1, <1>a, <2>3, ActType DEF RunCommand, InTurn, TypeOK, Stack
  <2> QED BY <1>a, <2>4, OrderStays DEF TypeInv
<1>2. CASE DeclineCommand
  <2>1. PICK c \in NeedsApproval : buffer' = Append(buffer, [kind |-> "declined", check |-> c])
    BY <1>2 DEF DeclineCommand
  <2>2. [kind |-> "declined", check |-> c] \in Exit \cup Declined
    BY CompletionAssumption DEF Declined
  <2>3. buffer' \in Seq(Exit \cup Declined) /\ task' \in TaskRecord /\ asked' \in Nat
    BY <1>2, <1>a, <2>1, <2>2, ResumedType DEF TypeOK, DeclineCommand
  <2>4. TypeOK' /\ Stack' /\ UNCHANGED plan
    BY <1>2, <1>a, <2>3, ActType DEF DeclineCommand, InTurn, TypeOK, Stack
  <2> QED BY <1>a, <2>4, OrderStays DEF TypeInv
<1>3. CASE RunChangingCommand
  <2>1. PICK f \in File : fold' = Disturbed({f}) /\ touched' = touched \cup {f}
    BY <1>3 DEF RunChangingCommand
  <2>2. fold' \in FoldState /\ touched' \subseteq File
    BY <1>a, <2>1, DisturbedType DEF TypeOK
  <2>3. due' \in DueRecord /\ task' \in TaskRecord /\ asked' \in Nat
    BY <1>3, <1>a, ResumedType, TaskFields DEF TypeOK, RunChangingCommand, DueRecord
  <2>4. TypeOK' /\ Stack' /\ UNCHANGED plan
    BY <1>3, <1>a, <2>2, <2>3, ActType DEF RunChangingCommand, InTurn, TypeOK, Stack
  <2> QED BY <1>a, <2>4, OrderStays DEF TypeInv
<1>4. CASE CompleteStep
  <2>1. plan' \in [Step -> PlanStep] /\ StepOrder'
    BY <1>4, <1>a, CompleteKeepsPlan
  <2>2. buffer' \in Seq(Exit \cup Declined) /\ recorded' \subseteq Check
    BY <1>4 DEF CompleteStep, NowRecorded
  <2>3. /\ UNCHANGED <<exits, touched, due, fold, task, mode, run, patch, repairs, asked,
                       owed, acts>>
    BY <1>4 DEF CompleteStep
  <2>4. TypeOK' /\ Stack'
    BY <1>a, <2>1, <2>2, <2>3 DEF TypeOK, Stack
  <2> QED BY <2>1, <2>4 DEF TypeInv
<1>5. CASE ProposePatch
  <2>1. AttachStepEvidence
    BY <1>5 DEF ProposePatch
  <2>2. patch' \in PatchReview
    BY <1>5 DEF ProposePatch, PatchReview
  <2>3. fold' \in FoldState
    BY <1>5, <1>a DEF ProposePatch, TypeOK, FoldState
  <2>4. task' \in TaskRecord
    BY <1>5, <1>a, TaskUpdates DEF ProposePatch
  <2>5. TypeOK' /\ Stack'
    BY <1>5, <1>a, <2>1, <2>2, <2>3, <2>4, AttachTypes, ActType
    DEF ProposePatch, InTurn, TypeOK, Stack, TypeInv
  <2> QED BY <2>1, <2>5, AttachTypes DEF TypeInv
<1>6. CASE RepairStalls
  <2>1. AttachStepEvidence
    BY <1>6 DEF RepairStalls
  <2>2. PICK at \in 1..Recorders :
          LET left == IF task.frames > at THEN task.frames - at ELSE 0
          IN  task' = Turn("failed", task.repair, task.starter, left) /\ mode' = Return(left)
    BY <1>6 DEF RepairStalls
  <2> DEFINE left == IF task.frames > at THEN task.frames - at ELSE 0
  <2>3. Recorders \in Nat
    BY <1>a, TaskFields DEF Recorders
  <2>4. left \in Nat
    BY <1>a, <2>3, TaskFields
  <2>5. task' = Turn("failed", task.repair, task.starter, left) /\ mode' = Return(left)
    BY <2>2
  <2> HIDE DEF left
  <2>6. task' \in TaskRecord
    BY <1>a, <2>4, <2>5, TaskFields, TurnType DEF Settlement
  <2>7. task'.frames = left
    BY <1>a, <2>5 DEF Turn, TypeOK, TaskRecord
  <2>8. mode' \in Mode /\ Stack'
    BY <2>4, <2>5, <2>7 DEF Return, Stack
  <2>9. fold' \in FoldState /\ due' \in DueRecord
    BY <1>6, <1>a, FinishedType DEF RepairStalls, Finish, NoDue, DueRecord
  <2>10. TypeOK'
    BY <1>6, <1>a, <2>1, <2>6, <2>8, <2>9, AttachTypes, ActType
    DEF RepairStalls, InTurn, TypeOK, TypeInv
  <2> QED BY <2>1, <2>8, <2>10, AttachTypes DEF TypeInv
<1>7. CASE Answer
  <2>1. AttachStepEvidence
    BY <1>7 DEF Answer
  <2>2. task' \in TaskRecord
    BY <1>7, <1>a, TaskUpdates DEF Answer, Settlement
  <2>3. TypeOK' /\ Stack'
    BY <1>7, <1>a, <2>1, <2>2, AttachTypes DEF Answer, TypeOK, Stack, TypeInv
  <2> QED BY <2>1, <2>3, AttachTypes DEF TypeInv
<1>8. CASE RunFloor
  <2>1. due' \in DueRecord
    BY <1>8, <1>a, ChosenIsChecks, TaskFields DEF RunFloor, DueRecord
  <2>2. TypeOK' /\ Stack' /\ UNCHANGED plan
    BY <1>8, <1>a, <2>1 DEF RunFloor, TypeOK, Stack
  <2> QED BY <1>a, <2>2, OrderStays DEF TypeInv
<1>9. CASE VerifyAfterCommand
  <2>1. task' \in TaskRecord
    BY <1>9, <1>a, TaskFields, TaskUpdates DEF VerifyAfterCommand
  <2>2. TypeOK' /\ Stack' /\ UNCHANGED plan
    BY <1>9, <1>a, <2>1 DEF VerifyAfterCommand, TypeOK, Stack
  <2> QED BY <1>a, <2>2, OrderStays DEF TypeInv
<1>10. CASE EndTurn
  <2>1. task' \in TaskRecord /\ task'.frames = task.frames
    BY <1>10, <1>a DEF EndTurn, TypeOK, TaskRecord
  <2>2. mode' \in Mode /\ Stack'
    BY <1>10, <2>1 DEF EndTurn, Return, Stack
  <2>3. TypeOK' /\ UNCHANGED plan
    BY <1>10, <1>a, <2>1, <2>2 DEF EndTurn, TypeOK
  <2> QED BY <1>a, <2>2, <2>3, OrderStays DEF TypeInv
<1>11. CASE CloseRepair
  <2> DEFINE left == IF mode = "unwinding" THEN task.frames - 1 ELSE 0
  <2>1. left \in Nat
    BY <1>a, TaskFields DEF Stack
  <2>2. /\ task' = [task EXCEPT !.status = "failed", !.frames = left, !.outer = FALSE]
        /\ mode' = Return(left)
    BY <1>11 DEF CloseRepair
  <2> HIDE DEF left
  <2>3. task' \in TaskRecord /\ task'.frames = left
    BY <1>a, <2>1, <2>2 DEF TypeOK, TaskRecord, Settlement
  <2>4. mode' \in Mode /\ Stack'
    BY <2>1, <2>2, <2>3 DEF Return, Stack
  <2>5. fold' \in FoldState /\ due' \in DueRecord
    BY <1>11, <1>a, FinishedType DEF CloseRepair, Finish, NoDue, DueRecord
  <2>6. TypeOK' /\ UNCHANGED plan
    BY <1>11, <1>a, <2>3, <2>4, <2>5 DEF CloseRepair, TypeOK
  <2> QED BY <1>a, <2>4, <2>6, OrderStays DEF TypeInv
<1>12. CASE DecideFiles
  <2>1. PICK files \in SUBSET patch.undecided \ {{}}, applied \in BOOLEAN :
          /\ patch' = [undecided |-> patch.undecided \ files,
                       applied |-> patch.applied \/ applied]
          /\ IF applied
             THEN /\ plan' = AppendEvidence(<<Applied>>)
                  /\ fold' = Disturbed(files)
                  /\ touched' = touched \cup files
                  /\ owed' = TRUE
                  /\ recorded' = IF Running = {} THEN recorded ELSE {}
             ELSE UNCHANGED <<plan, fold, touched, owed, recorded>>
          /\ due' = VerificationDue(patch')
          /\ asked' = IF patch'.undecided = {} /\ ~patch'.applied /\ ~AttemptAwaits
                      THEN asked + 1 ELSE asked
          /\ mode' = IF patch'.undecided = {} THEN "idle" ELSE "patch"
    BY <1>12 DEF DecideFiles
  <2>2. patch.undecided \subseteq File /\ patch.applied \in BOOLEAN
    BY <1>a DEF TypeOK, PatchReview
  <2>3. patch' \in PatchReview /\ files \subseteq File
    BY <2>1, <2>2 DEF PatchReview
  <2>4. <<Applied>> \in Seq(Evidence)
    BY DEF Applied, Evidence
  <2>5. plan' \in [Step -> PlanStep] /\ StepOrder'
    <3>1. CASE applied
      BY <1>a, <2>1, <2>4, <3>1, AppendKeepsPlan
    <3>2. CASE ~applied
      BY <1>a, <2>1, <3>2, OrderStays DEF TypeOK
    <3> QED BY <3>1, <3>2
  <2>6. /\ fold' \in FoldState /\ touched' \subseteq File
        /\ recorded' \subseteq Check /\ owed' \in BOOLEAN
    BY <1>a, <2>1, <2>3, DisturbedType DEF TypeOK
  <2>7. due' \in DueRecord
    BY <1>a, <2>1, TaskFields DEF TypeOK, VerificationDue, DueRecord
  <2>8. mode' \in Mode /\ Stack' /\ asked' \in Nat
    BY <1>a, <2>1 DEF Stack, TypeOK
  <2>9. UNCHANGED <<exits, task, buffer, run, repairs, acts>>
    BY <1>12 DEF DecideFiles
  <2>10. TypeOK'
    BY <1>a, <2>3, <2>5, <2>6, <2>7, <2>8, <2>9 DEF TypeOK
  <2> QED BY <2>5, <2>8, <2>10 DEF TypeInv
<1>13. CASE CloseRejectedRepair
  <2>1. fold' \in FoldState /\ due' \in DueRecord /\ task' \in TaskRecord
    BY <1>13, <1>a, FinishedType, TurnType
    DEF CloseRejectedRepair, Finish, Settlement, NoDue, DueRecord
  <2>2. TypeOK' /\ Stack' /\ UNCHANGED plan
    BY <1>13, <1>a, <2>1 DEF CloseRejectedRepair, TypeOK, Stack
  <2> QED BY <1>a, <2>2, OrderStays DEF TypeInv
<1>14. CASE StartVerification
  <2>1. fold' \in FoldState
    BY <1>14, <1>a, ChosenIsChecks, NextAttemptType, FoldFields
    DEF StartVerification, TypeOK, FoldState
  <2>2. {c \in Check : Ran(c) /\ Stale(c)} \subseteq Check
    OBVIOUS
  <2>3. run' \in Verification
    BY <1>14, <1>a, <2>2, ChosenIsChecks DEF StartVerification, TypeOK, Verification
  <2>4. task' \in TaskRecord
    BY <1>14, <1>a, TurnType, TaskFields DEF StartVerification
  <2>5. TypeOK' /\ Stack' /\ UNCHANGED plan
    BY <1>14, <1>a, <2>1, <2>3, <2>4 DEF StartVerification, TypeOK, Stack
  <2> QED BY <1>a, <2>5, OrderStays DEF TypeInv
<1>15. CASE RunCheck
  <2>1. PICK c \in run.todo, outcome \in Outcome :
          /\ fold' = Results({c}, outcome)
          /\ run' = [run EXCEPT !.todo = @ \ {c}, !.stale = @ \ {c}]
          /\ exits' = exits \cup {c}
    BY <1>15 DEF RunCheck
  <2>2. fold' \in FoldState
    BY <1>a, <2>1, ResultsType
  <2>3. run' \in Verification /\ exits' \subseteq Check
    BY <1>a, <2>1, RunFields DEF TypeOK, Verification
  <2>4. TypeOK' /\ Stack' /\ UNCHANGED plan
    BY <1>15, <1>a, <2>2, <2>3 DEF RunCheck, TypeOK, Stack
  <2> QED BY <1>a, <2>4, OrderStays DEF TypeInv
<1>16. CASE PauseForChecks
  <2>1. task' \in TaskRecord
    BY <1>16, <1>a, TaskUpdates DEF PauseForChecks
  <2>2. TypeOK' /\ Stack' /\ UNCHANGED plan
    BY <1>16, <1>a, <2>1 DEF PauseForChecks, TypeOK, Stack
  <2> QED BY <1>a, <2>2, OrderStays DEF TypeInv
<1>17. CASE DecideChecks
  <2>1. PICK declined \in SUBSET run.awaiting :
          /\ fold' = Results(declined, "declined")
          /\ run' = [run EXCEPT !.todo = run.awaiting \ declined, !.awaiting = {},
                                !.stale = @ \ declined]
    BY <1>17 DEF DecideChecks
  <2>2. fold' \in FoldState /\ run' \in Verification
    BY <1>a, <2>1, ResultsType, RunFields DEF TypeOK, Verification
  <2>3. task' \in TaskRecord
    BY <1>17, <1>a, TaskUpdates, TaskFields DEF DecideChecks
  <2>4. TypeOK' /\ Stack' /\ UNCHANGED plan
    BY <1>17, <1>a, <2>2, <2>3 DEF DecideChecks, TypeOK, Stack
  <2> QED BY <1>a, <2>4, OrderStays DEF TypeInv
<1>18. CASE PassVerification
  <2>1. fold' \in FoldState /\ due' \in DueRecord
    BY <1>18, <1>a, FinishedType DEF PassVerification, Finish, NoDue, DueRecord
  <2>2. task' \in TaskRecord /\ mode' \in Mode /\ Stack'
    <3>1. CASE Open # {} /\ OnlyStepsOpen'
      BY <1>18, <1>a, <3>1, TurnType, TaskFields DEF PassVerification, Stack
    <3>2. CASE ~(Open # {} /\ OnlyStepsOpen')
      <4>1. PICK status \in {"complete", "incomplete"} :
              task' = [task EXCEPT !.status = status, !.outer = FALSE]
        BY <1>18, <3>2 DEF PassVerification
      <4>2. task' \in TaskRecord /\ task'.frames = task.frames
        BY <1>a, <4>1 DEF TypeOK, TaskRecord, Settlement
      <4> QED BY <1>18, <3>2, <4>2 DEF PassVerification, Return, Stack
    <3> QED BY <3>1, <3>2
  <2>3. /\ UNCHANGED <<plan, exits, touched, buffer, run, patch, repairs, asked, recorded, acts>>
        /\ owed' = FALSE
    BY <1>18 DEF PassVerification
  <2>4. TypeOK'
    BY <1>a, <2>1, <2>2, <2>3 DEF TypeOK
  <2> QED BY <1>a, <2>2, <2>3, <2>4, OrderStays DEF TypeInv
<1>19. CASE FailVerification
  <2>1. fold' \in FoldState /\ due' \in DueRecord
    BY <1>19, <1>a, FinishedType DEF FailVerification, Finish, NoDue, DueRecord
  <2>2. task' \in TaskRecord /\ task'.frames = task.frames
    BY <1>19, <1>a DEF FailVerification, TypeOK, TaskRecord, Settlement
  <2>3. mode' \in Mode /\ Stack'
    BY <1>19, <2>2 DEF FailVerification, Return, Stack
  <2>4. TypeOK' /\ UNCHANGED plan
    BY <1>19, <1>a, <2>1, <2>2, <2>3 DEF FailVerification, TypeOK
  <2> QED BY <1>a, <2>3, <2>4, OrderStays DEF TypeInv
<1>20. CASE StartRepair
  <2>1. task' \in TaskRecord /\ repairs' \in Nat
    <3>1. task.frames + 1 \in Nat /\ repairs + 1 \in Nat
      BY <1>a, TaskFields DEF TypeOK
    <3> QED BY <1>20, <1>a, <3>1, TurnType DEF StartRepair
  <2>2. TypeOK' /\ Stack' /\ UNCHANGED plan
    BY <1>20, <1>a, <2>1 DEF StartRepair, TypeOK, Stack
  <2> QED BY <1>a, <2>2, OrderStays DEF TypeInv
<1>21. CASE ContinueRepair
  <2>1. task' \in TaskRecord
    BY <1>21, <1>a, TurnType DEF ContinueRepair
  <2>2. TypeOK' /\ Stack' /\ UNCHANGED plan
    BY <1>21, <1>a, <2>1, ActType DEF ContinueRepair, TypeOK, Stack
  <2> QED BY <1>a, <2>2, OrderStays DEF TypeInv
<1>22. CASE NextTurn
  <2>1. task' \in TaskRecord
    BY <1>22, <1>a, TurnType DEF NextTurn
  <2>2. TypeOK' /\ Stack' /\ UNCHANGED plan
    BY <1>22, <1>a, <2>1, ActType DEF NextTurn, TypeOK, Stack
  <2> QED BY <1>a, <2>2, OrderStays DEF TypeInv
<1>23. CASE UserEdit
  <2>1. PICK f \in touched : fold' = Disturbed({f}) /\ run' = DisturbedRun({f})
    BY <1>23 DEF UserEdit
  <2>2. fold' \in FoldState
    BY <1>a, <2>1, DisturbedType
  <2>3. run' \in Verification
    BY <1>a, <2>1, RunFields DEF DisturbedRun, TypeOK, Verification
  <2>4. TypeOK' /\ Stack' /\ UNCHANGED plan
    BY <1>23, <1>a, <2>2, <2>3, ActType DEF UserEdit, TypeOK, Stack
  <2> QED BY <1>a, <2>4, OrderStays DEF TypeInv
<1>24. CASE Crash
  <2>1. task' \in TaskRecord
    BY <1>24, <1>a, TaskFields DEF Crash, TypeOK, TaskRecord
  <2>2. run' \in Verification
    BY <1>24, <1>a DEF Crash, TypeOK, Verification
  <2>3. TypeOK' /\ Stack' /\ UNCHANGED plan
    BY <1>24, <1>a, <2>1, <2>2, ActType DEF Crash, TypeOK, Stack
  <2> QED BY <1>a, <2>3, OrderStays DEF TypeInv
<1>25. CASE UNCHANGED vars
  BY <1>25, <1>a, OrderStays DEF vars, TypeInv, TypeOK, Stack
<1> QED BY <1>1, <1>2, <1>3, <1>4, <1>5, <1>6, <1>7, <1>8, <1>9, <1>10, <1>11, <1>12, <1>13,
           <1>14, <1>15, <1>16, <1>17, <1>18, <1>19, <1>20, <1>21, <1>22, <1>23, <1>24, <1>25
        DEF Next

\* The records, the task, the verification and the step in the turn are well formed.
THEOREM TypeCorrect == Spec => []TypeOK
<1>1. Init => TypeInv
  BY InitTypes
<1>2. TypeInv /\ [Next]_vars => TypeInv'
  BY NextTypes
<1>3. TypeInv => TypeOK
  BY DEF TypeInv
<1> QED BY <1>1, <1>2, <1>3, PTL DEF Spec

-----------------------------------------------------------------------------
(* What is due *)

\* A change no verification has reported on is due, or of a patch that is
\* still under review.
DueOrUnderReview == owed => due # NoDue \/ (mode = "patch" /\ patch.applied)

LEMMA DueStays ==
  ASSUME TypeOK, DueOrUnderReview, [Next]_vars PROVE DueOrUnderReview'
<1> USE DEF DueOrUnderReview, records, ghosts
<1>1. CASE RunCommand \/ DeclineCommand \/ CompleteStep \/ VerifyAfterCommand
  BY <1>1 DEF RunCommand, DeclineCommand, CompleteStep, VerifyAfterCommand, InTurn
<1>2. CASE RunChangingCommand
  BY <1>2 DEF RunChangingCommand, NoDue
<1>3. CASE ProposePatch
  BY <1>3 DEF ProposePatch, InTurn
<1>4. CASE RepairStalls \/ CloseRepair \/ CloseRejectedRepair \/ PassVerification
             \/ FailVerification
  BY <1>4 DEF RepairStalls, CloseRepair, CloseRejectedRepair, PassVerification,
              FailVerification
<1>5. CASE Answer
  BY <1>5 DEF Answer
<1>6. CASE RunFloor
  BY <1>6 DEF RunFloor, NoDue
<1>7. CASE EndTurn
  BY <1>7 DEF EndTurn
<1>8. CASE DecideFiles
  <2>1. PICK files \in SUBSET patch.undecided \ {{}}, applied \in BOOLEAN :
          /\ patch' = [undecided |-> patch.undecided \ files,
                       applied |-> patch.applied \/ applied]
          /\ ~applied => UNCHANGED owed
          /\ due' = VerificationDue(patch')
          /\ mode' = IF patch'.undecided = {} THEN "idle" ELSE "patch"
    BY <1>8 DEF DecideFiles
  <2>2. patch'.applied = (patch.applied \/ applied) /\ patch.applied \in BOOLEAN
    BY <2>1 DEF TypeOK, PatchReview
  <2>3. CASE patch'.undecided = {} /\ patch'.applied
    BY <2>1, <2>3 DEF VerificationDue, NoDue
  <2>4. CASE patch'.undecided = {} /\ ~patch'.applied
    <3>1. due' = due \/ due' # NoDue
      BY <2>1 DEF VerificationDue, NoDue
    <3>2. owed' = owed /\ ~patch.applied
      BY <2>1, <2>2, <2>4
    <3> QED BY <3>1, <3>2
  <2>5. CASE patch'.undecided # {}
    <3>1. due' = due /\ mode' = "patch"
      BY <2>1, <2>5 DEF VerificationDue
    <3>2. patch'.applied \/ (owed' = owed /\ ~patch.applied)
      BY <2>1, <2>2
    <3> QED BY <3>1, <3>2
  <2> QED BY <2>3, <2>4, <2>5
<1>9. CASE StartVerification \/ RunCheck \/ PauseForChecks \/ DecideChecks \/ StartRepair
  BY <1>9 DEF StartVerification, RunCheck, PauseForChecks, DecideChecks, StartRepair, Verified
<1>10. CASE ContinueRepair \/ NextTurn \/ UserEdit \/ Crash
  BY <1>10 DEF ContinueRepair, NextTurn, UserEdit, Crash
<1>11. CASE UNCHANGED vars
  BY <1>11 DEF vars
<1> QED BY <1>1, <1>2, <1>3, <1>4, <1>5, <1>6, <1>7, <1>8, <1>9, <1>10, <1>11 DEF Next

\* No crash, pause, nested verification or repair loses a change before a
\* verification has reported on it.
THEOREM ChangesStayDue == Spec => []ChangesAreVerifiedOrDue
<1> DEFINE Inv == TypeInv /\ DueOrUnderReview
<1>1. Init => Inv
  BY InitTypes DEF Init, DueOrUnderReview
<1>2. Inv /\ [Next]_vars => Inv'
  BY NextTypes, DueStays DEF TypeInv
<1>3. Inv => ChangesAreVerifiedOrDue
  BY DEF ChangesAreVerifiedOrDue, DueOrUnderReview
<1> QED BY <1>1, <1>2, <1>3, PTL DEF Spec

-----------------------------------------------------------------------------
(* Repairs *)

\* Why the next attempt will count the present repair: the attempt is
\* finished; or what the repair makes due, names the task of the attempt.
WillBeCounted ==
  \/ fold.finished # "none" /\ mode \notin {"verifying", "card"}
  \/ mode \in {"turn", "answered"} /\ task.starter /\ ~task.resumed /\ task.frames > 0
  \/ mode = "due" /\ due.starter
  \/ mode = "patch" /\ task.starter
  \/ mode = "idle" /\ (due.starter \/ due.kind = "rejected")
  \/ mode = "unwinding"

RepairCount ==
  /\ repairs <= Limit + asked
  /\ repairs <= fold.attempt + 1 + asked
  /\ fold.selected = {} => repairs = 0
  /\ repairs <= fold.attempt + asked \/ WillBeCounted

\* What the count depends on.
LEMMA CountedTypes ==
  ASSUME TypeOK
  PROVE  /\ repairs \in Nat /\ asked \in Nat /\ fold.attempt \in Nat /\ Limit \in Nat
         /\ task.frames \in Nat
  BY CompletionAssumption, FoldFields, TaskFields DEF TypeOK

\* Once the user has decided a command, or a patch no attempt waits for, one
\* more repair is granted, and the present one needs no attempt of its own.
LEMMA AskedCounts ==
  ASSUME TypeOK, RepairCount, asked' = asked + 1, UNCHANGED repairs,
         fold'.attempt = fold.attempt, fold'.selected = fold.selected
  PROVE  RepairCount'
  BY CountedTypes DEF RepairCount

\* A step that changes no count keeps it when the next attempt still counts.
LEMMA CountStays ==
  ASSUME TypeOK, RepairCount, UNCHANGED <<repairs, asked>>,
         fold'.attempt = fold.attempt, fold'.selected = fold.selected,
         WillBeCounted => WillBeCounted'
  PROVE  RepairCount'
  BY CountedTypes DEF RepairCount

LEMMA NothingToCount ==
  ASSUME TypeOK, repairs' = 0, asked' = 0, fold'.attempt = fold.attempt
  PROVE  RepairCount'
  BY CountedTypes DEF RepairCount

LEMMA FinishedFields ==
  ASSUME TypeOK, NEW outcome
  PROVE  /\ Finished(outcome).attempt = fold.attempt
         /\ Finished(outcome).selected = fold.selected
         /\ Finished(outcome).finished = outcome
         /\ [Finished(outcome) EXCEPT !.repaired = TRUE].attempt = fold.attempt
         /\ [Finished(outcome) EXCEPT !.repaired = TRUE].selected = fold.selected
         /\ [Finished(outcome) EXCEPT !.repaired = TRUE].finished = outcome
  BY DEF TypeOK, FoldState, Finished

LEMMA DisturbedFields ==
  ASSUME TypeOK, NEW files
  PROVE  /\ Disturbed(files).attempt = fold.attempt
         /\ Disturbed(files).selected = fold.selected
         /\ Disturbed(files).finished = fold.finished
  BY DEF TypeOK, FoldState, Disturbed

LEMMA ResultsFields ==
  ASSUME TypeOK, NEW checks, NEW outcome
  PROVE  /\ Results(checks, outcome).attempt = fold.attempt
         /\ Results(checks, outcome).selected = fold.selected
         /\ Results(checks, outcome).finished = fold.finished
  BY DEF TypeOK, FoldState, Results

LEMMA CountNext ==
  ASSUME TypeInv, RepairCount, [Next]_vars PROVE RepairCount'
<1> USE DEF records, ghosts
<1>a. TypeOK /\ Stack
  BY DEF TypeInv
<1>1. CASE RunCommand
  <2>1. PICK c \in Check : /\ task' = IF c \in NeedsApproval THEN Resumed ELSE task
                           /\ asked' = IF c \in NeedsApproval THEN asked + 1 ELSE asked
    BY <1>1 DEF RunCommand
  <2>2. UNCHANGED <<fold, repairs, mode, due>>
    BY <1>1 DEF RunCommand
  <2>3. CASE c \in NeedsApproval
    BY <1>a, <2>1, <2>2, <2>3, AskedCounts
  <2>4. CASE c \notin NeedsApproval
    BY <1>a, <2>1, <2>2, <2>4, CountStays DEF WillBeCounted
  <2> QED BY <2>3, <2>4
<1>2. CASE DeclineCommand
  BY <1>a, <1>2, AskedCounts DEF DeclineCommand
<1>3. CASE RunChangingCommand
  <2>1. PICK f \in File : fold' = Disturbed({f})
    BY <1>3 DEF RunChangingCommand
  <2>2. asked' = asked + 1 /\ UNCHANGED repairs
    BY <1>3 DEF RunChangingCommand
  <2> QED BY <1>a, <2>1, <2>2, DisturbedFields, AskedCounts
<1>4. CASE CompleteStep
  BY <1>a, <1>4, CountStays DEF CompleteStep, WillBeCounted
<1>5. CASE ProposePatch
  <2>1. /\ fold'.attempt = fold.attempt /\ fold'.selected = fold.selected
        /\ fold'.finished = fold.finished /\ task'.starter = task.starter
    BY <1>a, <1>5 DEF ProposePatch, TypeOK, FoldState, TaskRecord
  <2>2. mode = "turn" /\ mode' = "patch" /\ UNCHANGED <<repairs, asked>>
    BY <1>5 DEF ProposePatch, InTurn
  <2> QED BY <1>a, <2>1, <2>2, CountStays DEF WillBeCounted
<1>6. CASE RepairStalls
  <2>1. /\ fold'.attempt = fold.attempt /\ fold'.selected = fold.selected
        /\ fold'.finished = "stalled"
    BY <1>a, <1>6, FinishedFields DEF RepairStalls
  <2>2. mode' \notin {"verifying", "card"} /\ UNCHANGED <<repairs, asked>>
    BY <1>6 DEF RepairStalls, Return
  <2> QED BY <1>a, <2>1, <2>2, CountStays DEF WillBeCounted
<1>7. CASE Answer
  <2>1. /\ task'.starter = task.starter /\ task'.resumed = task.resumed
        /\ task'.frames = task.frames
    BY <1>a, <1>7 DEF Answer, TypeOK, TaskRecord
  <2>2. mode = "turn" /\ mode' = "answered" /\ UNCHANGED <<fold, repairs, asked, due>>
    BY <1>7 DEF Answer
  <2> QED BY <1>a, <2>1, <2>2, CountStays DEF WillBeCounted
<1>8. CASE RunFloor
  <2>1. /\ mode = "answered" /\ mode' = "due" /\ due'.starter = task.starter
        /\ UNCHANGED <<fold, repairs, asked>>
    BY <1>8 DEF RunFloor
  <2> QED BY <1>a, <2>1, CountStays DEF WillBeCounted
<1>9. CASE VerifyAfterCommand
  <2>1. /\ mode = "answered" /\ task.resumed /\ task.frames = 0 /\ mode' = "due"
        /\ UNCHANGED <<fold, repairs, asked>>
    BY <1>9 DEF VerifyAfterCommand, CommandIsDue
  <2> QED BY <1>a, <2>1, CountStays DEF WillBeCounted
<1>10. CASE EndTurn
  <2>1. /\ mode = "answered" /\ mode' = Return(task.frames)
        /\ UNCHANGED <<fold, repairs, asked, due>>
    BY <1>10 DEF EndTurn
  <2> QED BY <1>a, <2>1, CountStays DEF WillBeCounted, Return
<1>11. CASE CloseRepair
  <2>1. /\ fold'.attempt = fold.attempt /\ fold'.selected = fold.selected
        /\ fold'.finished = "no_repair"
    BY <1>a, <1>11, FinishedFields DEF CloseRepair
  <2>2. mode' \notin {"verifying", "card"} /\ UNCHANGED <<repairs, asked>>
    BY <1>11 DEF CloseRepair, Return
  <2> QED BY <1>a, <2>1, <2>2, CountStays DEF WillBeCounted
<1>12. CASE DecideFiles
  <2>1. PICK files \in SUBSET patch.undecided \ {{}}, applied \in BOOLEAN :
          /\ IF applied THEN fold' = Disturbed(files) ELSE UNCHANGED fold
          /\ due' = VerificationDue(patch')
          /\ asked' = IF patch'.undecided = {} /\ ~patch'.applied /\ ~AttemptAwaits
                      THEN asked + 1 ELSE asked
          /\ mode' = IF patch'.undecided = {} THEN "idle" ELSE "patch"
    BY <1>12 DEF DecideFiles
  <2>2. mode = "patch" /\ UNCHANGED <<repairs, task>>
    BY <1>12 DEF DecideFiles
  <2>3. /\ fold'.attempt = fold.attempt /\ fold'.selected = fold.selected
        /\ fold'.finished = fold.finished
    BY <1>a, <2>1, DisturbedFields
  <2>4. CASE patch'.undecided = {} /\ ~patch'.applied /\ ~AttemptAwaits
    BY <1>a, <2>1, <2>2, <2>3, <2>4, AskedCounts
  <2>5. CASE patch'.undecided = {} /\ (patch'.applied \/ AttemptAwaits)
    <3>1. due'.starter = task.starter /\ mode' = "idle"
      BY <2>1, <2>5 DEF VerificationDue
    <3> QED BY <1>a, <2>1, <2>2, <2>3, <2>5, <3>1, CountStays DEF WillBeCounted
  <2>6. CASE patch'.undecided # {}
    BY <1>a, <2>1, <2>2, <2>3, <2>6, CountStays DEF WillBeCounted
  <2> QED BY <2>4, <2>5, <2>6
<1>13. CASE CloseRejectedRepair
  <2>1. /\ fold'.attempt = fold.attempt /\ fold'.selected = fold.selected
        /\ fold'.finished = "no_repair"
    BY <1>a, <1>13, FinishedFields DEF CloseRejectedRepair
  <2>2. mode' = "idle" /\ UNCHANGED <<repairs, asked>>
    BY <1>13 DEF CloseRejectedRepair
  <2> QED BY <1>a, <2>1, <2>2, CountStays DEF WillBeCounted
<1>14. CASE StartVerification
  <2>1. /\ fold'.attempt = NextAttempt
        /\ fold'.selected = fold.selected \cup Chosen
        /\ UNCHANGED <<repairs, asked>>
        /\ mode \in {"idle", "due"} /\ due.kind # "rejected"
    BY <1>14, <1>a DEF StartVerification, TypeOK, FoldState
  <2>2. repairs <= NextAttempt + asked
    <3>1. CASE fold.selected = {}
      BY <1>a, <3>1, CountedTypes DEF RepairCount, NextAttempt
    <3>2. CASE fold.selected # {} /\ (due.starter \/ fold.finished # "none")
      BY <1>a, <3>2, CountedTypes DEF RepairCount, NextAttempt
    <3>3. CASE fold.selected # {} /\ ~due.starter /\ fold.finished = "none"
      <4>1. ~WillBeCounted
        BY <2>1, <3>3 DEF WillBeCounted
      <4> QED BY <1>a, <3>3, <4>1, CountedTypes DEF RepairCount, NextAttempt
    <3> QED BY <3>1, <3>2, <3>3
  <2> QED BY <1>a, <2>1, <2>2, CountedTypes, NextAttemptType DEF RepairCount
<1>15. CASE RunCheck
  <2>1. PICK c \in run.todo, outcome \in Outcome : fold' = Results({c}, outcome)
    BY <1>15 DEF RunCheck
  <2>2. UNCHANGED <<repairs, asked, mode, due, task>>
    BY <1>15 DEF RunCheck
  <2> QED BY <1>a, <2>1, <2>2, ResultsFields, CountStays DEF WillBeCounted
<1>16. CASE PauseForChecks
  <2>1. mode = "verifying" /\ UNCHANGED <<fold, repairs, asked>>
    BY <1>16 DEF PauseForChecks
  <2> QED BY <1>a, <2>1, CountStays DEF WillBeCounted
<1>17. CASE DecideChecks
  <2>1. PICK declined \in SUBSET run.awaiting : fold' = Results(declined, "declined")
    BY <1>17 DEF DecideChecks
  <2>2. mode = "card" /\ UNCHANGED <<repairs, asked>>
    BY <1>17 DEF DecideChecks
  <2> QED BY <1>a, <2>1, <2>2, ResultsFields, CountStays DEF WillBeCounted
<1>18. CASE PassVerification
  <2>1. /\ fold'.attempt = fold.attempt /\ fold'.selected = fold.selected
        /\ fold'.finished # "none"
    BY <1>a, <1>18, FinishedFields DEF PassVerification
  <2>2. mode' \notin {"verifying", "card"} /\ UNCHANGED <<repairs, asked>>
    BY <1>18 DEF PassVerification, Return
  <2> QED BY <1>a, <2>1, <2>2, CountStays DEF WillBeCounted
<1>19. CASE FailVerification
  <2>1. /\ fold'.attempt = fold.attempt /\ fold'.selected = fold.selected
        /\ fold'.finished # "none"
    BY <1>a, <1>19, FinishedFields DEF FailVerification
  <2>2. mode' \notin {"verifying", "card"} /\ UNCHANGED <<repairs, asked>>
    BY <1>19 DEF FailVerification, Return
  <2> QED BY <1>a, <2>1, <2>2, CountStays DEF WillBeCounted
<1>20. CASE StartRepair
  <2>1. mode = "verifying" /\ fold.attempt < Limit /\ fold.selected # {}
    BY <1>20 DEF StartRepair, Verified, MayRepair, Targets
  <2>2. repairs <= fold.attempt + asked
    BY <2>1 DEF RepairCount, WillBeCounted
  <2>3. /\ task'.starter /\ ~task'.resumed /\ task'.frames = task.frames + 1
        /\ mode' = "turn" /\ repairs' = repairs + 1 /\ UNCHANGED <<fold, asked>>
    BY <1>20, <1>a DEF StartRepair, Turn, TypeOK, TaskRecord
  <2>4. WillBeCounted'
    BY <1>a, <2>3, CountedTypes DEF WillBeCounted
  <2> QED BY <1>a, <2>1, <2>2, <2>3, <2>4, CountedTypes DEF RepairCount
<1>21. CASE ContinueRepair \/ NextTurn \/ Crash
  BY <1>a, <1>21, NothingToCount DEF ContinueRepair, NextTurn, Crash
<1>22. CASE UserEdit
  <2>1. PICK f \in touched : fold' = Disturbed({f})
    BY <1>22 DEF UserEdit
  <2>2. UNCHANGED <<repairs, asked, mode, due, task>>
    BY <1>22 DEF UserEdit
  <2> QED BY <1>a, <2>1, <2>2, DisturbedFields, CountStays DEF WillBeCounted
<1>23. CASE UNCHANGED vars
  BY <1>23, <1>a, CountStays DEF vars, WillBeCounted
<1> QED BY <1>1, <1>2, <1>3, <1>4, <1>5, <1>6, <1>7, <1>8, <1>9, <1>10, <1>11, <1>12, <1>13,
           <1>14, <1>15, <1>16, <1>17, <1>18, <1>19, <1>20, <1>21, <1>22, <1>23
        DEF Next

\* However turns nest, pause and are cut off, the loop starts no more repairs
\* by itself than the limit, and one for each decision of the user.
THEOREM RepairsEnd == Spec => []RepairsAreBounded
<1> DEFINE Inv == TypeInv /\ RepairCount
<1>1. Init => Inv
  <2>1. Init => TypeInv
    BY InitTypes
  <2>2. Init /\ TypeInv => RepairCount
    BY CountedTypes DEF Init, RepairCount, TypeInv
  <2> QED BY <2>1, <2>2
<1>2. Inv /\ [Next]_vars => Inv'
  BY NextTypes, CountNext
<1>3. Inv => RepairsAreBounded
  BY DEF RepairsAreBounded, RepairCount
<1> QED BY <1>1, <1>2, <1>3, PTL DEF Spec

-----------------------------------------------------------------------------
(* A task settled complete was verified, for any plan, checks and files *)

\* A step's evidence holds a command of the check that settles it, and no
\* patch since.
PatchFrom(evidence, from) == \E k \in from..Len(evidence) : evidence[k] = Applied
Holds(evidence, c) == /\ Mentions(evidence, c) # {} /\ Settled(evidence, c)
                      /\ ~PatchFrom(evidence, LatestMention(evidence, c) + 1)

\* What the gate may read from the last step that has begun is what was
\* observed.
LastBegun(i) == /\ plan[i].status # "Pending"
                /\ \A j \in Step : i < j => plan[j].status = "Pending"
RecordedIsRight ==
  \A i \in Step : LastBegun(i) =>
    \A c \in Check : Holds(plan[i].evidence, c) => c \in recorded

VerdictInv == TypeInv /\ RecordedIsRight

-----------------------------------------------------------------------------
(* Evidence *)

LEMMA GreatestExists ==
  ASSUME NEW n \in Nat, NEW S \in SUBSET (1..n), S # {}
  PROVE  \E k \in S : \A l \in S : l <= k
<1> DEFINE T == {n - k : k \in S}
<1>1. T \subseteq Nat /\ T # {}
  <2>1. \A k \in S : n - k \in Nat
    OBVIOUS
  <2>2. PICK k \in S : TRUE
    OBVIOUS
  <2>3. n - k \in T
    OBVIOUS
  <2> QED BY <2>1, <2>3
<1> HIDE DEF T
<1>2. PICK m \in T : \A k \in T : <<k, m>> \notin OpToRel(<, Nat)
  BY <1>1, NatLessThanWellFounded, WFMin, Zenon
<1>3. \A k \in T : ~(k < m)
  BY <1>1, <1>2, Zenon DEF OpToRel
<1>4. PICK k \in S : m = n - k
  BY DEF T
<1>5. \A l \in S : ~(n - l < n - k)
  BY <1>3, <1>4 DEF T
<1> QED BY <1>5

LEMMA LatestIsLast ==
  ASSUME NEW e \in Seq(Evidence), NEW c, Mentions(e, c) # {}
  PROVE  /\ LatestMention(e, c) \in Mentions(e, c)
         /\ \A l \in Mentions(e, c) : l <= LatestMention(e, c)
         /\ LatestMention(e, c) \in 1..Len(e)
<1>1. Mentions(e, c) \in SUBSET (1..Len(e)) /\ Len(e) \in Nat
  BY DEF Mentions
<1>2. \E k \in Mentions(e, c) : \A l \in Mentions(e, c) : l <= k
  BY <1>1, GreatestExists
<1> QED BY <1>1, <1>2 DEF LatestMention

LEMMA ConcatIndices ==
  ASSUME NEW e \in Seq(Evidence), NEW b \in Seq(Evidence)
  PROVE  /\ e \o b \in Seq(Evidence) /\ Len(e \o b) = Len(e) + Len(b)
         /\ Len(e) \in Nat /\ Len(b) \in Nat
         /\ \A k \in 1..Len(e) : (e \o b)[k] = e[k]
         /\ \A k \in 1..Len(b) : (e \o b)[Len(e) + k] = b[k]
  OBVIOUS

LEMMA MentionsOfConcat ==
  ASSUME NEW e \in Seq(Evidence), NEW b \in Seq(Evidence), NEW c
  PROVE  /\ \A k \in Mentions(e \o b, c) :
              k \in Mentions(e, c) \/ (k > Len(e) /\ k - Len(e) \in Mentions(b, c))
         /\ \A k \in Mentions(e, c) : k \in Mentions(e \o b, c)
         /\ \A k \in Mentions(b, c) : Len(e) + k \in Mentions(e \o b, c)
<1> DEFINE all == e \o b
<1>1. /\ all \in Seq(Evidence) /\ Len(all) = Len(e) + Len(b)
      /\ Len(e) \in Nat /\ Len(b) \in Nat
      /\ \A k \in 1..Len(e) : all[k] = e[k]
      /\ \A k \in 1..Len(b) : all[Len(e) + k] = b[k]
  BY ConcatIndices
<1> HIDE DEF all
<1>2. ASSUME NEW k \in Mentions(all, c)
      PROVE  k \in Mentions(e, c) \/ (k > Len(e) /\ k - Len(e) \in Mentions(b, c))
  <2>1. k \in 1..Len(all) /\ all[k].kind # "patch" /\ all[k].check = c
    BY <1>1 DEF Mentions
  <2>2. CASE k <= Len(e)
    <3>1. k \in 1..Len(e) /\ all[k] = e[k]
      BY <1>1, <2>1, <2>2
    <3> QED BY <2>1, <3>1 DEF Mentions
  <2>3. CASE k > Len(e)
    <3>1. k - Len(e) \in 1..Len(b) /\ Len(e) + (k - Len(e)) = k
      BY <1>1, <2>1, <2>3
    <3>2. all[k] = b[k - Len(e)]
      BY <1>1, <3>1
    <3> QED BY <2>1, <2>3, <3>1, <3>2 DEF Mentions
  <2> QED BY <1>1, <2>1, <2>2, <2>3
<1>3. ASSUME NEW k \in Mentions(e, c) PROVE k \in Mentions(all, c)
  BY <1>1 DEF Mentions
<1>4. ASSUME NEW k \in Mentions(b, c) PROVE Len(e) + k \in Mentions(all, c)
  BY <1>1 DEF Mentions
<1> QED BY <1>2, <1>3, <1>4 DEF all

\* What settles a check after the turn's observations are put on a step is the
\* last of them, or what did so before.
LEMMA HoldsAfterConcat ==
  ASSUME NEW e \in Seq(Evidence), NEW b \in Seq(Evidence), NEW c, Holds(e \o b, c)
  PROVE  IF Mentions(b, c) = {} THEN Holds(e, c) ELSE Settled(b, c)
<1> DEFINE all == e \o b
           last == LatestMention(all, c)
<1>1. /\ all \in Seq(Evidence) /\ Len(all) = Len(e) + Len(b)
      /\ Len(e) \in Nat /\ Len(b) \in Nat
      /\ \A k \in 1..Len(e) : all[k] = e[k]
      /\ \A k \in 1..Len(b) : all[Len(e) + k] = b[k]
  BY ConcatIndices
<1>2. /\ \A k \in Mentions(all, c) :
           k \in Mentions(e, c) \/ (k > Len(e) /\ k - Len(e) \in Mentions(b, c))
      /\ \A k \in Mentions(e, c) : k \in Mentions(all, c)
      /\ \A k \in Mentions(b, c) : Len(e) + k \in Mentions(all, c)
  BY MentionsOfConcat
<1>3. Mentions(all, c) # {} /\ Settled(all, c) /\ ~PatchFrom(all, last + 1)
  BY DEF Holds
<1> HIDE DEF all
<1>4. /\ last \in Mentions(all, c) /\ last \in 1..Len(all)
      /\ \A l \in Mentions(all, c) : l <= last
  BY <1>1, <1>3, LatestIsLast
<1>5. Settled(all, c) = (all[last].kind = "declined" \/ all[last].passed)
  BY DEF Settled
<1>6. CASE Mentions(b, c) = {}
  <2>1. Mentions(e, c) = Mentions(all, c)
    BY <1>2, <1>6
  <2>2. LatestMention(e, c) = last
    BY <2>1 DEF LatestMention
  <2>3. last \in 1..Len(e)
    BY <1>3, <2>1, <2>2, LatestIsLast
  <2>4. Settled(e, c)
    BY <1>1, <1>3, <1>5, <2>2, <2>3 DEF Settled
  <2>5. ~PatchFrom(e, last + 1)
    <3>1. \A k \in last + 1..Len(e) : k \in 1..Len(e) /\ k \in last + 1..Len(all)
      BY <1>1, <2>3
    <3> QED BY <1>1, <1>3, <3>1 DEF PatchFrom
  <2> QED BY <1>3, <1>6, <2>1, <2>2, <2>4, <2>5 DEF Holds
<1>7. CASE Mentions(b, c) # {}
  <2> DEFINE lastB == LatestMention(b, c)
  <2>1. lastB \in Mentions(b, c) /\ lastB \in 1..Len(b) /\ \A l \in Mentions(b, c) : l <= lastB
    BY <1>7, LatestIsLast
  <2> HIDE DEF lastB
  <2>2. Len(e) + lastB <= last
    BY <1>2, <1>4, <2>1
  <2>3. last - Len(e) \in Mentions(b, c)
    <3>1. last \notin Mentions(e, c)
      BY <1>1, <2>1, <2>2 DEF Mentions
    <3> QED BY <1>2, <1>4, <3>1
  <2>4. last = Len(e) + lastB
    <3>1. last - Len(e) <= lastB
      BY <2>1, <2>3
    <3>2. last \in Nat /\ lastB \in Nat
      BY <1>4, <2>1
    <3>3. \A x, y, z \in Nat : x + y <= z /\ z - x <= y => z = x + y
      OBVIOUS
    <3> QED BY <1>1, <2>2, <3>1, <3>2, <3>3
  <2>5. all[last] = b[lastB]
    BY <1>1, <2>1, <2>4
  <2> QED BY <1>3, <1>5, <1>7, <2>5 DEF Settled, lastB
<1> QED BY <1>6, <1>7

\* A patch put on a step leaves nothing there that settles a check.
LEMMA NothingHoldsAfterPatch ==
  ASSUME NEW e \in Seq(Evidence), NEW c PROVE ~Holds(e \o <<Applied>>, c)
<1> DEFINE all == e \o <<Applied>>
           last == LatestMention(all, c)
<1> SUFFICES ASSUME Mentions(all, c) # {} PROVE PatchFrom(all, last + 1)
  BY DEF Holds
<1>1. /\ all \in Seq(Evidence) /\ Len(all) = Len(e) + 1 /\ Len(e) \in Nat
      /\ all[Len(e) + 1] = Applied
  BY DEF Evidence
<1> HIDE DEF all
<1>2. last \in Mentions(all, c) /\ last \in 1..Len(all)
  BY <1>1, LatestIsLast
<1>3. last # Len(e) + 1
  BY <1>1, <1>2 DEF Mentions, Applied
<1>4. Len(e) + 1 \in last + 1..Len(all)
  BY <1>1, <1>2, <1>3
<1> QED BY <1>1, <1>4 DEF PatchFrom

-----------------------------------------------------------------------------
(* The records *)

LEMMA StepFields ==
  ASSUME TypeOK, NEW i \in Step
  PROVE  plan[i] \in PlanStep /\ plan[i].evidence \in Seq(Evidence)
  BY DEF TypeOK, PlanStep

\* A step that takes the observations of the turn.
LEMMA UpheldIsRecorded ==
  ASSUME TypeOK, RecordedIsRight, NEW i \in Step, LastBegun(i),
         NEW c \in Check, Holds(plan[i].evidence \o buffer, c)
  PROVE  c \in NowRecorded
<1>1. plan[i].evidence \in Seq(Evidence) /\ buffer \in Seq(Evidence)
  BY StepFields, BufferIsEvidence
<1>2. IF Mentions(buffer, c) = {} THEN Holds(plan[i].evidence, c) ELSE Settled(buffer, c)
  BY <1>1, HoldsAfterConcat
<1> QED BY <1>2 DEF NowRecorded, Upheld, RecordedIsRight

\* Appending touches only the step in progress, the last that has begun.
LEMMA AppendMoves ==
  ASSUME TypeOK, StepOrder, NEW evidence, plan' = AppendEvidence(evidence),
         NEW i \in Step, LastBegun(i)'
  PROVE  /\ LastBegun(i)
         /\ IF Running = {} THEN plan'[i] = plan[i]
                            ELSE plan'[i].evidence = plan[i].evidence \o evidence
<1>1. \A j \in Step : /\ plan'[j].status = plan[j].status
                      /\ j \in Running => plan'[j].evidence = plan[j].evidence \o evidence
                      /\ j \notin Running => plan'[j] = plan[j]
  BY StepFields DEF AppendEvidence, PlanStep
<1>2. LastBegun(i)
  BY <1>1 DEF LastBegun
<1>3. CASE Running = {}
  BY <1>1, <1>2, <1>3
<1>4. CASE Running # {}
  <2>1. PICK r \in Running : TRUE
    BY <1>4
  <2>2. r \in Step /\ \A j \in Step : r < j => plan[j].status = "Pending"
    BY <2>1, RunningIsLast
  <2>3. plan[r].status # "Pending"
    BY <2>1 DEF Running
  <2>4. r = i
    BY <1>2, <2>2, <2>3 DEF LastBegun, Step
  <2> QED BY <1>1, <1>2, <1>4, <2>1, <2>4
<1> QED BY <1>3, <1>4

LEMMA AttachKeepsRecords ==
  ASSUME TypeOK, StepOrder, RecordedIsRight, AttachStepEvidence
  PROVE  RecordedIsRight'
<1> SUFFICES ASSUME NEW i \in Step, LastBegun(i)', NEW c \in Check,
                    Holds(plan'[i].evidence, c)
             PROVE  c \in recorded'
  BY DEF RecordedIsRight, Holds, PatchFrom, Settled, Mentions, LatestMention
<1>1. /\ LastBegun(i)
      /\ IF Running = {} THEN plan'[i] = plan[i]
                         ELSE plan'[i].evidence = plan[i].evidence \o buffer
  BY AppendMoves DEF AttachStepEvidence
<1>2. CASE Running = {}
  BY <1>1, <1>2 DEF AttachStepEvidence, RecordedIsRight
<1>3. CASE Running # {}
  BY <1>1, <1>3, UpheldIsRecorded DEF AttachStepEvidence
<1> QED BY <1>2, <1>3

LEMMA CompleteKeepsRecords ==
  ASSUME TypeOK, StepOrder, RecordedIsRight, CompleteStep
  PROVE  RecordedIsRight'
<1>1. PICK i \in IF Running # {} THEN Running
                ELSE {j \in Blocked : \A k \in Blocked : j <= k} :
        LET evidence == plan[i].evidence \o buffer
            status == StatusFromEvidence(evidence)
            pending == {j \in Step : status = "Completed" /\ plan[j].status = "Pending"}
        IN  plan' = [j \in Step |->
              IF j = i THEN [plan[i] EXCEPT !.evidence = evidence, !.status = status]
              ELSE IF j \in pending /\ \A k \in pending : j <= k
              THEN [plan[j] EXCEPT !.status = "InProgress"] ELSE plan[j]]
  BY DEF CompleteStep
<1>2. i \in Step /\ plan[i].status \in {"InProgress", "Blocked"}
  BY <1>1 DEF Running, Blocked
<1>3. LastBegun(i)
  BY <1>2 DEF StepOrder, LastBegun
<1>4. /\ plan'[i].evidence = plan[i].evidence \o buffer
      /\ plan'[i].status # "Pending"
      /\ \A j \in Step : j # i => plan'[j].evidence = plan[j].evidence
  BY <1>1, <1>2, StepFields DEF PlanStep, StatusFromEvidence
<1> SUFFICES ASSUME NEW j \in Step, LastBegun(j)', NEW c \in Check,
                    Holds(plan'[j].evidence, c)
             PROVE  c \in recorded'
  BY DEF RecordedIsRight, Holds, PatchFrom, Settled, Mentions, LatestMention
<1>5. CASE j = i
  BY <1>3, <1>4, <1>5, <1>2, UpheldIsRecorded DEF CompleteStep
<1>6. CASE j # i
  <2>1. i < j
    BY <1>2, <1>4, <1>6 DEF LastBegun, Step
  <2>2. plan[j].evidence = <<>>
    BY <1>3, <2>1 DEF LastBegun, StepOrder
  <2>3. plan'[j].evidence = <<>>
    BY <1>4, <1>6, <2>2
  <2> QED BY <2>3 DEF Holds, Mentions
<1> QED BY <1>5, <1>6

LEMMA RecordsStay ==
  ASSUME RecordedIsRight, UNCHANGED <<plan, recorded>> PROVE RecordedIsRight'
<1> SUFFICES ASSUME NEW i \in Step, LastBegun(i)', NEW c \in Check,
                    Holds(plan'[i].evidence, c)
             PROVE  c \in recorded'
  BY DEF RecordedIsRight, Holds, PatchFrom, Settled, Mentions, LatestMention
<1>1. LastBegun(i) /\ Holds(plan[i].evidence, c)
  BY DEF LastBegun
<1> QED BY <1>1 DEF RecordedIsRight

LEMMA DecideKeepsRecords ==
  ASSUME TypeOK, StepOrder, RecordedIsRight, DecideFiles
  PROVE  RecordedIsRight'
<1>1. CASE UNCHANGED <<plan, recorded>>
  BY <1>1, RecordsStay
<1>2. CASE plan' = AppendEvidence(<<Applied>>) /\ recorded' = IF Running = {} THEN recorded ELSE {}
  <2> SUFFICES ASSUME NEW i \in Step, LastBegun(i)', NEW c \in Check,
                      Holds(plan'[i].evidence, c)
               PROVE  c \in recorded'
    BY DEF RecordedIsRight, Holds, PatchFrom, Settled, Mentions, LatestMention
  <2>1. /\ LastBegun(i)
        /\ IF Running = {} THEN plan'[i] = plan[i]
                           ELSE plan'[i].evidence = plan[i].evidence \o <<Applied>>
    BY <1>2, AppendMoves
  <2>2. CASE Running = {}
    BY <1>2, <2>1, <2>2 DEF RecordedIsRight
  <2>3. CASE Running # {}
    BY <2>1, <2>3, StepFields, NothingHoldsAfterPatch
  <2> QED BY <2>2, <2>3
<1> QED BY <1>1, <1>2 DEF DecideFiles

LEMMA NextRecords ==
  ASSUME VerdictInv, [Next]_vars PROVE RecordedIsRight'
<1> USE DEF records, ghosts
<1>a. TypeOK /\ StepOrder /\ RecordedIsRight
  BY DEF VerdictInv, TypeInv
<1>1. CASE ProposePatch \/ RepairStalls \/ Answer
  BY <1>a, <1>1, AttachKeepsRecords DEF ProposePatch, RepairStalls, Answer
<1>2. CASE CompleteStep
  BY <1>a, <1>2, CompleteKeepsRecords
<1>3. CASE DecideFiles
  BY <1>a, <1>3, DecideKeepsRecords
<1>4. CASE RunCommand \/ DeclineCommand \/ RunChangingCommand \/ RunFloor
  BY <1>a, <1>4, RecordsStay DEF RunCommand, DeclineCommand, RunChangingCommand, RunFloor
<1>5. CASE VerifyAfterCommand \/ EndTurn \/ CloseRepair \/ CloseRejectedRepair
  BY <1>a, <1>5, RecordsStay DEF VerifyAfterCommand, EndTurn, CloseRepair, CloseRejectedRepair
<1>6. CASE StartVerification \/ RunCheck \/ PauseForChecks \/ DecideChecks
  BY <1>a, <1>6, RecordsStay DEF StartVerification, RunCheck, PauseForChecks, DecideChecks
<1>7. CASE PassVerification \/ FailVerification \/ StartRepair
  BY <1>a, <1>7, RecordsStay DEF PassVerification, FailVerification, StartRepair
<1>8. CASE ContinueRepair \/ NextTurn \/ UserEdit \/ Crash
  BY <1>a, <1>8, RecordsStay DEF ContinueRepair, NextTurn, UserEdit, Crash
<1>9. CASE UNCHANGED vars
  BY <1>a, <1>9, RecordsStay DEF vars
<1> QED BY <1>1, <1>2, <1>3, <1>4, <1>5, <1>6, <1>7, <1>8, <1>9 DEF Next

-----------------------------------------------------------------------------
(* The verdict *)

AllVerified ==
  \A c \in Required \cup Floor :
    \/ /\ fold.runs[c].outcome \in {"passed", "declined"} /\ fold.runs[c].same
    \/ c \in recorded

\* What a step settles for the gate, it has recorded.
LEMMA SettledIsRecorded ==
  ASSUME TypeOK, RecordedIsRight, NEW i \in Step, NEW c \in Check, StepSettles(i, c)
  PROVE  c \in recorded
<1>1. /\ Mentions(plan[i].evidence, c) # {} /\ StepIsCurrent(i)
      /\ ~MutationAfter(i, LatestMention(plan[i].evidence, c))
      /\ Settled(plan[i].evidence, c)
  BY DEF StepSettles, StepIsUpToDate
<1>2. LastBegun(i)
  BY <1>1, CompletionAssumption DEF StepIsCurrent, LastBegun, Step
<1>3. Holds(plan[i].evidence, c)
  BY <1>1 DEF Holds, PatchFrom, MutationAfter, HasPatch
<1> QED BY <1>2, <1>3 DEF RecordedIsRight

LEMMA EligibleIsVerified == VerdictInv /\ Eligible => AllVerified
<1> SUFFICES ASSUME VerdictInv, Eligible, NEW c \in Required \cup Floor
             PROVE  \/ /\ fold.runs[c].outcome \in {"passed", "declined"}
                       /\ fold.runs[c].same
                    \/ c \in recorded
  BY DEF AllVerified
<1>1. TypeOK /\ RecordedIsRight
  BY DEF VerdictInv, TypeInv
<1>2. c \in Check
  BY <1>1, StepFields, CompletionAssumption DEF Required, Floor, PlanStep
<1>3. CASE Ran(c) /\ ~Stale(c) /\ fold.runs[c].outcome \in {"passed", "declined"}
  BY <1>3 DEF Stale
<1>4. CASE \E i \in Step : StepSettles(i, c)
  BY <1>1, <1>2, <1>4, SettledIsRecorded
<1>5. CASE c \in Required
  BY <1>3, <1>4, <1>5 DEF Eligible, OnlyStepsOpen, RequiredIsMet
<1>6. CASE c \in Floor \ Required
  BY <1>3, <1>4, <1>6 DEF Eligible, FloorIsMet, PlanSettles, LatestStep
<1> QED BY <1>5, <1>6

\* Only an answer and a verification that nothing failed settle complete.
LEMMA SettlesByTheGate ==
  ASSUME TypeOK, [Next]_vars, Settles PROVE Eligible'
<1> USE DEF Settles, TypeOK, TaskRecord, records, ghosts
<1>1. CASE RunCommand \/ DeclineCommand \/ RunChangingCommand
  BY <1>1 DEF RunCommand, DeclineCommand, RunChangingCommand, Resumed
<1>2. CASE CompleteStep \/ ProposePatch \/ RepairStalls
  BY <1>2 DEF CompleteStep, ProposePatch, RepairStalls, Turn
<1>3. CASE Answer
  BY <1>3 DEF Answer
<1>4. CASE RunFloor \/ VerifyAfterCommand \/ EndTurn \/ CloseRepair
  BY <1>4 DEF RunFloor, VerifyAfterCommand, EndTurn, CloseRepair
<1>5. CASE DecideFiles \/ CloseRejectedRepair
  BY <1>5 DEF DecideFiles, CloseRejectedRepair, Turn
<1>6. CASE StartVerification \/ RunCheck \/ PauseForChecks \/ DecideChecks
  BY <1>6 DEF StartVerification, RunCheck, PauseForChecks, DecideChecks, Turn
<1>7. CASE PassVerification
  BY <1>7 DEF PassVerification, Turn
<1>8. CASE FailVerification \/ StartRepair
  BY <1>8 DEF FailVerification, StartRepair, Turn
<1>9. CASE ContinueRepair \/ NextTurn \/ UserEdit \/ Crash
  BY <1>9 DEF ContinueRepair, NextTurn, UserEdit, Crash, Turn
<1>10. CASE UNCHANGED vars
  BY <1>10 DEF vars
<1> QED BY <1>1, <1>2, <1>3, <1>4, <1>5, <1>6, <1>7, <1>8, <1>9, <1>10 DEF Next

\* A task is settled complete only when each check its plan or its files
\* require passed or was declined on the files as they are, or by a step's
\* last command of it with no patch since.
THEOREM OnlyVerifiedTasksComplete == Spec => CompleteIsVerified
<1>1. Init => VerdictInv
  <2>1. Init => TypeInv
    BY InitTypes
  <2>2. ASSUME Init PROVE RecordedIsRight
    <3>1. \A i \in Step : plan[i].evidence = <<>>
      BY <2>2 DEF Init
    <3> QED BY <3>1 DEF RecordedIsRight, Holds, Mentions
  <2> QED BY <2>1, <2>2 DEF VerdictInv
<1>2. VerdictInv /\ [Next]_vars => VerdictInv'
  BY NextTypes, NextRecords DEF VerdictInv
<1>3. VerdictInv /\ Eligible => AllVerified
  BY EligibleIsVerified
<1>4. VerdictInv /\ [Next]_vars /\ (VerdictInv' /\ Eligible' => AllVerified')
      => [Settles => AllVerified']_vars
  <2>1. VerdictInv => TypeOK
    BY DEF VerdictInv, TypeInv
  <2> QED BY <1>2, <2>1, SettlesByTheGate
<1>5. [Settles => AllVerified']_vars
      => [Settles => \A c \in (Required \cup Floor)' :
            \/ /\ fold'.runs[c].outcome \in {"passed", "declined"} /\ fold'.runs[c].same
            \/ c \in recorded']_vars
  BY DEF AllVerified
<1> QED BY <1>1, <1>2, <1>3, <1>4, <1>5, PTL DEF Spec, CompleteIsVerified
=============================================================================
