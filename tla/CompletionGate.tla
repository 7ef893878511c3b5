---------------------------- MODULE CompletionGate ----------------------------
(***************************************************************************)
(* The verification loop and the completion gate: a task's approved plan   *)
(* whose steps gather evidence, the patches and commands that change       *)
(* files, the verification each change makes due, the repair turns it      *)
(* starts, and the gate that decides whether the task is complete          *)
(* (chat.rs, verification.rs, completion.rs, plan.rs, edit.rs).            *)
(*                                                                         *)
(* One session in Code mode, and one plan carried from task to task by     *)
(* plan_resumed, so every task is in one continuation chain and only the   *)
(* newest matters; the user starts no turn while a patch or a check card   *)
(* is open. A changed file never gets an old content back, is no           *)
(* documentation, and lies in a root whose checks were detected; a         *)
(* record's hashes are then the files it hashed and whether one of them    *)
(* changed since. A check that fails did so either by what the patch       *)
(* introduced or otherwise; policy blocks none, and none is a browser's. A *)
(* turn ends by an answer, a patch or a command to approve, and crashes    *)
(* come between the writes of different actions.                           *)
(***************************************************************************)
EXTENDS Naturals, FiniteSets, Sequences

CONSTANTS
  N,             \* steps of the plan
  Check,         \* commands that are checks
  NoCheck,       \* a step that declares no required check
  Plans,         \* what the steps of a plan may require
  OwnChecks,     \* detected in the root that owns the files
  FloorChecks,   \* detected there and in the enclosing roots
  NeedsApproval, \* not on the command allowlist
  File,
  Limit,         \* agent_tool_retry_limit
  MaxActs        \* bound on commands, patches, edits, crashes and user turns

ASSUME CompletionAssumption ==
  /\ N \in Nat \ {0} /\ Limit \in Nat /\ MaxActs \in Nat
  /\ NoCheck \notin Check
  /\ Plans # {} /\ Plans \subseteq [1..N -> Check \cup {NoCheck}]
  /\ OwnChecks # {} /\ OwnChecks \subseteq FloorChecks /\ FloorChecks \subseteq Check
  /\ NeedsApproval \subseteq Check

VARIABLES
  plan,       \* the plan's own steps
  exits,      \* the checks whose verify_ step holds a command's exit
  touched,    \* the files the chain's patches and commands changed
  due,        \* the verification that is due
  fold,       \* the verification events, folded
  task,       \* the newest task
  mode,       \* where its turn is
  buffer,     \* what the turn observed since the last attachment
  run,        \* the verification in flight
  patch,      \* the patch under review
  repairs,    \* history: repair turns since the user or a restart last started one
  asked,      \* history: commands the user decided since then, and patches they
              \* rejected that no attempt waited for
  owed,       \* history: a change no verification started since has reported on
  recorded,   \* history: checks a step has the settling command of, and no patch since
  acts

records == <<plan, exits, touched, due, fold>>
ghosts == <<repairs, asked, owed, recorded>>
vars == <<records, task, mode, buffer, run, patch, ghosts, acts>>

Step == 1..N
Exit == [kind : {"exit"}, check : Check, passed : BOOLEAN]
Declined == [kind : {"declined"}, check : Check]
Applied == [kind |-> "patch"]
Evidence == Exit \cup Declined \cup {Applied}
StepStatus == {"Pending", "InProgress", "Completed", "Blocked"}
Outcome == {"passed", "introduced", "known"}
CheckRun == [outcome : Outcome \cup {"none", "declined"}, generation : Nat,
             files : SUBSET File, same : BOOLEAN]
NoRun == [outcome |-> "none", generation |-> 0, files |-> {}, same |-> TRUE]
Finish == {"passed", "nothing", "failed", "exhausted", "stalled", "no_repair"}
Settlement == {"complete", "incomplete", "failed"}
NoDue == [kind |-> "none", checks |-> {}, starter |-> FALSE]

PlanStep == [status : StepStatus, evidence : Seq(Evidence), check : Check \cup {NoCheck}]
DueRecord == [kind : {"none", "patch", "rejected", "command", "floor"},
              checks : SUBSET Check, starter : BOOLEAN]
FoldState == [attempt : Nat, selected : SUBSET Check, runs : [Check -> CheckRun],
              finished : Finish \cup {"none"}, inProgress : BOOLEAN, repaired : BOOLEAN]
TaskRecord == [status : Settlement \cup {"running", "waiting", "interrupted"},
               repair : BOOLEAN, resumed : BOOLEAN, starter : BOOLEAN,
               frames : Nat, outer : BOOLEAN]
Verification == [chosen : SUBSET Check, todo : SUBSET Check, awaiting : SUBSET Check,
                 files : SUBSET File, same : BOOLEAN, stale : SUBSET Check]
PatchReview == [undecided : SUBSET File, applied : BOOLEAN]
Mode == {"idle", "turn", "answered", "due", "verifying", "card", "unwinding", "patch"}

TypeOK ==
  /\ plan \in [Step -> PlanStep]
  /\ exits \subseteq Check /\ touched \subseteq File
  /\ due \in DueRecord /\ fold \in FoldState
  /\ task \in TaskRecord /\ mode \in Mode
  /\ buffer \in Seq(Exit \cup Declined)
  /\ run \in Verification /\ patch \in PatchReview
  /\ repairs \in Nat /\ asked \in Nat /\ owed \in BOOLEAN /\ recorded \subseteq Check
  /\ acts \in 0..MaxActs

\* A turn the user typed has approved a plan, whose first step is open.
Init ==
  /\ \E required \in Plans :
       plan = [i \in Step |-> [status |-> IF i = 1 THEN "InProgress" ELSE "Pending",
                               evidence |-> <<>>, check |-> required[i]]]
  /\ exits = {} /\ touched = {} /\ due = NoDue
  /\ fold = [attempt |-> 0, selected |-> {}, runs |-> [c \in Check |-> NoRun],
             finished |-> "none", inProgress |-> FALSE, repaired |-> FALSE]
  /\ task = [status |-> "running", repair |-> FALSE, resumed |-> FALSE, starter |-> FALSE,
             frames |-> 0, outer |-> FALSE]
  /\ mode = "turn" /\ buffer = <<>>
  /\ run = [chosen |-> {}, todo |-> {}, awaiting |-> {}, files |-> {}, same |-> TRUE,
            stale |-> {}]
  /\ patch = [undecided |-> {}, applied |-> FALSE]
  /\ repairs = 0 /\ asked = 0 /\ owed = FALSE /\ recorded = {}
  /\ acts = 0

-----------------------------------------------------------------------------
(* The plan. *)

Open == {i \in Step : plan[i].status \in {"Pending", "InProgress"}}
Blocked == {i \in Step : plan[i].status = "Blocked"}
Running == {i \in Step : plan[i].status = "InProgress"}
AtCompletion == Open = {} /\ Blocked = {}

\* Mutant: the batch of a step begins when it ends.
Generation_Closed == Cardinality({i \in Step : plan[i].status \in {"Completed", "Blocked"}}) - 1

\* The number of the mutation batch, one for each step that has begun.
Generation == Cardinality({i \in Step : plan[i].status # "Pending"}) - 1

\* Only the latest run of a command counts.
StatusFromEvidence(evidence) ==
  IF \E k \in DOMAIN evidence :
       /\ evidence[k].kind = "exit" /\ ~evidence[k].passed
       /\ \A l \in k + 1..Len(evidence) :
            ~(evidence[l].kind = "exit" /\ evidence[l].check = evidence[k].check)
  THEN "Blocked" ELSE "Completed"

\* Evidence goes to the step in progress, and nowhere when there is none.
AppendEvidence(evidence) ==
  [i \in Step |-> IF i \in Running
                  THEN [plan[i] EXCEPT !.evidence = @ \o evidence] ELSE plan[i]]

\* The places in evidence that speak of a check, and whether the last of them
\* passed or was declined.
Mentions(evidence, c) ==
  {k \in DOMAIN evidence : evidence[k].kind # "patch" /\ evidence[k].check = c}
LatestMention(evidence, c) ==
  CHOOSE k \in Mentions(evidence, c) : \A l \in Mentions(evidence, c) : l <= k
Settled(evidence, c) ==
  LET e == evidence[LatestMention(evidence, c)] IN e.kind = "declined" \/ e.passed

\* Whether what the turn observed last of a check settles it.
Upheld(c) == IF Mentions(buffer, c) = {} THEN c \in recorded ELSE Settled(buffer, c)
NowRecorded == {c \in Check : Upheld(c)}

AttachStepEvidence ==
  /\ plan' = AppendEvidence(buffer)
  /\ buffer' = <<>>
  /\ recorded' = IF Running = {} THEN recorded ELSE NowRecorded

-----------------------------------------------------------------------------
(* What the gate reads. *)

\* Mutant: the hashes are not compared.
Stale_Generation(c) == fold.runs[c].generation # Generation

Ran(c) == fold.runs[c].outcome # "none"
Stale(c) == fold.runs[c].generation # Generation \/ ~fold.runs[c].same

HasPatch(i, from) == \E k \in from..Len(plan[i].evidence) : plan[i].evidence[k] = Applied
MutationAfter(i, k) == HasPatch(i, k + 1) \/ \E j \in i + 1..N : HasPatch(j, 1)
StepIsCurrent(i) == /\ plan[i].status \in {"Completed", "Blocked"}
                    /\ \A j \in i + 1..N : plan[j].status = "Pending"

\* A step's evidence of the check is current, and it passed or was declined.
StepIsUpToDate(i, c) ==
  /\ Mentions(plan[i].evidence, c) # {} /\ StepIsCurrent(i)
  /\ ~MutationAfter(i, LatestMention(plan[i].evidence, c))
StepSettles(i, c) == StepIsUpToDate(i, c) /\ Settled(plan[i].evidence, c)

\* The last step that has evidence of the check; the verify_ steps come after
\* the plan's own and are never current.
LatestStep(c) == {i \in Step : /\ c \notin exits /\ Mentions(plan[i].evidence, c) # {}
                               /\ \A j \in i + 1..N : Mentions(plan[j].evidence, c) = {}}
PlanIsUpToDate(c) == \E i \in LatestStep(c) : StepIsUpToDate(i, c)
PlanSettles(c) == \E i \in LatestStep(c) : StepSettles(i, c)

Required == {plan[i].check : i \in Step} \ {NoCheck}
Floor == IF touched = {} THEN {} ELSE FloorChecks

\* A check the plan requires is read from the loop's run or from its own step.
RequiredIsMet(c) ==
  IF Ran(c) THEN ~Stale(c) /\ fold.runs[c].outcome \in {"passed", "declined"}
            ELSE \E i \in Step : /\ plan[i].check = c /\ StepSettles(i, c)
                                 /\ \A j \in 1..i - 1 : plan[j].check # c

\* A check only the floor requires may also have run in any step.
FloorIsMet(c) ==
  IF Ran(c) /\ ~Stale(c) THEN fold.runs[c].outcome \in {"passed", "declined"}
                         ELSE PlanSettles(c)

OnlyStepsOpen == /\ due = NoDue /\ ~fold.inProgress /\ Blocked = {}
                 /\ \A c \in Required : RequiredIsMet(c)
Eligible == Open = {} /\ OnlyStepsOpen /\ \A c \in Floor \ Required : FloorIsMet(c)

\* The floor checks an answer finds missing or stale.
FloorNeeded ==
  IF ~AtCompletion THEN {}
  ELSE {c \in Floor \ Required : (Ran(c) => Stale(c)) /\ ~PlanIsUpToDate(c)}

-----------------------------------------------------------------------------
Act == acts < MaxActs /\ acts' = acts + 1

\* Files get a new content, under every record that hashed them.
Disturbed(files) ==
  [fold EXCEPT !.runs = [c \in Check |->
     [fold.runs[c] EXCEPT !.same = @ /\ fold.runs[c].files \cap files = {}]]]
DisturbedRun(files) == [run EXCEPT !.same = @ /\ run.files \cap files = {}]

\* A new task, or the next turn of one; what called it stays on the stack.
Turn(status, repair, starter, frames) ==
  [task EXCEPT !.status = status, !.repair = repair, !.resumed = FALSE,
               !.starter = starter, !.frames = frames]

\* A pause returns through every caller; a resumed repair is closed by the
\* resume that ends it.
Resumed == [task EXCEPT !.resumed = TRUE, !.frames = 0, !.outer = task.repair]

\* Where a turn that has ended returns to.
Return(frames) == IF frames > 0 THEN "unwinding" ELSE "idle"

\* finish_verification_with_outcome's event.
Finished(outcome) == [fold EXCEPT !.finished = outcome, !.inProgress = FALSE]

-----------------------------------------------------------------------------
(* The turn. *)

InTurn == mode = "turn" /\ Act

\* The model runs a check as a command; one that needs approval pauses the
\* turn, which the user's approval resumes.
RunCommand ==
  /\ InTurn
  /\ \E c \in Check, passed \in BOOLEAN :
       /\ buffer' = Append(buffer, [kind |-> "exit", check |-> c, passed |-> passed])
       /\ task' = IF c \in NeedsApproval THEN Resumed ELSE task
       /\ asked' = IF c \in NeedsApproval THEN asked + 1 ELSE asked
  /\ UNCHANGED <<records, mode, run, patch, repairs, owed, recorded>>

DeclineCommand ==
  /\ InTurn
  /\ \E c \in NeedsApproval :
       /\ buffer' = Append(buffer, [kind |-> "declined", check |-> c])
  /\ task' = Resumed
  /\ asked' = asked + 1
  /\ UNCHANGED <<records, mode, run, patch, repairs, owed, recorded>>

\* Any other command the user approves, which succeeds and changes a file.
RunChangingCommand ==
  /\ InTurn
  /\ \E f \in File : /\ fold' = Disturbed({f}) /\ touched' = touched \cup {f}
  /\ due' = [kind |-> "command", checks |-> {}, starter |-> task.starter]
  /\ task' = Resumed
  /\ owed' = TRUE
  /\ asked' = asked + 1
  /\ UNCHANGED <<plan, exits, mode, buffer, run, patch, repairs, recorded>>

\* The running step is closed, or a blocked one judged again, on everything
\* observed; the next one starts unless this one is blocked.
CompleteStep ==
  /\ mode = "turn"
  /\ \E i \in IF Running # {} THEN Running
              ELSE {j \in Blocked : \A k \in Blocked : j <= k} :
       LET evidence == plan[i].evidence \o buffer
           status == StatusFromEvidence(evidence)
           pending == {j \in Step : status = "Completed" /\ plan[j].status = "Pending"}
       IN  plan' = [j \in Step |->
             IF j = i THEN [plan[i] EXCEPT !.evidence = evidence, !.status = status]
             ELSE IF j \in pending /\ \A k \in pending : j <= k
             THEN [plan[j] EXCEPT !.status = "InProgress"] ELSE plan[j]]
  /\ buffer' = <<>>
  /\ recorded' = NowRecorded
  /\ UNCHANGED <<exits, touched, due, fold, task, mode, run, patch, repairs, asked, owed, acts>>

\* The callers that record the state of a repair whose turn proposes a patch.
Recorders == task.frames + (IF task.outer THEN 1 ELSE 0)

ProposePatch ==
  /\ InTurn /\ Recorders <= 1
  /\ AttachStepEvidence
  /\ \E files \in SUBSET File \ {{}} : patch' = [undecided |-> files, applied |-> FALSE]
  /\ fold' = [fold EXCEPT !.repaired = @ \/ Recorders = 1]
  /\ task' = [task EXCEPT !.status = "waiting", !.frames = 0, !.outer = FALSE]
  /\ mode' = "patch"
  /\ UNCHANGED <<exits, touched, due, run, repairs, asked, owed>>

\* A recorded state may repeat an earlier one; the same patch recorded by a
\* second caller does.
RepairStalls ==
  /\ InTurn
  /\ \E at \in 1..Recorders :
       /\ IF at = 1 THEN fold.repaired ELSE at = 2
       /\ LET left == IF task.frames > at THEN task.frames - at ELSE 0
          IN  task' = Turn("failed", task.repair, task.starter, left) /\ mode' = Return(left)
  /\ AttachStepEvidence
  /\ fold' = [Finished("stalled") EXCEPT !.repaired = TRUE]
  /\ due' = NoDue
  /\ owed' = FALSE
  /\ UNCHANGED <<exits, touched, run, patch, repairs, asked>>

\* An answer is settled by the gate.
Answer ==
  /\ mode = "turn"
  /\ AttachStepEvidence
  /\ UNCHANGED <<exits, touched, due, fold>>
  /\ task' = [task EXCEPT !.status = IF Eligible' THEN "complete" ELSE "incomplete"]
  /\ mode' = "answered"
  /\ UNCHANGED <<run, patch, repairs, asked, owed, acts>>

\* The answer runs the floor's missing checks.
RunFloor ==
  /\ mode = "answered" /\ FloorNeeded # {}
  /\ due' = [kind |-> "floor", checks |-> FloorNeeded, starter |-> task.starter]
  /\ mode' = "due"
  /\ UNCHANGED <<plan, exits, touched, fold, task, buffer, run, patch, ghosts, acts>>

\* A turn resumed by a command runs the verification the command made due; a
\* resumed repair that ends without a patch is closed by its resume.
CommandIsDue == task.frames = 0 /\ task.resumed /\ due.kind \in {"command", "floor"}
AttemptIsOpen == fold.selected # {} /\ fold.finished = "none"
RepairIsOpen == /\ task.frames = 0 /\ task.outer /\ ~CommandIsDue
                /\ due # NoDue /\ AttemptIsOpen

VerifyAfterCommand ==
  /\ mode = "answered" /\ FloorNeeded = {} /\ CommandIsDue
  /\ task' = [task EXCEPT !.outer = FALSE]
  /\ mode' = "due"
  /\ UNCHANGED <<records, buffer, run, patch, ghosts, acts>>

\* Otherwise the turn is over, and returns to the repair that waits for it if
\* there is one.
EndTurn ==
  /\ mode = "answered" /\ FloorNeeded = {} /\ ~CommandIsDue /\ ~RepairIsOpen
  /\ task' = [task EXCEPT !.outer = FALSE]
  /\ mode' = Return(task.frames)
  /\ UNCHANGED <<records, buffer, run, patch, ghosts, acts>>

\* A repair whose turn brought no patch closes its attempt, whatever the turn
\* ended with.
CloseRepair ==
  /\ \/ mode = "unwinding"
     \/ mode = "answered" /\ FloorNeeded = {} /\ RepairIsOpen
  /\ fold' = Finished("no_repair")
  /\ due' = NoDue
  /\ LET left == IF mode = "unwinding" THEN task.frames - 1 ELSE 0
     IN  /\ task' = [task EXCEPT !.status = "failed", !.frames = left, !.outer = FALSE]
         /\ mode' = Return(left)
  /\ owed' = FALSE
  /\ UNCHANGED <<plan, exits, touched, buffer, run, patch, repairs, asked, recorded, acts>>

-----------------------------------------------------------------------------
(* The patch under review. *)

\* Whether an attempt waits for the patch of the task it started.
AttemptAwaits == task.starter /\ run.chosen # {} /\ fold.finished = "none"

\* Mutant: a rejected patch takes back what was due before it.
VerificationDue_Reset(p) ==
  [kind |-> IF p.applied THEN "patch" ELSE IF AttemptAwaits THEN "rejected" ELSE "none",
   checks |-> {}, starter |-> task.starter]

\* The last decision makes verification due, unless all files were rejected and
\* no attempt waits for the patch.
VerificationDue(p) ==
  IF p.undecided = {} /\ (p.applied \/ AttemptAwaits)
  THEN [kind |-> IF p.applied THEN "patch" ELSE "rejected", checks |-> {},
        starter |-> task.starter]
  ELSE due

\* The user applies or rejects some of the files. An applied patch is put on
\* the step in progress.
DecideFiles ==
  /\ mode = "patch"
  /\ \E files \in SUBSET patch.undecided \ {{}}, applied \in BOOLEAN :
       /\ patch' = [undecided |-> patch.undecided \ files, applied |-> patch.applied \/ applied]
       /\ IF applied
          THEN /\ plan' = AppendEvidence(<<Applied>>)
               /\ fold' = Disturbed(files)
               /\ touched' = touched \cup files
               /\ owed' = TRUE
               /\ recorded' = IF Running = {} THEN recorded ELSE {}
          ELSE UNCHANGED <<plan, fold, touched, owed, recorded>>
       /\ due' = VerificationDue(patch')
       /\ asked' = IF patch'.undecided = {} /\ ~patch'.applied /\ ~AttemptAwaits
                   THEN asked + 1 ELSE asked
       /\ mode' = IF patch'.undecided = {} THEN "idle" ELSE "patch"
  /\ UNCHANGED <<exits, task, buffer, run, repairs, acts>>

-----------------------------------------------------------------------------
(* The verification. *)

\* A repair patch of which nothing was applied.
CloseRejectedRepair ==
  /\ mode = "idle" /\ due.kind = "rejected"
  /\ fold' = Finished("no_repair")
  /\ due' = NoDue
  /\ task' = Turn("failed", FALSE, FALSE, 0)
  /\ owed' = FALSE
  /\ UNCHANGED <<plan, exits, touched, mode, buffer, run, patch, repairs, asked, recorded, acts>>

\* A required check of an open step waits for that step.
Deferred == {plan[i].check : i \in Open}
Proposed == IF due.checks # {} THEN due.checks
            ELSE IF AtCompletion THEN FloorChecks ELSE OwnChecks
\* Once per mutation batch: what passed in this one is not run again.
Chosen == {c \in Proposed \ Deferred : fold.runs[c].outcome = "passed" => Stale(c)}

\* Mutant: a repair's own patch does not count.
NextAttempt_OnlyFinished == IF fold.selected = {} \/ fold.finished = "none"
                            THEN fold.attempt ELSE fold.attempt + 1

NextAttempt == IF fold.selected = {} THEN 0
               ELSE IF due.starter \/ fold.finished # "none" THEN fold.attempt + 1
               ELSE fold.attempt

StartVerification ==
  /\ mode \in {"idle", "due"} /\ due.kind \in {"patch", "command", "floor"}
  /\ fold' = [fold EXCEPT !.attempt = NextAttempt, !.selected = @ \cup Chosen,
                          !.finished = "none", !.inProgress = TRUE]
  /\ run' = [chosen |-> Chosen, todo |-> Chosen \ NeedsApproval,
             awaiting |-> Chosen \cap NeedsApproval, files |-> touched, same |-> TRUE,
             stale |-> {c \in Check : Ran(c) /\ Stale(c)}]
  /\ exits' = exits \ Chosen
  /\ task' = Turn("running", FALSE, TRUE, task.frames)
  /\ mode' = "verifying"
  /\ UNCHANGED <<plan, touched, due, buffer, patch, ghosts, acts>>

\* The results of checks are recorded with the hashes taken at the start.
Results(checks, outcome) ==
  [fold EXCEPT !.runs = [c \in Check |->
     IF c \in checks THEN [outcome |-> outcome, generation |-> Generation,
                           files |-> run.files, same |-> run.same]
     ELSE fold.runs[c]]]

RunCheck ==
  /\ mode = "verifying"
  /\ \E c \in run.todo, outcome \in Outcome :
       /\ fold' = Results({c}, outcome)
       /\ run' = [run EXCEPT !.todo = @ \ {c}, !.stale = @ \ {c}]
       /\ exits' = exits \cup {c}
  /\ UNCHANGED <<plan, touched, due, task, mode, buffer, patch, ghosts, acts>>

PauseForChecks ==
  /\ mode = "verifying" /\ run.todo = {} /\ run.awaiting # {}
  /\ task' = [task EXCEPT !.status = "waiting", !.frames = 0, !.outer = FALSE]
  /\ mode' = "card"
  /\ UNCHANGED <<records, buffer, run, patch, ghosts, acts>>

DecideChecks ==
  /\ mode = "card"
  /\ \E declined \in SUBSET run.awaiting :
       /\ fold' = Results(declined, "declined")
       /\ run' = [run EXCEPT !.todo = run.awaiting \ declined, !.awaiting = {},
                             !.stale = @ \ declined]
  /\ task' = [task EXCEPT !.status = "running"]
  /\ mode' = "verifying"
  /\ UNCHANGED <<plan, exits, touched, due, buffer, patch, ghosts, acts>>

Verified == mode = "verifying" /\ run.todo = {} /\ run.awaiting = {}

\* The report covers every check the session ever selected.
Failed == {c \in fold.selected : \/ ~Ran(c)
                                 \/ /\ fold.runs[c].outcome \in {"introduced", "known"}
                                    /\ c \notin run.stale}
Outdated == {c \in fold.selected \cap run.stale : fold.runs[c].outcome # "declined"}
Passed == {c \in fold.selected \ run.stale : fold.runs[c].outcome = "passed"}
Targets(stale) == {c \in fold.selected \ stale : fold.runs[c].outcome = "introduced"}

\* Nothing failed: the gate settles the task, which goes on when open steps
\* are all that is in the way.
PassVerification ==
  /\ Verified /\ Failed \cup Outdated = {}
  /\ UNCHANGED <<plan, exits, touched>>
  /\ fold' = Finished(IF Passed = {} THEN "nothing" ELSE "passed")
  /\ due' = NoDue
  /\ IF Open # {} /\ OnlyStepsOpen'
     THEN task' = Turn("running", FALSE, TRUE, task.frames) /\ mode' = "turn"
     ELSE /\ task' = [task EXCEPT !.status = IF Eligible' THEN "complete" ELSE "incomplete",
                                  !.outer = FALSE]
          /\ mode' = Return(task.frames)
  /\ owed' = FALSE
  /\ UNCHANGED <<buffer, run, patch, repairs, asked, recorded, acts>>

MayRepair == Targets(run.stale) # {} /\ fold.attempt < Limit

FailVerification ==
  /\ Verified /\ Failed \cup Outdated # {} /\ ~MayRepair
  /\ fold' = Finished(IF Targets(run.stale) = {} THEN "failed" ELSE "exhausted")
  /\ due' = NoDue
  /\ task' = [task EXCEPT !.status = "failed", !.outer = FALSE]
  /\ mode' = Return(task.frames)
  /\ owed' = FALSE
  /\ UNCHANGED <<plan, exits, touched, buffer, run, patch, repairs, asked, recorded, acts>>

StartRepair ==
  /\ Verified /\ Failed \cup Outdated # {} /\ MayRepair
  /\ task' = Turn("running", TRUE, TRUE, task.frames + 1)
  /\ mode' = "turn"
  /\ repairs' = repairs + 1
  /\ UNCHANGED <<records, buffer, run, patch, asked, owed, recorded, acts>>

-----------------------------------------------------------------------------
(* The user, and the end of the process. *)

\* After the limit the user may start one more repair.
ContinueRepair ==
  /\ mode = "idle" /\ Act
  /\ fold.finished = "exhausted" /\ due = NoDue /\ task.status = "failed"
  /\ Targets({c \in Check : Stale(c)}) # {}
  /\ task' = Turn("running", TRUE, FALSE, 1)
  /\ mode' = "turn"
  /\ repairs' = 0 /\ asked' = 0
  /\ UNCHANGED <<records, buffer, run, patch, owed, recorded>>

\* Continue task, a typed turn, or recovery carries the plan on.
NextTurn ==
  /\ mode = "idle" /\ Act
  /\ task.status \in {"incomplete", "interrupted"} \/ Open # {}
  /\ task' = Turn("running", FALSE, FALSE, 0)
  /\ mode' = "turn"
  /\ repairs' = 0 /\ asked' = 0
  /\ UNCHANGED <<records, buffer, run, patch, owed, recorded>>

\* The user edits a file in their own editor.
UserEdit ==
  /\ Act
  /\ \E f \in touched : fold' = Disturbed({f}) /\ run' = DisturbedRun({f})
  /\ UNCHANGED <<plan, exits, touched, due, task, mode, buffer, patch, ghosts>>

\* What is paused or under review is on disk; what runs is not.
Crash ==
  /\ Act
  /\ mode \in {"turn", "answered", "due", "verifying", "unwinding"}
  /\ task' = [task EXCEPT !.status = IF @ = "running" THEN "interrupted" ELSE @,
                          !.resumed = FALSE, !.frames = 0, !.outer = FALSE]
  /\ run' = [run EXCEPT !.todo = {}, !.awaiting = {}]
  /\ mode' = "idle"
  /\ buffer' = <<>>
  /\ repairs' = 0 /\ asked' = 0
  /\ UNCHANGED <<records, patch, owed, recorded>>

Next ==
  \/ RunCommand \/ DeclineCommand \/ RunChangingCommand
  \/ CompleteStep \/ ProposePatch \/ RepairStalls
  \/ Answer \/ RunFloor \/ VerifyAfterCommand \/ EndTurn \/ CloseRepair
  \/ DecideFiles \/ CloseRejectedRepair
  \/ StartVerification \/ RunCheck \/ PauseForChecks \/ DecideChecks
  \/ PassVerification \/ FailVerification \/ StartRepair
  \/ ContinueRepair \/ NextTurn \/ UserEdit \/ Crash

Spec == Init /\ [][Next]_vars

-----------------------------------------------------------------------------
(* Correctness. *)

Settles == task'.status = "complete" /\ task.status # "complete"

\* A task is settled complete only when every check its plan or its files
\* require passed, or was declined by the user, in a verification whose files
\* have not changed since, or by the last command of it a step has the exit of,
\* with no patch on a step since. (Once all are closed, none takes either.)
CompleteIsVerified ==
  [][Settles => \A c \in (Required \cup Floor)' :
       \/ /\ fold'.runs[c].outcome \in {"passed", "declined"} /\ fold'.runs[c].same
       \/ c \in recorded']_vars

\* Between two turns the user or a restart starts, the loop starts no more
\* repair turns than the limit allows, but for one each time the user decides
\* a command or rejects a patch no attempt waits for.
RepairsAreBounded == repairs <= Limit + asked

\* When nothing runs and nothing waits for the user, a change that no
\* verification has reported on is still due for one: no crash, pause, nested
\* verification or repair loses it.
ChangesAreVerifiedOrDue == mode = "idle" /\ owed => due # NoDue

\* What the documentation says: the limit is a stop, and nothing but the user
\* starts another repair (chat.rs, finish_verification).
LimitIsAStop == repairs <= Limit

=============================================================================
