---------------------------- MODULE TaskSegments ----------------------------
(***************************************************************************)
(* The rounds of a worker's task: the pre-plan phase, the plan review that *)
(* approves a budget, the segments the budget is spent in, the pauses that *)
(* carry an open segment on disk, and the next task that carries the plan  *)
(* (chat.rs run_agentic_turn with task_segments.rs, session.rs).           *)
(*                                                                         *)
(* Rounds are counted exactly.  The input and the output total are one     *)
(* number of tokens: a request is estimated at one, and a call may cost    *)
(* more. The progress digest is whether it differs from the one the open   *)
(* segment started with.  The counters and the log of a segment's end are  *)
(* written in one append with the start of the next, so only starts are    *)
(* kept.  A request always fits the model's window, no token ceiling is    *)
(* configured (agent_max_task_tokens), and a carried plan is worked on,    *)
(* not replaced.                                                           *)
(***************************************************************************)
EXTENDS Integers, FiniteSets

CONSTANTS
  None,          \* no budget, tracker, turn, pause or recorded usage
  MaxTasks,      \* tasks of the session, in the order they are created
  Budgets,       \* the budgets a plan review may approve
  SegmentAction, SegmentExplore,   \* one ordinary segment
  PrePlanExplore,                  \* the configured pre-plan exploration
  TurnCap,       \* ABSOLUTE_TURN_ROUND_CAP
  Costs,         \* what a call may cost
  TokenCeiling,  \* the product's ceiling of a task's tokens
  MaxCrashes     \* bound on process deaths

Task == 1..MaxTasks
Least(m, n) == IF m < n THEN m ELSE n
Most(m, n) == IF m > n THEN m ELSE n

ASSUME BoundsAssumption ==
  /\ {MaxTasks, SegmentAction, SegmentExplore, PrePlanExplore, TurnCap} \subseteq Nat \ {0}
  /\ Costs \subseteq Nat \ {0} /\ MaxCrashes \in Nat /\ TokenCeiling \in Nat
  /\ Budgets \subseteq [action : Nat \ {0}, explore : Nat \ {0}, tokens : 1..TokenCeiling]

VARIABLES
  status,      \* each task's status, "absent" before it is created
  planOf,      \* its plan on record: none, proposed or approved
  carried,     \* the task its plan was carried from, by plan_resumed
  approved,    \* the budget its plan_approved carries
  usage,       \* the tokens recorded for it
  segments,    \* the newest segment_started event of each task
  instructed,  \* the tasks told that their pre-plan rounds are spent
  paused,      \* the paused turn on disk
  turn,        \* the turn running in memory
  spent,       \* history: the rounds the model really took in the newest task
  atApproval,  \* history: spent when its budget was approved
  crashes

durable == <<status, planOf, carried, approved, usage, segments, instructed, paused>>
vars == <<durable, turn, spent, atApproval, crashes>>

\* What the terminal outcomes of a bounded task settle it as.
Outcomes == {"task_budget_exhausted", "task_no_progress", "usage_unavailable",
             "preplan_exhausted"}
Statuses == Outcomes \cup {"absent", "running", "waiting", "ended", "tool_budget_exhausted",
                           "failed", "cancelled", "interrupted", "mismatch"}
Plan == {"none", "proposed", "approved"}
Budget == [action : Nat, explore : Nat, tokens : Nat]
Rounds == [action : Nat, explore : Nat]
Started == [segment : Nat \ {0}, totalAction : Nat, totalExplore : Nat]
Tracker == [segment : Nat, priorAction : Nat, priorExplore : Nat, actionAllowance : Nat,
            exploreAllowance : Nat, budget : Budget, preplan : BOOLEAN]
PauseState == [segment : Nat, action : Nat, explore : Nat, totalAction : Nat, totalExplore : Nat]
PausedTurn == [kind : {"decision", "plan", "fallback", "round_budget"}, task : Task,
               action : Nat, explore : Nat, extension : Nat, granted : Nat,
               answerNow : BOOLEAN, fallbackUsed : BOOLEAN, moved : BOOLEAN,
               segment : PauseState \cup {None}]
RunningTurn == [task : Task, action : Nat, explore : Nat, maxExplore : Nat, extension : Nat,
                optioned : Nat, answerNow : BOOLEAN, fallbackUsed : BOOLEAN, moved : BOOLEAN,
                tracker : Tracker \cup {None}, state : PauseState \cup {None},
                pc : {"enter", "top", "calling"}]

ASSUME NoneAssumption == /\ None \notin Nat /\ None \notin Started
                         /\ None \notin Tracker /\ None \notin PauseState

TypeOK ==
  /\ status \in [Task -> Statuses]
  /\ planOf \in [Task -> Plan]
  /\ carried \in [Task -> Task \cup {None}]
  /\ approved \in [Task -> Budgets \cup {None}]
  /\ usage \in [Task -> Nat \cup {None}]
  /\ segments \in [Task -> Started \cup {None}]
  /\ instructed \subseteq Task
  /\ paused \in PausedTurn \cup {None}
  /\ turn \in RunningTurn \cup {None}
  /\ spent \in Rounds /\ atApproval \in Rounds
  /\ crashes \in 0..MaxCrashes

NoRounds == [action |-> 0, explore |-> 0]

Init ==
  /\ status = [t \in Task |-> "absent"]
  /\ planOf = [t \in Task |-> "none"]
  /\ carried = [t \in Task |-> None]
  /\ approved = [t \in Task |-> None]
  /\ usage = [t \in Task |-> None]
  /\ segments = [t \in Task |-> None]
  /\ instructed = {}
  /\ paused = None
  /\ turn = None
  /\ spent = NoRounds /\ atApproval = NoRounds
  /\ crashes = 0

-----------------------------------------------------------------------------
(* What a turn finds in the log when it starts. *)

\* The plan_resumed edges lead from a task to those it continues.
Ancestry(t) == {s \in 1..t : \A r \in s + 1..t : carried[r] = r - 1}

Nearest(t, fact) ==
  LET with == {s \in Ancestry(t) : fact[s] # None}
  IN  IF with = {} THEN None ELSE fact[CHOOSE s \in with : \A r \in with : r <= s]

\* read_task_budget: the nearest approval on the way.
BudgetOf(t) == Nearest(t, approved)

\* The last event of read_task_segments.
LastStarted(t) == Nearest(t, segments)

PrePlanBudget ==
  [action |-> Most(PrePlanExplore, SegmentAction), explore |-> PrePlanExplore,
   tokens |-> TokenCeiling]

\* Mutants: what is left is not kept above zero; it does not cut the segment.
Resumed_Negative(budget, started, normalAction, preplan) ==
  [segment |-> started.segment, priorAction |-> started.totalAction,
   priorExplore |-> started.totalExplore,
   actionAllowance |-> Least(normalAction, budget.action - started.totalAction),
   exploreAllowance |-> Least(SegmentExplore, budget.explore - started.totalExplore),
   budget |-> budget, preplan |-> preplan]

Resumed_Whole(budget, started, normalAction, preplan) ==
  [segment |-> started.segment, priorAction |-> started.totalAction,
   priorExplore |-> started.totalExplore, actionAllowance |-> normalAction,
   exploreAllowance |-> SegmentExplore, budget |-> budget, preplan |-> preplan]

\* SegmentRunState::resumed: an ordinary segment, cut to what the budget has left.
Resumed(budget, started, normalAction, preplan) ==
  [segment |-> started.segment, priorAction |-> started.totalAction,
   priorExplore |-> started.totalExplore,
   actionAllowance |-> Least(normalAction, Most(0, budget.action - started.totalAction)),
   exploreAllowance |-> Least(SegmentExplore, Most(0, budget.explore - started.totalExplore)),
   budget |-> budget, preplan |-> preplan]

\* The first segment of a task counts the rounds before it into its totals.
FirstStart(t, action, explore) ==
  LET last == LastStarted(t)
  IN  [segment |-> IF last = None THEN 1 ELSE last.segment + 1,
       totalAction |-> action + IF last = None THEN 0 ELSE last.totalAction,
       totalExplore |-> explore + IF last = None THEN 0 ELSE last.totalExplore]

\* Mutant: a pause reports the open segment's rounds as the task's.
PauseStateOf_Segment(tracker, action, explore) ==
  IF tracker = None THEN None
  ELSE [segment |-> tracker.segment, action |-> action, explore |-> explore,
        totalAction |-> action, totalExplore |-> explore]

PauseStateOf(tracker, action, explore) ==
  IF tracker = None THEN None
  ELSE [segment |-> tracker.segment, action |-> action, explore |-> explore,
        totalAction |-> tracker.priorAction + action,
        totalExplore |-> tracker.priorExplore + explore]

\* validate_segment_resume
Describes(state, started, action, explore) ==
  /\ started # None
  /\ state.segment = started.segment
  /\ state.totalAction = started.totalAction + state.action
  /\ state.totalExplore = started.totalExplore + state.explore
  /\ action \in {state.action, state.action + 1}
  /\ explore = state.explore

\* task_segment_run_state: no tracker, the open segment's, or that of a new one.
RunState(t, action, explore, extension, state) ==
  LET budget == BudgetOf(t)
      last == LastStarted(t)
      normal == SegmentAction + extension
      fits == state = None \/ Describes(state, last, action, explore)
  IN  IF budget = None
      THEN IF planOf[t] # "none" \/ state = None
           THEN [ok |-> TRUE, tracker |-> None, start |-> None]
           ELSE [ok |-> fits, start |-> None,
                 tracker |-> IF fits THEN Resumed(PrePlanBudget, last, normal, TRUE) ELSE None]
      ELSE IF last # None \/ ~fits
           THEN [ok |-> fits, start |-> None,
                 tracker |-> IF fits THEN Resumed(budget, last, normal, FALSE) ELSE None]
           ELSE LET start == FirstStart(t, action, explore)
                IN  [ok |-> TRUE, start |-> start,
                     tracker |-> Resumed(budget, start, normal, FALSE)]

-----------------------------------------------------------------------------
(* A turn starts, or a paused one goes on. *)

\* The rounds its options grant are what it begins with, and what a pause saves.
Entering(from, action) ==
  [task |-> from.task, action |-> action, explore |-> from.explore, maxExplore |-> 0,
   extension |-> from.extension, optioned |-> from.extension, answerNow |-> from.answerNow,
   fallbackUsed |-> from.fallbackUsed, moved |-> from.moved, tracker |-> None,
   state |-> from.segment, pc |-> "enter"]

\* The first request, and then a Continue after a crash or an incomplete end, or
\* the work after a verification: each is a task of its own, which carries the
\* plan of the one before it.  (One that carries none is a first request again.)
CreateTask(t) ==
  /\ turn = None /\ paused = None /\ status[t] = "absent"
  /\ t > 1 => status[t - 1] # "absent" /\ planOf[t - 1] # "none"
  /\ status' = [status EXCEPT ![t] = "running"]
  /\ planOf' = [planOf EXCEPT ![t] = IF t > 1 THEN planOf[t - 1] ELSE "none"]
  /\ carried' = [carried EXCEPT ![t] = IF t > 1 THEN t - 1 ELSE None]
  /\ turn' = Entering([task |-> t, explore |-> 0, extension |-> 0, answerNow |-> FALSE,
                       fallbackUsed |-> FALSE, moved |-> t > 1, segment |-> None], 0)
  /\ spent' = NoRounds /\ atApproval' = NoRounds
  /\ UNCHANGED <<approved, usage, segments, instructed, paused, crashes>>

\* run_agentic_turn up to its loop.  A new segment takes the rounds so far as its
\* baseline and counts its own from zero.
EnterLoop ==
  /\ turn # None /\ turn.pc = "enter"
  /\ LET t == turn.task
         run == RunState(t, turn.action, turn.explore, turn.extension, turn.state)
         new == run.start # None
     IN  /\ segments' = [segments EXCEPT ![t] = IF new THEN run.start ELSE @]
         /\ status' = [status EXCEPT ![t] = IF run.ok THEN @ ELSE "mismatch"]
         /\ turn' = IF ~run.ok THEN None
                    ELSE [turn EXCEPT !.pc = "top", !.state = None, !.tracker = run.tracker,
                            !.action = IF new THEN 0 ELSE @,
                            !.explore = IF new THEN 0 ELSE @,
                            !.moved = @ /\ ~new,
                            !.maxExplore = IF run.tracker = None THEN SegmentExplore
                                           ELSE run.tracker.exploreAllowance]
  /\ UNCHANGED <<planOf, carried, approved, usage, instructed, paused, spent, atApproval, crashes>>

Waiting(kind) == turn = None /\ paused # None /\ paused.kind = kind

\* The saved turn is taken off the disk, and its turn enters the loop as next.
TakeOff(next) ==
  /\ paused' = None
  /\ status' = [status EXCEPT ![paused.task] = "running"]
  /\ turn' = next
  /\ UNCHANGED <<carried, usage, segments, instructed, spent, crashes>>

\* A command, check, question, page or tool call was decided: its round is over,
\* and what it showed may be progress.
ResumeDecision ==
  /\ Waiting("decision")
  /\ \E moved \in {paused.moved, TRUE} :
       TakeOff([Entering(paused, paused.action + 1) EXCEPT !.moved = moved])
  /\ UNCHANGED <<planOf, approved, atApproval>>

\* Another provider answers the refused call: the same round again.
ResumeFallback ==
  /\ Waiting("fallback")
  /\ TakeOff([Entering(paused, paused.action) EXCEPT !.fallbackUsed = TRUE])
  /\ UNCHANGED <<planOf, approved, atApproval>>

\* The review of a worker's plan approves it, perhaps revised, with a budget, in
\* one event.
ApprovePlan(budget) ==
  /\ Waiting("plan")
  /\ planOf' = [planOf EXCEPT ![paused.task] = "approved"]
  /\ approved' = [approved EXCEPT ![paused.task] = budget]
  /\ atApproval' = spent
  /\ \E moved \in {paused.moved, TRUE} :
       TakeOff([Entering(paused, paused.action + 1) EXCEPT !.moved = moved])

\* Declined: its steps are skipped, nothing is approved, and the turn goes on.
DeclinePlan ==
  /\ Waiting("plan")
  /\ TakeOff([Entering(paused, paused.action + 1) EXCEPT !.moved = TRUE])
  /\ UNCHANGED <<planOf, approved, atApproval>>

\* resume_round_budget: Continue, up to the turn's cap, or Answer now.
ContinueRounds ==
  /\ Waiting("round_budget") /\ paused.action < TurnCap
  /\ TakeOff(Entering([paused EXCEPT !.extension = paused.granted + SegmentAction], paused.action))
  /\ UNCHANGED <<planOf, approved, atApproval>>

AnswerNow ==
  /\ Waiting("round_budget")
  /\ TakeOff([Entering(paused, paused.action) EXCEPT !.answerNow = TRUE])
  /\ UNCHANGED <<planOf, approved, atApproval>>

-----------------------------------------------------------------------------
(* The top of the loop. *)

AtTop == turn # None /\ turn.pc = "top"

MaxRounds ==
  LET rounds == Least(SegmentAction + turn.extension, TurnCap)
  IN  IF turn.tracker = None THEN rounds ELSE Least(rounds, turn.tracker.actionAllowance)
ForceFinal == turn.action >= MaxRounds
AtCheckpoint == AtTop /\ ForceFinal /\ ~turn.answerNow

Planless == planOf[turn.task] = "none"
\* The tracker that decides at a checkpoint: a pre-plan one is over with a plan.
Deciding == turn.tracker # None /\ (turn.tracker.preplan => Planless)

Totals == [action |-> turn.tracker.priorAction + turn.action,
           explore |-> turn.tracker.priorExplore + turn.explore]
RoundsSpent(budget) == Totals.action >= budget.action \/ Totals.explore >= budget.explore
PrePlanSpent == Deciding /\ turn.tracker.preplan /\ RoundsSpent(turn.tracker.budget)

\* authorize_task_request: a request of one token, in what the budget has left.
RequestFits == usage[turn.task] # None /\ usage[turn.task] + 1 <= turn.tracker.budget.tokens

EndTurn(as) ==
  /\ turn' = None
  /\ status' = [status EXCEPT ![turn.task] = as]

\* A planless worker's first checkpoint opens its pre-plan phase.
StartPrePlan ==
  /\ AtCheckpoint /\ turn.tracker = None /\ Planless
  /\ LET start == FirstStart(turn.task, turn.action, turn.explore)
         tracker == Resumed(PrePlanBudget, start, SegmentAction + turn.extension, TRUE)
     IN  /\ segments' = [segments EXCEPT ![turn.task] = start]
         /\ turn' = [turn EXCEPT !.tracker = tracker, !.action = 0, !.explore = 0,
                       !.extension = 0, !.moved = FALSE,
                       !.maxExplore = tracker.exploreAllowance]
  /\ UNCHANGED <<status, planOf, carried, approved, usage, instructed, paused, spent, atApproval, crashes>>

\* The pre-plan rounds are spent: one segment more, to propose the plan.
AskForPlan ==
  /\ AtCheckpoint /\ PrePlanSpent /\ turn.task \notin instructed
  /\ instructed' = instructed \cup {turn.task}
  /\ turn' = [turn EXCEPT !.extension = @ + SegmentAction,
                !.tracker.actionAllowance = Most(@, turn.action + SegmentAction)]
  /\ UNCHANGED <<status, planOf, carried, approved, usage, segments, paused, spent, atApproval, crashes>>

\* decide_segment_continuation, and the exact request of the next segment.
Refusal ==
  CASE RoundsSpent(turn.tracker.budget) -> "task_budget_exhausted"
    [] usage[turn.task] = None -> "usage_unavailable"
    [] usage[turn.task] >= turn.tracker.budget.tokens -> "task_budget_exhausted"
    [] ~turn.moved -> "task_no_progress"
    [] ~RequestFits -> "task_budget_exhausted"
    [] OTHER -> "none"

\* append_task_segment_boundary: the next segment gets what is left, up to an
\* ordinary one.
CrossBoundary ==
  /\ AtCheckpoint /\ Deciding /\ ~PrePlanSpent /\ Refusal = "none"
  /\ LET start == [segment |-> turn.tracker.segment + 1,
                   totalAction |-> Totals.action, totalExplore |-> Totals.explore]
         tracker == Resumed(turn.tracker.budget, start, SegmentAction + turn.extension,
                            turn.tracker.preplan)
     IN  /\ segments' = [segments EXCEPT ![turn.task] = start]
         /\ turn' = [turn EXCEPT !.tracker = tracker, !.action = 0, !.explore = 0,
                       !.extension = 0, !.moved = FALSE,
                       !.maxExplore = tracker.exploreAllowance]
  /\ UNCHANGED <<status, planOf, carried, approved, usage, instructed, paused, spent, atApproval, crashes>>

\* No next segment: the task settles with its own outcome.
StopAtCheckpoint ==
  /\ AtCheckpoint /\ Deciding
  /\ IF PrePlanSpent
     THEN turn.task \in instructed /\ EndTurn("preplan_exhausted")
     ELSE Refusal # "none" /\ EndTurn(Refusal)
  /\ UNCHANGED <<planOf, carried, approved, usage, segments, instructed, paused, spent, atApproval, crashes>>

SavePause(kind, moved) ==
  /\ paused' = [kind |-> kind, task |-> turn.task, action |-> turn.action,
                explore |-> turn.explore, extension |-> turn.optioned, granted |-> 0,
                answerNow |-> turn.answerNow, fallbackUsed |-> turn.fallbackUsed,
                moved |-> moved,
                segment |-> PauseStateOf(turn.tracker, turn.action, turn.explore)]
  /\ EndTurn("waiting")

\* pause_for_round_budget: with a plan and no approved budget, as ever.
PauseForRounds ==
  /\ AtCheckpoint /\ ~Deciding /\ ~Planless
  /\ paused' = [kind |-> "round_budget", task |-> turn.task, action |-> turn.action,
                explore |-> turn.explore, extension |-> turn.optioned,
                granted |-> turn.extension, answerNow |-> FALSE, fallbackUsed |-> turn.fallbackUsed,
                moved |-> turn.moved, segment |-> None]
  /\ EndTurn("waiting")
  /\ UNCHANGED <<planOf, carried, approved, usage, segments, instructed, spent, atApproval, crashes>>

\* The request of this round, once it fits what the budget has left.
AskModel ==
  /\ AtTop /\ ~AtCheckpoint
  /\ turn.tracker # None => RequestFits
  /\ turn' = [turn EXCEPT !.pc = "calling"]
  /\ UNCHANGED <<durable, spent, atApproval, crashes>>

\* Mutant: a request that does not fit is prepared again.
RefuseRequest_Again ==
  /\ AtTop /\ ~AtCheckpoint /\ turn.tracker # None /\ ~RequestFits
  /\ UNCHANGED vars

RefuseRequest ==
  /\ AtTop /\ ~AtCheckpoint /\ turn.tracker # None /\ ~RequestFits
  /\ EndTurn(IF usage[turn.task] = None THEN "usage_unavailable" ELSE "task_budget_exhausted")
  /\ UNCHANGED <<planOf, carried, approved, usage, segments, instructed, paused, spent, atApproval, crashes>>

-----------------------------------------------------------------------------
(* What the model answers. *)

Calling == turn # None /\ turn.pc = "calling"
Charge(tokens) ==
  usage' = [usage EXCEPT ![turn.task] = tokens + IF @ = None THEN 0 ELSE @]
\* With the plan asked for, any other answer ends the task.
OnlyAPlanWillDo == turn.task \in instructed /\ Planless /\ turn.tracker # None
MayGoOn == Calling /\ ~ForceFinal /\ ~OnlyAPlanWillDo
NextRound(action, explore, shown) ==
  turn' = [turn EXCEPT !.pc = "top", !.action = @ + action, !.explore = @ + explore,
             !.moved = @ \/ shown]
Took(action, explore) ==
  spent' = [action |-> spent.action + action, explore |-> spent.explore + explore]

\* Reads within the allowance; repeated or further ones are an action round.
ReadRound(cost, shown) ==
  /\ MayGoOn /\ turn.explore < turn.maxExplore
  /\ Charge(cost) /\ NextRound(0, 1, shown) /\ Took(0, 1)
  /\ UNCHANGED <<status, planOf, carried, approved, segments, instructed, paused, atApproval, crashes>>

\* Any other round: calls that need nobody, a note of a hook, the plan reminder.
ActionRound(cost, shown) ==
  /\ MayGoOn
  /\ Charge(cost) /\ NextRound(1, 0, shown) /\ Took(1, 0)
  /\ UNCHANGED <<status, planOf, carried, approved, segments, instructed, paused, atApproval, crashes>>

ProposePlan(cost) ==
  /\ Calling /\ ~ForceFinal /\ Planless
  /\ planOf' = [planOf EXCEPT ![turn.task] = "proposed"]
  /\ Charge(cost) /\ NextRound(1, 0, TRUE) /\ Took(1, 0)
  /\ UNCHANGED <<status, carried, approved, segments, instructed, paused, atApproval, crashes>>

\* The first change under a plan nobody approved, perhaps of this very answer,
\* waits for the review.
PauseForReview(cost) ==
  /\ Calling /\ ~ForceFinal /\ planOf[turn.task] # "approved"
  /\ planOf' = [planOf EXCEPT ![turn.task] = "proposed"]
  /\ Charge(cost) /\ Took(1, 0)
  /\ SavePause("plan", turn.moved \/ Planless)
  /\ UNCHANGED <<carried, approved, segments, instructed, atApproval, crashes>>

PauseForDecision(cost) ==
  /\ MayGoOn
  /\ Charge(cost) /\ Took(1, 0) /\ SavePause("decision", turn.moved)
  /\ UNCHANGED <<planOf, carried, approved, segments, instructed, atApproval, crashes>>

\* The turn ends: an answer, a patch to review, or no plan when only a plan would do.
EndWith(cost) ==
  /\ Calling
  /\ Charge(cost)
  /\ \/ ~OnlyAPlanWillDo /\ EndTurn("ended")
     \/ ~OnlyAPlanWillDo /\ ForceFinal /\ EndTurn("tool_budget_exhausted")
     \/ OnlyAPlanWillDo /\ EndTurn("preplan_exhausted")
  /\ UNCHANGED <<planOf, carried, approved, segments, instructed, paused, spent, atApproval, crashes>>

\* The provider refuses: another one is offered once, or the task fails.
ProviderRefuses ==
  /\ Calling
  /\ Charge(0)
  /\ \/ ~turn.fallbackUsed /\ SavePause("fallback", turn.moved)
     \/ EndTurn("failed") /\ UNCHANGED paused
  /\ UNCHANGED <<planOf, carried, approved, segments, instructed, spent, atApproval, crashes>>

\* A stop, between the rounds or in a call; a run that called nobody records zero.
Stop ==
  /\ turn # None /\ turn.pc \in {"top", "calling"}
  /\ Charge(IF Calling THEN 1 ELSE 0)
  /\ EndTurn("cancelled")
  /\ UNCHANGED <<planOf, carried, approved, segments, instructed, paused, spent, atApproval, crashes>>

\* The process dies; the next launch settles the task it was running.
Crash ==
  /\ turn # None /\ crashes < MaxCrashes
  /\ crashes' = crashes + 1
  /\ EndTurn("interrupted")
  /\ UNCHANGED <<planOf, carried, approved, usage, segments, instructed, paused, spent, atApproval>>

Engine ==
  \/ EnterLoop \/ StartPrePlan \/ AskForPlan \/ CrossBoundary \/ StopAtCheckpoint
  \/ PauseForRounds \/ AskModel \/ RefuseRequest
Model ==
  \/ \E cost \in Costs :
       \/ \E shown \in BOOLEAN : ReadRound(cost, shown) \/ ActionRound(cost, shown)
       \/ ProposePlan(cost) \/ PauseForReview(cost) \/ PauseForDecision(cost) \/ EndWith(cost)
  \/ ProviderRefuses
User ==
  \/ \E t \in Task : CreateTask(t)
  \/ ResumeDecision \/ ResumeFallback \/ DeclinePlan \/ ContinueRounds \/ AnswerNow
  \/ \E budget \in Budgets : ApprovePlan(budget)
  \/ Stop

Next == Engine \/ Model \/ User \/ Crash

TurnGoesOn == Engine \/ Model

\* A turn in memory goes on: its own steps are taken and its calls are answered.
Fairness == WF_vars(TurnGoesOn)
Spec == Init /\ [][Next]_vars /\ Fairness

-----------------------------------------------------------------------------
NewestTask == Cardinality({t \in Task : status[t] # "absent"})

\* What the counters say is what was done: over segments, pauses and resumes, the
\* tracker's totals are the rounds the task took, and no task takes more rounds
\* than its approval allows it (those before the approval count), or than the
\* pre-plan phase and one segment to propose the plan.
RoundsStayWithinTheApproval ==
  \A t \in Task : t = NewestTask =>
    /\ turn # None /\ turn.pc # "enter" /\ turn.tracker # None /\ carried[t] = None =>
         Totals = spent
    /\ approved[t] # None =>
         /\ spent.action <= Most(approved[t].action, atApproval.action)
         /\ spent.explore <= Most(approved[t].explore, atApproval.explore)
    /\ planOf[t] = "none" =>
         /\ spent.action <= PrePlanBudget.action + SegmentAction
         /\ spent.explore <= Most(PrePlanExplore, SegmentExplore)

\* A paused turn always describes the segment that is open in the log: no order of
\* pauses, approvals and boundaries leaves one that resuming refuses.
PausedTurnCanGoOn == \A t \in Task : status[t] # "mismatch"

\* Whatever the model answers, a turn comes to an end or to a decision.
TurnComesToRest == turn # None ~> turn = None

\* Stated by the code and its documents, and not so: a task is only stopped for
\* missing usage when a call of its own was not recorded.
UsageIsOnlyMissingWhenLost == \A t \in Task : status[t] # "usage_unavailable"
=============================================================================
