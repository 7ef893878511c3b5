------------------------- MODULE TaskSegmentsProofs -------------------------
(* Theorems about `TaskSegments`, for any budgets, segments and bounds. *)
EXTENDS TaskSegments, TLAPS, FiniteSetTheorems, WellFoundedInduction

-----------------------------------------------------------------------------
(* What a turn finds in the log *)

\* Some task numbers have a greatest one.
LEMMA GreatestOfSome ==
  ASSUME NEW t \in Nat, NEW S \in SUBSET (1..t), S # {}
  PROVE  \E m \in S : \A r \in S : r <= m
<1> DEFINE D == {t - s : s \in S}
<1>1. \A s \in S : s \in Nat /\ t - s \in Nat
  OBVIOUS
<1>2. D \subseteq Nat /\ D # {}
  <2>1. D \subseteq Nat
    BY <1>1
  <2>2. PICK s \in S : TRUE
    OBVIOUS
  <2>3. t - s \in D
    BY <2>2
  <2> QED BY <2>1, <2>3
<1>3. \E x \in D : \A y \in D : ~ (<<y, x>> \in OpToRel(<, Nat))
  <2> HIDE DEF D
  <2> QED BY <1>2, NatLessThanWellFounded, WFMin
<1>4. PICK x \in D : \A y \in D : ~ (<<y, x>> \in OpToRel(<, Nat))
  BY <1>3
<1>5. \A y \in D : ~(y < x)
  BY <1>2, <1>4 DEF OpToRel
<1>6. PICK m \in S : x = t - m
  OBVIOUS
<1>7. \A r \in S : ~(t - r < t - m)
  BY <1>5, <1>6
<1> QED BY <1>7, <1>1

LEMMA TaskIsNat == Task \subseteq Nat \ {0} /\ \A t \in Task : 1..t \subseteq Task
  BY BoundsAssumption DEF Task

\* A search along the plan's tasks finds a fact of the kind, or nothing.
LEMMA NearestType ==
  ASSUME NEW S, NEW fact \in [Task -> S \cup {None}], NEW t \in Task
  PROVE  Nearest(t, fact) \in S \cup {None}
<1> DEFINE with == {s \in Ancestry(t) : fact[s] # None}
<1>1. CASE with = {}
  BY <1>1 DEF Nearest
<1>2. CASE with # {}
  <2>1. with \subseteq 1..t /\ with \subseteq Task /\ t \in Nat
    BY TaskIsNat DEF Ancestry
  <2>2. \E m \in with : \A r \in with : r <= m
    BY <1>2, <2>1, GreatestOfSome
  <2>3. (CHOOSE s \in with : \A r \in with : r <= s) \in with
    BY <2>2
  <2> QED BY <1>2, <2>1, <2>3 DEF Nearest
<1> QED BY <1>1, <1>2

\* A task's own fact is the nearest, whatever it continues.
LEMMA OwnIsNearest ==
  ASSUME NEW fact, NEW t \in Task, fact[t] # None, NEW way \in SUBSET (1..t), t \in way
  PROVE  /\ {s \in way : fact[s] # None} # {}
         /\ (CHOOSE s \in {q \in way : fact[q] # None} :
               \A r \in {q \in way : fact[q] # None} : r <= s) = t
<1> DEFINE with == {s \in way : fact[s] # None}
<1>1. t \in with /\ with \subseteq 1..t
  BY TaskIsNat
<1>2. \A s \in with : s \in Nat /\ s <= t
  BY <1>1, TaskIsNat
<1>3. \E s \in with : \A r \in with : r <= s
  BY <1>1, <1>2
<1>4. (CHOOSE s \in with : \A r \in with : r <= s) = t
  <2> DEFINE c == CHOOSE s \in with : \A r \in with : r <= s
  <2>1. c \in with /\ \A r \in with : r <= c
    BY <1>3
  <2> HIDE DEF c
  <2> QED BY <1>1, <1>2, <2>1, TaskIsNat
<1> QED BY <1>1, <1>4

LEMMA NearestOwn ==
  ASSUME NEW fact, NEW t \in Task, fact[t] # None
  PROVE  Nearest(t, fact) = fact[t]
<1>1. t \in Ancestry(t) /\ Ancestry(t) \subseteq 1..t
  BY TaskIsNat DEF Ancestry
<1> QED BY <1>1, OwnIsNearest DEF Nearest

LEMMA BudgetOfType ==
  ASSUME TypeOK, NEW t \in Task
  PROVE  BudgetOf(t) \in Budgets \cup {None}
  BY NearestType DEF TypeOK, BudgetOf

LEMMA LastStartedType ==
  ASSUME TypeOK, NEW t \in Task
  PROVE  LastStarted(t) \in Started \cup {None}
  BY NearestType DEF TypeOK, LastStarted

-----------------------------------------------------------------------------
(* Types *)

LEMMA BudgetsAreBudgets == Budgets \subseteq Budget
  BY BoundsAssumption DEF Budget

LEMMA PrePlanBudgetType == PrePlanBudget \in Budget
  BY BoundsAssumption DEF PrePlanBudget, Budget, Most

\* What is left of a budget is never negative.
LEMMA ResumedType ==
  ASSUME NEW budget \in Budget, NEW started \in Started, NEW normal \in Nat,
         NEW preplan \in BOOLEAN
  PROVE  Resumed(budget, started, normal, preplan) \in Tracker
  BY BoundsAssumption DEF Resumed, Tracker, Budget, Started, Least, Most

LEMMA FirstStartType ==
  ASSUME TypeOK, NEW t \in Task, NEW action \in Nat, NEW explore \in Nat
  PROVE  FirstStart(t, action, explore) \in Started
  BY LastStartedType DEF FirstStart, Started

LEMMA PauseStateOfType ==
  ASSUME NEW tracker \in Tracker \cup {None}, NEW action \in Nat, NEW explore \in Nat
  PROVE  PauseStateOf(tracker, action, explore) \in PauseState \cup {None}
  BY DEF PauseStateOf, PauseState, Tracker

LEMMA RunType ==
  ASSUME NEW ok \in BOOLEAN, NEW s \in Started \cup {None}, NEW k \in Tracker \cup {None}
  PROVE  [ok |-> ok, start |-> s, tracker |-> k] \in
           [ok : BOOLEAN, start : Started \cup {None}, tracker : Tracker \cup {None}]
  OBVIOUS

\* A turn that may go on has a tracker of its type, or none, and may start a
\* segment.
LEMMA RunStateType ==
  ASSUME TypeOK, NEW t \in Task, NEW action \in Nat, NEW explore \in Nat,
         NEW extension \in Nat, NEW state \in PauseState \cup {None}
  PROVE  RunState(t, action, explore, extension, state) \in
           [ok : BOOLEAN, start : Started \cup {None}, tracker : Tracker \cup {None}]
<1> DEFINE budget == BudgetOf(t)
           last == LastStarted(t)
           normal == SegmentAction + extension
           fits == state = None \/ Describes(state, last, action, explore)
<1>1. budget \in Budgets \cup {None} /\ last \in Started \cup {None} /\ normal \in Nat
  BY BudgetOfType, LastStartedType, BoundsAssumption
<1>2. fits \in BOOLEAN
  BY DEF Describes
<1>3. FirstStart(t, action, explore) \in Started
  BY FirstStartType
<1>4. ASSUME NEW b \in Budget, NEW started \in Started, NEW p \in BOOLEAN
      PROVE  Resumed(b, started, normal, p) \in Tracker
  BY <1>1, <1>4, ResumedType
<1> HIDE DEF budget, last, normal, fits
<1>5. CASE budget = None
  <2>1. CASE planOf[t] # "none" \/ state = None
    BY <1>5, <2>1 DEF RunState, budget
  <2>2. CASE ~(planOf[t] # "none" \/ state = None)
    <3>1. fits => last \in Started
      BY <1>1, <2>2 DEF Describes, fits
    <3>2. RunState(t, action, explore, extension, state) =
            [ok |-> fits, start |-> None,
             tracker |-> IF fits THEN Resumed(PrePlanBudget, last, normal, TRUE) ELSE None]
      BY <1>5, <2>2 DEF RunState, budget, last, normal, fits
    <3>3. fits => Resumed(PrePlanBudget, last, normal, TRUE) \in Tracker
      BY <1>4, <3>1, PrePlanBudgetType
    <3>4. (IF fits THEN Resumed(PrePlanBudget, last, normal, TRUE) ELSE None) \in Tracker \cup {None}
      BY <3>3
    <3>5. [ok |-> fits, start |-> None,
           tracker |-> IF fits THEN Resumed(PrePlanBudget, last, normal, TRUE) ELSE None]
             \in [ok : BOOLEAN, start : Started \cup {None}, tracker : Tracker \cup {None}]
      BY <1>2, <3>4, RunType
    <3> QED BY <3>2, <3>5
  <2> QED BY <2>1, <2>2
<1>6. CASE budget # None
  <2>1. budget \in Budget
    BY <1>1, <1>6, BudgetsAreBudgets
  <2>2. CASE last # None \/ ~fits
    <3>1. fits => last \in Started
      BY <1>1, <2>2
    <3>2. RunState(t, action, explore, extension, state) =
            [ok |-> fits, start |-> None,
             tracker |-> IF fits THEN Resumed(budget, last, normal, FALSE) ELSE None]
      BY <1>6, <2>2 DEF RunState, budget, last, normal, fits
    <3>3. fits => Resumed(budget, last, normal, FALSE) \in Tracker
      BY <1>4, <2>1, <3>1
    <3>4. (IF fits THEN Resumed(budget, last, normal, FALSE) ELSE None) \in Tracker \cup {None}
      BY <3>3
    <3>5. [ok |-> fits, start |-> None,
           tracker |-> IF fits THEN Resumed(budget, last, normal, FALSE) ELSE None]
             \in [ok : BOOLEAN, start : Started \cup {None}, tracker : Tracker \cup {None}]
      BY <1>2, <3>4, RunType
    <3> QED BY <3>2, <3>5
  <2>3. CASE ~(last # None \/ ~fits)
    <3>1. RunState(t, action, explore, extension, state) =
            [ok |-> TRUE, start |-> FirstStart(t, action, explore),
             tracker |-> Resumed(budget, FirstStart(t, action, explore), normal, FALSE)]
      BY <1>6, <2>3 DEF RunState, budget, last, normal, fits
    <3>2. Resumed(budget, FirstStart(t, action, explore), normal, FALSE) \in Tracker
      BY <1>3, <1>4, <2>1
    <3>3. [ok |-> TRUE, start |-> FirstStart(t, action, explore),
           tracker |-> Resumed(budget, FirstStart(t, action, explore), normal, FALSE)]
             \in [ok : BOOLEAN, start : Started \cup {None}, tracker : Tracker \cup {None}]
      BY <1>3, <3>2, RunType
    <3> QED BY <3>1, <3>3
  <2> QED BY <2>2, <2>3
<1> QED BY <1>5, <1>6

LEMMA EnteringType ==
  ASSUME NEW p \in PausedTurn, NEW action \in Nat
  PROVE  Entering(p, action) \in RunningTurn
  BY DEF Entering, PausedTurn, RunningTurn

LEMMA RunningType ==
  ASSUME TypeOK, turn # None
  PROVE  turn \in RunningTurn /\ turn.task \in Task
  BY DEF TypeOK, RunningTurn

LEMMA SavePauseType ==
  ASSUME TypeOK, turn # None, NEW kind \in {"decision", "plan", "fallback"},
         NEW moved \in BOOLEAN, SavePause(kind, moved)
  PROVE  paused' \in PausedTurn /\ turn' = None /\ status' \in [Task -> Statuses]
<1>1. turn \in RunningTurn
  BY RunningType
<1>2. PauseStateOf(turn.tracker, turn.action, turn.explore) \in PauseState \cup {None}
  BY <1>1, PauseStateOfType DEF RunningTurn
<1>3. paused' \in PausedTurn
  BY <1>1, <1>2 DEF SavePause, PausedTurn, RunningTurn
<1> QED BY <1>3 DEF SavePause, EndTurn, TypeOK, Statuses

LEMMA ChargeType ==
  ASSUME TypeOK, turn # None, NEW tokens \in Nat, Charge(tokens)
  PROVE  usage' \in [Task -> Nat \cup {None}]
<1> DEFINE before == IF usage[turn.task] = None THEN 0 ELSE usage[turn.task]
<1>1. before \in Nat
  BY RunningType DEF TypeOK
<1>2. usage' = [usage EXCEPT ![turn.task] = tokens + before]
  BY DEF Charge
<1>3. tokens + before \in Nat
  BY <1>1
<1> HIDE DEF before
<1> QED BY <1>2, <1>3 DEF TypeOK

LEMMA TookType ==
  ASSUME TypeOK, NEW action \in Nat, NEW explore \in Nat, Took(action, explore)
  PROVE  spent' \in Rounds
  BY DEF Took, TypeOK, Rounds

LEMMA NextRoundType ==
  ASSUME TypeOK, turn # None, NEW action \in Nat, NEW explore \in Nat, NEW shown \in BOOLEAN,
         NextRound(action, explore, shown)
  PROVE  turn' \in RunningTurn
<1>1. turn \in RunningTurn
  BY RunningType
<1>2. (turn.moved \/ shown) \in BOOLEAN
  OBVIOUS
<1>3. turn.action + action \in Nat /\ turn.explore + explore \in Nat
  BY <1>1 DEF RunningTurn
<1>4. ASSUME NEW moved \in BOOLEAN, NEW a \in Nat, NEW e \in Nat
      PROVE  [turn EXCEPT !.pc = "top", !.action = a, !.explore = e, !.moved = moved]
               \in RunningTurn
  BY <1>1 DEF RunningTurn
<1> QED BY <1>2, <1>3, <1>4 DEF NextRound

LEMMA EndTurnType ==
  ASSUME TypeOK, turn # None, NEW as \in Statuses, EndTurn(as)
  PROVE  turn' = None /\ status' \in [Task -> Statuses]
  BY DEF EndTurn, TypeOK

\* A segment that starts at a boundary: its event, and the turn counting from zero.
LEMMA NextSegmentType ==
  ASSUME TypeOK, turn # None, NEW start \in Started, NEW tracker \in Tracker
  PROVE  /\ [segments EXCEPT ![turn.task] = start] \in [Task -> Started \cup {None}]
         /\ [turn EXCEPT !.tracker = tracker, !.action = 0, !.explore = 0, !.extension = 0,
               !.moved = FALSE, !.maxExplore = tracker.exploreAllowance] \in RunningTurn
<1>1. tracker.exploreAllowance \in Nat
  BY DEF Tracker
<1>2. turn \in RunningTurn
  BY RunningType
<1>3. [turn EXCEPT !.tracker = tracker, !.action = 0, !.explore = 0, !.extension = 0,
         !.moved = FALSE, !.maxExplore = tracker.exploreAllowance] \in RunningTurn
  BY <1>1, <1>2 DEF RunningTurn
<1> QED BY <1>3 DEF TypeOK

LEMMA TotalsType ==
  ASSUME TypeOK, turn # None, turn.tracker # None
  PROVE  turn.tracker \in Tracker /\ Totals.action \in Nat /\ Totals.explore \in Nat
  BY RunningType DEF RunningTurn, Tracker, Totals

LEMMA EnterLoopType == ASSUME TypeOK, EnterLoop PROVE TypeOK'
<1> DEFINE run == RunState(turn.task, turn.action, turn.explore, turn.extension, turn.state)
           allowed == IF run.tracker = None THEN SegmentExplore ELSE run.tracker.exploreAllowance
<1>1. turn # None /\ turn \in RunningTurn /\ turn.task \in Task
  BY RunningType DEF EnterLoop
<1>2. run \in [ok : BOOLEAN, start : Started \cup {None}, tracker : Tracker \cup {None}]
  BY <1>1, RunStateType DEF RunningTurn
<1>3. allowed \in Nat
  BY <1>2, BoundsAssumption DEF Tracker
<1>4. segments' = [segments EXCEPT ![turn.task] =
                     IF run.start # None THEN run.start ELSE segments[turn.task]]
  BY DEF EnterLoop
<1>5. segments' \in [Task -> Started \cup {None}]
  BY <1>1, <1>2, <1>4 DEF TypeOK
<1>6. status' \in [Task -> Statuses]
  BY <1>1 DEF EnterLoop, TypeOK, Statuses
<1>7. turn' \in RunningTurn \cup {None}
  <2>1. ASSUME NEW a \in Nat, NEW e \in Nat, NEW moved \in BOOLEAN, NEW n \in Nat,
               NEW k \in Tracker \cup {None}
        PROVE  [turn EXCEPT !.pc = "top", !.state = None, !.tracker = k, !.action = a,
                  !.explore = e, !.moved = moved, !.maxExplore = n] \in RunningTurn
    BY <1>1 DEF RunningTurn
  <2>2. /\ (IF run.start # None THEN 0 ELSE turn.action) \in Nat
        /\ (IF run.start # None THEN 0 ELSE turn.explore) \in Nat
    BY <1>1 DEF RunningTurn
  <2>3. (turn.moved /\ ~(run.start # None)) \in BOOLEAN
    OBVIOUS
  <2>4. turn' = IF ~run.ok THEN None
                ELSE [turn EXCEPT !.pc = "top", !.state = None, !.tracker = run.tracker,
                        !.action = IF run.start # None THEN 0 ELSE turn.action,
                        !.explore = IF run.start # None THEN 0 ELSE turn.explore,
                        !.moved = turn.moved /\ ~(run.start # None),
                        !.maxExplore = allowed]
    BY DEF EnterLoop
  <2>5. run.tracker \in Tracker \cup {None}
    BY <1>2
  <2> HIDE DEF run, allowed
  <2> QED BY <1>3, <2>1, <2>2, <2>3, <2>4, <2>5
<1> QED BY <1>5, <1>6, <1>7 DEF EnterLoop, TypeOK

LEMMA TakeOffType ==
  ASSUME TypeOK, paused # None, NEW next \in RunningTurn, TakeOff(next)
  PROVE  /\ status' \in [Task -> Statuses] /\ paused' = None /\ turn' \in RunningTurn
         /\ UNCHANGED <<carried, usage, segments, instructed, spent, crashes>>
<1>1. paused \in PausedTurn /\ paused.task \in Task
  BY DEF TypeOK, PausedTurn
<1> QED BY <1>1 DEF TakeOff, TypeOK, Statuses

\* The turn of a decision that went on, with what it showed.
LEMMA DecidedType ==
  ASSUME TypeOK, paused # None, NEW moved \in BOOLEAN
  PROVE  [Entering(paused, paused.action + 1) EXCEPT !.moved = moved] \in RunningTurn
<1>1. paused \in PausedTurn /\ paused.action + 1 \in Nat
  BY DEF TypeOK, PausedTurn
<1>2. Entering(paused, paused.action + 1) \in RunningTurn
  BY <1>1, EnteringType
<1> QED BY <1>2 DEF RunningTurn

LEMMA ResumedTurnsType ==
  ASSUME TypeOK, \/ ResumeDecision \/ ResumeFallback \/ DeclinePlan \/ ContinueRounds
                 \/ AnswerNow \/ \E budget \in Budgets : ApprovePlan(budget)
  PROVE  TypeOK'
<1>0. paused # None /\ paused \in PausedTurn /\ paused.moved \in BOOLEAN /\ paused.action \in Nat
      /\ paused.task \in Task
  BY DEF TypeOK, PausedTurn, ResumeDecision, ResumeFallback, DeclinePlan, ContinueRounds,
         AnswerNow, ApprovePlan, Waiting
<1>1. CASE ResumeDecision
  <2>1. PICK moved \in {paused.moved, TRUE} :
          TakeOff([Entering(paused, paused.action + 1) EXCEPT !.moved = moved])
    BY <1>1 DEF ResumeDecision
  <2>2. [Entering(paused, paused.action + 1) EXCEPT !.moved = moved] \in RunningTurn
    BY <1>0, DecidedType
  <2> QED BY <1>0, <1>1, <2>1, <2>2, TakeOffType DEF ResumeDecision, TypeOK
<1>2. CASE ResumeFallback
  <2>0. Entering(paused, paused.action) \in RunningTurn
    BY <1>0, EnteringType
  <2>1. [Entering(paused, paused.action) EXCEPT !.fallbackUsed = TRUE] \in RunningTurn
    BY <2>0 DEF RunningTurn
  <2> QED BY <1>0, <1>2, <2>1, TakeOffType DEF ResumeFallback, TypeOK
<1>3. CASE DeclinePlan
  <2>1. [Entering(paused, paused.action + 1) EXCEPT !.moved = TRUE] \in RunningTurn
    BY <1>0, DecidedType
  <2> QED BY <1>0, <1>3, <2>1, TakeOffType DEF DeclinePlan, TypeOK
<1>4. CASE ContinueRounds
  <2>1. [paused EXCEPT !.extension = paused.granted + SegmentAction] \in PausedTurn
    BY <1>0, BoundsAssumption DEF PausedTurn
  <2>2. Entering([paused EXCEPT !.extension = paused.granted + SegmentAction], paused.action)
          \in RunningTurn
    BY <1>0, <2>1, EnteringType
  <2> QED BY <1>0, <1>4, <2>2, TakeOffType DEF ContinueRounds, TypeOK
<1>5. CASE AnswerNow
  <2>0. Entering(paused, paused.action) \in RunningTurn
    BY <1>0, EnteringType
  <2>1. [Entering(paused, paused.action) EXCEPT !.answerNow = TRUE] \in RunningTurn
    BY <2>0 DEF RunningTurn
  <2> QED BY <1>0, <1>5, <2>1, TakeOffType DEF AnswerNow, TypeOK
<1>6. ASSUME NEW budget \in Budgets, ApprovePlan(budget) PROVE TypeOK'
  <2>1. PICK moved \in {paused.moved, TRUE} :
          TakeOff([Entering(paused, paused.action + 1) EXCEPT !.moved = moved])
    BY <1>6 DEF ApprovePlan
  <2>2. [Entering(paused, paused.action + 1) EXCEPT !.moved = moved] \in RunningTurn
    BY <1>0, DecidedType
  <2>3. /\ planOf' \in [Task -> Plan] /\ approved' \in [Task -> Budgets \cup {None}]
        /\ atApproval' \in Rounds
    BY <1>6 DEF ApprovePlan, TypeOK, Plan
  <2> QED BY <1>0, <2>1, <2>2, <2>3, TakeOffType DEF TypeOK
<1> QED BY <1>1, <1>2, <1>3, <1>4, <1>5, <1>6

LEMMA CreateTaskType == ASSUME TypeOK, NEW t \in Task, CreateTask(t) PROVE TypeOK'
<1> DEFINE From(moved) == [task |-> t, explore |-> 0, extension |-> 0, answerNow |-> FALSE,
                           fallbackUsed |-> FALSE, moved |-> moved, segment |-> None]
<1>1. t \in Nat \ {0} /\ (t > 1 => t - 1 \in Task)
  BY BoundsAssumption DEF Task
<1>2. (t > 1) \in BOOLEAN
  OBVIOUS
<1>3. ASSUME NEW moved \in BOOLEAN PROVE Entering(From(moved), 0) \in RunningTurn
  BY DEF Entering, RunningTurn
<1>4. turn' = Entering(From(t > 1), 0)
  BY DEF CreateTask
<1> HIDE DEF From
<1>5. turn' \in RunningTurn
  BY <1>2, <1>3, <1>4
<1>6. status' \in [Task -> Statuses]
  BY DEF CreateTask, TypeOK, Statuses
<1>7. planOf' \in [Task -> Plan] /\ carried' \in [Task -> Task \cup {None}]
  BY <1>1 DEF CreateTask, TypeOK, Plan
<1>8. spent' \in Rounds /\ atApproval' \in Rounds
  BY DEF CreateTask, NoRounds, Rounds
<1> QED BY <1>5, <1>6, <1>7, <1>8 DEF CreateTask, TypeOK

LEMMA EngineType == ASSUME TypeOK, Engine PROVE TypeOK'
<1>1. CASE EnterLoop
  BY <1>1, EnterLoopType
<1>2. CASE StartPrePlan
  <2> DEFINE start == FirstStart(turn.task, turn.action, turn.explore)
             tracker == Resumed(PrePlanBudget, start, SegmentAction + turn.extension, TRUE)
  <2>1. turn # None /\ turn \in RunningTurn /\ turn.task \in Task
    BY <1>2, RunningType DEF StartPrePlan, AtCheckpoint, AtTop
  <2>2. start \in Started
    BY <2>1, FirstStartType DEF RunningTurn
  <2>3. SegmentAction + turn.extension \in Nat
    BY <2>1, BoundsAssumption DEF RunningTurn
  <2>4. tracker \in Tracker
    BY <2>2, <2>3, PrePlanBudgetType, ResumedType
  <2>5. /\ segments' = [segments EXCEPT ![turn.task] = start]
        /\ turn' = [turn EXCEPT !.tracker = tracker, !.action = 0, !.explore = 0,
                      !.extension = 0, !.moved = FALSE, !.maxExplore = tracker.exploreAllowance]
    BY <1>2 DEF StartPrePlan
  <2> HIDE DEF start, tracker
  <2>7. segments' \in [Task -> Started \cup {None}] /\ turn' \in RunningTurn
    BY <2>1, <2>2, <2>4, <2>5, NextSegmentType
  <2> QED BY <1>2, <2>7 DEF StartPrePlan, TypeOK
<1>3. CASE AskForPlan
  <2>1. /\ turn # None /\ turn \in RunningTurn /\ turn.task \in Task /\ turn.tracker # None
    BY <1>3, RunningType DEF AskForPlan, AtCheckpoint, AtTop, PrePlanSpent, Deciding
  <2>2. turn.tracker \in Tracker /\ turn.extension + SegmentAction \in Nat
        /\ turn.action + SegmentAction \in Nat
    BY <2>1, BoundsAssumption DEF RunningTurn
  <2>3. Most(turn.tracker.actionAllowance, turn.action + SegmentAction) \in Nat
    BY <2>2 DEF Most, Tracker
  <2>4. [turn.tracker EXCEPT !.actionAllowance =
           Most(turn.tracker.actionAllowance, turn.action + SegmentAction)] \in Tracker
    BY <2>2, <2>3 DEF Tracker
  <2>5. turn' \in RunningTurn
    BY <1>3, <2>1, <2>2, <2>4 DEF AskForPlan, RunningTurn
  <2> QED BY <1>3, <2>1, <2>5 DEF AskForPlan, TypeOK
<1>4. CASE CrossBoundary
  <2> DEFINE start == [segment |-> turn.tracker.segment + 1,
                       totalAction |-> Totals.action, totalExplore |-> Totals.explore]
             tracker == Resumed(turn.tracker.budget, start, SegmentAction + turn.extension,
                                turn.tracker.preplan)
  <2>1. turn # None /\ turn \in RunningTurn /\ turn.tracker # None
    BY <1>4, RunningType DEF CrossBoundary, AtCheckpoint, AtTop, Deciding
  <2>2. turn.tracker \in Tracker /\ start \in Started
    BY <2>1, TotalsType DEF Tracker, Started
  <2>3. SegmentAction + turn.extension \in Nat
    BY <2>1, BoundsAssumption DEF RunningTurn
  <2>4. turn.tracker.budget \in Budget /\ turn.tracker.preplan \in BOOLEAN
    BY <2>2 DEF Tracker
  <2>5. /\ segments' = [segments EXCEPT ![turn.task] = start]
        /\ turn' = [turn EXCEPT !.tracker = tracker, !.action = 0, !.explore = 0,
                      !.extension = 0, !.moved = FALSE, !.maxExplore = tracker.exploreAllowance]
    BY <1>4 DEF CrossBoundary
  <2> HIDE DEF start
  <2>6. tracker \in Tracker
    BY <2>2, <2>3, <2>4, ResumedType
  <2> HIDE DEF tracker
  <2>7. segments' \in [Task -> Started \cup {None}] /\ turn' \in RunningTurn
    BY <2>1, <2>2, <2>5, <2>6, NextSegmentType
  <2> QED BY <1>4, <2>7 DEF CrossBoundary, TypeOK
<1>5. CASE StopAtCheckpoint
  <2>1. turn # None
    BY <1>5 DEF StopAtCheckpoint, AtCheckpoint, AtTop
  <2>2. PICK as \in Statuses : EndTurn(as)
    BY <1>5 DEF StopAtCheckpoint, Refusal, Statuses, Outcomes
  <2> QED BY <1>5, <2>1, <2>2, EndTurnType DEF StopAtCheckpoint, TypeOK
<1>6. CASE PauseForRounds
  <2>1. turn # None /\ turn \in RunningTurn
    BY <1>6, RunningType DEF PauseForRounds, AtCheckpoint, AtTop
  <2>2. paused' \in PausedTurn
    BY <1>6, <2>1 DEF PauseForRounds, RunningTurn, PausedTurn
  <2> QED BY <1>6, <2>1, <2>2, EndTurnType DEF PauseForRounds, TypeOK, Statuses
<1>7. CASE AskModel
  <2>1. turn # None /\ turn \in RunningTurn
    BY <1>7, RunningType DEF AskModel, AtTop
  <2>2. turn' \in RunningTurn
    BY <1>7, <2>1 DEF AskModel, RunningTurn
  <2> QED BY <1>7, <2>2 DEF AskModel, TypeOK, durable
<1>8. CASE RefuseRequest
  <2>1. turn # None
    BY <1>8 DEF RefuseRequest, AtTop
  <2>2. PICK as \in Statuses : EndTurn(as)
    BY <1>8 DEF RefuseRequest, Statuses, Outcomes
  <2> QED BY <1>8, <2>1, <2>2, EndTurnType DEF RefuseRequest, TypeOK
<1> QED BY <1>1, <1>2, <1>3, <1>4, <1>5, <1>6, <1>7, <1>8 DEF Engine

LEMMA ModelType == ASSUME TypeOK, Model PROVE TypeOK'
<1>1. turn # None
  BY DEF Model, ReadRound, ActionRound, ProposePlan, PauseForReview, PauseForDecision, EndWith,
         ProviderRefuses, MayGoOn, Calling
<1>2. turn \in RunningTurn /\ turn.task \in Task /\ turn.moved \in BOOLEAN
  BY <1>1, RunningType DEF RunningTurn
<1>3. Costs \subseteq Nat
  BY BoundsAssumption
<1>4. ASSUME NEW cost \in Costs, NEW shown \in BOOLEAN,
             ReadRound(cost, shown) \/ ActionRound(cost, shown)
      PROVE  TypeOK'
  <2>1. PICK action \in Nat, explore \in Nat :
          NextRound(action, explore, shown) /\ Took(action, explore)
    BY <1>4 DEF ReadRound, ActionRound
  <2>2. turn' \in RunningTurn /\ spent' \in Rounds
    BY <1>1, <2>1, NextRoundType, TookType
  <2>3. usage' \in [Task -> Nat \cup {None}]
    BY <1>1, <1>3, <1>4, ChargeType DEF ReadRound, ActionRound
  <2> QED BY <1>4, <2>2, <2>3 DEF ReadRound, ActionRound, TypeOK
<1>5. ASSUME NEW cost \in Costs, ProposePlan(cost) PROVE TypeOK'
  <2>1. turn' \in RunningTurn /\ spent' \in Rounds /\ usage' \in [Task -> Nat \cup {None}]
    BY <1>1, <1>3, <1>5, NextRoundType, TookType, ChargeType DEF ProposePlan
  <2>2. planOf' \in [Task -> Plan]
    BY <1>5 DEF ProposePlan, TypeOK, Plan
  <2> QED BY <1>5, <2>1, <2>2 DEF ProposePlan, TypeOK
<1>6. ASSUME NEW cost \in Costs, PauseForReview(cost) PROVE TypeOK'
  <2>1. spent' \in Rounds /\ usage' \in [Task -> Nat \cup {None}]
    BY <1>1, <1>3, <1>6, TookType, ChargeType DEF PauseForReview
  <2>2. planOf' \in [Task -> Plan]
    BY <1>6 DEF PauseForReview, TypeOK, Plan
  <2>3. (turn.moved \/ Planless) \in BOOLEAN
    OBVIOUS
  <2>4. SavePause("plan", turn.moved \/ Planless)
    BY <1>6 DEF PauseForReview
  <2>5. paused' \in PausedTurn /\ turn' = None /\ status' \in [Task -> Statuses]
    BY <1>1, <2>3, <2>4, SavePauseType
  <2> QED BY <1>6, <2>1, <2>2, <2>5 DEF PauseForReview, TypeOK
<1>7. ASSUME NEW cost \in Costs, PauseForDecision(cost) PROVE TypeOK'
  <2>1. spent' \in Rounds /\ usage' \in [Task -> Nat \cup {None}]
    BY <1>1, <1>3, <1>7, TookType, ChargeType DEF PauseForDecision
  <2>2. SavePause("decision", turn.moved)
    BY <1>7 DEF PauseForDecision
  <2>3. paused' \in PausedTurn /\ turn' = None /\ status' \in [Task -> Statuses]
    BY <1>1, <1>2, <2>2, SavePauseType
  <2> QED BY <1>7, <2>1, <2>3 DEF PauseForDecision, TypeOK
<1>8. ASSUME NEW cost \in Costs, EndWith(cost) PROVE TypeOK'
  <2>1. usage' \in [Task -> Nat \cup {None}]
    BY <1>1, <1>3, <1>8, ChargeType DEF EndWith
  <2>2. PICK as \in Statuses : EndTurn(as)
    BY <1>8 DEF EndWith, Statuses, Outcomes
  <2> QED BY <1>1, <1>8, <2>1, <2>2, EndTurnType DEF EndWith, TypeOK
<1>9. CASE ProviderRefuses
  <2>1. usage' \in [Task -> Nat \cup {None}]
    BY <1>1, <1>9, ChargeType DEF ProviderRefuses
  <2>2. turn' = None /\ status' \in [Task -> Statuses] /\ paused' \in PausedTurn \cup {None}
    <3>1. CASE SavePause("fallback", turn.moved)
      BY <1>1, <1>2, <3>1, SavePauseType
    <3>2. CASE EndTurn("failed") /\ UNCHANGED paused
      BY <1>1, <3>2, EndTurnType DEF Statuses, TypeOK
    <3> QED BY <1>9, <3>1, <3>2 DEF ProviderRefuses
  <2> QED BY <1>9, <2>1, <2>2 DEF ProviderRefuses, TypeOK
<1> QED BY <1>4, <1>5, <1>6, <1>7, <1>8, <1>9 DEF Model

LEMMA TypeStep == ASSUME TypeOK, [Next]_vars PROVE TypeOK'
<1>1. CASE Engine
  BY <1>1, EngineType
<1>2. CASE Model
  BY <1>2, ModelType
<1>3. CASE User
  <2>1. CASE \E t \in Task : CreateTask(t)
    BY <2>1, CreateTaskType
  <2>2. CASE Stop
    <3>1. turn # None /\ usage' \in [Task -> Nat \cup {None}]
      BY <2>2, ChargeType DEF Stop
    <3>2. turn' = None /\ status' \in [Task -> Statuses]
      BY <2>2, <3>1, EndTurnType DEF Stop, Statuses
    <3> QED BY <2>2, <3>1, <3>2 DEF Stop, TypeOK
  <2> QED BY <1>3, <2>1, <2>2, ResumedTurnsType DEF User
<1>4. CASE Crash
  <2>1. turn' = None /\ status' \in [Task -> Statuses]
    BY <1>4, EndTurnType DEF Crash, Statuses
  <2>2. crashes' \in 0..MaxCrashes
    BY <1>4, BoundsAssumption DEF Crash, TypeOK
  <2> QED BY <1>4, <2>1, <2>2 DEF Crash, TypeOK
<1>5. CASE UNCHANGED vars
  BY <1>5 DEF vars, durable, TypeOK
<1> QED BY <1>1, <1>2, <1>3, <1>4, <1>5 DEF Next

LEMMA TypeInit == Init => TypeOK
  BY BoundsAssumption DEF Init, TypeOK, Statuses, Plan, NoRounds, Rounds

\* The counters of a turn never leave their types over any order of rounds, pauses,
\* resumes and boundaries: what SegmentRunState::resumed has left is never negative.
THEOREM TypeCorrect == Spec => []TypeOK
<1>1. TypeOK /\ [Next]_vars => TypeOK'
  BY TypeStep
<1> QED BY <1>1, TypeInit, PTL DEF Spec

-----------------------------------------------------------------------------
(* A paused turn can go on *)

\* What the tracker of a turn, and what a pause saved of it, say of the segment
\* that is open in the log.
TrackerMatches(tracker, started) ==
  /\ started # None
  /\ tracker.segment = started.segment
  /\ tracker.priorAction = started.totalAction
  /\ tracker.priorExplore = started.totalExplore

SegmentMatches ==
  /\ turn # None => paused = None
  /\ turn # None /\ turn.pc = "enter" /\ turn.state # None =>
       Describes(turn.state, LastStarted(turn.task), turn.action, turn.explore)
  /\ turn # None /\ turn.pc # "enter" /\ turn.tracker # None =>
       TrackerMatches(turn.tracker, LastStarted(turn.task))
  /\ paused # None /\ paused.segment # None =>
       /\ Describes(paused.segment, LastStarted(paused.task), paused.action, paused.explore)
       /\ paused.segment.action = paused.action
  /\ PausedTurnCanGoOn

\* Only the turn's task starts segments; what it starts is then the open one.
LEMMA LastIsStarted ==
  ASSUME TypeOK, NEW t \in Task, NEW start \in Started,
         segments' = [segments EXCEPT ![t] = start]
  PROVE  LastStarted(t)' = start
<1>1. segments'[t] = start /\ start # None
  BY NoneAssumption DEF TypeOK
<1>2. t \in Ancestry(t)' /\ Ancestry(t)' \subseteq 1..t
  BY TaskIsNat DEF Ancestry
<1>3. Nearest(t, segments)' = segments'[t]
  BY <1>1, <1>2, OwnIsNearest DEF Nearest
<1> QED BY <1>1, <1>3 DEF LastStarted

\* A step that leaves the log's segments and the tracker alone, or ends the turn.
LEMMA SameSegments ==
  ASSUME UNCHANGED <<carried, segments>>
  PROVE  \A t : LastStarted(t)' = LastStarted(t)
  BY DEF LastStarted, Nearest, Ancestry

LEMMA SavedMatches ==
  ASSUME TypeOK, SegmentMatches, turn # None, turn.pc # "enter",
         NEW kind \in {"decision", "plan", "fallback"}, NEW moved \in BOOLEAN,
         SavePause(kind, moved), UNCHANGED <<carried, segments>>
  PROVE  SegmentMatches'
<1> DEFINE saved == PauseStateOf(turn.tracker, turn.action, turn.explore)
<1>1. /\ paused'.task = turn.task /\ paused'.action = turn.action
      /\ paused'.explore = turn.explore /\ paused'.segment = saved
  BY DEF SavePause
<1>2. saved # None =>
        /\ turn.tracker # None
        /\ saved = [segment |-> turn.tracker.segment, action |-> turn.action,
                    explore |-> turn.explore,
                    totalAction |-> turn.tracker.priorAction + turn.action,
                    totalExplore |-> turn.tracker.priorExplore + turn.explore]
  BY DEF PauseStateOf
<1>3. turn.tracker # None => TrackerMatches(turn.tracker, LastStarted(turn.task))
  BY DEF SegmentMatches
<1>4. saved # None =>
        /\ Describes(saved, LastStarted(turn.task), turn.action, turn.explore)
        /\ saved.action = turn.action
  <2> HIDE DEF saved
  <2> QED BY <1>2, <1>3 DEF TrackerMatches, Describes
<1>5. turn' = None
  BY SavePauseType
<1>6. PausedTurnCanGoOn'
  BY RunningType DEF SegmentMatches, PausedTurnCanGoOn, SavePause, EndTurn, TypeOK
<1> HIDE DEF saved
<1> QED BY <1>1, <1>4, <1>5, <1>6, SameSegments DEF SegmentMatches

LEMMA EndedMatches ==
  ASSUME TypeOK, SegmentMatches, turn # None, NEW as \in Statuses \ {"mismatch"}, EndTurn(as),
         UNCHANGED <<paused, carried, segments>>
  PROVE  SegmentMatches'
<1>1. turn' = None
  BY DEF EndTurn
<1>2. PausedTurnCanGoOn'
  BY RunningType DEF SegmentMatches, PausedTurnCanGoOn, EndTurn, TypeOK
<1> QED BY <1>1, <1>2, SameSegments DEF SegmentMatches

\* A step within a segment, to the next round or into a call.
LEMMA RoundMatches ==
  ASSUME SegmentMatches, turn # None, turn.pc # "enter", turn'.pc # "enter",
         turn'.task = turn.task, turn'.tracker = turn.tracker,
         UNCHANGED <<paused, carried, segments, status>>
  PROVE  SegmentMatches'
  BY SameSegments DEF SegmentMatches, PausedTurnCanGoOn

\* A new segment: its tracker is made of its event.
LEMMA StartedMatches ==
  ASSUME TypeOK, SegmentMatches, turn # None, NEW start \in Started, NEW tracker,
         TrackerMatches(tracker, start),
         segments' = [segments EXCEPT ![turn.task] = start],
         turn'.pc # "enter", turn'.task = turn.task, turn'.tracker = tracker,
         UNCHANGED <<paused, carried, status>>
  PROVE  SegmentMatches'
<1>1. PICK t \in Task : t = turn.task
  BY RunningType
<1>2. LastStarted(t)' = start
  BY <1>1, LastIsStarted
<1>3. LastStarted(turn.task)' = start
  BY <1>1, <1>2
<1> QED BY <1>3 DEF SegmentMatches, PausedTurnCanGoOn

\* Going on with a saved state is entering with it; nothing refuses it.
LEMMA EnterLoopMatches == ASSUME TypeOK, SegmentMatches, EnterLoop PROVE SegmentMatches'
<1> DEFINE last == LastStarted(turn.task)
           run == RunState(turn.task, turn.action, turn.explore, turn.extension, turn.state)
<1>1. turn # None /\ turn \in RunningTurn /\ turn.task \in Task /\ turn.pc = "enter"
      /\ paused = None
  BY RunningType DEF EnterLoop, SegmentMatches
<1>2. turn.state # None => Describes(turn.state, last, turn.action, turn.explore)
  BY <1>1 DEF SegmentMatches
<1>3. run.ok
  BY <1>2 DEF RunState
<1>4. FirstStart(turn.task, turn.action, turn.explore) \in Started
  BY <1>1, FirstStartType DEF RunningTurn
<1>5. /\ run.start = None /\ run.tracker # None => TrackerMatches(run.tracker, last)
      /\ run.start # None => run.start \in Started /\ TrackerMatches(run.tracker, run.start)
  BY <1>2, <1>4, NoneAssumption DEF RunState, TrackerMatches, Describes, Resumed
<1>6. /\ turn'.pc = "top" /\ turn'.task = turn.task /\ turn'.tracker = run.tracker
      /\ paused' = None /\ carried' = carried
      /\ segments' = [segments EXCEPT ![turn.task] =
                        IF run.start # None THEN run.start ELSE segments[turn.task]]
  BY <1>1, <1>3 DEF EnterLoop, RunningTurn
<1>7. status' = status
  BY <1>3 DEF EnterLoop, TypeOK
<1> HIDE DEF run
<1>8. CASE run.start = None
  <2>1. segments' = segments
    BY <1>6, <1>8 DEF TypeOK
  <2>2. PICK t \in Task : t = turn.task
    BY <1>1
  <2>3. LastStarted(t)' = LastStarted(t)
    BY <1>6, <2>1, SameSegments
  <2>4. LastStarted(turn.task)' = last
    BY <1>6, <2>2, <2>3
  <2> QED BY <1>5, <1>6, <1>7, <1>8, <2>4 DEF SegmentMatches, PausedTurnCanGoOn
<1>9. CASE run.start # None
  <2>1. PICK t \in Task : t = turn.task
    BY <1>1
  <2>2. segments' = [segments EXCEPT ![t] = run.start]
    BY <1>6, <1>9, <2>1
  <2>3. PICK start \in Started : start = run.start
    BY <1>5, <1>9
  <2>4. LastStarted(t)' = start
    BY <2>2, <2>3, LastIsStarted
  <2>5. LastStarted(turn.task)' = run.start
    BY <1>6, <2>1, <2>3, <2>4
  <2> QED BY <1>5, <1>6, <1>7, <1>9, <2>5 DEF SegmentMatches, PausedTurnCanGoOn, TrackerMatches
<1> QED BY <1>8, <1>9

LEMMA ResumedMatches ==
  ASSUME TypeOK, SegmentMatches,
         \/ ResumeDecision \/ ResumeFallback \/ DeclinePlan \/ ContinueRounds
         \/ AnswerNow \/ \E budget \in Budgets : ApprovePlan(budget)
  PROVE  SegmentMatches'
<1>1. /\ paused # None /\ paused \in PausedTurn /\ paused.task \in Task
      /\ paused.action \in Nat
  BY DEF TypeOK, PausedTurn, ResumeDecision, ResumeFallback, DeclinePlan, ContinueRounds,
         AnswerNow, ApprovePlan, Waiting
<1>2. \E action \in {paused.action, paused.action + 1} :
        /\ turn'.pc = "enter" /\ turn'.task = paused.task /\ turn'.state = paused.segment
        /\ turn'.action = action /\ turn'.explore = paused.explore
  BY <1>1 DEF ResumeDecision, ResumeFallback, DeclinePlan, ContinueRounds, AnswerNow, ApprovePlan,
         TakeOff, Entering, PausedTurn
<1>3. /\ paused' = None /\ status' = [status EXCEPT ![paused.task] = "running"]
      /\ UNCHANGED <<carried, segments>>
  BY DEF ResumeDecision, ResumeFallback, DeclinePlan, ContinueRounds, AnswerNow, ApprovePlan, TakeOff
<1>4. PausedTurnCanGoOn'
  BY <1>1, <1>3 DEF SegmentMatches, PausedTurnCanGoOn, TypeOK
<1>5. paused.segment # None =>
        Describes(paused.segment, LastStarted(paused.task), turn'.action, turn'.explore)
  BY <1>1, <1>2 DEF SegmentMatches, Describes
<1>6. PICK t \in Task : t = paused.task
  BY <1>1
<1>7. LastStarted(t)' = LastStarted(t)
  BY <1>3, SameSegments
<1>8. LastStarted(turn.task)' = LastStarted(paused.task)
  BY <1>2, <1>6, <1>7
<1>9. turn'.state # None =>
        Describes(turn'.state, LastStarted(turn.task)', turn'.action, turn'.explore)
  BY <1>2, <1>5, <1>8
<1> QED BY <1>2, <1>3, <1>4, <1>9 DEF SegmentMatches

LEMMA CreatedMatches ==
  ASSUME TypeOK, SegmentMatches, NEW t \in Task, CreateTask(t)
  PROVE  SegmentMatches'
<1>1. turn'.pc = "enter" /\ turn'.state = None /\ paused' = None
  BY DEF CreateTask, Entering
<1>2. PausedTurnCanGoOn'
  BY DEF CreateTask, SegmentMatches, PausedTurnCanGoOn, TypeOK
<1> QED BY <1>1, <1>2 DEF SegmentMatches

LEMMA EngineMatches == ASSUME TypeOK, SegmentMatches, Engine PROVE SegmentMatches'
<1>1. CASE EnterLoop
  BY <1>1, EnterLoopMatches
<1>2. CASE StartPrePlan
  <2> DEFINE start == FirstStart(turn.task, turn.action, turn.explore)
             tracker == Resumed(PrePlanBudget, start, SegmentAction + turn.extension, TRUE)
  <2>1. turn # None /\ turn \in RunningTurn /\ turn.task \in Task /\ turn.pc = "top"
    BY <1>2, RunningType DEF StartPrePlan, AtCheckpoint, AtTop
  <2>2. start \in Started
    BY <2>1, FirstStartType DEF RunningTurn
  <2>3. TrackerMatches(tracker, start)
    BY <2>2, NoneAssumption DEF TrackerMatches, Resumed
  <2>4. /\ segments' = [segments EXCEPT ![turn.task] = start]
        /\ turn'.pc # "enter" /\ turn'.task = turn.task /\ turn'.tracker = tracker
        /\ UNCHANGED <<paused, carried, status>>
    BY <1>2, <2>1 DEF StartPrePlan, RunningTurn
  <2> HIDE DEF start, tracker
  <2> QED BY <2>1, <2>2, <2>3, <2>4, StartedMatches
<1>3. CASE AskForPlan
  <2>1. turn # None /\ turn \in RunningTurn /\ turn.pc = "top" /\ turn.tracker # None
    BY <1>3, RunningType DEF AskForPlan, AtCheckpoint, AtTop, PrePlanSpent, Deciding
  <2>2. turn.tracker \in Tracker
    BY <2>1 DEF RunningTurn
  <2>3. /\ turn'.pc = "top" /\ turn'.task = turn.task
        /\ turn'.tracker.segment = turn.tracker.segment
        /\ turn'.tracker.priorAction = turn.tracker.priorAction
        /\ turn'.tracker.priorExplore = turn.tracker.priorExplore
    BY <1>3, <2>1, <2>2 DEF AskForPlan, RunningTurn, Tracker
  <2>4. UNCHANGED <<paused, carried, segments, status>>
    BY <1>3 DEF AskForPlan
  <2>5. TrackerMatches(turn.tracker, LastStarted(turn.task))
    BY <2>1 DEF SegmentMatches
  <2>6. TrackerMatches(turn.tracker, LastStarted(turn.task))'
    BY <2>3, <2>4, <2>5, SameSegments DEF TrackerMatches
  <2> QED BY <2>1, <2>3, <2>4, <2>6, SameSegments DEF SegmentMatches, PausedTurnCanGoOn
<1>4. CASE CrossBoundary
  <2> DEFINE start == [segment |-> turn.tracker.segment + 1,
                       totalAction |-> Totals.action, totalExplore |-> Totals.explore]
             tracker == Resumed(turn.tracker.budget, start, SegmentAction + turn.extension,
                                turn.tracker.preplan)
  <2>1. /\ turn # None /\ turn \in RunningTurn /\ turn.pc = "top" /\ turn.tracker # None
    BY <1>4, RunningType DEF CrossBoundary, AtCheckpoint, AtTop, Deciding
  <2>2. start \in Started
    BY <2>1, TotalsType DEF Tracker, Started
  <2>3. TrackerMatches(tracker, start)
    BY <2>2, NoneAssumption DEF TrackerMatches, Resumed
  <2>4. /\ segments' = [segments EXCEPT ![turn.task] = start]
        /\ turn'.pc # "enter" /\ turn'.task = turn.task /\ turn'.tracker = tracker
        /\ UNCHANGED <<paused, carried, status>>
    BY <1>4, <2>1 DEF CrossBoundary, RunningTurn
  <2> HIDE DEF start, tracker
  <2> QED BY <2>1, <2>2, <2>3, <2>4, StartedMatches
<1>5. CASE StopAtCheckpoint
  <2>1. turn # None /\ UNCHANGED <<paused, carried, segments>>
    BY <1>5 DEF StopAtCheckpoint, AtCheckpoint, AtTop
  <2>2. PICK as \in Statuses \ {"mismatch"} : EndTurn(as)
    BY <1>5 DEF StopAtCheckpoint, Refusal, Statuses, Outcomes
  <2> QED BY <2>1, <2>2, EndedMatches
<1>6. CASE PauseForRounds
  <2>1. turn' = None /\ paused'.segment = None
    BY <1>6 DEF PauseForRounds, EndTurn
  <2>2. PausedTurnCanGoOn'
    BY <1>6 DEF PauseForRounds, EndTurn, SegmentMatches, PausedTurnCanGoOn, TypeOK
  <2> QED BY <2>1, <2>2 DEF SegmentMatches
<1>7. CASE AskModel
  <2>1. /\ turn # None /\ turn \in RunningTurn /\ turn.pc = "top"
    BY <1>7, RunningType DEF AskModel, AtTop
  <2>2. turn'.pc # "enter" /\ turn'.task = turn.task /\ turn'.tracker = turn.tracker
    BY <1>7, <2>1 DEF AskModel, RunningTurn
  <2> QED BY <1>7, <2>1, <2>2, RoundMatches DEF AskModel, durable
<1>8. CASE RefuseRequest
  <2>1. turn # None /\ UNCHANGED <<paused, carried, segments>>
    BY <1>8 DEF RefuseRequest, AtTop
  <2>2. PICK as \in Statuses \ {"mismatch"} : EndTurn(as)
    BY <1>8 DEF RefuseRequest, Statuses, Outcomes
  <2> QED BY <2>1, <2>2, EndedMatches
<1> QED BY <1>1, <1>2, <1>3, <1>4, <1>5, <1>6, <1>7, <1>8 DEF Engine

LEMMA ModelMatches == ASSUME TypeOK, SegmentMatches, Model PROVE SegmentMatches'
<1>1. turn # None /\ turn.pc = "calling" /\ UNCHANGED <<carried, segments>>
  BY DEF Model, ReadRound, ActionRound, ProposePlan, PauseForReview, PauseForDecision, EndWith,
         ProviderRefuses, MayGoOn, Calling
<1>2. turn \in RunningTurn /\ turn.moved \in BOOLEAN
  BY <1>1, RunningType DEF RunningTurn
<1>3. ASSUME NEW action, NEW explore, NEW shown, NextRound(action, explore, shown),
             UNCHANGED <<paused, status>>
      PROVE  SegmentMatches'
  <2>1. turn'.pc # "enter" /\ turn'.task = turn.task /\ turn'.tracker = turn.tracker
    BY <1>2, <1>3 DEF NextRound, RunningTurn
  <2> QED BY <1>1, <1>3, <2>1, RoundMatches
<1>4. ASSUME NEW cost \in Costs, NEW shown \in BOOLEAN,
             \/ ReadRound(cost, shown) \/ ActionRound(cost, shown) \/ ProposePlan(cost)
      PROVE  SegmentMatches'
  BY <1>3, <1>4 DEF ReadRound, ActionRound, ProposePlan
<1>5. ASSUME NEW cost \in Costs, PauseForReview(cost) PROVE SegmentMatches'
  <2>1. (turn.moved \/ Planless) \in BOOLEAN
    OBVIOUS
  <2>2. SavePause("plan", turn.moved \/ Planless)
    BY <1>5 DEF PauseForReview
  <2> QED BY <1>1, <2>1, <2>2, SavedMatches
<1>6. ASSUME NEW cost \in Costs, PauseForDecision(cost) PROVE SegmentMatches'
  <2>1. SavePause("decision", turn.moved)
    BY <1>6 DEF PauseForDecision
  <2> QED BY <1>1, <1>2, <2>1, SavedMatches
<1>7. ASSUME NEW cost \in Costs, EndWith(cost) PROVE SegmentMatches'
  <2>1. PICK as \in Statuses \ {"mismatch"} : EndTurn(as)
    BY <1>7 DEF EndWith, Statuses, Outcomes
  <2>2. UNCHANGED paused
    BY <1>7 DEF EndWith
  <2> QED BY <1>1, <2>1, <2>2, EndedMatches
<1>8. CASE ProviderRefuses
  <2>1. CASE SavePause("fallback", turn.moved)
    BY <1>1, <1>2, <2>1, SavedMatches
  <2>2. CASE EndTurn("failed") /\ UNCHANGED paused
    BY <1>1, <2>2, EndedMatches DEF Statuses
  <2> QED BY <1>8, <2>1, <2>2 DEF ProviderRefuses
<1> QED BY <1>4, <1>5, <1>6, <1>7, <1>8 DEF Model

LEMMA SegmentStep == ASSUME TypeOK, SegmentMatches, [Next]_vars PROVE SegmentMatches'
<1>1. CASE Engine
  BY <1>1, EngineMatches
<1>2. CASE Model
  BY <1>2, ModelMatches
<1>3. CASE User
  <2>1. CASE \E t \in Task : CreateTask(t)
    BY <2>1, CreatedMatches
  <2>2. CASE Stop
    BY <2>2, EndedMatches DEF Stop, Statuses
  <2> QED BY <1>3, <2>1, <2>2, ResumedMatches DEF User
<1>4. CASE Crash
  BY <1>4, EndedMatches DEF Crash, Statuses
<1>5. CASE UNCHANGED vars
  BY <1>5, SameSegments DEF vars, durable, SegmentMatches, PausedTurnCanGoOn
<1> QED BY <1>1, <1>2, <1>3, <1>4, <1>5 DEF Next

\* However pauses, approvals, boundaries, fallbacks and Continues are ordered, the
\* state a pause saved describes the segment that is open in the log, so
\* validate_segment_resume never refuses a turn that goes on.
THEOREM PausedTurnAlwaysGoesOn == Spec => []PausedTurnCanGoOn
<1>1. Init => SegmentMatches
  BY DEF Init, SegmentMatches, PausedTurnCanGoOn
<1>2. TypeOK /\ SegmentMatches /\ [Next]_vars => SegmentMatches'
  BY SegmentStep
<1>3. SegmentMatches => PausedTurnCanGoOn
  BY DEF SegmentMatches
<1> QED BY <1>1, <1>2, <1>3, TypeCorrect, PTL DEF Spec

-----------------------------------------------------------------------------
(* The rounds of a task stay within what was approved *)

\* The newest task: just those up to it were created.
Latest(t) == \A s \in Task : status[s] # "absent" <=> s <= t

\* The rounds the log has of a task, without those of the open segment.
BaseAction(t) == IF LastStarted(t) = None THEN 0 ELSE LastStarted(t).totalAction
BaseExplore(t) == IF LastStarted(t) = None THEN 0 ELSE LastStarted(t).totalExplore

\* Tasks are created in order; only the newest has a turn, and only the first has no
\* plan.
TaskOrder ==
  /\ \A s, t \in Task : s < t /\ status[t] # "absent" => status[s] # "absent"
  /\ \A t \in Task : status[t] = "absent" => segments[t] = None /\ approved[t] = None
  /\ \A t \in Task : status[t] # "absent" => (carried[t] = None <=> t = 1)
  /\ \A t \in Task : status[t] # "absent" /\ planOf[t] = "none" => t = 1 /\ approved[t] = None
  /\ turn # None => Latest(turn.task)
  /\ paused # None => Latest(paused.task)

\* A task that carries a plan on counts the earlier tasks' rounds too.
AtMost(t, m, n) == m <= n /\ (carried[t] = None => m = n)

\* The rounds taken are those the log has and those the turn, or its pause, counts.
Counted ==
  /\ turn # None =>
       /\ AtMost(turn.task, spent.action, BaseAction(turn.task) + turn.action)
       /\ AtMost(turn.task, spent.explore, BaseExplore(turn.task) + turn.explore)
  /\ paused # None =>
       /\ AtMost(paused.task, spent.action, BaseAction(paused.task) + paused.action
                   + IF paused.kind \in {"decision", "plan"} THEN 1 ELSE 0)
       /\ AtMost(paused.task, spent.explore, BaseExplore(paused.task) + paused.explore)

\* What a tracker allows its segment is what its budget has left.
WithinBudget(tracker) ==
  /\ tracker.actionAllowance <= Most(0, tracker.budget.action - tracker.priorAction)
  /\ tracker.exploreAllowance <= Most(0, tracker.budget.explore - tracker.priorExplore)

\* With an approval a turn is held to it; the pre-plan budget holds until the plan is
\* asked for.
Allowed ==
  turn # None /\ turn.pc # "enter" =>
    LET t == turn.task
        k == turn.tracker
    IN  /\ k # None => turn.maxExplore = k.exploreAllowance
        /\ k # None /\ (k.preplan => t \notin instructed) => WithinBudget(k)
        /\ k # None /\ k.preplan => k.budget = PrePlanBudget
        /\ approved[t] # None => k # None /\ ~k.preplan /\ k.budget = approved[t]

\* Before there is a plan no rounds are granted, and an open segment has a tracker.
PrePlan ==
  /\ turn # None /\ planOf[turn.task] = "none" =>
       /\ turn.optioned = 0
       /\ turn.pc = "enter" /\ turn.state = None => LastStarted(turn.task) = None
       /\ turn.pc = "enter" \/ turn.tracker = None => turn.extension = 0
       /\ turn.pc # "enter" /\ turn.tracker = None =>
            turn.maxExplore = SegmentExplore /\ LastStarted(turn.task) = None
       /\ turn.pc # "enter" /\ turn.tracker # None => turn.tracker.preplan
  /\ paused # None /\ planOf[paused.task] = "none" =>
       /\ paused.kind \in {"decision", "fallback"}
       /\ paused.extension = 0
       /\ paused.segment = None => LastStarted(paused.task) = None

\* What RoundsStayWithinTheApproval says of the newest task, and a little more.
Bounded ==
  \A t \in Task : Latest(t) =>
    /\ approved[t] # None =>
         /\ spent.action <= Most(approved[t].action, atApproval.action)
         /\ spent.explore <= Most(approved[t].explore, atApproval.explore)
    /\ planOf[t] = "none" =>
         /\ spent.action <= PrePlanBudget.action
         /\ spent.explore <= Most(PrePlanExplore, SegmentExplore)

RoundsInv == TaskOrder /\ Counted /\ Allowed /\ PrePlan /\ Bounded

-----------------------------------------------------------------------------
(* Steps that leave the log's segments alone *)

LEMMA SameBase ==
  ASSUME UNCHANGED <<carried, segments>>
  PROVE  \A t : /\ LastStarted(t)' = LastStarted(t)
               /\ BaseAction(t)' = BaseAction(t) /\ BaseExplore(t)' = BaseExplore(t)
  BY SameSegments DEF BaseAction, BaseExplore

LEMMA BaseType ==
  ASSUME TypeOK, NEW t \in Task
  PROVE  BaseAction(t) \in Nat /\ BaseExplore(t) \in Nat
  BY LastStartedType DEF BaseAction, BaseExplore, Started

\* No step but a creation makes another task the newest.
LEMMA SameLatest ==
  ASSUME \A s \in Task : status'[s] = "absent" <=> status[s] = "absent"
  PROVE  \A t : Latest(t)' <=> Latest(t)
  BY DEF Latest

LEMMA SameOrder ==
  ASSUME TaskOrder, \A s \in Task : status'[s] = "absent" <=> status[s] = "absent",
         UNCHANGED <<carried, segments>>,
         \A s \in Task : planOf'[s] = "none" => planOf[s] = "none",
         \A s \in Task :
           approved'[s] = approved[s] \/ (status[s] # "absent" /\ planOf'[s] # "none"),
         turn' # None => Latest(turn'.task), paused' # None => Latest(paused'.task)
  PROVE  TaskOrder'
<1>1. \A t : Latest(t)' <=> Latest(t)
  BY SameLatest
<1>2. turn' # None => Latest(turn.task)'
  BY DEF Latest
<1>3. paused' # None => Latest(paused.task)'
  BY DEF Latest
<1> QED BY <1>2, <1>3 DEF TaskOrder

\* A turn that ends: nothing is counted.
LEMMA EndedRounds ==
  ASSUME TypeOK, RoundsInv, turn # None, NEW as \in Statuses \ {"absent"}, EndTurn(as),
         UNCHANGED <<paused, carried, segments, approved, planOf, spent, atApproval>>
  PROVE  RoundsInv'
<1>1. turn' = None /\ status[turn.task] # "absent"
  BY RunningType DEF EndTurn, RoundsInv, TaskOrder, Latest, Task
<1>2. \A s \in Task : status'[s] = "absent" <=> status[s] = "absent"
  BY <1>1, RunningType DEF EndTurn, TypeOK
<1>3. TaskOrder'
  <2>1. \A s \in Task : planOf'[s] = "none" => planOf[s] = "none"
    OBVIOUS
  <2>2. \A s \in Task :
           approved'[s] = approved[s] \/ (status[s] # "absent" /\ planOf'[s] # "none")
    OBVIOUS
  <2>3. paused' # None => Latest(paused'.task)
    BY DEF RoundsInv, TaskOrder
  <2>4. TaskOrder
    BY DEF RoundsInv
  <2>5. turn' # None => Latest(turn'.task)
    BY <1>1
  <2> QED BY <1>2, <2>1, <2>2, <2>3, <2>4, <2>5, SameOrder
<1>4. Counted'
  BY <1>1, SameBase DEF RoundsInv, Counted, AtMost
<1>5. Allowed' /\ PrePlan'
  BY <1>1, SameBase DEF RoundsInv, Allowed, PrePlan
<1>6. Bounded'
  BY <1>2, SameLatest DEF RoundsInv, Bounded
<1> QED BY <1>3, <1>4, <1>5, <1>6 DEF RoundsInv

-----------------------------------------------------------------------------
(* A round fits *)

LEMMA RunningFacts ==
  ASSUME TypeOK, SegmentMatches, RoundsInv, turn # None, turn.pc # "enter"
  PROVE  /\ turn \in RunningTurn /\ turn.task \in Task /\ turn.action \in Nat /\ turn.explore \in Nat
         /\ Latest(turn.task) /\ status[turn.task] # "absent" /\ paused = None
         /\ spent.action \in Nat /\ spent.explore \in Nat
         /\ spent.action <= BaseAction(turn.task) + turn.action
         /\ spent.explore <= BaseExplore(turn.task) + turn.explore
         /\ turn.tracker # None =>
              /\ turn.tracker \in Tracker
              /\ turn.tracker.priorAction = BaseAction(turn.task)
              /\ turn.tracker.priorExplore = BaseExplore(turn.task)
<1>1. turn \in RunningTurn /\ turn.task \in Task /\ turn.action \in Nat /\ turn.explore \in Nat
  BY RunningType DEF RunningTurn
<1>2. Latest(turn.task) /\ status[turn.task] # "absent" /\ paused = None
  BY <1>1 DEF RoundsInv, TaskOrder, Latest, SegmentMatches, Task
<1>3. spent.action \in Nat /\ spent.explore \in Nat
  BY DEF TypeOK, Rounds
<1>4. turn.tracker # None =>
        /\ turn.tracker \in Tracker
        /\ turn.tracker.priorAction = BaseAction(turn.task)
        /\ turn.tracker.priorExplore = BaseExplore(turn.task)
  BY <1>1 DEF SegmentMatches, TrackerMatches, BaseAction, BaseExplore, RunningTurn
<1>5. /\ spent.action <= BaseAction(turn.task) + turn.action
      /\ spent.explore <= BaseExplore(turn.task) + turn.explore
  BY DEF RoundsInv, Counted, AtMost
<1> QED BY <1>1, <1>2, <1>3, <1>4, <1>5

\* What the loop lets a turn begin is within the approval, or the pre-plan phase.
LEMMA ActionFits ==
  ASSUME TypeOK, SegmentMatches, RoundsInv, turn # None, turn.pc # "enter", ~ForceFinal
  PROVE  /\ approved[turn.task] # None => spent.action + 1 <= approved[turn.task].action
         /\ planOf[turn.task] = "none" /\ ~OnlyAPlanWillDo =>
              spent.action + 1 <= PrePlanBudget.action
<1>1. /\ turn \in RunningTurn /\ turn.task \in Task /\ turn.action \in Nat /\ spent.action \in Nat
      /\ spent.action <= BaseAction(turn.task) + turn.action
      /\ turn.tracker # None => turn.tracker \in Tracker
                                /\ turn.tracker.priorAction = BaseAction(turn.task)
  BY RunningFacts
<1>2. BaseAction(turn.task) \in Nat
  BY <1>1, BaseType
<1>3. ASSUME turn.tracker # None, WithinBudget(turn.tracker)
      PROVE  spent.action + 1 <= turn.tracker.budget.action
  <2>1. turn.action < turn.tracker.actionAllowance
    BY <1>1, <1>3, BoundsAssumption DEF ForceFinal, MaxRounds, Least, RunningTurn, Tracker
  <2>2. turn.tracker.actionAllowance <=
          Most(0, turn.tracker.budget.action - turn.tracker.priorAction)
    BY <1>3 DEF WithinBudget
  <2>3. /\ turn.tracker.actionAllowance \in Nat /\ turn.tracker.budget.action \in Nat
        /\ turn.tracker.priorAction \in Nat
    BY <1>1, <1>3 DEF Tracker, Budget
  <2>4. turn.action < turn.tracker.budget.action - turn.tracker.priorAction
    BY <1>1, <2>1, <2>2, <2>3 DEF Most
  <2> QED BY <1>1, <1>2, <1>3, <2>3, <2>4
<1>4. ASSUME approved[turn.task] # None PROVE spent.action + 1 <= approved[turn.task].action
  <2>1. turn.tracker # None /\ ~turn.tracker.preplan /\ turn.tracker.budget = approved[turn.task]
    BY <1>4 DEF RoundsInv, Allowed
  <2>2. WithinBudget(turn.tracker)
    BY <2>1 DEF RoundsInv, Allowed
  <2> QED BY <1>3, <2>1, <2>2
<1>5. ASSUME planOf[turn.task] = "none", ~OnlyAPlanWillDo
      PROVE  spent.action + 1 <= PrePlanBudget.action
  <2>1. CASE turn.tracker = None
    <3>1. turn.extension = 0 /\ BaseAction(turn.task) = 0
      BY <1>5, <2>1 DEF RoundsInv, PrePlan, BaseAction
    <3>2. turn.action < SegmentAction
      BY <1>1, <2>1, <3>1, BoundsAssumption DEF ForceFinal, MaxRounds, Least
    <3> QED BY <1>1, <3>1, <3>2, BoundsAssumption DEF PrePlanBudget, Most
  <2>2. CASE turn.tracker # None
    <3>1. turn.tracker.preplan /\ turn.task \notin instructed
      BY <1>5, <2>2 DEF RoundsInv, PrePlan, OnlyAPlanWillDo, Planless
    <3>2. WithinBudget(turn.tracker) /\ turn.tracker.budget = PrePlanBudget
      BY <2>2, <3>1 DEF RoundsInv, Allowed
    <3> QED BY <1>3, <2>2, <3>2
  <2> QED BY <2>1, <2>2
<1> QED BY <1>4, <1>5

LEMMA ReadFits ==
  ASSUME TypeOK, SegmentMatches, RoundsInv, turn # None, turn.pc # "enter",
         turn.explore < turn.maxExplore
  PROVE  /\ approved[turn.task] # None => spent.explore + 1 <= approved[turn.task].explore
         /\ planOf[turn.task] = "none" /\ ~OnlyAPlanWillDo =>
              spent.explore + 1 <= Most(PrePlanExplore, SegmentExplore)
<1>1. /\ turn \in RunningTurn /\ turn.task \in Task /\ turn.explore \in Nat /\ spent.explore \in Nat
      /\ spent.explore <= BaseExplore(turn.task) + turn.explore
      /\ turn.tracker # None => turn.tracker \in Tracker
                                /\ turn.tracker.priorExplore = BaseExplore(turn.task)
  BY RunningFacts
<1>2. BaseExplore(turn.task) \in Nat
  BY <1>1, BaseType
<1>3. ASSUME turn.tracker # None, WithinBudget(turn.tracker)
      PROVE  spent.explore + 1 <= turn.tracker.budget.explore
  <2>1. turn.explore < turn.tracker.exploreAllowance
    BY <1>3 DEF RoundsInv, Allowed
  <2>2. turn.tracker.exploreAllowance <=
          Most(0, turn.tracker.budget.explore - turn.tracker.priorExplore)
    BY <1>3 DEF WithinBudget
  <2>3. /\ turn.tracker.exploreAllowance \in Nat /\ turn.tracker.budget.explore \in Nat
        /\ turn.tracker.priorExplore \in Nat
    BY <1>1, <1>3 DEF Tracker, Budget
  <2>4. turn.explore < turn.tracker.budget.explore - turn.tracker.priorExplore
    BY <1>1, <2>1, <2>2, <2>3 DEF Most
  <2> QED BY <1>1, <1>2, <1>3, <2>3, <2>4
<1>4. ASSUME approved[turn.task] # None PROVE spent.explore + 1 <= approved[turn.task].explore
  <2>1. turn.tracker # None /\ ~turn.tracker.preplan /\ turn.tracker.budget = approved[turn.task]
    BY <1>4 DEF RoundsInv, Allowed
  <2>2. WithinBudget(turn.tracker)
    BY <2>1 DEF RoundsInv, Allowed
  <2> QED BY <1>3, <2>1, <2>2
<1>5. ASSUME planOf[turn.task] = "none", ~OnlyAPlanWillDo
      PROVE  spent.explore + 1 <= Most(PrePlanExplore, SegmentExplore)
  <2>1. CASE turn.tracker = None
    <3>1. turn.maxExplore = SegmentExplore /\ BaseExplore(turn.task) = 0
      BY <1>5, <2>1 DEF RoundsInv, PrePlan, BaseExplore
    <3> QED BY <1>1, <3>1, BoundsAssumption DEF Most
  <2>2. CASE turn.tracker # None
    <3>1. turn.tracker.preplan /\ turn.task \notin instructed
      BY <1>5, <2>2 DEF RoundsInv, PrePlan, OnlyAPlanWillDo, Planless
    <3>2. WithinBudget(turn.tracker) /\ turn.tracker.budget = PrePlanBudget
      BY <2>2, <3>1 DEF RoundsInv, Allowed
    <3>3. spent.explore + 1 <= PrePlanExplore
      BY <1>3, <2>2, <3>2 DEF PrePlanBudget
    <3> QED BY <1>1, <3>3, BoundsAssumption DEF Most
  <2> QED BY <2>1, <2>2
<1> QED BY <1>4, <1>5

-----------------------------------------------------------------------------
(* The steps of a running turn *)

LEMMA OneLatest ==
  ASSUME NEW t \in Task, NEW u \in Task, Latest(t), Latest(u)
  PROVE  t = u
<1>1. t \in Nat /\ u \in Nat
  BY DEF Task
<1>2. t <= u /\ u <= t
  BY <1>1 DEF Latest
<1> QED BY <1>1, <1>2

\* A round that fits, of the newest task, is within what it was allowed.
LEMMA TookWithin ==
  ASSUME TypeOK, SegmentMatches, RoundsInv, turn # None, turn.pc # "enter",
         NEW a \in {0, 1}, NEW e \in {0, 1}, Took(a, e),
         a = 1 => ~ForceFinal, e = 1 => turn.explore < turn.maxExplore,
         \/ UNCHANGED planOf /\ ~OnlyAPlanWillDo
         \/ planOf' = [planOf EXCEPT ![turn.task] = "proposed"],
         \A s \in Task : status'[s] = "absent" <=> status[s] = "absent",
         UNCHANGED <<approved, atApproval>>
  PROVE  Bounded'
<1> SUFFICES ASSUME NEW t \in Task, Latest(t)'
             PROVE  /\ approved[t] # None =>
                         /\ spent'.action <= Most(approved[t].action, atApproval.action)
                         /\ spent'.explore <= Most(approved[t].explore, atApproval.explore)
                    /\ planOf'[t] = "none" =>
                         /\ spent'.action <= PrePlanBudget.action
                         /\ spent'.explore <= Most(PrePlanExplore, SegmentExplore)
  BY DEF Bounded
<1>1. t = turn.task
  BY SameLatest, RunningFacts, OneLatest
<1>2. spent'.action = spent.action + a /\ spent'.explore = spent.explore + e
  BY DEF Took
<1>3. spent.action \in Nat /\ spent.explore \in Nat
  BY DEF TypeOK, Rounds
<1>4. ASSUME approved[t] # None
      PROVE  /\ spent'.action <= Most(approved[t].action, atApproval.action)
             /\ spent'.explore <= Most(approved[t].explore, atApproval.explore)
  <2>1. /\ spent.action <= Most(approved[t].action, atApproval.action)
        /\ spent.explore <= Most(approved[t].explore, atApproval.explore)
    BY <1>1, <1>4, RunningFacts DEF RoundsInv, Bounded
  <2>2. /\ a = 1 => spent.action + 1 <= approved[t].action
        /\ e = 1 => spent.explore + 1 <= approved[t].explore
    BY <1>1, <1>4, ActionFits, ReadFits
  <2>3. /\ approved[t].action \in Nat /\ approved[t].explore \in Nat
        /\ atApproval.action \in Nat /\ atApproval.explore \in Nat
    BY <1>4, BudgetsAreBudgets DEF TypeOK, Budget, Rounds
  <2>4. a = 0 \/ a = 1
    OBVIOUS
  <2>5. e = 0 \/ e = 1
    OBVIOUS
  <2>6. spent'.action <= Most(approved[t].action, atApproval.action)
    BY <1>2, <1>3, <2>1, <2>2, <2>3, <2>4 DEF Most
  <2>7. spent'.explore <= Most(approved[t].explore, atApproval.explore)
    BY <1>2, <1>3, <2>1, <2>2, <2>3, <2>5 DEF Most
  <2> QED BY <2>6, <2>7
<1>5. ASSUME planOf'[t] = "none"
      PROVE  /\ spent'.action <= PrePlanBudget.action
             /\ spent'.explore <= Most(PrePlanExplore, SegmentExplore)
  <2>1. UNCHANGED planOf /\ ~OnlyAPlanWillDo
    BY <1>1, <1>5, RunningFacts DEF TypeOK
  <2>2. /\ spent.action <= PrePlanBudget.action
        /\ spent.explore <= Most(PrePlanExplore, SegmentExplore)
    BY <1>1, <1>5, <2>1, RunningFacts DEF RoundsInv, Bounded
  <2>3. /\ a = 1 => spent.action + 1 <= PrePlanBudget.action
        /\ e = 1 => spent.explore + 1 <= Most(PrePlanExplore, SegmentExplore)
    BY <1>1, <1>5, <2>1, ActionFits, ReadFits
  <2>4. a = 0 \/ a = 1
    OBVIOUS
  <2>5. e = 0 \/ e = 1
    OBVIOUS
  <2>6. spent'.action <= PrePlanBudget.action
    BY <1>2, <1>3, <2>2, <2>3, <2>4
  <2>7. spent'.explore <= Most(PrePlanExplore, SegmentExplore)
    BY <1>2, <1>3, <2>2, <2>3, <2>5
  <2> QED BY <2>6, <2>7
<1> QED BY <1>4, <1>5

LEMMA RoundTaken ==
  ASSUME TypeOK, SegmentMatches, RoundsInv, turn # None, turn.pc # "enter",
         NEW a \in {0, 1}, NEW e \in {0, 1}, NEW shown, NextRound(a, e, shown), Took(a, e),
         a = 1 => ~ForceFinal, e = 1 => turn.explore < turn.maxExplore,
         \/ UNCHANGED planOf /\ ~OnlyAPlanWillDo
         \/ planOf' = [planOf EXCEPT ![turn.task] = "proposed"],
         UNCHANGED <<status, carried, approved, segments, instructed, paused, atApproval>>
  PROVE  RoundsInv'
<1>1. /\ turn \in RunningTurn /\ turn.task \in Task /\ turn.action \in Nat /\ turn.explore \in Nat
      /\ Latest(turn.task) /\ paused = None /\ spent.action \in Nat /\ spent.explore \in Nat
  BY RunningFacts
<1>2. /\ turn'.pc = "top" /\ turn'.task = turn.task /\ turn'.tracker = turn.tracker
      /\ turn'.maxExplore = turn.maxExplore /\ turn'.extension = turn.extension
      /\ turn'.optioned = turn.optioned
      /\ turn'.action = turn.action + a /\ turn'.explore = turn.explore + e
  BY <1>1 DEF NextRound, RunningTurn
<1>3. spent'.action = spent.action + a /\ spent'.explore = spent.explore + e
  BY DEF Took
<1>4. \A s \in Task : planOf'[s] = "none" => planOf[s] = "none"
  BY <1>1 DEF TypeOK
<1>5. TaskOrder'
  <2>1. \A s \in Task : status'[s] = "absent" <=> status[s] = "absent"
    OBVIOUS
  <2>2. \A s \in Task :
           approved'[s] = approved[s] \/ (status[s] # "absent" /\ planOf'[s] # "none")
    OBVIOUS
  <2>3. turn' # None => Latest(turn'.task)
    BY <1>1, <1>2
  <2>4. paused' # None => Latest(paused'.task)
    BY <1>1
  <2>5. TaskOrder
    BY DEF RoundsInv
  <2> QED BY <1>4, <2>1, <2>2, <2>3, <2>4, <2>5, SameOrder
<1>6. BaseAction(turn.task) \in Nat /\ BaseExplore(turn.task) \in Nat
  BY <1>1, BaseType
<1>7. Counted'
  <2>1. /\ AtMost(turn.task, spent.action, BaseAction(turn.task) + turn.action)
        /\ AtMost(turn.task, spent.explore, BaseExplore(turn.task) + turn.explore)
    BY DEF RoundsInv, Counted
  <2>2. /\ BaseAction(turn.task)' = BaseAction(turn.task)
        /\ BaseExplore(turn.task)' = BaseExplore(turn.task)
    BY <1>2, SameBase DEF BaseAction, BaseExplore, LastStarted, Nearest, Ancestry
  <2>3. a \in Nat /\ e \in Nat
    OBVIOUS
  <2> QED BY <1>1, <1>2, <1>3, <1>6, <2>1, <2>2, <2>3 DEF Counted, AtMost
<1>8. Allowed'
  BY <1>2 DEF RoundsInv, Allowed, WithinBudget
<1>9. PrePlan'
  <2>1. LastStarted(turn.task)' = LastStarted(turn.task)
    BY <1>2, SameBase DEF LastStarted, Nearest, Ancestry
  <2> QED BY <1>1, <1>2, <1>4, <2>1 DEF RoundsInv, PrePlan
<1>10. Bounded'
  BY TookWithin
<1> QED BY <1>5, <1>7, <1>8, <1>9, <1>10 DEF RoundsInv

\* A pause saves what the turn counts; the round that asked is counted when it resumes.
LEMMA PausedRounds ==
  ASSUME TypeOK, SegmentMatches, RoundsInv, turn # None, turn.pc # "enter",
         NEW kind \in {"decision", "plan", "fallback"}, NEW moved, SavePause(kind, moved),
         NEW a \in {0, 1}, Took(a, 0), a = 1 <=> kind # "fallback", a = 1 => ~ForceFinal,
         \/ UNCHANGED planOf /\ (a = 1 => ~OnlyAPlanWillDo) /\ kind # "plan"
         \/ planOf' = [planOf EXCEPT ![turn.task] = "proposed"],
         UNCHANGED <<carried, approved, segments, atApproval>>,
         Bounded'
  PROVE  RoundsInv'
<1> DEFINE saved == PauseStateOf(turn.tracker, turn.action, turn.explore)
<1>1. /\ turn \in RunningTurn /\ turn.task \in Task /\ turn.action \in Nat /\ turn.explore \in Nat
      /\ Latest(turn.task) /\ status[turn.task] # "absent"
      /\ spent.action \in Nat /\ spent.explore \in Nat
  BY RunningFacts
<1>2. /\ turn' = None /\ paused'.kind = kind /\ paused'.task = turn.task
      /\ paused'.action = turn.action /\ paused'.explore = turn.explore
      /\ paused'.extension = turn.optioned /\ paused'.segment = saved
      /\ status' = [status EXCEPT ![turn.task] = "waiting"]
  BY DEF SavePause, EndTurn
<1>3. spent'.action = spent.action + a /\ spent'.explore = spent.explore
  BY <1>1 DEF Took
<1>4. \A s \in Task : status'[s] = "absent" <=> status[s] = "absent"
  BY <1>1, <1>2 DEF TypeOK
<1>5. \A s \in Task : planOf'[s] = "none" => planOf[s] = "none"
  BY <1>1 DEF TypeOK
<1>6. TaskOrder'
  <2>1. \A s \in Task :
           approved'[s] = approved[s] \/ (status[s] # "absent" /\ planOf'[s] # "none")
    OBVIOUS
  <2>2. turn' # None => Latest(turn'.task)
    BY <1>2
  <2>3. paused' # None => Latest(paused'.task)
    BY <1>1, <1>2
  <2>4. TaskOrder
    BY DEF RoundsInv
  <2> QED BY <1>4, <1>5, <2>1, <2>2, <2>3, <2>4, SameOrder
<1>7. PICK t \in Task : t = turn.task
  BY <1>1
<1>8. /\ BaseAction(t)' = BaseAction(t) /\ BaseExplore(t)' = BaseExplore(t)
      /\ LastStarted(t)' = LastStarted(t) /\ BaseAction(t) \in Nat /\ BaseExplore(t) \in Nat
  BY SameBase, BaseType
<1>9. /\ BaseAction(paused.task)' = BaseAction(t) /\ BaseExplore(paused.task)' = BaseExplore(t)
      /\ LastStarted(paused.task)' = LastStarted(t)
  BY <1>2, <1>7, <1>8
<1>10. Counted'
  <2>1. /\ AtMost(t, spent.action, BaseAction(t) + turn.action)
        /\ AtMost(t, spent.explore, BaseExplore(t) + turn.explore)
    BY <1>7 DEF RoundsInv, Counted
  <2>2. a = IF kind \in {"decision", "plan"} THEN 1 ELSE 0
    OBVIOUS
  <2>3. /\ AtMost(t, spent.action + a, BaseAction(t) + turn.action + a)
        /\ AtMost(t, spent.explore, BaseExplore(t) + turn.explore)
    BY <1>1, <1>8, <2>1 DEF AtMost
  <2> QED BY <1>2, <1>3, <1>7, <1>9, <2>2, <2>3 DEF Counted, AtMost
<1>11. Allowed'
  BY <1>2 DEF Allowed
<1>12. PrePlan'
  <2>1. ASSUME planOf'[t] = "none"
        PROVE  /\ kind \in {"decision", "fallback"} /\ turn.optioned = 0
               /\ saved = None => LastStarted(t) = None
    <3>1. planOf[t] = "none" /\ kind # "plan"
      BY <1>5, <1>7, <2>1 DEF TypeOK
    <3>2. saved = None => turn.tracker = None
      <4>1. ASSUME turn.tracker # None PROVE saved \in PauseState
        BY <1>1, <4>1, RunningFacts DEF PauseStateOf, PauseState, Tracker
      <4> QED BY <4>1, NoneAssumption
    <3> QED BY <1>7, <3>1, <3>2 DEF RoundsInv, PrePlan
  <2> HIDE DEF saved
  <2> QED BY <1>2, <1>7, <1>9, <2>1 DEF PrePlan
<1> QED BY <1>6, <1>10, <1>11, <1>12 DEF RoundsInv

\* A step that counts nothing and leaves the tasks as they are.
LEMMA StillBounded ==
  ASSUME RoundsInv, \A s \in Task : status'[s] = "absent" <=> status[s] = "absent",
         UNCHANGED <<approved, planOf, spent, atApproval>>
  PROVE  Bounded'
  BY SameLatest DEF RoundsInv, Bounded

LEMMA PausedForRounds ==
  ASSUME TypeOK, SegmentMatches, RoundsInv, PauseForRounds
  PROVE  RoundsInv'
<1>1. turn # None /\ turn.pc # "enter" /\ planOf[turn.task] # "none"
  BY DEF PauseForRounds, AtCheckpoint, AtTop, Planless
<1>2. /\ turn.task \in Task /\ Latest(turn.task) /\ status[turn.task] # "absent"
  BY <1>1, RunningFacts
<1>3. /\ turn' = None /\ paused'.kind = "round_budget" /\ paused'.task = turn.task
      /\ paused'.action = turn.action /\ paused'.explore = turn.explore
      /\ status' = [status EXCEPT ![turn.task] = "waiting"]
      /\ UNCHANGED <<planOf, carried, approved, segments, spent, atApproval>>
  BY DEF PauseForRounds, EndTurn
<1>4. \A s \in Task : status'[s] = "absent" <=> status[s] = "absent"
  BY <1>2, <1>3 DEF TypeOK
<1>5. TaskOrder'
  <2>1. \A s \in Task :
           approved'[s] = approved[s] \/ (status[s] # "absent" /\ planOf'[s] # "none")
    BY <1>3
  <2>2. \A s \in Task : planOf'[s] = "none" => planOf[s] = "none"
    BY <1>3
  <2>3. turn' # None => Latest(turn'.task)
    BY <1>3
  <2>4. paused' # None => Latest(paused'.task)
    BY <1>2, <1>3
  <2>5. TaskOrder
    BY DEF RoundsInv
  <2> QED BY <1>3, <1>4, <2>1, <2>2, <2>3, <2>4, <2>5, SameOrder
<1>6. PICK t \in Task : t = turn.task
  BY <1>2
<1>7. /\ BaseAction(paused.task)' = BaseAction(t) /\ BaseExplore(paused.task)' = BaseExplore(t)
  BY <1>3, <1>6, SameBase
<1>8. Counted'
  <2>1. /\ AtMost(t, spent.action, BaseAction(t) + turn.action)
        /\ AtMost(t, spent.explore, BaseExplore(t) + turn.explore)
    BY <1>1, <1>6 DEF RoundsInv, Counted
  <2>2. turn.action \in Nat /\ BaseAction(t) \in Nat
    BY <1>1, RunningFacts, BaseType
  <2> QED BY <1>3, <1>6, <1>7, <2>1, <2>2 DEF Counted, AtMost
<1>9. Allowed' /\ PrePlan'
  BY <1>1, <1>3 DEF Allowed, PrePlan
<1>10. Bounded'
  BY <1>3, <1>4, StillBounded
<1> QED BY <1>5, <1>8, <1>9, <1>10 DEF RoundsInv

\* A turn that goes on within its segment, and may be allowed more rounds to propose
\* its plan.
LEMMA GoesOn ==
  ASSUME TypeOK, SegmentMatches, RoundsInv, turn # None, turn.pc # "enter",
         turn'.pc # "enter", turn'.task = turn.task, turn'.action = turn.action,
         turn'.explore = turn.explore, turn'.optioned = turn.optioned,
         turn'.maxExplore = turn.maxExplore,
         UNCHANGED <<status, planOf, carried, approved, segments, paused, spent, atApproval>>,
         Allowed',
         turn'.tracker = None => turn.tracker = None /\ turn'.extension = turn.extension,
         turn'.tracker # None => turn.tracker # None /\ turn'.tracker.preplan = turn.tracker.preplan
  PROVE  RoundsInv'
<1>1. turn.task \in Task /\ Latest(turn.task) /\ paused = None
  BY RunningFacts
<1>2. \A s \in Task : status'[s] = "absent" <=> status[s] = "absent"
  OBVIOUS
<1>3. TaskOrder'
  <2>1. \A s \in Task :
           approved'[s] = approved[s] \/ (status[s] # "absent" /\ planOf'[s] # "none")
    OBVIOUS
  <2>2. \A s \in Task : planOf'[s] = "none" => planOf[s] = "none"
    OBVIOUS
  <2>3. turn' # None => Latest(turn'.task)
    BY <1>1
  <2>4. paused' # None => Latest(paused'.task)
    BY <1>1
  <2>5. TaskOrder
    BY DEF RoundsInv
  <2> QED BY <1>2, <2>1, <2>2, <2>3, <2>4, <2>5, SameOrder
<1>4. PICK t \in Task : t = turn.task
  BY <1>1
<1>5. /\ BaseAction(turn.task)' = BaseAction(t) /\ BaseExplore(turn.task)' = BaseExplore(t)
      /\ LastStarted(turn.task)' = LastStarted(t)
  BY <1>4, SameBase
<1>6. Counted'
  BY <1>1, <1>4, <1>5 DEF RoundsInv, Counted, AtMost
<1>7. PrePlan'
  BY <1>1, <1>4, <1>5 DEF RoundsInv, PrePlan
<1>8. Bounded'
  BY <1>2, StillBounded
<1> QED BY <1>3, <1>6, <1>7, <1>8 DEF RoundsInv

LEMMA AskedForPlan ==
  ASSUME TypeOK, SegmentMatches, RoundsInv, AskForPlan
  PROVE  RoundsInv'
<1>1. /\ turn # None /\ turn.pc # "enter" /\ turn.tracker # None /\ turn.tracker.preplan
  BY DEF AskForPlan, AtCheckpoint, AtTop, PrePlanSpent, Deciding
<1>2. turn \in RunningTurn /\ turn.tracker \in Tracker
  BY <1>1, RunningFacts
<1>3. /\ turn'.pc = turn.pc /\ turn'.task = turn.task /\ turn'.action = turn.action
      /\ turn'.explore = turn.explore /\ turn'.optioned = turn.optioned
      /\ turn'.maxExplore = turn.maxExplore
      /\ turn'.tracker = [turn.tracker EXCEPT !.actionAllowance =
                           Most(turn.tracker.actionAllowance, turn.action + SegmentAction)]
      /\ instructed' = instructed \cup {turn.task}
      /\ UNCHANGED <<status, planOf, carried, approved, segments, paused, spent, atApproval>>
  BY <1>2 DEF AskForPlan, RunningTurn
<1>4. turn'.tracker \in Tracker
  <2>1. turn.action \in Nat /\ turn.tracker.actionAllowance \in Nat
    BY <1>2 DEF RunningTurn, Tracker
  <2>2. Most(turn.tracker.actionAllowance, turn.action + SegmentAction) \in Nat
    BY <2>1, BoundsAssumption DEF Most
  <2> QED BY <1>2, <1>3, <2>2 DEF Tracker
<1>5. /\ turn'.tracker # None /\ turn'.tracker.preplan = turn.tracker.preplan
      /\ turn'.tracker.budget = turn.tracker.budget
      /\ turn'.tracker.exploreAllowance = turn.tracker.exploreAllowance
  BY <1>2, <1>3, <1>4, NoneAssumption DEF Tracker
<1>6. Allowed'
  BY <1>1, <1>3, <1>5 DEF RoundsInv, Allowed
<1> QED BY <1>1, <1>3, <1>5, <1>6, GoesOn

LEMMA AskedModel ==
  ASSUME TypeOK, SegmentMatches, RoundsInv, AskModel
  PROVE  RoundsInv'
<1>1. turn # None /\ turn.pc # "enter" /\ turn \in RunningTurn
  BY RunningFacts DEF AskModel, AtTop
<1>2. /\ turn'.pc # "enter" /\ turn'.task = turn.task /\ turn'.action = turn.action
      /\ turn'.explore = turn.explore /\ turn'.optioned = turn.optioned
      /\ turn'.maxExplore = turn.maxExplore /\ turn'.tracker = turn.tracker
      /\ turn'.extension = turn.extension
      /\ UNCHANGED <<durable, spent, atApproval>>
  BY <1>1 DEF AskModel, RunningTurn
<1>3. Allowed'
  BY <1>1, <1>2 DEF RoundsInv, Allowed, WithinBudget, durable
<1> QED BY <1>1, <1>2, <1>3, GoesOn DEF durable

-----------------------------------------------------------------------------
(* A new segment *)

\* What a segment of a resumed tracker may take is what its budget has left.
LEMMA ResumedWithin ==
  ASSUME NEW budget \in Budget, NEW started \in Started, NEW normal \in Nat,
         NEW preplan \in BOOLEAN
  PROVE  WithinBudget(Resumed(budget, started, normal, preplan))
  BY BoundsAssumption DEF WithinBudget, Resumed, Budget, Started, Least, Most

\* It takes the rounds so far as its baseline, and counts its own from zero.
LEMMA NewSegment ==
  ASSUME TypeOK, RoundsInv, turn # None, paused = None,
         NEW start \in Started, NEW budget \in Budget, NEW normal \in Nat, NEW preplan \in BOOLEAN,
         start.totalAction = BaseAction(turn.task) + turn.action,
         start.totalExplore = BaseExplore(turn.task) + turn.explore,
         segments' = [segments EXCEPT ![turn.task] = start],
         turn'.pc # "enter", turn'.task = turn.task, turn'.action = 0,
         turn'.explore = 0, turn'.optioned = turn.optioned,
         turn'.tracker = Resumed(budget, start, normal, preplan),
         turn'.maxExplore = turn'.tracker.exploreAllowance,
         preplan => budget = PrePlanBudget,
         approved[turn.task] # None => ~preplan /\ budget = approved[turn.task],
         planOf[turn.task] = "none" => preplan,
         UNCHANGED <<status, planOf, carried, approved, paused, spent, atApproval>>
  PROVE  RoundsInv'
<1>1. /\ turn.task \in Task /\ Latest(turn.task) /\ status[turn.task] # "absent"
      /\ turn.action \in Nat /\ turn.explore \in Nat
  BY RunningType DEF RoundsInv, TaskOrder, Latest, Task, RunningTurn
<1>2. PICK t \in Task : t = turn.task
  BY <1>1
<1>3. LastStarted(t)' = start
  BY <1>2, LastIsStarted
<1>4. /\ LastStarted(turn.task)' = start /\ BaseAction(turn.task)' = start.totalAction
      /\ BaseExplore(turn.task)' = start.totalExplore
  <2>1. LastStarted(turn.task)' = start
    BY <1>2, <1>3
  <2> QED BY <2>1, NoneAssumption DEF BaseAction, BaseExplore
<1>5. TaskOrder'
  <2>1. \A s \in Task : status[s] = "absent" => segments'[s] = segments[s]
    BY <1>1 DEF TypeOK
  <2>2. Latest(turn.task)'
    BY <1>1 DEF Latest
  <2> QED BY <2>1, <2>2 DEF RoundsInv, TaskOrder, Latest
<1>6. Counted'
  <2>1. /\ AtMost(turn.task, spent.action, BaseAction(turn.task) + turn.action)
        /\ AtMost(turn.task, spent.explore, BaseExplore(turn.task) + turn.explore)
    BY DEF RoundsInv, Counted
  <2>2. start.totalAction \in Nat /\ start.totalExplore \in Nat
    BY DEF Started
  <2>3. /\ AtMost(turn.task, spent.action, start.totalAction + 0)
        /\ AtMost(turn.task, spent.explore, start.totalExplore + 0)
    BY <2>1, <2>2 DEF AtMost
  <2> QED BY <1>4, <2>3 DEF Counted, AtMost
<1>7. /\ turn'.tracker # None /\ turn'.tracker.preplan = preplan /\ turn'.tracker.budget = budget
      /\ WithinBudget(turn'.tracker)
  <2>1. turn'.tracker \in Tracker
    BY ResumedType
  <2>2. turn'.tracker.preplan = preplan /\ turn'.tracker.budget = budget
    BY DEF Resumed
  <2>3. WithinBudget(turn'.tracker)
    BY ResumedWithin
  <2> QED BY <2>1, <2>2, <2>3, NoneAssumption
<1>8. Allowed'
  BY <1>7 DEF Allowed, WithinBudget
<1>9. PrePlan'
  BY <1>7 DEF RoundsInv, PrePlan
<1>10. Bounded'
  BY StillBounded
<1> QED BY <1>5, <1>6, <1>8, <1>9, <1>10 DEF RoundsInv

LEMMA StartedPrePlan ==
  ASSUME TypeOK, SegmentMatches, RoundsInv, StartPrePlan
  PROVE  RoundsInv'
<1> DEFINE start == FirstStart(turn.task, turn.action, turn.explore)
           normal == SegmentAction + turn.extension
           tracker == Resumed(PrePlanBudget, start, normal, TRUE)
<1>1. /\ turn # None /\ turn.pc = "top" /\ turn.tracker = None /\ planOf[turn.task] = "none"
  BY DEF StartPrePlan, AtCheckpoint, AtTop, Planless
<1>2. /\ turn \in RunningTurn /\ turn.task \in Task /\ turn.action \in Nat /\ turn.explore \in Nat
      /\ paused = None
  BY <1>1, RunningFacts
<1>3. start \in Started
  BY <1>2, FirstStartType
<1>4. normal \in Nat
  BY <1>2, BoundsAssumption DEF RunningTurn
<1>5. LastStarted(turn.task) = None
  BY <1>1 DEF RoundsInv, PrePlan
<1>6. /\ start.totalAction = BaseAction(turn.task) + turn.action
      /\ start.totalExplore = BaseExplore(turn.task) + turn.explore
  BY <1>2, <1>5 DEF FirstStart, BaseAction, BaseExplore
<1>7. approved[turn.task] = None
  BY <1>1 DEF RoundsInv, Allowed
<1>8. /\ segments' = [segments EXCEPT ![turn.task] = start]
      /\ turn'.pc # "enter" /\ turn'.task = turn.task /\ turn'.action = 0
      /\ turn'.explore = 0 /\ turn'.optioned = turn.optioned /\ turn'.tracker = tracker
      /\ turn'.maxExplore = tracker.exploreAllowance
      /\ UNCHANGED <<status, planOf, carried, approved, paused, spent, atApproval>>
  <2> HIDE DEF start, normal, tracker
  <2>1. /\ segments' = [segments EXCEPT ![turn.task] = start]
        /\ turn' = [turn EXCEPT !.tracker = tracker, !.action = 0, !.explore = 0,
                       !.extension = 0, !.moved = FALSE,
                       !.maxExplore = tracker.exploreAllowance]
        /\ UNCHANGED <<status, planOf, carried, approved, paused, spent, atApproval>>
    BY DEF StartPrePlan, start, normal, tracker
  <2> QED BY <1>1, <1>2, <2>1 DEF RunningTurn
<1> HIDE DEF start, normal
<1> QED BY <1>1, <1>2, <1>3, <1>4, <1>6, <1>7, <1>8, PrePlanBudgetType, NewSegment

LEMMA CrossedBoundary ==
  ASSUME TypeOK, SegmentMatches, RoundsInv, CrossBoundary
  PROVE  RoundsInv'
<1> DEFINE start == [segment |-> turn.tracker.segment + 1,
                     totalAction |-> Totals.action, totalExplore |-> Totals.explore]
           normal == SegmentAction + turn.extension
           tracker == Resumed(turn.tracker.budget, start, normal, turn.tracker.preplan)
<1>1. turn # None /\ turn.pc = "top" /\ turn.tracker # None
  BY DEF CrossBoundary, AtCheckpoint, AtTop, Deciding
<1>2. /\ turn \in RunningTurn /\ turn.task \in Task /\ turn.action \in Nat /\ turn.explore \in Nat
      /\ paused = None /\ turn.tracker \in Tracker
      /\ turn.tracker.priorAction = BaseAction(turn.task)
      /\ turn.tracker.priorExplore = BaseExplore(turn.task)
  BY <1>1, RunningFacts
<1>3. start \in Started
  BY <1>1, <1>2, TotalsType DEF Tracker, Started
<1>4. normal \in Nat
  BY <1>2, BoundsAssumption DEF RunningTurn
<1>5. turn.tracker.budget \in Budget /\ turn.tracker.preplan \in BOOLEAN
  BY <1>2 DEF Tracker
<1>6. /\ start.totalAction = BaseAction(turn.task) + turn.action
      /\ start.totalExplore = BaseExplore(turn.task) + turn.explore
  BY <1>2 DEF Totals
<1>7. /\ turn.tracker.preplan => turn.tracker.budget = PrePlanBudget
      /\ approved[turn.task] # None =>
           ~turn.tracker.preplan /\ turn.tracker.budget = approved[turn.task]
      /\ planOf[turn.task] = "none" => turn.tracker.preplan
  BY <1>1 DEF RoundsInv, Allowed, PrePlan
<1>8. /\ segments' = [segments EXCEPT ![turn.task] = start]
      /\ turn'.pc # "enter" /\ turn'.task = turn.task /\ turn'.action = 0
      /\ turn'.explore = 0 /\ turn'.optioned = turn.optioned /\ turn'.tracker = tracker
      /\ turn'.maxExplore = tracker.exploreAllowance
      /\ UNCHANGED <<status, planOf, carried, approved, paused, spent, atApproval>>
  <2> HIDE DEF start, normal, tracker
  <2>1. /\ segments' = [segments EXCEPT ![turn.task] = start]
        /\ turn' = [turn EXCEPT !.tracker = tracker, !.action = 0, !.explore = 0,
                       !.extension = 0, !.moved = FALSE,
                       !.maxExplore = tracker.exploreAllowance]
        /\ UNCHANGED <<status, planOf, carried, approved, paused, spent, atApproval>>
    BY DEF CrossBoundary, start, normal, tracker
  <2> QED BY <1>1, <1>2, <2>1 DEF RunningTurn
<1> HIDE DEF start, normal
<1> QED BY <1>1, <1>2, <1>3, <1>4, <1>5, <1>6, <1>7, <1>8, NewSegment

-----------------------------------------------------------------------------
(* A turn enters the loop *)

\* The first task has only its own facts to find.
LEMMA FirstFindsItsOwn ==
  ASSUME NEW fact, 1 \in Task
  PROVE  fact[1] = None => Nearest(1, fact) = None
<1>1. Ancestry(1) \subseteq {1}
  BY DEF Ancestry
<1> QED BY <1>1 DEF Nearest

LEMMA BudgetFound ==
  ASSUME TypeOK, RoundsInv, turn # None
  PROVE  /\ approved[turn.task] # None => BudgetOf(turn.task) = approved[turn.task]
         /\ planOf[turn.task] = "none" => BudgetOf(turn.task) = None
<1>1. turn.task \in Task /\ status[turn.task] # "absent"
  BY RunningType DEF RoundsInv, TaskOrder, Latest, Task
<1>2. approved[turn.task] # None => BudgetOf(turn.task) = approved[turn.task]
  BY <1>1, NearestOwn DEF BudgetOf
<1>3. ASSUME planOf[turn.task] = "none" PROVE BudgetOf(turn.task) = None
  <2>1. turn.task = 1 /\ approved[turn.task] = None
    BY <1>1, <1>3 DEF RoundsInv, TaskOrder
  <2> QED BY <1>1, <2>1, FirstFindsItsOwn DEF BudgetOf
<1> QED BY <1>2, <1>3

LEMMA EnteredRounds ==
  ASSUME TypeOK, SegmentMatches, RoundsInv, EnterLoop
  PROVE  RoundsInv'
<1> DEFINE budget == BudgetOf(turn.task)
           last == LastStarted(turn.task)
           normal == SegmentAction + turn.extension
           first == FirstStart(turn.task, turn.action, turn.explore)
           run == RunState(turn.task, turn.action, turn.explore, turn.extension, turn.state)
           planless == planOf[turn.task] = "none"
<1>1. /\ turn # None /\ turn \in RunningTurn /\ turn.task \in Task /\ turn.pc = "enter"
      /\ paused = None /\ turn.action \in Nat /\ turn.explore \in Nat /\ turn.extension \in Nat
  BY RunningType DEF EnterLoop, SegmentMatches, RunningTurn
<1>2. turn.state # None => Describes(turn.state, last, turn.action, turn.explore)
  BY <1>1 DEF SegmentMatches
<1>3. run.ok
  BY <1>2 DEF RunState
<1>4. /\ budget \in Budgets \cup {None} /\ last \in Started \cup {None} /\ normal \in Nat
      /\ first \in Started
  BY <1>1, BudgetOfType, LastStartedType, FirstStartType, BoundsAssumption
<1>5. /\ approved[turn.task] # None => budget = approved[turn.task]
      /\ planless => budget = None
  BY <1>1, BudgetFound
<1>6. /\ Latest(turn.task) /\ status[turn.task] # "absent"
  BY <1>1 DEF RoundsInv, TaskOrder, Latest, Task
<1>7. /\ turn'.pc # "enter" /\ turn'.task = turn.task /\ turn'.optioned = turn.optioned
      /\ turn'.extension = turn.extension /\ turn'.tracker = run.tracker
      /\ turn'.maxExplore = IF run.tracker = None THEN SegmentExplore
                            ELSE run.tracker.exploreAllowance
      /\ turn'.action = IF run.start # None THEN 0 ELSE turn.action
      /\ turn'.explore = IF run.start # None THEN 0 ELSE turn.explore
      /\ segments' = [segments EXCEPT ![turn.task] =
                        IF run.start # None THEN run.start ELSE segments[turn.task]]
      /\ UNCHANGED <<planOf, carried, approved, paused, spent, atApproval>>
  BY <1>1, <1>3 DEF EnterLoop, RunningTurn
<1>8. status' = status
  BY <1>3 DEF EnterLoop, TypeOK
<1>9. /\ run.start # None =>
           /\ budget # None /\ last = None /\ run.start = first
           /\ run.tracker = Resumed(budget, first, normal, FALSE)
      /\ run.start = None /\ budget # None =>
           last # None /\ run.tracker = Resumed(budget, last, normal, FALSE)
      /\ budget = None => run.start = None
      /\ budget = None /\ (~planless \/ turn.state = None) => run.tracker = None
      /\ budget = None /\ planless /\ turn.state # None =>
           last # None /\ run.tracker = Resumed(PrePlanBudget, last, normal, TRUE)
  BY <1>2, <1>4, NoneAssumption DEF RunState, Describes
<1> HIDE DEF budget, last, normal, first, run
<1>10. CASE run.start # None
  <2>1. /\ first.totalAction = BaseAction(turn.task) + turn.action
        /\ first.totalExplore = BaseExplore(turn.task) + turn.explore
    <3>1. LastStarted(turn.task) = None
      BY <1>9, <1>10 DEF last
    <3>2. BaseAction(turn.task) = 0 /\ BaseExplore(turn.task) = 0
      BY <3>1 DEF BaseAction, BaseExplore
    <3>3. first.totalAction = turn.action + 0 /\ first.totalExplore = turn.explore + 0
      BY <3>1 DEF first, FirstStart
    <3> QED BY <1>1, <3>2, <3>3
  <2>2. budget \in Budget
    BY <1>4, <1>9, <1>10, BudgetsAreBudgets
  <2>3. Resumed(budget, first, normal, FALSE) # None
    BY <1>4, <2>2, ResumedType, NoneAssumption
  <2>4. /\ turn'.action = 0 /\ turn'.explore = 0
        /\ segments' = [segments EXCEPT ![turn.task] = first]
        /\ turn'.tracker = Resumed(budget, first, normal, FALSE)
        /\ turn'.maxExplore = turn'.tracker.exploreAllowance
    BY <1>7, <1>9, <1>10, <2>3
  <2>5. approved[turn.task] # None => ~FALSE /\ budget = approved[turn.task]
    BY <1>5
  <2>6. planOf[turn.task] = "none" => FALSE
    BY <1>5, <1>9, <1>10
  <2> QED BY <1>1, <1>4, <1>7, <1>8, <2>1, <2>2, <2>4, <2>5, <2>6, NewSegment
<1>11. CASE run.start = None
  <2>1. turn'.action = turn.action /\ turn'.explore = turn.explore /\ segments' = segments
    BY <1>7, <1>11 DEF TypeOK
  <2>2. PICK t \in Task : t = turn.task
    BY <1>1
  <2>3. /\ BaseAction(turn.task)' = BaseAction(t) /\ BaseExplore(turn.task)' = BaseExplore(t)
        /\ LastStarted(turn.task)' = LastStarted(t)
    BY <1>7, <2>1, <2>2, SameBase
  <2>4. TaskOrder'
    <3>1. \A s \in Task :
             approved'[s] = approved[s] \/ (status[s] # "absent" /\ planOf'[s] # "none")
      BY <1>7
    <3>2. \A s \in Task : planOf'[s] = "none" => planOf[s] = "none"
      BY <1>7
    <3>3. turn' # None => Latest(turn'.task)
      BY <1>6, <1>7
    <3>4. paused' # None => Latest(paused'.task)
      BY <1>1, <1>7
    <3>5. TaskOrder
      BY DEF RoundsInv
    <3>6. UNCHANGED <<carried, segments>>
      BY <1>7, <2>1
    <3>7. \A s \in Task : status'[s] = "absent" <=> status[s] = "absent"
      BY <1>8
    <3> QED BY <3>1, <3>2, <3>3, <3>4, <3>5, <3>6, <3>7, SameOrder
  <2>5. Counted'
    BY <1>1, <1>7, <2>1, <2>2, <2>3 DEF RoundsInv, Counted, AtMost
  <2>6. ASSUME NEW b \in Budget, NEW preplan \in BOOLEAN, last # None,
               run.tracker = Resumed(b, last, normal, preplan)
        PROVE  /\ run.tracker # None /\ run.tracker.preplan = preplan
               /\ run.tracker.budget = b /\ WithinBudget(run.tracker)
    <3>1. last \in Started
      BY <1>4, <2>6
    <3>2. run.tracker \in Tracker /\ WithinBudget(run.tracker)
      BY <1>4, <2>6, <3>1, ResumedType, ResumedWithin
    <3>3. run.tracker.preplan = preplan /\ run.tracker.budget = b
      BY <2>6 DEF Resumed
    <3> QED BY <3>2, <3>3, NoneAssumption
  <2>7. budget # None =>
          /\ run.tracker # None /\ run.tracker.preplan = FALSE
          /\ run.tracker.budget = budget /\ WithinBudget(run.tracker)
    BY <1>4, <1>9, <1>11, <2>6, BudgetsAreBudgets
  <2>8. budget = None /\ planless /\ turn.state # None =>
          /\ run.tracker # None /\ run.tracker.preplan = TRUE
          /\ run.tracker.budget = PrePlanBudget /\ WithinBudget(run.tracker)
    BY <1>9, <2>6, PrePlanBudgetType
  <2>9. Allowed'
    BY <1>5, <1>7, <1>9, <2>7, <2>8 DEF Allowed, WithinBudget
  <2>10. PrePlan'
    <3>1. ASSUME planless
          PROVE  /\ turn.optioned = 0 /\ turn.extension = 0
                 /\ turn.state = None => last = None /\ run.tracker = None
                 /\ turn.state # None => run.tracker # None /\ run.tracker.preplan
      BY <1>1, <1>5, <1>9, <2>8, <3>1 DEF RoundsInv, PrePlan, last
    <3> QED BY <1>1, <1>7, <2>2, <2>3, <3>1 DEF PrePlan, last
  <2>11. Bounded'
    BY <1>7, <1>8, StillBounded
  <2> QED BY <2>4, <2>5, <2>9, <2>10, <2>11 DEF RoundsInv
<1> QED BY <1>10, <1>11

-----------------------------------------------------------------------------
(* A paused turn goes on *)

\* A decision and a review count the round that asked; nothing else is counted.
LEMMA TakenOff ==
  ASSUME TypeOK, RoundsInv, paused # None,
         turn'.pc = "enter", turn'.task = paused.task, turn'.state = paused.segment,
         turn'.action = paused.action + IF paused.kind \in {"decision", "plan"} THEN 1 ELSE 0,
         turn'.explore = paused.explore, turn'.optioned = turn'.extension,
         turn'.extension = paused.extension \/ paused.kind = "round_budget",
         paused' = None, status' = [status EXCEPT ![paused.task] = "running"],
         UNCHANGED <<carried, segments, spent>>,
         \A s \in Task : planOf'[s] = "none" => planOf[s] = "none",
         \A s \in Task :
           approved'[s] = approved[s] \/ (status[s] # "absent" /\ planOf'[s] # "none"),
         Bounded'
  PROVE  RoundsInv'
<1>1. /\ paused.task \in Task /\ Latest(paused.task) /\ status[paused.task] # "absent"
  BY DEF TypeOK, PausedTurn, RoundsInv, TaskOrder, Latest, Task
<1>2. \A s \in Task : status'[s] = "absent" <=> status[s] = "absent"
  BY <1>1 DEF TypeOK
<1>3. PICK t \in Task : t = paused.task
  BY <1>1
<1>4. /\ BaseAction(turn.task)' = BaseAction(t) /\ BaseExplore(turn.task)' = BaseExplore(t)
      /\ LastStarted(turn.task)' = LastStarted(t)
  BY <1>3, SameBase
<1>5. TaskOrder'
  <2>1. turn' # None => Latest(turn'.task)
    BY <1>1
  <2>2. paused' # None => Latest(paused'.task)
    OBVIOUS
  <2>3. TaskOrder
    BY DEF RoundsInv
  <2> QED BY <1>2, <2>1, <2>2, <2>3, SameOrder
<1>6. Counted'
  <2>1. /\ AtMost(t, spent.action, BaseAction(t) + paused.action
                    + IF paused.kind \in {"decision", "plan"} THEN 1 ELSE 0)
        /\ AtMost(t, spent.explore, BaseExplore(t) + paused.explore)
    BY <1>3 DEF RoundsInv, Counted
  <2>2. /\ paused.action \in Nat /\ BaseAction(t) \in Nat
    BY BaseType DEF TypeOK, PausedTurn
  <2>3. BaseAction(t) + turn'.action = BaseAction(t) + paused.action
          + IF paused.kind \in {"decision", "plan"} THEN 1 ELSE 0
    BY <2>2
  <2>4. /\ AtMost(t, spent.action, BaseAction(t) + turn'.action)
        /\ AtMost(t, spent.explore, BaseExplore(t) + turn'.explore)
    BY <2>1, <2>3
  <2> QED BY <1>3, <1>4, <2>4 DEF Counted, AtMost
<1>7. Allowed'
  BY DEF Allowed
<1>8. PrePlan'
  <2>1. ASSUME planOf'[t] = "none"
        PROVE  /\ turn'.optioned = 0 /\ turn'.extension = 0
               /\ paused.segment = None => LastStarted(t) = None
    <3>1. planOf[t] = "none"
      BY <2>1
    <3>2. /\ paused.kind \in {"decision", "fallback"} /\ paused.extension = 0
          /\ paused.segment = None => LastStarted(t) = None
      BY <1>3, <3>1 DEF RoundsInv, PrePlan
    <3> QED BY <3>2
  <2> QED BY <1>3, <1>4, <2>1 DEF PrePlan
<1> QED BY <1>5, <1>6, <1>7, <1>8 DEF RoundsInv

LEMMA ResumedRounds ==
  ASSUME TypeOK, SegmentMatches, RoundsInv,
         \/ ResumeDecision \/ ResumeFallback \/ DeclinePlan \/ ContinueRounds \/ AnswerNow
  PROVE  RoundsInv'
<1>1. /\ paused # None /\ paused \in PausedTurn /\ paused.task \in Task /\ paused.action \in Nat
  BY DEF TypeOK, PausedTurn, ResumeDecision, ResumeFallback, DeclinePlan, ContinueRounds,
         AnswerNow, Waiting
<1>2. /\ turn'.pc = "enter" /\ turn'.task = paused.task /\ turn'.state = paused.segment
      /\ turn'.action = paused.action + IF paused.kind \in {"decision", "plan"} THEN 1 ELSE 0
      /\ turn'.explore = paused.explore /\ turn'.optioned = turn'.extension
      /\ turn'.extension = paused.extension \/ paused.kind = "round_budget"
  <2>1. CASE ResumeDecision
    BY <1>1, <2>1 DEF ResumeDecision, TakeOff, Entering, Waiting
  <2>2. CASE ResumeFallback
    BY <1>1, <2>2 DEF ResumeFallback, TakeOff, Entering, Waiting
  <2>3. CASE DeclinePlan
    BY <1>1, <2>3 DEF DeclinePlan, TakeOff, Entering, Waiting
  <2>4. CASE ContinueRounds
    BY <1>1, <2>4 DEF ContinueRounds, TakeOff, Entering, Waiting, PausedTurn
  <2>5. CASE AnswerNow
    BY <1>1, <2>5 DEF AnswerNow, TakeOff, Entering, Waiting
  <2> QED BY <2>1, <2>2, <2>3, <2>4, <2>5
<1>3. /\ paused' = None /\ status' = [status EXCEPT ![paused.task] = "running"]
      /\ UNCHANGED <<carried, segments, spent, planOf, approved, atApproval>>
  BY DEF ResumeDecision, ResumeFallback, DeclinePlan, ContinueRounds, AnswerNow, TakeOff
<1>4. status[paused.task] # "absent"
  BY <1>1 DEF RoundsInv, TaskOrder, Latest, Task
<1>5. \A s \in Task : status'[s] = "absent" <=> status[s] = "absent"
  BY <1>1, <1>3, <1>4 DEF TypeOK
<1>6. Bounded'
  BY <1>3, <1>5, StillBounded
<1>7. \A s \in Task : planOf'[s] = "none" => planOf[s] = "none"
  BY <1>3
<1>8. \A s \in Task :
         approved'[s] = approved[s] \/ (status[s] # "absent" /\ planOf'[s] # "none")
  BY <1>3
<1> QED BY <1>1, <1>2, <1>3, <1>6, <1>7, <1>8, TakenOff

\* What was taken before the approval counts, however small the budget.
LEMMA ApprovedRounds ==
  ASSUME TypeOK, SegmentMatches, RoundsInv, NEW budget \in Budgets, ApprovePlan(budget)
  PROVE  RoundsInv'
<1>1. /\ paused # None /\ paused \in PausedTurn /\ paused.task \in Task /\ paused.action \in Nat
      /\ paused.kind = "plan"
  BY DEF TypeOK, PausedTurn, ApprovePlan, Waiting
<1>2. /\ turn'.pc = "enter" /\ turn'.task = paused.task /\ turn'.state = paused.segment
      /\ turn'.action = paused.action + IF paused.kind \in {"decision", "plan"} THEN 1 ELSE 0
      /\ turn'.explore = paused.explore /\ turn'.optioned = turn'.extension
      /\ turn'.extension = paused.extension \/ paused.kind = "round_budget"
  BY <1>1 DEF ApprovePlan, TakeOff, Entering
<1>3. /\ paused' = None /\ status' = [status EXCEPT ![paused.task] = "running"]
      /\ UNCHANGED <<carried, segments, spent>>
      /\ planOf' = [planOf EXCEPT ![paused.task] = "approved"]
      /\ approved' = [approved EXCEPT ![paused.task] = budget] /\ atApproval' = spent
  BY DEF ApprovePlan, TakeOff
<1>4. status[paused.task] # "absent" /\ Latest(paused.task)
  BY <1>1 DEF RoundsInv, TaskOrder, Latest, Task
<1>5. \A s \in Task : status'[s] = "absent" <=> status[s] = "absent"
  BY <1>1, <1>3, <1>4 DEF TypeOK
<1>6. PICK t \in Task : t = paused.task
  BY <1>1
<1>7. approved'[t] = budget /\ planOf'[t] = "approved"
  BY <1>3, <1>6 DEF TypeOK
<1>8. Bounded'
  <2> SUFFICES ASSUME NEW u \in Task, Latest(u)'
               PROVE  /\ approved'[u] # None =>
                           /\ spent'.action <= Most(approved'[u].action, atApproval'.action)
                           /\ spent'.explore <= Most(approved'[u].explore, atApproval'.explore)
                      /\ planOf'[u] = "none" =>
                           /\ spent'.action <= PrePlanBudget.action
                           /\ spent'.explore <= Most(PrePlanExplore, SegmentExplore)
    BY DEF Bounded
  <2>1. u = t
    BY <1>4, <1>5, <1>6, SameLatest, OneLatest
  <2>2. /\ spent.action \in Nat /\ spent.explore \in Nat
        /\ budget.action \in Nat /\ budget.explore \in Nat
    BY BudgetsAreBudgets DEF TypeOK, Rounds, Budget
  <2> QED BY <1>3, <1>7, <2>1, <2>2 DEF Most
<1>9. \A s \in Task : planOf'[s] = "none" => planOf[s] = "none"
  BY <1>3 DEF TypeOK
<1>10. \A s \in Task :
         approved'[s] = approved[s] \/ (status[s] # "absent" /\ planOf'[s] # "none")
  BY <1>3, <1>4, <1>7, <1>6 DEF TypeOK
<1> QED BY <1>1, <1>2, <1>3, <1>8, <1>9, <1>10, TakenOff

-----------------------------------------------------------------------------
(* A task is created *)

LEMMA BaseTypes == TypeOK => \A t \in Task : BaseAction(t) \in Nat /\ BaseExplore(t) \in Nat
  BY BaseType

LEMMA BaseTypesNext ==
  TypeOK' => (\A t \in Task : BaseAction(t) \in Nat /\ BaseExplore(t) \in Nat)'
  BY BaseTypes, PTL

LEMMA CreatedRounds ==
  ASSUME TypeOK, SegmentMatches, RoundsInv, NEW t \in Task, CreateTask(t)
  PROVE  RoundsInv'
<1>1. /\ turn = None /\ paused = None /\ paused' = None /\ status[t] = "absent"
      /\ t > 1 => status[t - 1] # "absent" /\ planOf[t - 1] # "none"
      /\ status' = [status EXCEPT ![t] = "running"]
      /\ planOf' = [planOf EXCEPT ![t] = IF t > 1 THEN planOf[t - 1] ELSE "none"]
      /\ carried' = [carried EXCEPT ![t] = IF t > 1 THEN t - 1 ELSE None]
      /\ spent' = NoRounds /\ atApproval' = NoRounds /\ UNCHANGED <<approved, segments>>
  BY DEF CreateTask
<1>2. /\ turn'.task = t /\ turn'.pc = "enter" /\ turn'.action = 0 /\ turn'.explore = 0
      /\ turn'.extension = 0 /\ turn'.optioned = 0
  BY DEF CreateTask, Entering
<1>3. t \in Nat \ {0} /\ Task \subseteq Nat \ {0} /\ \A s \in Task : 1..s \subseteq Task
  BY TaskIsNat
<1>4. \A s, u \in Task : s < u /\ status[u] # "absent" => status[s] # "absent"
  BY DEF RoundsInv, TaskOrder
<1>5. segments[t] = None /\ approved[t] = None
  BY <1>1 DEF RoundsInv, TaskOrder
<1>6. /\ status'[t] = "running" /\ \A s \in Task \ {t} : status'[s] = status[s]
      /\ planOf'[t] = IF t > 1 THEN planOf[t - 1] ELSE "none"
      /\ \A s \in Task \ {t} : planOf'[s] = planOf[s]
      /\ carried'[t] = IF t > 1 THEN t - 1 ELSE None
      /\ \A s \in Task \ {t} : carried'[s] = carried[s]
  BY <1>1 DEF TypeOK
<1>7. \A s \in Task : s < t => status[s] # "absent"
  <2> SUFFICES ASSUME NEW s \in Task, s < t PROVE status[s] # "absent"
    OBVIOUS
  <2>1. t > 1 /\ t - 1 \in Task /\ s <= t - 1
    BY <1>3
  <2>2. CASE s = t - 1
    BY <1>1, <2>1, <2>2
  <2>3. CASE s < t - 1
    BY <1>1, <1>4, <2>1, <2>3
  <2> QED BY <1>3, <2>1, <2>2, <2>3
<1>8. \A s \in Task : status'[s] # "absent" <=> s <= t
  BY <1>1, <1>3, <1>4, <1>6, <1>7
<1>9. carried'[t] = None <=> t = 1
  BY <1>3, <1>6, NoneAssumption
<1>10. planOf'[t] = "none" => t = 1
  BY <1>1, <1>3, <1>6
<1>11. TaskOrder'
  <2>1. \A s, u \in Task : s < u /\ status'[u] # "absent" => status'[s] # "absent"
    BY <1>3, <1>8
  <2>2. \A s \in Task : status'[s] = "absent" => segments'[s] = None /\ approved'[s] = None
    BY <1>1, <1>6 DEF RoundsInv, TaskOrder
  <2>3. \A s \in Task : status'[s] # "absent" => (carried'[s] = None <=> s = 1)
    BY <1>6, <1>9 DEF RoundsInv, TaskOrder
  <2>4. \A s \in Task : status'[s] # "absent" /\ planOf'[s] = "none" => s = 1 /\ approved'[s] = None
    BY <1>1, <1>5, <1>6, <1>10 DEF RoundsInv, TaskOrder
  <2>5. turn' # None => Latest(turn.task)'
    BY <1>2, <1>8 DEF Latest
  <2> QED BY <1>1, <2>1, <2>2, <2>3, <2>4, <2>5 DEF TaskOrder
<1>12. t = 1 => LastStarted(t)' = None
  <2>1. t = 1 => Ancestry(t)' \subseteq {1}
    BY DEF Ancestry
  <2>2. segments'[t] = None
    BY <1>1, <1>5
  <2>3. t = 1 => Nearest(t, segments)' = None
    BY <2>1, <2>2 DEF Nearest
  <2> QED BY <2>3 DEF LastStarted
<1>13. LastStarted(turn.task)' = LastStarted(t)'
  BY <1>2 DEF LastStarted, Nearest, Ancestry
<1>14. Counted'
  <2>1. /\ BaseAction(turn.task)' \in Nat /\ BaseExplore(turn.task)' \in Nat
    BY <1>2, CreateTaskType, BaseTypesNext
  <2>2. t = 1 => BaseAction(turn.task)' = 0 /\ BaseExplore(turn.task)' = 0
    BY <1>12, <1>13 DEF BaseAction, BaseExplore
  <2>3. spent'.action = 0 /\ spent'.explore = 0
    BY <1>1 DEF NoRounds
  <2> QED BY <1>1, <1>2, <1>9, <2>1, <2>2, <2>3 DEF Counted, AtMost
<1>15. Allowed'
  BY <1>2 DEF Allowed
<1>16. PrePlan'
  BY <1>1, <1>2, <1>10, <1>12, <1>13 DEF PrePlan
<1>17. Bounded'
  <2> SUFFICES ASSUME NEW u \in Task, Latest(u)'
               PROVE  /\ approved'[u] = None
                      /\ spent'.action <= PrePlanBudget.action
                      /\ spent'.explore <= Most(PrePlanExplore, SegmentExplore)
    BY DEF Bounded
  <2>1. u <= t /\ t <= u
    BY <1>3, <1>6, <1>8 DEF Latest
  <2>2. u = t
    BY <1>3, <2>1
  <2>3. spent'.action = 0 /\ spent'.explore = 0
    BY <1>1 DEF NoRounds
  <2> QED BY <1>1, <1>5, <2>2, <2>3, BoundsAssumption DEF PrePlanBudget, Most
<1> QED BY <1>11, <1>14, <1>15, <1>16, <1>17 DEF RoundsInv

-----------------------------------------------------------------------------
(* Every step *)

LEMMA EngineRounds == ASSUME TypeOK, SegmentMatches, RoundsInv, Engine PROVE RoundsInv'
<1>1. CASE StopAtCheckpoint
  <2>1. /\ turn # None
        /\ UNCHANGED <<paused, carried, segments, approved, planOf, spent, atApproval>>
    BY <1>1 DEF StopAtCheckpoint, AtCheckpoint, AtTop
  <2>2. PICK as \in Statuses \ {"absent"} : EndTurn(as)
    BY <1>1 DEF StopAtCheckpoint, Refusal, Statuses, Outcomes
  <2> QED BY <2>1, <2>2, EndedRounds
<1>2. CASE RefuseRequest
  <2>1. /\ turn # None
        /\ UNCHANGED <<paused, carried, segments, approved, planOf, spent, atApproval>>
    BY <1>2 DEF RefuseRequest, AtTop
  <2>2. PICK as \in Statuses \ {"absent"} : EndTurn(as)
    BY <1>2 DEF RefuseRequest, Statuses, Outcomes
  <2> QED BY <2>1, <2>2, EndedRounds
<1> QED BY <1>1, <1>2, EnteredRounds, StartedPrePlan, AskedForPlan, CrossedBoundary,
           PausedForRounds, AskedModel DEF Engine

LEMMA ModelRounds == ASSUME TypeOK, SegmentMatches, RoundsInv, Model PROVE RoundsInv'
<1>1. /\ turn # None /\ turn.pc # "enter"
      /\ UNCHANGED <<carried, approved, segments, instructed, atApproval>>
  BY DEF Model, ReadRound, ActionRound, ProposePlan, PauseForReview, PauseForDecision, EndWith,
         ProviderRefuses, MayGoOn, Calling
<1>2. /\ turn \in RunningTurn /\ turn.task \in Task /\ status[turn.task] # "absent"
  BY <1>1, RunningFacts
<1>3. ASSUME NEW cost \in Costs, NEW shown \in BOOLEAN, ReadRound(cost, shown)
      PROVE  RoundsInv'
  <2>1. /\ NextRound(0, 1, shown) /\ Took(0, 1) /\ turn.explore < turn.maxExplore
        /\ ~OnlyAPlanWillDo /\ UNCHANGED <<status, planOf, paused>>
    BY <1>3 DEF ReadRound, MayGoOn
  <2>2. /\ 0 = 1 => ~ForceFinal
        /\ 1 = 1 => turn.explore < turn.maxExplore
    BY <2>1
  <2>3. 0 \in {0, 1} /\ 1 \in {0, 1}
    OBVIOUS
  <2> QED BY <1>1, <2>1, <2>2, <2>3, RoundTaken
<1>4. ASSUME NEW cost \in Costs, NEW shown \in BOOLEAN,
             ActionRound(cost, shown) \/ ProposePlan(cost)
      PROVE  RoundsInv'
  <2>1. PICK seen \in BOOLEAN : NextRound(1, 0, seen)
    BY <1>4 DEF ActionRound, ProposePlan
  <2>2. /\ Took(1, 0) /\ ~ForceFinal /\ UNCHANGED <<status, paused>>
    BY <1>4 DEF ActionRound, ProposePlan, MayGoOn
  <2>3. (UNCHANGED planOf /\ ~OnlyAPlanWillDo) \/ planOf' = [planOf EXCEPT ![turn.task] = "proposed"]
    BY <1>4 DEF ActionRound, ProposePlan, MayGoOn
  <2>4. /\ 1 = 1 => ~ForceFinal
        /\ 0 = 1 => turn.explore < turn.maxExplore
    BY <2>2
  <2>5. 0 \in {0, 1} /\ 1 \in {0, 1}
    OBVIOUS
  <2> QED BY <1>1, <2>1, <2>2, <2>3, <2>4, <2>5, RoundTaken
<1>5. ASSUME NEW kind \in {"decision", "plan"}, NEW moved, SavePause(kind, moved), Took(1, 0),
             ~ForceFinal,
             \/ UNCHANGED planOf /\ ~OnlyAPlanWillDo /\ kind # "plan"
             \/ planOf' = [planOf EXCEPT ![turn.task] = "proposed"]
      PROVE  RoundsInv'
  <2>1. \A s \in Task : status'[s] = "absent" <=> status[s] = "absent"
    BY <1>2, <1>5 DEF SavePause, EndTurn, TypeOK
  <2>2. /\ 1 = 1 => ~ForceFinal
        /\ 0 = 1 => turn.explore < turn.maxExplore
    BY <1>5
  <2>3. 0 \in {0, 1} /\ 1 \in {0, 1}
    OBVIOUS
  <2>4. (UNCHANGED planOf /\ ~OnlyAPlanWillDo) \/ planOf' = [planOf EXCEPT ![turn.task] = "proposed"]
    BY <1>5
  <2>5. Bounded'
    BY <1>1, <1>5, <2>1, <2>2, <2>3, <2>4, TookWithin
  <2>6. 1 = 1 <=> kind # "fallback"
    OBVIOUS
  <2>7. (UNCHANGED planOf /\ (1 = 1 => ~OnlyAPlanWillDo) /\ kind # "plan") \/ planOf' = [planOf EXCEPT ![turn.task] = "proposed"]
    BY <1>5
  <2>8. kind \in {"decision", "plan", "fallback"}
    OBVIOUS
  <2> QED BY <1>1, <1>5, <2>2, <2>3, <2>5, <2>6, <2>7, <2>8, PausedRounds
<1>6. ASSUME NEW cost \in Costs, PauseForReview(cost) PROVE RoundsInv'
  <2>1. /\ SavePause("plan", turn.moved \/ Planless) /\ Took(1, 0) /\ ~ForceFinal
        /\ planOf' = [planOf EXCEPT ![turn.task] = "proposed"]
    BY <1>6 DEF PauseForReview
  <2> QED BY <1>5, <2>1
<1>7. ASSUME NEW cost \in Costs, PauseForDecision(cost) PROVE RoundsInv'
  <2>1. /\ SavePause("decision", turn.moved) /\ Took(1, 0) /\ ~ForceFinal
        /\ UNCHANGED planOf /\ ~OnlyAPlanWillDo /\ "decision" # "plan"
    BY <1>7 DEF PauseForDecision, MayGoOn
  <2> QED BY <1>5, <2>1
<1>8. ASSUME NEW cost \in Costs, EndWith(cost) PROVE RoundsInv'
  <2>1. PICK as \in Statuses \ {"absent"} : EndTurn(as)
    BY <1>8 DEF EndWith, Statuses, Outcomes
  <2>2. UNCHANGED <<paused, planOf, spent>>
    BY <1>8 DEF EndWith
  <2> QED BY <1>1, <2>1, <2>2, EndedRounds
<1>9. CASE ProviderRefuses
  <2>1. UNCHANGED <<planOf, spent>>
    BY <1>9 DEF ProviderRefuses
  <2>2. CASE SavePause("fallback", turn.moved)
    <3>1. \A s \in Task : status'[s] = "absent" <=> status[s] = "absent"
      BY <1>2, <2>2 DEF SavePause, EndTurn, TypeOK
    <3>2. Bounded'
      BY <1>1, <2>1, <3>1, StillBounded
    <3>3. Took(0, 0)
      BY <2>1 DEF Took, TypeOK, Rounds
    <3>4. /\ "fallback" \in {"decision", "plan", "fallback"} /\ 0 \in {0, 1}
          /\ (0 = 1 <=> "fallback" # "fallback")
          /\ 0 = 1 => ~ForceFinal
          /\ (0 = 1 => ~OnlyAPlanWillDo)
          /\ "fallback" # "plan"
      OBVIOUS
    <3> QED BY <1>1, <2>1, <2>2, <3>2, <3>3, <3>4, PausedRounds
  <2>3. CASE EndTurn("failed") /\ UNCHANGED paused
    <3>1. "failed" \in Statuses \ {"absent"}
      BY DEF Statuses
    <3> QED BY <1>1, <2>1, <2>3, <3>1, EndedRounds
  <2> QED BY <1>9, <2>2, <2>3 DEF ProviderRefuses
<1> QED BY <1>3, <1>4, <1>6, <1>7, <1>8, <1>9 DEF Model

LEMMA RoundsStep == ASSUME TypeOK, SegmentMatches, RoundsInv, [Next]_vars PROVE RoundsInv'
<1>1. CASE Engine
  BY <1>1, EngineRounds
<1>2. CASE Model
  BY <1>2, ModelRounds
<1>3. CASE User
  <2>1. CASE Stop
    <3>1. /\ turn # None /\ EndTurn("cancelled") /\ "cancelled" \in Statuses \ {"absent"}
          /\ UNCHANGED <<paused, carried, segments, approved, planOf, spent, atApproval>>
      BY <2>1 DEF Stop, Statuses
    <3> QED BY <3>1, EndedRounds
  <2> QED BY <1>3, <2>1, CreatedRounds, ResumedRounds, ApprovedRounds DEF User
<1>4. CASE Crash
  <2>1. /\ turn # None /\ EndTurn("interrupted") /\ "interrupted" \in Statuses \ {"absent"}
        /\ UNCHANGED <<paused, carried, segments, approved, planOf, spent, atApproval>>
    BY <1>4 DEF Crash, Statuses
  <2> QED BY <2>1, EndedRounds
<1>5. CASE UNCHANGED vars
  <2>1. UNCHANGED <<status, planOf, carried, approved, usage, segments, instructed, paused>>
    BY <1>5 DEF vars, durable
  <2>2. UNCHANGED <<turn, spent, atApproval>>
    BY <1>5 DEF vars
  <2>3. TaskOrder'
    BY <2>1, <2>2 DEF RoundsInv, TaskOrder, Latest
  <2>4. Counted' /\ PrePlan'
    BY <2>1, <2>2, SameBase DEF RoundsInv, Counted, PrePlan, AtMost
  <2>5. Allowed'
    BY <2>1, <2>2 DEF RoundsInv, Allowed, WithinBudget
  <2>6. Bounded'
    BY <2>1, <2>2, StillBounded
  <2> QED BY <2>3, <2>4, <2>5, <2>6 DEF RoundsInv
<1> QED BY <1>1, <1>2, <1>3, <1>4, <1>5 DEF Next

LEMMA RoundsInit == ASSUME Init PROVE RoundsInv
<1>1. turn = None /\ paused = None /\ \A t \in Task : status[t] = "absent"
  BY DEF Init
<1>2. TaskOrder
  BY <1>1 DEF Init, TaskOrder
<1>3. Counted /\ Allowed /\ PrePlan
  BY <1>1 DEF Counted, Allowed, PrePlan
<1>4. \A t \in Task : ~Latest(t)
  BY <1>1, TaskIsNat DEF Latest
<1>5. Bounded
  BY <1>4 DEF Bounded
<1> QED BY <1>2, <1>3, <1>5 DEF RoundsInv

-----------------------------------------------------------------------------
(* What the invariant is for *)

\* The tasks created are those up to the newest, so their number is its own.
LEMMA NewestIsLatest ==
  ASSUME TaskOrder, NEW t \in Task, t = NewestTask
  PROVE  Latest(t)
<1> DEFINE created == {s \in Task : status[s] # "absent"}
<1>1. t = Cardinality(created) /\ t \in Nat \ {0} /\ MaxTasks \in Nat
  BY TaskIsNat, BoundsAssumption DEF NewestTask
<1>2. created # {}
  BY <1>1, FS_EmptySet
<1>3. created \in SUBSET (1..MaxTasks)
  BY DEF Task
<1>4. PICK m \in created : \A r \in created : r <= m
  <2> HIDE DEF created
  <2> QED BY <1>1, <1>2, <1>3, GreatestOfSome
<1>5. created = 1..m /\ m \in Nat
  <2>1. m \in Task /\ status[m] # "absent" /\ m \in Nat
    BY TaskIsNat
  <2>2. ASSUME NEW s \in 1..m PROVE s \in created
    <3>1. s \in Task /\ s \in Nat /\ (s < m \/ s = m)
      BY <2>1, TaskIsNat
    <3> QED BY <2>1, <3>1 DEF TaskOrder
  <2>3. ASSUME NEW s \in created PROVE s \in 1..m
    <3>1. s \in Nat \ {0} /\ s <= m
      BY <1>4, TaskIsNat
    <3> QED BY <2>1, <3>1
  <2> QED BY <2>1, <2>2, <2>3
<1>6. t = m
  <2> HIDE DEF created
  <2>1. Cardinality(1..m) = IF 1 > m THEN 0 ELSE m - 1 + 1
    BY <1>5, FS_Interval
  <2> QED BY <1>1, <1>5, <2>1
<1> QED BY <1>5, <1>6, TaskIsNat DEF Latest

LEMMA RoundsAreWithin ==
  ASSUME TypeOK, SegmentMatches, RoundsInv
  PROVE  RoundsStayWithinTheApproval
<1> SUFFICES ASSUME NEW t \in Task, t = NewestTask
             PROVE  /\ turn # None /\ turn.pc # "enter" /\ turn.tracker # None /\ carried[t] = None =>
                         Totals = spent
                    /\ approved[t] # None =>
                         /\ spent.action <= Most(approved[t].action, atApproval.action)
                         /\ spent.explore <= Most(approved[t].explore, atApproval.explore)
                    /\ planOf[t] = "none" =>
                         /\ spent.action <= PrePlanBudget.action + SegmentAction
                         /\ spent.explore <= Most(PrePlanExplore, SegmentExplore)
  BY DEF RoundsStayWithinTheApproval
<1>1. Latest(t)
  BY NewestIsLatest DEF RoundsInv
<1>2. spent \in Rounds /\ spent.action \in Nat /\ spent.explore \in Nat
  BY DEF TypeOK, Rounds
<1>3. ASSUME turn # None, turn.pc # "enter", turn.tracker # None, carried[t] = None
      PROVE  Totals = spent
  <2>1. /\ turn.task \in Task /\ Latest(turn.task)
        /\ turn.tracker.priorAction = BaseAction(turn.task)
        /\ turn.tracker.priorExplore = BaseExplore(turn.task)
    BY <1>3, RunningFacts
  <2>2. turn.task = t
    BY <1>1, <2>1, OneLatest
  <2>3. /\ spent.action = BaseAction(turn.task) + turn.action
        /\ spent.explore = BaseExplore(turn.task) + turn.explore
    BY <1>3, <2>2 DEF RoundsInv, Counted, AtMost
  <2> QED BY <1>2, <2>1, <2>3 DEF Totals, Rounds
<1>4. PrePlanBudget.action \in Nat /\ SegmentAction \in Nat
  BY PrePlanBudgetType, BoundsAssumption DEF Budget
<1> QED BY <1>1, <1>2, <1>3, <1>4 DEF RoundsInv, Bounded

\* Over any order of rounds, pauses, approvals, boundaries, Continues and crashes the
\* totals of a worker's tracker are the rounds its task took, and the task takes no
\* more of them than its approved budget (or than the pre-plan phase) allows.
THEOREM RoundsAlwaysWithinTheApproval == Spec => []RoundsStayWithinTheApproval
<1>1. Init => TypeOK /\ SegmentMatches /\ RoundsInv
  <2>1. Init => SegmentMatches
    BY DEF Init, SegmentMatches, PausedTurnCanGoOn
  <2> QED BY <2>1, TypeInit, RoundsInit
<1>2. TypeOK /\ SegmentMatches /\ RoundsInv /\ [Next]_vars =>
        TypeOK' /\ SegmentMatches' /\ RoundsInv'
  BY TypeStep, SegmentStep, RoundsStep
<1>3. TypeOK /\ SegmentMatches /\ RoundsInv => RoundsStayWithinTheApproval
  BY RoundsAreWithin
<1> QED BY <1>1, <1>2, <1>3, PTL DEF Spec

=============================================================================
