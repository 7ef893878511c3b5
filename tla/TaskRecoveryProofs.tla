------------------------- MODULE TaskRecoveryProofs -------------------------
(* What recovery keeps, for any tasks, launches, sweeps, decisions and        *)
(* crashes. The invariant IInv says what the log, the processes and the       *)
(* window's cards have to do with one another between any two writes; Counted *)
(* and Coverage say how far a sweep has come.                                 *)
EXTENDS TaskRecovery, TLAPS

AllCards == cards \cup offered
Classifying == {"scan", "account", "settle"}

\* The shell is before its launch sweep or in it.
Launching == \/ at["shell"] \in {"down", "launched", "reattach"}
             \/ at["shell"] \in Classifying /\ goal.why = "sweep"

\* A task no process runs, and none will: it has neither a turn to start nor an
\* approval to wait for.
Stopped(t) == /\ status[t] \notin {"none", "waiting_for_approval"}
              /\ \A p \in Process : cur[p] # t

\* What the shell has of the worker's tasks: one whose reattached approval it
\* shows, answers or runs.
TakenOver(t) == /\ t \in WorkerTask
                /\ t = resolving \/ t = cur["shell"] \/ \E pr \in cards : pr[1] = t

\* A task is run by one process.
OwnTurns ==
  /\ cur["worker"] \in WorkerTask \cup {NoTask}
  /\ cur["shell"] \in WorkerTask => resolving = cur["shell"]
  /\ \A t \in Task : TakenOver(t) => /\ cur["worker"] # t /\ status[t] # "none"
                                     /\ \A pr \in offered : pr[1] # t

StatusFits ==
  \A p \in Process :
    /\ at[p] = "created" => status[cur[p]] = "created"
    /\ at[p] \in {"validating", "checking"} => status[cur[p]] = "validating"
    /\ at[p] = "settling" => status[cur[p]] \in {"preparing_context", "validating"}
    /\ at[p] = "settled" => status[cur[p]] = "complete"
    /\ at[p] \in {"approved", "continuing"} => status[cur[p]] = "waiting_for_approval"
    /\ at[p] \in {"ready", "call", "uncounted", "failing", "cancelling", "tool", "effect",
                  "saved", "asking"} => status[cur[p]] = "preparing_context"

\* The numbers of calls and proposals stay in their bounds, and no call is
\* counted before it is made or twice.
NumbersFit ==
  /\ \A p \in Process : at[p] \in {"saved", "asking"} => link[cur[p]] < MaxProposals
  /\ \A t \in Task, c \in 1..MaxCalls : usage[t][c] <= 1 /\ (c > calls[t] => usage[t][c] = 0)
  /\ \A p \in Process : at[p] \in {"call", "uncounted"} =>
       calls[cur[p]] \in 1..MaxCalls /\ usage[cur[p]][calls[cur[p]]] = 0
  /\ \A m \in markers : IF m.action = "model_call" THEN m.n \in 1..calls[m.task] ELSE m.n = 0
  /\ \A t \in Task : status[t] = "waiting_for_approval" => link[t] # 0

\* Who is classified is not running.
SweepsTheDead ==
  at["shell"] \in {"account", "settle"} /\ here = "worker" => at["worker"] = "down"

\* A decision is about a shown task of the shell's session.
GoalFits ==
  /\ at["shell"] \notin Classifying \cup {"superseding"} => goal.why = "sweep"
  /\ goal.why # "sweep" => goal.task \in Task \ WorkerTask /\ goal.task \in shown
  /\ at["shell"] = "superseding" => /\ goal.why = "resume" /\ goal.task \notin superseded
                                    /\ found = {}

PromptsFit == \A t \in Task : prompts[t] = 0 \/ (prompts[t] = 1 /\ t \in superseded)

-----------------------------------------------------------------------------
(* Cards that can be answered *)

\* What can still be answered: a turn saved on disk, or a patch.
Kept == paused \cup patches

CardsWait ==
  \A pr \in AllCards \cap Kept :
    /\ status[pr[1]] = "waiting_for_approval" /\ pr[2] = link[pr[1]]
    /\ \A p \in Process : cur[p] # pr[1]
OneCard == \A pr, qr \in AllCards \cap Kept : pr[1] = qr[1] => pr = qr
CardNumbers == \A pr \in AllCards : pr[2] <= link[pr[1]]
CardPhases ==
  /\ Launching /\ at["shell"] # "reattach" => cards = {}
  /\ at["shell"] = "reattach" => \A pr \in cards : Home(pr[1]) \notin scan
  /\ Launching => \A pr \in offered : pr[1] \in WorkerTask
  /\ at["worker"] = "down" => \A pr \in offered : pr[1] \notin WorkerTask
  /\ resolving \in Task => \E pr \in cards : pr[1] = resolving
  /\ \A pr \in cards : /\ status[pr[1]] # "none"
                       /\ \A qr \in offered : pr[1] # qr[1]
                       /\ pr[1] = cur["shell"] => pr[1] = resolving
CardsFit == CardsWait /\ OneCard /\ CardNumbers /\ CardPhases

-----------------------------------------------------------------------------
(* What a crash leaves *)

MarkersFit ==
  /\ \A p \in Process : at[p] \in {"tool", "effect"} => Tool(cur[p]) \in markers
  /\ \A t \in Task : Settlement(t) \in markers =>
       \/ Stopped(t)
       \/ \E p \in Process : cur[p] = t /\ at[p] \in {"settling", "settled"}

LostFit ==
  /\ \A t \in lost : Stopped(t) /\ Tool(t) \in markers
  /\ \A t \in lostCheck : /\ Stopped(t)
                          /\ status[t] \in Terminal \cup {"validating"} \/ <<t, "user">> \in resumed

ResumedFit ==
  \A t \in Resumed : /\ Stopped(t) /\ t \notin WorkerTask
                     /\ Settlement(t) \in markers => t \in vanished

\* What is classified stays so until it is decided.
FoundFit ==
  /\ found # {} => at["shell"] \in Classifying
  /\ at["shell"] \in {"account", "settle"} => here \notin scan
  /\ \A t \in found \ WorkerTask :
       /\ Recovered(t) /\ (Settlement(t) \in markers => t \in vanished \/ Tool(t) \in markers)
       /\ "shell" \notin scan /\ (at["shell"] \in {"account", "settle"} => here # "shell")

TurnInv == OwnTurns /\ StatusFits /\ NumbersFit /\ SweepsTheDead /\ GoalFits /\ PromptsFit
HistoryInv == MarkersFit /\ LostFit /\ ResumedFit /\ FoundFit /\ OnlySafeTasksAreResumed
IInv == TypeOK /\ TurnInv /\ CardsFit /\ HistoryInv

-----------------------------------------------------------------------------
(* Steps *)

LEMMA Processes == /\ Process = {"shell", "worker"} /\ "shell" # "worker"
                   /\ \A t : Home(t) = IF t \in WorkerTask THEN "worker" ELSE "shell"
  BY DEF Process, Home

\* The two processes never run the same task.
LEMMA Apart ==
  ASSUME TypeOK, OwnTurns, NEW p \in Process, NEW q \in Process, p # q, cur[p] \in Task
  PROVE  cur[p] # cur[q]
  BY NoTaskAssumption, WorkerTaskAssumption DEF OwnTurns, TakenOver, Process

\* A turn's step concerns its process and its task alone.
TurnFrame(p) ==
  /\ UNCHANGED <<scan, here, goal, found, shown, cards, crashes, resumed, prompts, vanished,
                 lost, lostCheck, superseded, decided>>
  /\ erred \subseteq erred'
  /\ at[p] \in TurnAt \cup {"idle"} /\ at'[p] \in TurnAt \cup {"idle"}
  /\ \A q \in Process : q # p => at'[q] = at[q] /\ cur'[q] = cur[q]
  /\ \A t \in Task : t # cur[p] /\ t # cur'[p] =>
       /\ status'[t] = status[t] /\ calls'[t] = calls[t]
       /\ usage'[t] = usage[t] /\ link'[t] = link[t]
       /\ \A m \in Marker : m.task = t => (m \in markers' <=> m \in markers)

TurnMoves(p) ==
  \/ /\ cur'[p] = cur[p] /\ cur[p] \in Task /\ at[p] \in TurnAt /\ at'[p] \in TurnAt
  \/ /\ cur[p] \in Task /\ at[p] \in TurnAt /\ cur'[p] = NoTask /\ at'[p] = "idle"
  \/ /\ cur[p] = NoTask /\ at[p] = "idle" /\ cur'[p] \in Task
     /\ \/ at'[p] = "created" /\ status[cur'[p]] = "none" /\ Home(cur'[p]) = p
        \/ /\ at'[p] \in {"approved", "continuing"}
           /\ \E pr \in paused \cap offered : pr[1] = cur'[p] /\ Home(pr[1]) = p

LEMMA TurnSteps ==
  ASSUME TypeOK, NEW p \in Process, TurnStep(p)
  PROVE  TurnFrame(p) /\ TurnMoves(p)
<1> USE DEF recoveryFrame, turnFrame, sweepVars, Go, SetStatus, TurnFrame, TurnMoves
<1>a. /\ at[p] \in TurnAt => cur[p] \in Task
      /\ at[p] = "idle" => cur[p] \notin Task /\ cur[p] = NoTask
      /\ status \in [Task -> Status] /\ calls \in [Task -> 0..MaxCalls]
      /\ link \in [Task -> 0..MaxProposals] /\ DOMAIN at = Process /\ DOMAIN cur = Process
      /\ usage \in [Task -> [1..MaxCalls -> 0..2]]
  BY DEF TypeOK, TurnAt
<1>1. CASE \E t \in Task : StartTurn(p, t)
  BY <1>1, <1>a DEF StartTurn, TurnAt
<1>2. CASE PrepareContext(p) \/ ContinueTurn(p) \/ BeginValidating(p)
  BY <1>2, <1>a DEF PrepareContext, ContinueTurn, BeginValidating, TurnAt
<1>3. CASE StartCall(p) \/ FinishCall(p)
  BY <1>3, <1>a DEF StartCall, FinishCall, TurnAt, Call
<1>4. CASE RecordUsage(p) \/ StopCall(p)
  BY <1>4, <1>a DEF RecordUsage, StopCall, Count, TurnAt
<1>5. CASE Fail(p) \/ FinishCancelledTurn(p) \/ TurnErrs(p)
  BY <1>5, <1>a DEF Fail, FinishCancelledTurn, EndTurn, TurnErrs, durable, TurnAt
<1>6. CASE StartTool(p) \/ Dispatch(p) \/ FinishTool(p)
  BY <1>6, <1>a DEF StartTool, Dispatch, FinishTool, TurnAt, Tool, durable
<1>7. CASE SavePausedTurn(p) \/ FinishProposing(p) \/ ProposePatch(p)
  BY <1>7, <1>a DEF SavePausedTurn, FinishProposing, ProposePatch, TurnAt, Tool
<1>8. CASE AwaitApproval(p)
  BY <1>8, <1>a DEF AwaitApproval, TurnAt
<1>9. CASE RunVerificationCheck(p) \/ RunApproved(p)
  BY <1>9, <1>a DEF RunVerificationCheck, RunApproved, TurnAt, durable
<1>10. CASE StartSettlement(p) \/ WriteSettlement(p) \/ FinishSettlement(p)
  BY <1>10, <1>a DEF StartSettlement, WriteSettlement, FinishSettlement, TurnAt, Settlement
<1>11. CASE \E pr \in Proposal : AnswerApproval(p, pr)
  <2>1. PICK pr \in Proposal : AnswerApproval(p, pr)
    BY <1>11
  <2>2. pr[1] \in Task
    BY DEF Proposal
  <2> QED BY <2>1, <2>2, <1>a DEF AnswerApproval, TakePausedTurn, TurnAt
<1> QED BY <1>1, <1>2, <1>3, <1>4, <1>5, <1>6, <1>7, <1>8, <1>9, <1>10, <1>11 DEF TurnStep

\* What a turn's step does to the approvals.
Pauses(p) ==
  /\ at[p] = "asking" /\ cur[p] \in Task /\ cur'[p] = NoTask /\ at'[p] = "idle"
  /\ status'[cur[p]] = "waiting_for_approval" /\ link'[cur[p]] = link[cur[p]] + 1
  /\ \/ offered' = offered
     \/ offered' = offered \cup {<<cur[p], link'[cur[p]]>>} /\ cur[p] # resolving
  /\ UNCHANGED <<paused, patches, resolving>>
Saves(p) ==
  /\ at[p] = "tool" /\ cur[p] \in Task /\ cur'[p] = cur[p]
  /\ at'[p] \in {"saved", "asking"}
  /\ link[cur[p]] < MaxProposals
  /\ Kept' = Kept \cup {<<cur[p], link[cur[p]] + 1>>}
  /\ UNCHANGED <<offered, link, resolving, status>>
Answers(p, pr) ==
  /\ pr \in offered \cap paused /\ Home(pr[1]) = p
  /\ at[p] = "idle" /\ at'[p] \in {"approved", "continuing"} /\ cur'[p] = pr[1]
  /\ offered' = offered \ {pr} /\ paused' = paused \ {pr}
  /\ UNCHANGED <<status, link, resolving, patches>>
Proceeds(p) ==
  /\ UNCHANGED <<paused, patches, offered, link>>
  /\ \A t \in Task : status'[t] \in {"none", "waiting_for_approval"} => status'[t] = status[t]
  /\ resolving' = resolving \/ (p = "shell" /\ cur'[p] = NoTask /\ resolving' = NoTask)
  /\ \/ cur'[p] = cur[p] \/ cur'[p] = NoTask
     \/ /\ cur'[p] \in Task /\ status[cur'[p]] = "none" /\ Home(cur'[p]) = p
        /\ at'[p] = "created" /\ status'[cur'[p]] = "created"

LEMMA TurnKinds ==
  ASSUME TypeOK, NEW p \in Process, TurnStep(p)
  PROVE  Pauses(p) \/ Saves(p) \/ (\E pr \in Proposal : Answers(p, pr)) \/ Proceeds(p)
<1>a. /\ at[p] \in TurnAt => cur[p] \in Task
      /\ status \in [Task -> Status] /\ link \in [Task -> 0..MaxProposals]
      /\ DOMAIN at = Process /\ DOMAIN cur = Process
  BY DEF TypeOK, TurnAt
<1> USE DEF turnFrame, Go, SetStatus
<1>1. CASE \E t \in Task : StartTurn(p, t)
  BY <1>1, <1>a DEF StartTurn, Proceeds
<1>2. CASE PrepareContext(p) \/ ContinueTurn(p) \/ BeginValidating(p)
  BY <1>2, <1>a DEF PrepareContext, ContinueTurn, BeginValidating, Proceeds
<1>3. CASE StartCall(p) \/ FinishCall(p) \/ RecordUsage(p) \/ StopCall(p)
  BY <1>3, <1>a DEF StartCall, FinishCall, RecordUsage, StopCall, Proceeds
<1>4. CASE Fail(p) \/ FinishCancelledTurn(p) \/ TurnErrs(p)
  BY <1>4, <1>a DEF Fail, FinishCancelledTurn, EndTurn, TurnErrs, durable, Proceeds
<1>5. CASE StartTool(p) \/ Dispatch(p) \/ FinishTool(p)
  BY <1>5, <1>a DEF StartTool, Dispatch, FinishTool, durable, Proceeds
<1>6. CASE SavePausedTurn(p) \/ ProposePatch(p)
  BY <1>6, <1>a DEF SavePausedTurn, ProposePatch, Saves, Kept, TurnAt
<1>7. CASE FinishProposing(p)
  BY <1>7, <1>a DEF FinishProposing, Proceeds
<1>8. CASE AwaitApproval(p)
  <2>1. at[p] = "asking" /\ cur[p] \in Task
    BY <1>8, <1>a DEF AwaitApproval, TurnAt
  <2>2. link'[cur[p]] = link[cur[p]] + 1 /\ status'[cur[p]] = "waiting_for_approval"
    BY <1>8, <1>a, <2>1 DEF AwaitApproval
  <2> QED BY <1>8, <1>a, <2>1, <2>2 DEF AwaitApproval, Pauses
<1>9. CASE RunVerificationCheck(p) \/ RunApproved(p)
  BY <1>9, <1>a DEF RunVerificationCheck, RunApproved, durable, Proceeds
<1>10. CASE StartSettlement(p) \/ WriteSettlement(p) \/ FinishSettlement(p)
  BY <1>10, <1>a DEF StartSettlement, WriteSettlement, FinishSettlement, Proceeds
<1>11. CASE \E pr \in Proposal : AnswerApproval(p, pr)
  BY <1>11, <1>a DEF AnswerApproval, TakePausedTurn, Answers
<1> QED BY <1>1, <1>2, <1>3, <1>4, <1>5, <1>6, <1>7, <1>8, <1>9, <1>10, <1>11 DEF TurnStep

-----------------------------------------------------------------------------
(* Types *)

LogTypes ==
  /\ status \in [Task -> Status] /\ markers \subseteq Marker
  /\ calls \in [Task -> 0..MaxCalls] /\ usage \in [Task -> [1..MaxCalls -> 0..2]]
  /\ paused \subseteq Proposal /\ link \in [Task -> 0..MaxProposals]
  /\ superseded \subseteq Task /\ patches \subseteq Proposal /\ decided \subseteq Proposal
ProcessTypes ==
  /\ at \in [Process -> {"down", "idle"} \cup TurnAt \cup SweepAt]
  /\ cur \in [Process -> Task \cup {NoTask}]
  /\ \A p \in Process : cur[p] \in Task <=> at[p] \in TurnAt
SweepTypes ==
  /\ found \subseteq Task /\ shown \subseteq Task /\ scan \subseteq Process /\ here \in Process
  /\ goal \in [why : Decision \cup {"sweep"}, task : Task \cup {NoTask}]
  /\ cards \subseteq Proposal /\ resolving \in Task \cup {NoTask}
  /\ crashes \in 0..MaxCrashes
  /\ resumed \subseteq Task \X {"sweep", "user"} /\ prompts \in [Task -> 0..2]
  /\ lost \subseteq Task /\ lostCheck \subseteq Task /\ vanished \subseteq Task
OtherTypes == offered \subseteq Proposal /\ ran \in [Proposal -> 0..2] /\ erred \subseteq Task

LEMMA TypesSplit == /\ TypeOK <=> LogTypes /\ ProcessTypes /\ SweepTypes /\ OtherTypes
                    /\ TypeOK' <=> LogTypes' /\ ProcessTypes' /\ SweepTypes' /\ OtherTypes'
  BY DEF TypeOK, LogTypes, ProcessTypes, SweepTypes, OtherTypes

LEMMA Bounds == /\ MaxCalls \in Nat /\ MaxProposals \in Nat /\ MaxCrashes \in Nat
                /\ NoTask \notin Task /\ WorkerTask \subseteq Task
  BY MaxCallsAssumption, MaxProposalsAssumption, MaxCrashesAssumption, NoTaskAssumption,
     WorkerTaskAssumption

LEMMA InitTypes == Init => TypeOK
<1> SUFFICES ASSUME Init PROVE TypeOK
  OBVIOUS
<1>1. LogTypes
  BY Bounds DEF Init, LogTypes, Status
<1>2. ProcessTypes
  BY Bounds DEF Init, ProcessTypes, TurnAt
<1>3. SweepTypes /\ OtherTypes
  BY Bounds DEF Init, SweepTypes, OtherTypes, Process
<1> QED BY <1>1, <1>2, <1>3, TypesSplit

LEMMA MarkerTypes ==
  ASSUME TypeOK, NEW t \in Task
  PROVE  /\ Tool(t) \in Marker /\ Settlement(t) \in Marker
         /\ calls[t] < MaxCalls => [Call(t) EXCEPT !.n = @ + 1] \in Marker
<1>1. calls[t] \in 0..MaxCalls
  BY DEF TypeOK
<1>2. Tool(t) \in Marker /\ Settlement(t) \in Marker
  BY Bounds DEF Marker, Tool, Settlement
<1>3. [Call(t) EXCEPT !.n = @ + 1] = [task |-> t, action |-> "model_call", n |-> calls[t] + 1]
  BY DEF Call
<1>4. calls[t] < MaxCalls => calls[t] + 1 \in 0..MaxCalls
  BY <1>1, Bounds
<1> QED BY <1>2, <1>3, <1>4 DEF Marker

LEMMA TurnLogTypes ==
  ASSUME TypeOK, OwnTurns, NumbersFit, NEW p \in Process, TurnStep(p)
  PROVE  LogTypes' /\ OtherTypes'
<1> USE DEF turnFrame, SetStatus, LogTypes, OtherTypes
<1>a. /\ at[p] \in TurnAt => cur[p] \in Task
      /\ LogTypes /\ OtherTypes
  BY TypesSplit DEF TypeOK
<1>1. CASE \E t \in Task : StartTurn(p, t)
  BY <1>1, <1>a DEF StartTurn, Status
<1>2. CASE PrepareContext(p) \/ ContinueTurn(p) \/ BeginValidating(p)
  BY <1>2, <1>a DEF PrepareContext, ContinueTurn, BeginValidating, Status
<1>3. CASE StartCall(p)
  <2>1. cur[p] \in Task /\ calls[cur[p]] \in 0..MaxCalls /\ calls[cur[p]] < MaxCalls
    BY <1>3, <1>a DEF StartCall, TurnAt
  <2>2. markers' \subseteq Marker
    BY <1>3, <1>a, <2>1, MarkerTypes DEF StartCall
  <2>3. calls' \in [Task -> 0..MaxCalls]
    BY <1>3, <1>a, <2>1, Bounds DEF StartCall
  <2> QED BY <1>3, <1>a, <2>2, <2>3 DEF StartCall
<1>4. CASE FinishCall(p)
  BY <1>4, <1>a DEF FinishCall
<1>5. CASE RecordUsage(p) \/ StopCall(p)
  <2>1. usage' = [usage EXCEPT ![cur[p]][calls[cur[p]]] = @ + 1]
    BY <1>5 DEF RecordUsage, StopCall, Count
  <2>2. usage' \in [Task -> [1..MaxCalls -> 0..2]]
    BY <2>1, <1>5, <1>a, Bounds DEF NumbersFit, RecordUsage, StopCall, TurnAt
  <2> QED BY <1>5, <2>2, <1>a DEF RecordUsage, StopCall
<1>6. CASE Fail(p) \/ FinishCancelledTurn(p) \/ TurnErrs(p)
  BY <1>6, <1>a DEF Fail, FinishCancelledTurn, EndTurn, TurnErrs, durable, Status, Terminal,
                    TasksOf
<1>7. CASE StartTool(p) \/ Dispatch(p) \/ FinishTool(p)
  BY <1>7, <1>a, MarkerTypes DEF StartTool, Dispatch, FinishTool, TurnAt, durable
<1>8. CASE SavePausedTurn(p) \/ ProposePatch(p)
  <2>1. cur[p] \in Task /\ link[cur[p]] \in 0..MaxProposals /\ link[cur[p]] < MaxProposals
    BY <1>8, <1>a DEF SavePausedTurn, ProposePatch, TurnAt
  <2>2. <<cur[p], link[cur[p]] + 1>> \in Proposal
    BY <2>1, Bounds DEF Proposal
  <2> QED BY <1>8, <1>a, <2>2 DEF SavePausedTurn, ProposePatch
<1>9. CASE FinishProposing(p)
  BY <1>9, <1>a DEF FinishProposing
<1>10. CASE AwaitApproval(p)
  <2>1. cur[p] \in Task /\ link[cur[p]] \in 0..MaxProposals /\ link[cur[p]] < MaxProposals
    BY <1>10, <1>a DEF AwaitApproval, NumbersFit, TurnAt
  <2>2. <<cur[p], link[cur[p]] + 1>> \in Proposal /\ link[cur[p]] + 1 \in 0..MaxProposals
    BY <2>1, Bounds DEF Proposal
  <2> QED BY <1>10, <1>a, <2>1, <2>2 DEF AwaitApproval, Status
<1>11. CASE RunVerificationCheck(p)
  BY <1>11, <1>a DEF RunVerificationCheck, durable
<1>12. CASE RunApproved(p)
  <2>1. PICK pr : ran' = [ran EXCEPT ![pr] = IF @ = 2 THEN 2 ELSE @ + 1]
    BY <1>12 DEF RunApproved, CountRun
  <2>2. \A qr \in Proposal : ran[qr] \in 0..2
    BY <1>a
  <2>3. ran' = [qr \in Proposal |-> IF qr = pr THEN (IF ran[pr] = 2 THEN 2 ELSE ran[pr] + 1)
                                   ELSE ran[qr]]
    BY <2>1, <1>a, Zenon
  <2>4. ran' \in [Proposal -> 0..2]
    BY <2>2, <2>3
  <2> QED BY <1>12, <2>4, <1>a DEF RunApproved, durable
<1>13. CASE StartSettlement(p) \/ WriteSettlement(p) \/ FinishSettlement(p)
  BY <1>13, <1>a, MarkerTypes
     DEF StartSettlement, WriteSettlement, FinishSettlement, TurnAt, Status, Terminal
<1>14. CASE \E pr \in Proposal : AnswerApproval(p, pr)
  BY <1>14, <1>a DEF AnswerApproval, TakePausedTurn
<1> QED BY <1>1, <1>2, <1>3, <1>4, <1>5, <1>6, <1>7, <1>8, <1>9, <1>10, <1>11, <1>12, <1>13,
           <1>14 DEF TurnStep

\* Where a process goes it may be.
Location == {"down", "idle"} \cup TurnAt \cup SweepAt

LEMMA TurnGoes ==
  ASSUME TypeOK, NEW p \in Process, TurnStep(p)
  PROVE  /\ at' \in [Process -> Location] /\ cur' \in [Process -> Task \cup {NoTask}]
         /\ resolving' \in Task \cup {NoTask}
<1>a. /\ at \in [Process -> Location] /\ cur \in [Process -> Task \cup {NoTask}]
      /\ TurnAt \cup {"idle"} \subseteq Location
      /\ resolving \in Task \cup {NoTask} /\ NoTask \in Task \cup {NoTask}
  BY DEF TypeOK, Location
<1> USE DEF Go
<1>1. CASE \E t \in Task : StartTurn(p, t)
  BY <1>1, <1>a DEF StartTurn, TurnAt
<1>2. CASE PrepareContext(p) \/ ContinueTurn(p) \/ BeginValidating(p)
  BY <1>2, <1>a DEF PrepareContext, ContinueTurn, BeginValidating, TurnAt
<1>3. CASE StartCall(p) \/ FinishCall(p) \/ RecordUsage(p) \/ StopCall(p)
  BY <1>3, <1>a DEF StartCall, FinishCall, RecordUsage, StopCall, TurnAt
<1>4. CASE Fail(p) \/ FinishCancelledTurn(p) \/ TurnErrs(p)
  BY <1>4, <1>a DEF Fail, FinishCancelledTurn, EndTurn, TurnErrs, durable
<1>5. CASE StartTool(p) \/ Dispatch(p) \/ FinishTool(p)
  BY <1>5, <1>a DEF StartTool, Dispatch, FinishTool, TurnAt
<1>6. CASE SavePausedTurn(p) \/ FinishProposing(p) \/ ProposePatch(p) \/ AwaitApproval(p)
  BY <1>6, <1>a DEF SavePausedTurn, FinishProposing, ProposePatch, AwaitApproval, TurnAt
<1>7. CASE RunVerificationCheck(p) \/ RunApproved(p)
  BY <1>7, <1>a DEF RunVerificationCheck, RunApproved, TurnAt
<1>8. CASE StartSettlement(p) \/ WriteSettlement(p) \/ FinishSettlement(p)
  BY <1>8, <1>a DEF StartSettlement, WriteSettlement, FinishSettlement, TurnAt
<1>9. CASE \E pr \in Proposal : AnswerApproval(p, pr)
  <2>1. \A pr \in Proposal : pr[1] \in Task
    BY DEF Proposal
  <2> QED BY <1>9, <1>a, <2>1 DEF AnswerApproval, TakePausedTurn, TurnAt
<1> QED BY <1>1, <1>2, <1>3, <1>4, <1>5, <1>6, <1>7, <1>8, <1>9 DEF TurnStep

LEMMA TurnTypes ==
  ASSUME TypeOK, OwnTurns, NumbersFit, NEW p \in Process, TurnStep(p)
  PROVE  TypeOK'
<1>1. TurnFrame(p) /\ TurnMoves(p) /\ ProcessTypes /\ SweepTypes
  BY TurnSteps, TypesSplit
<1>2. ProcessTypes'
  <2>1. \A q \in Process : cur'[q] \in Task <=> at'[q] \in TurnAt
    <3> SUFFICES ASSUME NEW q \in Process PROVE cur'[q] \in Task <=> at'[q] \in TurnAt
      OBVIOUS
    <3>1. CASE q # p
      BY <1>1, <3>1 DEF ProcessTypes, TurnFrame
    <3>2. CASE q = p
      BY <1>1, <3>2, Bounds DEF TurnMoves, TurnAt
    <3> QED BY <3>1, <3>2
  <2> QED BY <2>1, TurnGoes DEF ProcessTypes, Location
<1>3. SweepTypes'
  BY <1>1, TurnGoes DEF SweepTypes, TurnFrame
<1> QED BY <1>2, <1>3, TurnLogTypes, TypesSplit

\* The classification of sessions, the window and the deaths of processes.
LEMMA SweepStepTypes ==
  ASSUME TypeOK, NumbersFit, SweepStep PROVE TypeOK'
<1>a. LogTypes /\ ProcessTypes /\ SweepTypes /\ OtherTypes /\ "shell" \in Process
  BY TypesSplit DEF Process
<1> USE DEF shellFrame, Go, SetStatus
<1> SUFFICES LogTypes' /\ ProcessTypes' /\ SweepTypes' /\ OtherTypes'
  BY TypesSplit
<1>1. CASE BeginSweep \/ AllAccounted \/ BeginReattach \/ FinishSweep
  <2>1. LogTypes' /\ OtherTypes' /\ SweepTypes'
    BY <1>1, <1>a DEF BeginSweep, AllAccounted, BeginReattach, FinishSweep, sweepVars, idle,
                      LogTypes, OtherTypes, SweepTypes
  <2>2. ProcessTypes'
    BY <1>1, <1>a DEF BeginSweep, AllAccounted, BeginReattach, FinishSweep, ProcessTypes,
                      TurnAt, SweepAt
  <2> QED BY <2>1, <2>2
<1>2. CASE \E s \in Process : ClassifySession(s)
  <2>1. LogTypes' /\ OtherTypes' /\ SweepTypes'
    BY <1>2, <1>a DEF ClassifySession, LogTypes, OtherTypes, SweepTypes
  <2>2. ProcessTypes'
    BY <1>2, <1>a DEF ClassifySession, ProcessTypes, TurnAt, SweepAt
  <2> QED BY <2>1, <2>2
<1>3. CASE AccountForLostCall
  <2>1. PICK m \in LostCalls(here) : usage' = [usage EXCEPT ![m.task][m.n] = @ + 1]
    BY <1>3 DEF AccountForLostCall, Count
  <2>2. m.task \in Task /\ usage[m.task][m.n] = 0 /\ m.n \in 1..calls[m.task]
    BY <2>1, <1>a DEF LostCalls, LogTypes, Marker, NumbersFit
  <2>3. m.n \in 1..MaxCalls /\ usage[m.task] \in [1..MaxCalls -> 0..2]
    BY <2>2, <1>a, Bounds DEF LogTypes
  <2>4. [usage[m.task] EXCEPT ![m.n] = @ + 1] \in [1..MaxCalls -> 0..2]
    BY <2>2, <2>3
  <2>5. usage' \in [Task -> [1..MaxCalls -> 0..2]]
    BY <2>1, <2>2, <2>4, <1>a DEF LogTypes
  <2> QED BY <1>3, <1>a, <2>5 DEF AccountForLostCall, sweepVars, LogTypes, ProcessTypes,
                                  SweepTypes, OtherTypes
<1>4. CASE SettleCrashed
  <2>1. \A m \in OpenSettlements(here) : m.task \in Task
    BY <1>a DEF OpenSettlements, LogTypes, Marker
  <2>2. status' \in [Task -> Status] /\ markers' \subseteq Marker
    BY <1>4, <1>a, <2>1 DEF SettleCrashed, LogTypes, Status, Terminal
  <2> QED BY <1>4, <1>a, <2>2 DEF SettleCrashed, sweepVars, LogTypes, ProcessTypes,
                                  SweepTypes, OtherTypes
<1>5. CASE ClassifyTasks
  <2>1. \A m \in OpenSettlements(here) : m.task \in Task
    BY <1>a DEF OpenSettlements, LogTypes, Marker
  <2>2. found' \subseteq Task /\ vanished' \subseteq Task
    BY <1>5, <1>a, <2>1 DEF ClassifyTasks, SweepTypes, TasksOf
  <2>3. ProcessTypes'
    BY <1>5, <1>a DEF ClassifyTasks, ProcessTypes, TurnAt, SweepAt
  <2> QED BY <1>5, <1>a, <2>2, <2>3 DEF ClassifyTasks, durable, window, LogTypes, SweepTypes,
                                        OtherTypes
<1>6. CASE ResumeFound
  <2>1. PICK t \in found :
          /\ found' = found \ {t}
          /\ IF t \in superseded
             THEN UNCHANGED <<status, shown, resumed>>
             ELSE /\ shown' = shown \cup {t}
                  /\ IF AutoResumePermitted(t)
                     THEN SetStatus(t, "preparing_context") /\ Authorize(t, "sweep")
                     ELSE UNCHANGED <<status, resumed>>
    BY <1>6 DEF ResumeFound
  <2>2. t \in Task
    BY <1>a DEF SweepTypes
  <2>3. LogTypes'
    BY <1>6, <1>a, <2>1, <2>2 DEF ResumeFound, LogTypes, Status
  <2>4. /\ found' \subseteq Task /\ shown' \subseteq Task
        /\ resumed' \subseteq Task \X {"sweep", "user"}
    BY <1>a, <2>1, <2>2 DEF SweepTypes, Authorize
  <2> QED BY <1>6, <1>a, <2>3, <2>4 DEF ResumeFound, ProcessTypes, SweepTypes, OtherTypes
<1>7. CASE \E s \in Process : ReattachPendingApprovals(s)
  <2>1. PICK s \in Process : ReattachPendingApprovals(s)
    BY <1>7
  <2>2. \A t \in Waiting(s) : t \in Task
    BY DEF Waiting, TasksOf
  <2>3. LogTypes'
    BY <1>a, <2>1, <2>2 DEF ReattachPendingApprovals, LogTypes, Status, Terminal
  <2>4. cards' \subseteq Proposal
    <3>1. \A t \in Waiting(s) : <<t, link[t]>> \in Proposal
      <4> SUFFICES ASSUME NEW t \in Waiting(s) PROVE link[t] \in 1..MaxProposals
        BY <2>2 DEF Proposal
      <4>1. link[t] \in 0..MaxProposals /\ link[t] # 0
        BY <1>a, <2>2 DEF LogTypes, NumbersFit, Waiting
      <4> QED BY <4>1, Bounds
    <3> QED BY <2>1, <3>1, <1>a DEF ReattachPendingApprovals, SweepTypes
  <2>5. scan' \subseteq Process
    BY <2>1, <1>a DEF ReattachPendingApprovals, SweepTypes
  <2> QED BY <1>a, <2>1, <2>3, <2>4, <2>5 DEF ReattachPendingApprovals, ProcessTypes,
                                              SweepTypes, OtherTypes
<1> QED BY <1>1, <1>2, <1>3, <1>4, <1>5, <1>6, <1>7 DEF SweepStep, ClassifyStep

LEMMA DecisionTypes ==
  ASSUME TypeOK, GoalFits, PromptsFit, DecisionStep PROVE TypeOK'
<1>a. LogTypes /\ ProcessTypes /\ SweepTypes /\ OtherTypes /\ "shell" \in Process
  BY TypesSplit DEF Process
<1>b. /\ goal.why # "sweep" => goal.task \in Task
      /\ at["shell"] = "superseding" => goal.task \in Task /\ prompts[goal.task] = 0
  BY DEF GoalFits, PromptsFit
<1> USE DEF shellFrame, decisionFrame, Go, SetStatus
<1> SUFFICES LogTypes' /\ ProcessTypes' /\ SweepTypes' /\ OtherTypes'
  BY TypesSplit
<1>1. CASE \E t \in Task, d \in Decision : Decide(t, d)
  <2>1. LogTypes' /\ OtherTypes' /\ SweepTypes'
    BY <1>1, <1>a, Processes DEF Decide, LogTypes, OtherTypes, SweepTypes
  <2>2. ProcessTypes'
    BY <1>1, <1>a DEF Decide, ProcessTypes, TurnAt, SweepAt
  <2> QED BY <2>1, <2>2
<1>2. CASE RefuseDecision
  <2>1. LogTypes' /\ OtherTypes' /\ SweepTypes'
    BY <1>2, <1>a DEF RefuseDecision, LogTypes, OtherTypes, SweepTypes, idle
  <2>2. ProcessTypes'
    BY <1>2, <1>a DEF RefuseDecision, Deciding, ProcessTypes, TurnAt, SweepAt
  <2> QED BY <2>1, <2>2
<1>3. CASE Resume
  <2>1. goal.task \in Task
    BY <1>3, <1>b DEF Resume, Deciding
  <2>2. LogTypes' /\ OtherTypes'
    BY <1>3, <1>a, <2>1 DEF Resume, LogTypes, OtherTypes, Status
  <2>3. SweepTypes'
    BY <1>3, <1>a, <2>1 DEF Resume, Authorize, SweepTypes
  <2>4. ProcessTypes'
    BY <1>3, <1>a DEF Resume, Deciding, ProcessTypes, TurnAt, SweepAt
  <2> QED BY <2>2, <2>3, <2>4
<1>4. CASE MarkFailedOrAbandon
  <2>1. goal.task \in Task /\ at["shell"] = "scan"
    BY <1>4, <1>b DEF MarkFailedOrAbandon, Deciding
  <2>2. LogTypes' /\ OtherTypes'
    BY <1>4, <1>a, <2>1 DEF MarkFailedOrAbandon, LogTypes, OtherTypes, Status, Terminal
  <2>3. SweepTypes'
    BY <1>4, <1>a DEF MarkFailedOrAbandon, SweepTypes, idle
  <2>4. ProcessTypes'
    BY <1>4, <1>a, <2>1 DEF MarkFailedOrAbandon, ProcessTypes, TurnAt, SweepAt
  <2> QED BY <2>2, <2>3, <2>4
<1>5. CASE MarkTaskSuperseded
  <2>1. goal.task \in Task /\ prompts[goal.task] = 0
    BY <1>5, <1>b DEF MarkTaskSuperseded
  <2>2. LogTypes' /\ OtherTypes' /\ SweepTypes'
    BY <1>5, <1>a, <2>1 DEF MarkTaskSuperseded, LogTypes, OtherTypes, SweepTypes, idle
  <2>3. ProcessTypes'
    BY <1>5, <1>a DEF MarkTaskSuperseded, ProcessTypes, TurnAt, SweepAt
  <2> QED BY <2>2, <2>3
<1> QED BY <1>1, <1>2, <1>3, <1>4, <1>5 DEF DecisionStep

LEMMA WindowTypes ==
  ASSUME TypeOK, WindowStep PROVE TypeOK'
<1>a. LogTypes /\ ProcessTypes /\ SweepTypes /\ OtherTypes /\ "shell" \in Process
  BY TypesSplit DEF Process
<1> SUFFICES LogTypes' /\ ProcessTypes' /\ SweepTypes' /\ OtherTypes'
  BY TypesSplit
<1>1. CASE \E pr \in Proposal : AnswerReattached(pr)
  <2>1. PICK pr \in Proposal : AnswerReattached(pr)
    BY <1>1
  <2>2. pr[1] \in Task
    BY DEF Proposal
  <2>3. LogTypes' /\ SweepTypes'
    BY <1>a, <2>1, <2>2 DEF AnswerReattached, TakePausedTurn, recoveryFrame, turnFrame, sweepVars,
                            LogTypes,
                            SweepTypes
  <2>4. ran' \in [Proposal -> 0..2]
    <3>1. CASE UNCHANGED ran
      BY <3>1, <1>a DEF OtherTypes
    <3>2. CASE CountRun(pr)
      <4>1. \A qr \in Proposal : ran[qr] \in 0..2
        BY <1>a DEF OtherTypes
      <4>2. ran' = [qr \in Proposal |-> IF qr = pr THEN (IF ran[pr] = 2 THEN 2 ELSE ran[pr] + 1)
                                       ELSE ran[qr]]
        BY <3>2, <1>a, Zenon DEF CountRun, OtherTypes
      <4> QED BY <4>1, <4>2
    <3> QED BY <2>1, <3>1, <3>2 DEF AnswerReattached
  <2>5. ProcessTypes'
    <3>1. at["shell"] = "idle"
      BY <2>1 DEF AnswerReattached
    <3>2. CASE UNCHANGED <<cur, at>>
      BY <1>a, <3>2 DEF ProcessTypes
    <3>3. CASE TakePausedTurn("shell", pr)
      <4>1. PICK l \in {"approved", "continuing"} : at' = [at EXCEPT !["shell"] = l]
        BY <3>3 DEF TakePausedTurn, Go
      <4>2. cur' = [cur EXCEPT !["shell"] = pr[1]]
        BY <3>3 DEF TakePausedTurn
      <4> QED BY <1>a, <2>2, <4>1, <4>2 DEF ProcessTypes, TurnAt
    <3> QED BY <2>1, <3>2, <3>3 DEF AnswerReattached
  <2>6. offered' \subseteq Proposal /\ erred' \subseteq Task
    BY <1>a, <2>1 DEF AnswerReattached, turnFrame, OtherTypes
  <2> QED BY <2>3, <2>4, <2>5, <2>6 DEF OtherTypes
<1>2. CASE ResolveReattachedApproval
  <2>1. resolving \in Task
    BY <1>2, <1>a DEF ResolveReattachedApproval, SweepTypes
  <2>2. LogTypes'
    BY <1>2, <1>a, <2>1 DEF ResolveReattachedApproval, SetStatus, LogTypes, Status, Terminal
  <2>3. SweepTypes'
    BY <1>2, <1>a DEF ResolveReattachedApproval, sweepVars, history, SweepTypes
  <2> QED BY <1>2, <1>a, <2>2, <2>3 DEF ResolveReattachedApproval, history, ProcessTypes,
                                        OtherTypes
<1>3. CASE ReloadWindow
  BY <1>3, <1>a DEF ReloadWindow, durable, sweepVars, history, LogTypes, ProcessTypes,
                    SweepTypes, OtherTypes
<1>4. CASE \E pr \in Proposal : DecidePatch(pr)
  <2>1. PICK pr \in Proposal : DecidePatch(pr)
    BY <1>4
  <2>2. pr[1] \in Task
    BY DEF Proposal
  <2>3. LogTypes' /\ SweepTypes' /\ OtherTypes'
    BY <1>a, <2>1, <2>2 DEF DecidePatch, recoveryFrame, sweepVars, LogTypes, SweepTypes,
                            OtherTypes
  <2> QED BY <1>a, <2>1, <2>3 DEF DecidePatch, ProcessTypes
<1> QED BY <1>1, <1>2, <1>3, <1>4 DEF WindowStep

LEMMA DeathTypes ==
  ASSUME TypeOK, CrashShell \/ CrashDriver \/ Launch \/ StartDriver PROVE TypeOK'
<1>a. LogTypes /\ ProcessTypes /\ SweepTypes /\ OtherTypes /\ "shell" \in Process
      /\ "worker" \in Process
  BY TypesSplit DEF Process
<1> SUFFICES LogTypes' /\ ProcessTypes' /\ SweepTypes' /\ OtherTypes'
  BY TypesSplit
<1>1. ASSUME NEW ps \in SUBSET Process, Lose(ps)
      PROVE  /\ lost' \subseteq Task /\ lostCheck' \subseteq Task /\ offered' \subseteq Proposal
             /\ cur' \in [Process -> Task \cup {NoTask}]
             /\ \A p \in Process : cur'[p] = IF p \in ps THEN NoTask ELSE cur[p]
  <2>1. \A p \in Process : at[p] \in TurnAt => cur[p] \in Task
    BY <1>a DEF ProcessTypes
  <2>2. /\ {cur[p] : p \in {q \in ps : at[q] = "effect"}} \subseteq Task
        /\ {cur[p] : p \in {q \in ps : at[q] = "checking"}} \subseteq Task
    BY <2>1 DEF TurnAt
  <2>3. lost' \subseteq Task /\ lostCheck' \subseteq Task
    BY <1>1, <2>2, <1>a DEF Lose, SweepTypes
  <2> QED BY <1>1, <2>3, <1>a DEF Lose, ProcessTypes, OtherTypes
<1>2. CASE CrashShell
  <2>1. Lose({"shell"}) /\ at' = [at EXCEPT !["shell"] = "down"]
    BY <1>2 DEF CrashShell, Go
  <2>2. crashes' \in 0..MaxCrashes
    BY <1>2, <1>a, Bounds DEF CrashShell, SweepTypes
  <2>3. SweepTypes'
    BY <1>2, <1>a, <1>1, <2>1, <2>2 DEF CrashShell, SweepTypes, idle
  <2>4. ProcessTypes'
    BY <1>a, <1>1, <2>1, Bounds DEF ProcessTypes, TurnAt
  <2>5. LogTypes' /\ OtherTypes'
    BY <1>2, <1>a, <1>1, <2>1 DEF CrashShell, durable, LogTypes, OtherTypes
  <2> QED BY <2>3, <2>4, <2>5
<1>3. CASE CrashDriver
  <2>1. Lose({"worker"}) /\ at' = [at EXCEPT !["worker"] = "down"]
    BY <1>3 DEF CrashDriver, Go
  <2>2. crashes' \in 0..MaxCrashes
    BY <1>3, <1>a, Bounds DEF CrashDriver, SweepTypes
  <2>3. SweepTypes'
    BY <1>3, <1>a, <1>1, <2>1, <2>2 DEF CrashDriver, SweepTypes, sweepVars, window
  <2>4. ProcessTypes'
    BY <1>a, <1>1, <2>1, Bounds DEF ProcessTypes, TurnAt
  <2>5. LogTypes' /\ OtherTypes'
    BY <1>3, <1>a, <1>1, <2>1 DEF CrashDriver, durable, LogTypes, OtherTypes
  <2> QED BY <2>3, <2>4, <2>5
<1>4. CASE Launch
  <2>1. Lose({"worker"}) /\ at' = [shell |-> "launched", worker |-> "down"] /\ at["shell"] = "down"
    BY <1>4 DEF Launch
  <2>2. SweepTypes'
    BY <1>4, <1>a, <1>1, <2>1 DEF Launch, SweepTypes, sweepVars, window
  <2>3. ProcessTypes'
    <3>1. /\ at' \in [Process -> {"down", "idle"} \cup TurnAt \cup SweepAt]
          /\ at'["shell"] = "launched" /\ at'["worker"] = "down"
      BY <2>1, Processes DEF SweepAt
    <3>2. cur'["worker"] = NoTask /\ cur'["shell"] = cur["shell"] /\ cur["shell"] \notin Task
      BY <1>a, <1>1, <2>1, Processes DEF ProcessTypes, TurnAt
    <3> QED BY <1>1, <2>1, <3>1, <3>2, <1>a, Processes, Bounds DEF ProcessTypes, TurnAt
  <2>4. LogTypes' /\ OtherTypes'
    BY <1>4, <1>a, <1>1, <2>1 DEF Launch, durable, LogTypes, OtherTypes
  <2> QED BY <2>2, <2>3, <2>4
<1>5. CASE StartDriver
  <2>1. ProcessTypes'
    BY <1>5, <1>a DEF StartDriver, Go, ProcessTypes, TurnAt
  <2> QED BY <1>5, <1>a, <2>1 DEF StartDriver, durable, sweepVars, window, history, LogTypes,
                                  SweepTypes, OtherTypes
<1> QED BY <1>2, <1>3, <1>4, <1>5

LEMMA TypesStay ==
  ASSUME IInv, [Next]_vars PROVE TypeOK'
<1>1. TypeOK /\ OwnTurns /\ NumbersFit /\ GoalFits /\ PromptsFit
  BY DEF IInv, TurnInv
<1>2. CASE UNCHANGED vars
  BY <1>1, <1>2, TypesSplit DEF vars, durable, sweepVars, window, history, LogTypes,
     ProcessTypes, SweepTypes, OtherTypes
<1> QED BY <1>1, <1>2, TurnTypes, SweepStepTypes, DecisionTypes, WindowTypes, DeathTypes DEF Next

-----------------------------------------------------------------------------
(* What the sweep, a decision and the window write *)

\* Nobody runs t, and nobody can answer for it.
Unattended(t) == /\ \A p \in Process : cur[p] # t
                 /\ \A pr \in AllCards \cap Kept : pr[1] # t

\* The statuses a step of the shell's requests writes are of unattended open tasks.
StatusMoves ==
  \A t \in Task : status'[t] # status[t] =>
    /\ Unattended(t)
    /\ status[t] # "none" /\ status'[t] \notin {"none", "waiting_for_approval"}

ShellSteps ==
  /\ UNCHANGED <<calls, paused, patches, decided, link, erred, cur, offered, resolving, crashes,
                 ran, lost, lostCheck>>
  /\ at["shell"] \notin TurnAt /\ at'["shell"] \notin TurnAt /\ at'["worker"] = at["worker"]
  /\ at["shell"] # "down" /\ at'["shell"] # "down"

LEMMA ShellFrames ==
  ASSUME TypeOK, SweepStep \/ DecisionStep PROVE ShellSteps
<1>a. DOMAIN at = Process /\ Process = {"shell", "worker"}
  BY Processes DEF TypeOK
<1> USE DEF shellFrame, Go, ShellSteps, TurnAt
<1>1. CASE BeginSweep \/ BeginReattach \/ FinishSweep \/ AllAccounted
  BY <1>1, <1>a DEF BeginSweep, BeginReattach, FinishSweep, AllAccounted
<1>2. CASE \E s \in Process : ClassifySession(s) \/ ReattachPendingApprovals(s)
  BY <1>2, <1>a DEF ClassifySession, ReattachPendingApprovals
<1>3. CASE AccountForLostCall \/ SettleCrashed \/ ClassifyTasks \/ ResumeFound
  BY <1>3, <1>a DEF AccountForLostCall, SettleCrashed, ClassifyTasks, ResumeFound, durable,
                    window
<1>4. CASE \E t \in Task, d \in Decision : Decide(t, d)
  BY <1>4, <1>a DEF Decide
<1>5. CASE RefuseDecision \/ Resume \/ MarkFailedOrAbandon \/ MarkTaskSuperseded
  BY <1>5, <1>a DEF RefuseDecision, Resume, MarkFailedOrAbandon, MarkTaskSuperseded, Deciding,
                    decisionFrame
<1> QED BY <1>1, <1>2, <1>3, <1>4, <1>5 DEF SweepStep, ClassifyStep, DecisionStep

\* A task of a session the shell may write to is not run by anyone.
LEMMA NotRunning ==
  ASSUME TypeOK, OwnTurns, at["shell"] \notin TurnAt, NEW t \in Task,
         t \in WorkerTask => at["worker"] = "down"
  PROVE  \A p \in Process : cur[p] # t
<1>1. cur["shell"] \notin Task
  BY Processes DEF TypeOK
<1>2. t \in WorkerTask => cur["worker"] \notin Task
  BY Processes DEF TypeOK, TurnAt
<1> QED BY <1>1, <1>2, Processes, NoTaskAssumption DEF OwnTurns

\* What was found is open, unattended, and not the worker's when it is written to.
LEMMA FoundUnattended ==
  ASSUME IInv, NEW t \in found \ WorkerTask
  PROVE  Unattended(t) /\ Recovered(t) /\ t \in Task
<1>1. TypeOK /\ OwnTurns /\ CardsWait /\ FoundFit
  BY DEF IInv, TurnInv, CardsFit, HistoryInv
<1>2. at["shell"] \notin TurnAt /\ Recovered(t) /\ t \in Task
  BY <1>1 DEF FoundFit, Classifying, TurnAt, TypeOK
<1> QED BY <1>1, <1>2, NotRunning DEF Unattended, CardsWait, Recovered

SettleWrites(m) ==
  /\ m \in markers /\ m = Settlement(m.task) /\ m.task \in Task /\ Home(m.task) = here
  /\ at["shell"] = "settle" /\ Unattended(m.task) /\ Stopped(m.task)
  /\ \/ /\ status[m.task] \in Terminal
        /\ markers' = markers \ {m} /\ UNCHANGED status
     \/ /\ status[m.task] \notin Terminal
        /\ status' = [status EXCEPT ![m.task] = "complete"] /\ UNCHANGED markers
  /\ UNCHANGED <<resumed, usage>>

LEMMA Settles ==
  ASSUME IInv, SettleCrashed PROVE \E m \in markers : SettleWrites(m)
<1>a. TypeOK /\ OwnTurns /\ SweepsTheDead /\ CardsWait /\ MarkersFit /\ NumbersFit
  BY DEF IInv, TurnInv, CardsFit, HistoryInv
<1>1. PICK m \in OpenSettlements(here) :
         \/ /\ status[m.task] \in Terminal
            /\ markers' = markers \ {m} /\ UNCHANGED status
         \/ /\ status[m.task] \notin Terminal
            /\ SetStatus(m.task, "complete") /\ UNCHANGED markers
  BY DEF SettleCrashed
<1>2. m \in markers /\ m.task \in Task /\ Home(m.task) = here /\ at["shell"] = "settle"
  BY <1>1, <1>a DEF OpenSettlements, TypeOK, Marker, SettleCrashed
<1>3. m = Settlement(m.task)
  BY <1>1, <1>a DEF OpenSettlements, TypeOK, Marker, NumbersFit, Settlement
<1>4. \A p \in Process : cur[p] # m.task
  BY <1>2, <1>a, NotRunning, Processes DEF SweepsTheDead, TurnAt
<1>5. Stopped(m.task)
  BY <1>2, <1>3, <1>4, <1>a DEF MarkersFit
<1> QED BY <1>1, <1>2, <1>3, <1>4, <1>5, <1>a
        DEF SettleWrites, Unattended, CardsWait, Stopped, SettleCrashed, shellFrame, SetStatus

\* A resume, by the sweep or by a user's decision.
ResumeWrites(t) ==
  /\ t \in found \ WorkerTask /\ Tool(t) \notin markers /\ at["shell"] = "scan"
  /\ status' = [status EXCEPT ![t] = "preparing_context"]
  /\ \/ resumed' = resumed \cup {<<t, "sweep">>} /\ status[t] # "validating"
     \/ resumed' = resumed \cup {<<t, "user">>}
  /\ UNCHANGED <<markers, usage>>

\* A task is failed or cancelled, and not resumed.
CloseWrites(t) ==
  /\ t \in Task /\ Unattended(t) /\ status[t] \notin Terminal \cup {"none"}
  /\ \E s \in {"failed", "cancelled"} : status' = [status EXCEPT ![t] = s]
  /\ UNCHANGED <<markers, usage, resumed>>

LEMMA Closes ==
  ASSUME IInv
  PROVE  /\ \A s \in Process : ReattachPendingApprovals(s) =>
              (\E t \in Task : CloseWrites(t)) \/ UNCHANGED <<status, markers, usage, resumed>>
         /\ MarkFailedOrAbandon => \E t \in Task : CloseWrites(t)
<1>a. /\ TypeOK /\ OwnTurns /\ GoalFits /\ CardsWait /\ CardPhases
  BY DEF IInv, TurnInv, CardsFit
<1>1. ASSUME NEW s \in Process, ReattachPendingApprovals(s), status' # status
      PROVE  \E t \in Task : CloseWrites(t)
  <2>1. PICK t \in Waiting(s) : status' = [status EXCEPT ![t] = "failed"]
    BY <1>1 DEF ReattachPendingApprovals, SetStatus
  <2>2. t \in Task /\ Home(t) = s /\ status[t] = "waiting_for_approval"
    BY <2>1 DEF Waiting, TasksOf
  <2>3. at["shell"] = "reattach" /\ s \in scan /\ (s = "worker" => at["worker"] = "down")
    BY <1>1 DEF ReattachPendingApprovals, LiveWorker
  <2>4. \A p \in Process : cur[p] # t
    BY <2>2, <2>3, <1>a, NotRunning, Processes DEF TurnAt
  <2>5. \A pr \in AllCards : pr[1] # t
    BY <2>2, <2>3, <1>a, Processes DEF CardPhases, AllCards, Launching
  <2> QED BY <1>1, <2>1, <2>2, <2>4, <2>5
          DEF CloseWrites, Unattended, Terminal, ReattachPendingApprovals, shellFrame
<1>2. ASSUME MarkFailedOrAbandon PROVE \E t \in Task : CloseWrites(t)
  <2>1. goal.task \in found \ WorkerTask
    BY <1>2, <1>a DEF MarkFailedOrAbandon, MayDecide, Deciding, GoalFits
  <2>2. Unattended(goal.task) /\ Recovered(goal.task) /\ goal.task \in Task
    BY <2>1, FoundUnattended
  <2> QED BY <1>2, <2>2 DEF MarkFailedOrAbandon, CloseWrites, Recovered, SetStatus, decisionFrame
<1> QED BY <1>1, <1>2 DEF ReattachPendingApprovals

LEMMA Resumes ==
  ASSUME IInv
  PROVE  /\ ResumeFound => (\E t \in found : ResumeWrites(t))
                           \/ UNCHANGED <<status, markers, usage, resumed>>
         /\ Resume => ResumeWrites(goal.task)
<1>1. ASSUME ResumeFound, ~UNCHANGED <<status, resumed>> PROVE \E t \in found : ResumeWrites(t)
  <2>1. PICK t \in found : AutoResumePermitted(t) /\ SetStatus(t, "preparing_context")
                           /\ Authorize(t, "sweep")
    BY <1>1 DEF ResumeFound
  <2> QED BY <1>1, <2>1 DEF ResumeFound, ResumeWrites, AutoResumePermitted,
                            UnknownExternalOutcome, SetStatus, Authorize
<1>2. ASSUME Resume PROVE ResumeWrites(goal.task)
  BY <1>2 DEF Resume, ResumeWrites, MayDecide, Deciding, IInv, TurnInv, GoalFits,
              UnknownExternalOutcome, SetStatus, Authorize, decisionFrame
<1> QED BY <1>1, <1>2 DEF ResumeFound

\* Everything a step of a sweep or a decision writes to a task.
CountWrites(m) ==
  /\ m \in LostCalls(here) /\ at["shell"] = "account" /\ Count(m.task, m.n)
  /\ UNCHANGED <<status, markers, resumed>>
ShellWrites ==
  \/ UNCHANGED <<status, markers, usage, resumed>>
  \/ \E m \in markers : SettleWrites(m)
  \/ \E t \in found : ResumeWrites(t)
  \/ \E t \in Task : CloseWrites(t)
  \/ \E m \in markers : CountWrites(m)

LEMMA ShellStepWrites ==
  ASSUME IInv, SweepStep \/ DecisionStep PROVE ShellWrites
<1> USE DEF shellFrame, ShellWrites
<1>1. CASE BeginSweep \/ BeginReattach \/ FinishSweep \/ AllAccounted \/ ClassifyTasks
  BY <1>1 DEF BeginSweep, BeginReattach, FinishSweep, AllAccounted, ClassifyTasks, durable
<1>2. CASE \E s \in Process : ClassifySession(s) \/ ReattachPendingApprovals(s)
  BY <1>2, Closes DEF ClassifySession
<1>3. CASE AccountForLostCall
  BY <1>3 DEF AccountForLostCall, CountWrites, LostCalls
<1>4. CASE SettleCrashed
  BY <1>4, Settles
<1>5. CASE ResumeFound
  BY <1>5, Resumes
<1>6. CASE \E t \in Task, d \in Decision : Decide(t, d)
  BY <1>6 DEF Decide
<1>7. CASE RefuseDecision \/ MarkTaskSuperseded
  BY <1>7 DEF RefuseDecision, MarkTaskSuperseded, decisionFrame
<1>8. CASE Resume
  BY <1>8, Resumes DEF Resume, MayDecide
<1>9. CASE MarkFailedOrAbandon
  BY <1>9, Closes
<1> QED BY <1>1, <1>2, <1>3, <1>4, <1>5, <1>6, <1>7, <1>8, <1>9
        DEF SweepStep, ClassifyStep, DecisionStep

LEMMA ShellStatuses ==
  ASSUME IInv, SweepStep \/ DecisionStep PROVE StatusMoves
<1>a. status \in [Task -> Status] /\ found \subseteq Task
  BY DEF IInv, TypeOK
<1>1. CASE \E m \in markers : SettleWrites(m)
  BY <1>1, <1>a DEF SettleWrites, StatusMoves, Stopped
<1>2. CASE \E t \in found : ResumeWrites(t)
  BY <1>2, <1>a, FoundUnattended DEF ResumeWrites, StatusMoves, Recovered
<1>3. CASE \E t \in Task : CloseWrites(t)
  BY <1>3, <1>a DEF CloseWrites, StatusMoves
<1> QED BY <1>1, <1>2, <1>3, ShellStepWrites DEF ShellWrites, StatusMoves, CountWrites

-----------------------------------------------------------------------------
(* Turns, and tasks nobody runs *)

\* A turn's step concerns no task that is stopped, or that the other process runs.
LEMMA TurnsApart ==
  ASSUME IInv, NEW p \in Process, TurnStep(p), NEW t \in Task
  PROVE  /\ Stopped(t) => t # cur[p] /\ t # cur'[p] /\ Stopped(t)'
         /\ \A q \in Process \ {p} : cur[q] = t => t # cur[p] /\ t # cur'[p]
<1>a. /\ TypeOK /\ OwnTurns /\ CardsWait /\ StatusFits /\ TurnFrame(p) /\ TurnMoves(p)
  BY TurnSteps DEF IInv, TurnInv, CardsFit
<1>b. NoTask \notin Task
  BY NoTaskAssumption
<1>1. \/ cur'[p] = cur[p] \/ cur'[p] = NoTask
      \/ /\ status[cur'[p]] \in {"none", "waiting_for_approval"}
         /\ \A q \in Process : cur[q] = cur'[p] => status[cur'[p]] = "none"
  BY <1>a DEF TurnMoves, CardsWait, AllCards, Kept
<1>2. \A q \in Process : cur[q] \in Task => status[cur[q]] # "none"
  BY <1>a DEF StatusFits, TypeOK, TurnAt
<1>3. Stopped(t) => t # cur[p] /\ t # cur'[p]
  BY <1>1, <1>b DEF Stopped
<1>4. Stopped(t) => Stopped(t)'
  BY <1>3, <1>a DEF Stopped, TurnFrame
<1>5. \A q \in Process \ {p} : cur[q] = t => t # cur[p] /\ t # cur'[p]
  BY <1>1, <1>2, <1>a, <1>b, Apart
<1> QED BY <1>3, <1>4, <1>5

\* What the window's requests do to a task.
Takes(pr) ==
  /\ pr \in (cards \cap paused) \ patches /\ at["shell"] = "idle" /\ pr[1] \in Task
  /\ paused' = paused \ {pr} /\ cur' = [cur EXCEPT !["shell"] = pr[1]]
  /\ \E l \in {"approved", "continuing"} : at' = [at EXCEPT !["shell"] = l]
  /\ resolving' = pr[1]
  /\ UNCHANGED <<status, shown, cards, offered>>
Answered(pr) ==
  /\ pr \in cards /\ at["shell"] = "idle" /\ pr[1] \in Task /\ resolving' = pr[1]
  /\ UNCHANGED <<status, paused, cur, at, shown, cards, offered>>
ClosesOut ==
  /\ resolving \in Task /\ at["shell"] = "idle"
  /\ status' = [status EXCEPT ![resolving] = "cancelled"]
  /\ cards' = {pr \in cards : pr[1] # resolving}
  /\ shown' = shown \ {resolving}
  /\ resolving' = NoTask
  /\ UNCHANGED <<paused, cur, at, offered>>
\* The window is reloaded, or a patch on a card of the shell's own is decided.
Forgets ==
  /\ resolving' = NoTask /\ at["shell"] = "idle"
  /\ \/ UNCHANGED offered
     \/ \E pr \in offered \cap patches : offered' = offered \ {pr} /\ pr \in decided'
  /\ UNCHANGED <<status, paused, cur, at, cards, shown>>
WindowFrame ==
  /\ UNCHANGED <<markers, calls, usage, link, superseded, patches, sweepVars, crashes,
                 resumed, prompts, vanished, lost, lostCheck, erred>>
  /\ decided \subseteq decided' /\ offered' \subseteq offered
  /\ at'["worker"] = at["worker"] /\ cur'["worker"] = cur["worker"]

LEMMA WindowKinds ==
  ASSUME IInv, WindowStep
  PROVE  /\ WindowFrame
         /\ (\E pr \in Proposal : Takes(pr) \/ Answered(pr)) \/ ClosesOut \/ Forgets
<1>a. /\ DOMAIN at = Process /\ DOMAIN cur = Process /\ Process = {"shell", "worker"}
      /\ resolving \in Task \cup {NoTask} /\ \A pr \in Proposal : pr[1] \in Task
  BY Processes DEF IInv, TypeOK, Proposal
<1>b. \A pr \in cards : pr \notin offered
  BY DEF IInv, CardsFit, CardPhases
<1> USE DEF WindowFrame, recoveryFrame, turnFrame, sweepVars, history
<1>1. CASE \E pr \in Proposal : AnswerReattached(pr)
  BY <1>1, <1>a DEF AnswerReattached, TakePausedTurn, Takes, Answered, Go
<1>4. CASE \E pr \in Proposal : DecidePatch(pr)
  <2>1. PICK pr \in Proposal : DecidePatch(pr)
    BY <1>4
  <2>2. WindowFrame
    BY <2>1 DEF DecidePatch
  <2>3. CASE pr \in cards /\ pr \notin offered
    <3>1. offered' = offered
      BY <2>1, <2>3 DEF DecidePatch
    <3> QED BY <2>1, <2>2, <2>3, <3>1, <1>a DEF DecidePatch, Answered
  <2>4. CASE pr \in cards /\ pr \in offered
    BY <2>4, <1>b
  <2>5. CASE pr \notin cards
    BY <2>1, <2>2, <2>5 DEF DecidePatch, Forgets
  <2> QED BY <2>3, <2>4, <2>5
<1>2. CASE ResolveReattachedApproval
  BY <1>2, <1>a DEF ResolveReattachedApproval, ClosesOut, SetStatus
<1>3. CASE ReloadWindow
  BY <1>3, <1>a DEF ReloadWindow, Forgets, durable
<1> QED BY <1>1, <1>2, <1>3, <1>4 DEF WindowStep

\* The task of an approval that was answered is not run any more, and has no
\* card of its process's own.
LEMMA ResolvedUnattended ==
  ASSUME IInv, resolving \in Task, at["shell"] = "idle"
  PROVE  /\ \A p \in Process : cur[p] # resolving
         /\ \A pr \in offered : pr[1] # resolving
         /\ status[resolving] # "none"
<1>a. TypeOK /\ OwnTurns /\ CardPhases
  BY DEF IInv, TurnInv, CardsFit
<1>1. cur["shell"] \notin Task
  BY <1>a, Processes DEF TypeOK, TurnAt
<1>2. cur["worker"] # resolving
  BY <1>a, NoTaskAssumption DEF OwnTurns, TakenOver
<1>3. PICK pr \in cards : pr[1] = resolving
  BY <1>a DEF CardPhases
<1> QED BY <1>1, <1>2, <1>3, <1>a, Processes DEF CardPhases

\* A death takes a process's task from it.
Death == CrashShell \/ CrashDriver \/ Launch \/ StartDriver
DeathFrame ==
  /\ UNCHANGED <<durable, resumed, prompts, ran, vanished>>
  /\ offered' \subseteq offered
  /\ \A p \in Process : \/ cur'[p] = cur[p]
                           /\ \/ at'[p] = at[p]
                              \/ at[p] \notin TurnAt /\ at'[p] \in {"idle", "down", "launched"}
                        \/ cur'[p] = NoTask /\ at'[p] = "down"
  /\ \A t \in lost' \ lost : \E p \in Process : cur[p] = t /\ at[p] = "effect" /\ at'[p] = "down"
  /\ \A t \in lostCheck' \ lostCheck :
       \E p \in Process : cur[p] = t /\ at[p] = "checking" /\ at'[p] = "down"
  /\ \/ UNCHANGED <<sweepVars, window>>
     \/ found' = {} /\ cards' = {} /\ shown' = {} /\ resolving' = NoTask /\ scan' = {}
        /\ goal'.why = "sweep" /\ at'["shell"] = "down"

LEMMA Deaths == ASSUME TypeOK, Death PROVE DeathFrame
<1>a. /\ DOMAIN at = Process /\ DOMAIN cur = Process /\ Process = {"shell", "worker"}
      /\ "shell" # "worker"
      /\ \A p \in Process : at[p] \notin TurnAt => cur[p] \notin Task
  BY Processes DEF TypeOK
<1>1. CASE CrashShell
  <2>1. /\ at' = [at EXCEPT !["shell"] = "down"]
        /\ Lose({"shell"})
    BY <1>1 DEF CrashShell, Go
  <2> QED BY <1>1, <1>a, <2>1 DEF CrashShell, Lose, DeathFrame, idle
<1>2. CASE CrashDriver
  <2>1. /\ at' = [at EXCEPT !["worker"] = "down"]
        /\ Lose({"worker"})
    BY <1>2 DEF CrashDriver, Go
  <2> QED BY <1>2, <1>a, <2>1 DEF CrashDriver, Lose, DeathFrame
<1>3. CASE Launch
  <2>1. /\ at' = [shell |-> "launched", worker |-> "down"] /\ at["shell"] = "down"
        /\ Lose({"worker"})
    BY <1>3 DEF Launch
  <2>2. at'["shell"] = "launched" /\ at'["worker"] = "down"
    BY <2>1
  <2> QED BY <1>3, <1>a, <2>1, <2>2 DEF Launch, Lose, DeathFrame, TurnAt
<1>4. CASE StartDriver
  BY <1>4, <1>a DEF StartDriver, Go, DeathFrame, history, TurnAt
<1> QED BY <1>1, <1>2, <1>3, <1>4 DEF Death

\* A stopped task stays stopped.
LEMMA StoppedStay ==
  ASSUME IInv, Next, NEW t \in Task, Stopped(t) PROVE Stopped(t)'
<1>a. TypeOK /\ CardsWait
  BY DEF IInv, CardsFit
<1>b. DOMAIN cur = Process /\ status \in [Task -> Status]
  BY <1>a DEF TypeOK
<1>1. CASE \E p \in Process : TurnStep(p)
  BY <1>1, TurnsApart
<1>2. CASE SweepStep \/ DecisionStep
  BY <1>2, <1>a, ShellStatuses, ShellFrames DEF Stopped, StatusMoves, ShellSteps
<1>3. CASE WindowStep
  <2>1. CASE \E pr \in Proposal : Takes(pr)
    <3>1. PICK pr \in Proposal : Takes(pr)
      BY <2>1
    <3>2. status[pr[1]] = "waiting_for_approval"
      BY <3>1, <1>a DEF Takes, CardsWait, AllCards, Kept
    <3> QED BY <3>1, <3>2, <1>b, Processes DEF Takes, Stopped
  <2>2. CASE ClosesOut
    BY <2>2, <1>b DEF ClosesOut, Stopped
  <2>3. CASE (\E pr \in Proposal : Answered(pr)) \/ Forgets
    BY <2>3 DEF Answered, Forgets, Stopped
  <2> QED BY <1>3, <1>a, WindowKinds, <2>1, <2>2, <2>3
<1>4. CASE Death
  BY <1>4, <1>a, Deaths, NoTaskAssumption DEF DeathFrame, durable, Stopped
<1> QED BY <1>1, <1>2, <1>3, <1>4 DEF Next, Death

-----------------------------------------------------------------------------
(* Each part of the invariant is kept *)

\* Reattaching adds cards of tasks that wait, of a session no process runs.
LEMMA Reattaches ==
  ASSUME TypeOK, SweepStep \/ DecisionStep, cards' # cards
  PROVE  \E s \in scan :
           /\ at["shell"] = "reattach" /\ (s = "worker" => at["worker"] = "down")
           /\ scan' = scan \ {s} /\ UNCHANGED <<status, at>>
           /\ cards' = cards \cup {<<t, link[t]>> : t \in Waiting(s)}
<1> USE DEF shellFrame, Go
<1>1. CASE \E s \in Process : ReattachPendingApprovals(s)
  BY <1>1 DEF ReattachPendingApprovals, LiveWorker
<1>2. CASE BeginSweep \/ ClassifyStep \/ ResumeFound \/ BeginReattach \/ FinishSweep
  BY <1>2 DEF BeginSweep, ClassifyStep, ClassifySession, AccountForLostCall, AllAccounted,
              SettleCrashed, ClassifyTasks, window, ResumeFound, BeginReattach, FinishSweep
<1>3. CASE DecisionStep
  BY <1>3 DEF DecisionStep, Decide, RefuseDecision, Resume, MarkFailedOrAbandon,
              MarkTaskSuperseded, decisionFrame
<1> QED BY <1>1, <1>2, <1>3 DEF SweepStep

\* A card reattached is of a task with no other card.
LEMMA NewCards ==
  ASSUME IInv, NEW s \in scan, at["shell"] = "reattach", s = "worker" => at["worker"] = "down",
         NEW t \in Waiting(s)
  PROVE  /\ t \in Task /\ Home(t) = s /\ status[t] = "waiting_for_approval"
         /\ \A p \in Process : cur[p] # t
         /\ \A pr \in AllCards : pr[1] # t
<1>a. TypeOK /\ OwnTurns /\ CardPhases
  BY DEF IInv, TurnInv, CardsFit
<1>1. t \in Task /\ Home(t) = s /\ status[t] = "waiting_for_approval"
  BY DEF Waiting, TasksOf
<1>2. \A p \in Process : cur[p] # t
  BY <1>1, <1>a, NotRunning, Processes DEF TurnAt
<1>3. \A pr \in AllCards : pr[1] # t
  BY <1>1, <1>a, Processes DEF CardPhases, AllCards, Launching
<1> QED BY <1>1, <1>2, <1>3

LEMMA NoneStays ==
  ASSUME IInv, Next, NEW t \in Task, status'[t] = "none" PROVE status[t] = "none"
<1>a. TypeOK
  BY DEF IInv
<1>1. CASE \E p \in Process : TurnStep(p)
  <2>1. PICK p \in Process : TurnStep(p)
    BY <1>1
  <2>2. CASE Pauses(p)
    BY <1>a, <2>1, <2>2, TurnSteps, NoTaskAssumption DEF Pauses, TurnFrame
  <2>3. CASE Saves(p) \/ (\E pr \in Proposal : Answers(p, pr)) \/ Proceeds(p)
    BY <2>3 DEF Saves, Answers, Proceeds
  <2> QED BY <1>a, <2>1, <2>2, <2>3, TurnKinds
<1>2. CASE SweepStep \/ DecisionStep
  BY <1>2, ShellStatuses DEF StatusMoves
<1>3. CASE WindowStep
  BY <1>3, <1>a, WindowKinds DEF Takes, Answered, ClosesOut, Forgets, TypeOK
<1>4. CASE Death
  BY <1>4, <1>a, Deaths DEF DeathFrame, durable
<1> QED BY <1>1, <1>2, <1>3, <1>4 DEF Next, Death

LEMMA OwnTurnsStay == ASSUME IInv, Next PROVE OwnTurns'
<1>a. /\ TypeOK /\ OwnTurns /\ CardsWait /\ CardPhases
  BY DEF IInv, TurnInv, CardsFit
<1>b. DOMAIN cur = Process /\ NoTask \notin Task /\ WorkerTask \subseteq Task
  BY <1>a, Bounds DEF TypeOK
<1>c. \A t \in Task : status'[t] = "none" => status[t] = "none"
  BY NoneStays
<1>1. CASE TurnStep("worker")
  <2>1. TurnFrame("worker") /\ TurnMoves("worker") /\ cur'["shell"] = cur["shell"]
    BY <1>1, <1>a, TurnSteps, Processes DEF TurnFrame
  <2>2. cur'["worker"] \in WorkerTask \cup {NoTask}
    BY <2>1, <1>a, Processes DEF TurnMoves, OwnTurns
  <2>3. UNCHANGED <<cards, resolving>>
    BY <1>1, <1>a, <2>1, TurnKinds, Processes
       DEF TurnFrame, Pauses, Saves, Answers, Proceeds
  <2>4. ASSUME NEW t \in Task, TakenOver(t)
        PROVE  /\ cur'["worker"] # t /\ \A pr \in offered' : pr[1] # t
    <3>1. cur["worker"] # t /\ status[t] # "none" /\ \A pr \in offered : pr[1] # t
      BY <2>4, <1>a DEF OwnTurns
    <3>2. cur'["worker"] # t
      BY <3>1, <2>1, <1>b DEF TurnMoves
    <3>3. \A pr \in offered' : pr[1] # t
      BY <3>1, <1>1, <1>a, TurnKinds, Processes DEF Pauses, Saves, Answers, Proceeds
    <3> QED BY <3>2, <3>3
  <2> QED BY <2>1, <2>2, <2>3, <2>4, <1>a, <1>c DEF OwnTurns, TakenOver
<1>2. CASE TurnStep("shell")
  <2>1. TurnFrame("shell") /\ TurnMoves("shell") /\ cur'["worker"] = cur["worker"]
    BY <1>2, <1>a, TurnSteps, Processes DEF TurnFrame
  <2>2. UNCHANGED cards /\ (resolving' = resolving \/ (resolving' = NoTask /\ cur'["shell"] = NoTask))
    <3>1. \/ Pauses("shell") \/ Saves("shell") \/ Proceeds("shell")
          \/ \E pr \in Proposal : Answers("shell", pr)
      BY <1>2, <1>a, TurnKinds, Processes
    <3>2. resolving' = resolving \/ (resolving' = NoTask /\ cur'["shell"] = NoTask)
      BY <3>1 DEF Pauses, Saves, Answers, Proceeds
    <3> QED BY <2>1, <3>2 DEF TurnFrame
  <2>3. cur'["shell"] = cur["shell"] \/ cur'["shell"] \notin WorkerTask
    BY <2>1, <1>b, Processes DEF TurnMoves
  <2>4. ASSUME NEW t \in Task, TakenOver(t)'
        PROVE  /\ TakenOver(t) /\ \A pr \in offered' : pr[1] # t
    <3>1. TakenOver(t)
      BY <2>2, <2>3, <2>4, <1>b DEF TakenOver
    <3>2. \A pr \in offered : pr[1] # t
      BY <3>1, <1>a DEF OwnTurns
    <3>3. cur["shell"] \in WorkerTask => cur["shell"] = resolving
      BY <1>a DEF OwnTurns
    <3>4. \A pr \in offered' : pr[1] # t
      BY <2>4, <3>1, <3>2, <3>3, <1>2, <1>a, TurnKinds, Processes
         DEF Pauses, Saves, Answers, Proceeds, TakenOver
    <3> QED BY <3>1, <3>4
  <2> QED BY <2>1, <2>2, <2>3, <2>4, <1>a, <1>b, <1>c DEF OwnTurns
<1>3. CASE SweepStep \/ DecisionStep
  <2>1. UNCHANGED <<cur, offered, resolving>>
    BY <1>3, <1>a, ShellFrames DEF ShellSteps
  <2>2. ASSUME NEW t \in Task, TakenOver(t)'
        PROVE  /\ cur["worker"] # t /\ \A pr \in offered : pr[1] # t
               /\ status[t] # "none"
    <3>1. CASE TakenOver(t)
      BY <3>1, <1>a DEF OwnTurns
    <3>2. CASE ~TakenOver(t)
      <4>1. cards' # cards
        BY <2>1, <2>2, <3>2 DEF TakenOver
      <4>2. \E s \in scan : /\ at["shell"] = "reattach" /\ (s = "worker" => at["worker"] = "down")
                            /\ t \in Waiting(s)
        BY <4>1, <2>1, <2>2, <3>2, <1>3, <1>a, Reattaches DEF TakenOver
      <4> QED BY <4>2, NewCards, Processes DEF AllCards
    <3> QED BY <3>1, <3>2
  <2> QED BY <2>1, <2>2, <1>a, <1>c DEF OwnTurns
<1>4. CASE WindowStep
  <2>1. /\ cur'["worker"] = cur["worker"] /\ offered' \subseteq offered
        /\ at["shell"] = "idle" => cur["shell"] \notin Task
    BY <1>4, <1>a, WindowKinds, Processes DEF WindowFrame, TypeOK, TurnAt
  <2>2. CASE \E pr \in Proposal : Takes(pr) \/ Answered(pr)
    <3>1. PICK pr \in Proposal : Takes(pr) \/ Answered(pr)
      BY <2>2
    <3>2. /\ resolving' = pr[1] /\ pr \in cards /\ UNCHANGED cards
          /\ cur'["shell"] = pr[1] \/ cur'["shell"] \notin Task
      BY <3>1, <2>1, <1>b, Processes DEF Takes, Answered
    <3>3. \A t \in Task : TakenOver(t)' => TakenOver(t)
      BY <3>2 DEF TakenOver
    <3> QED BY <2>1, <3>2, <3>3, <1>a, <1>b, <1>c DEF OwnTurns
  <2>3. CASE ClosesOut \/ Forgets
    <3>1. /\ resolving' = NoTask /\ cards' \subseteq cards /\ cur'["shell"] = cur["shell"]
          /\ at["shell"] = "idle"
      BY <2>3 DEF ClosesOut, Forgets
    <3>2. \A t \in Task : TakenOver(t)' => TakenOver(t)
      BY <3>1, <1>b DEF TakenOver
    <3> QED BY <2>1, <3>1, <3>2, <1>a, <1>b, <1>c DEF OwnTurns
  <2> QED BY <1>4, <1>a, WindowKinds, <2>2, <2>3
<1>5. CASE Death
  <2>1. DeathFrame
    BY <1>5, <1>a, Deaths
  <2>2. \A p \in Process : cur'[p] = cur[p] \/ cur'[p] = NoTask
    BY <2>1 DEF DeathFrame
  <2>3. /\ offered' \subseteq offered
        /\ \/ UNCHANGED <<cards, resolving>>
           \/ cards' = {} /\ resolving' = NoTask /\ cur'["shell"] \notin Task
    <3>1. at'["shell"] = "down" => cur'["shell"] \notin Task
      BY <2>1, <1>b, <1>a, Processes DEF DeathFrame, TypeOK, TurnAt
    <3> QED BY <2>1, <3>1 DEF DeathFrame, window
  <2>4. \A t \in Task : TakenOver(t)' => TakenOver(t)
    BY <2>2, <2>3, <1>b, Processes DEF TakenOver
  <2> QED BY <2>2, <2>3, <2>4, <1>a, <1>b, <1>c, Processes DEF OwnTurns
<1> QED BY <1>1, <1>2, <1>3, <1>4, <1>5, Processes DEF Next, Death

\* The status a location of a turn goes with.
StatusAt(l, s) ==
  /\ l = "created" => s = "created"
  /\ l \in {"validating", "checking"} => s = "validating"
  /\ l = "settling" => s \in {"preparing_context", "validating"}
  /\ l = "settled" => s = "complete"
  /\ l \in {"approved", "continuing"} => s = "waiting_for_approval"
  /\ l \in {"ready", "call", "uncounted", "failing", "cancelling", "tool", "effect",
            "saved", "asking"} => s = "preparing_context"

LEMMA OwnStatus ==
  ASSUME IInv, NEW p \in Process, TurnStep(p), cur'[p] \in Task
  PROVE  StatusAt(at'[p], status'[cur'[p]])
<1>a. TypeOK /\ StatusAt(at[p], status[cur[p]]) /\ CardsWait /\ NoTask \notin Task
  BY NoTaskAssumption DEF IInv, TurnInv, CardsFit, StatusFits, StatusAt
<1>b. /\ at[p] \in TurnAt => cur[p] \in Task
      /\ status \in [Task -> Status] /\ DOMAIN at = Process /\ DOMAIN cur = Process
  BY <1>a DEF TypeOK
<1> USE DEF Go, SetStatus
<1>1. CASE \E t \in Task : StartTurn(p, t)
  BY <1>1, <1>b DEF StartTurn, StatusAt
<1>2. CASE PrepareContext(p) \/ ContinueTurn(p) \/ BeginValidating(p)
  BY <1>2, <1>b DEF PrepareContext, ContinueTurn, BeginValidating, StatusAt, TurnAt
<1>3. CASE StartCall(p) \/ FinishCall(p) \/ RecordUsage(p) \/ StopCall(p)
  BY <1>3, <1>a, <1>b DEF StartCall, FinishCall, RecordUsage, StopCall, StatusAt
<1>4. CASE Fail(p) \/ FinishCancelledTurn(p) \/ TurnErrs(p) \/ AwaitApproval(p)
           \/ FinishSettlement(p)
  BY <1>4, <1>a, <1>b DEF Fail, FinishCancelledTurn, EndTurn, TurnErrs, durable, AwaitApproval,
                          FinishSettlement
<1>5. CASE StartTool(p) \/ Dispatch(p) \/ FinishTool(p) \/ SavePausedTurn(p)
           \/ FinishProposing(p) \/ ProposePatch(p)
  BY <1>5, <1>a, <1>b DEF StartTool, Dispatch, FinishTool, SavePausedTurn, FinishProposing,
                          ProposePatch, durable, StatusAt
<1>6. CASE RunVerificationCheck(p) \/ RunApproved(p)
  BY <1>6, <1>a, <1>b DEF RunVerificationCheck, RunApproved, durable, StatusAt
<1>7. CASE StartSettlement(p) \/ WriteSettlement(p)
  BY <1>7, <1>a, <1>b DEF StartSettlement, WriteSettlement, StatusAt, TurnAt
<1>8. CASE \E pr \in Proposal : AnswerApproval(p, pr)
  BY <1>8, <1>a, <1>b DEF AnswerApproval, TakePausedTurn, CardsWait, AllCards, Kept,
                          StatusAt
<1> QED BY <1>1, <1>2, <1>3, <1>4, <1>5, <1>6, <1>7, <1>8 DEF TurnStep

LEMMA StatusFitsStay == ASSUME IInv, Next PROVE StatusFits'
<1>a. /\ TypeOK /\ OwnTurns /\ CardsWait /\ NoTask \notin Task
      /\ \A p \in Process : StatusAt(at[p], status[cur[p]])
  BY NoTaskAssumption DEF IInv, TurnInv, CardsFit, StatusFits, StatusAt
<1>b. TypeOK'
  BY TypesStay
<1>c. /\ DOMAIN cur = Process /\ DOMAIN at = Process /\ status \in [Task -> Status]
      /\ \A p \in Process : cur[p] \in Task <=> at[p] \in TurnAt
      /\ \A p \in Process : cur'[p] \in Task <=> at'[p] \in TurnAt
  BY <1>a, <1>b DEF TypeOK
<1> SUFFICES ASSUME NEW p \in Process, cur'[p] \in Task
             PROVE  StatusAt(at'[p], status'[cur'[p]])
  <2>1. ASSUME NEW l, NEW s, l \notin TurnAt PROVE StatusAt(l, s)
    BY <2>1 DEF StatusAt, TurnAt
  <2> QED BY <1>c, <2>1 DEF StatusFits, StatusAt
<1>1. CASE TurnStep(p)
  BY <1>1, OwnStatus
<1>2. CASE \E q \in Process : q # p /\ TurnStep(q)
  <2>1. PICK q \in Process : q # p /\ TurnStep(q)
    BY <1>2
  <2>2. TurnFrame(q)
    BY <1>a, <2>1, TurnSteps
  <2>3. cur'[p] = cur[p] /\ at'[p] = at[p] /\ status'[cur[p]] = status[cur[p]]
    BY <2>1, <2>2, TurnsApart DEF TurnFrame
  <2> QED BY <2>3, <1>a
<1>3. CASE SweepStep \/ DecisionStep
  <2>1. ShellSteps /\ StatusMoves
    BY <1>3, <1>a, ShellFrames, ShellStatuses
  <2>2. cur'[p] = cur[p] /\ p # "shell"
    BY <2>1, <1>c DEF ShellSteps
  <2>3. at'[p] = at[p] /\ status'[cur[p]] = status[cur[p]]
    BY <2>1, <2>2, Processes DEF ShellSteps, StatusMoves, Unattended
  <2> QED BY <2>2, <2>3, <1>a
<1>4. CASE WindowStep
  <2>1. WindowFrame
    BY <1>4, <1>a, WindowKinds
  <2>2. CASE \E pr \in Proposal : Takes(pr)
    <3>1. PICK pr \in Proposal : Takes(pr)
      BY <2>2
    <3>2. CASE p = "shell"
      BY <3>1, <3>2, <1>a, <1>c DEF Takes, CardsWait, AllCards, Kept, StatusAt
    <3>3. CASE p = "worker"
      BY <3>1, <3>3, <2>1, <1>a DEF Takes, WindowFrame
    <3> QED BY <3>2, <3>3, Processes
  <2>3. CASE ClosesOut
    <3>1. cur'[p] = cur[p] /\ at'[p] = at[p] /\ cur[p] # resolving
      BY <2>3, ResolvedUnattended DEF ClosesOut
    <3>2. status'[cur[p]] = status[cur[p]]
      BY <2>3, <3>1, <1>c DEF ClosesOut
    <3> QED BY <3>1, <3>2, <1>a
  <2>4. CASE (\E pr \in Proposal : Answered(pr)) \/ Forgets
    BY <2>4, <1>a DEF Answered, Forgets
  <2> QED BY <1>4, <1>a, WindowKinds, <2>2, <2>3, <2>4
<1>5. CASE Death
  <2>1. DeathFrame
    BY <1>5, <1>a, Deaths
  <2>2. cur'[p] = cur[p] /\ at'[p] = at[p] /\ status' = status
    BY <2>1, <1>a, <1>c DEF DeathFrame, durable
  <2> QED BY <2>2, <1>a
<1> QED BY <1>1, <1>2, <1>3, <1>4, <1>5 DEF Next, Death

LEMMA SweepsTheDeadStay == ASSUME IInv, Next PROVE SweepsTheDead'
<1>a. /\ TypeOK /\ SweepsTheDead /\ DOMAIN at = Process
  BY DEF IInv, TurnInv, TypeOK
<1>1. CASE \E p \in Process : TurnStep(p)
  <2>1. PICK p \in Process : TurnFrame(p)
    BY <1>1, <1>a, TurnSteps
  <2> QED BY <2>1, <1>a, Processes DEF TurnFrame, SweepsTheDead, TurnAt
<1>2. CASE SweepStep
  <2>1. at'["worker"] = at["worker"]
    BY <1>2, <1>a, ShellFrames DEF ShellSteps
  <2>2. CASE \E s \in Process : ClassifySession(s)
    BY <2>1, <2>2, <1>a, Processes DEF ClassifySession, Go, LiveWorker, SweepsTheDead
  <2>3. CASE AccountForLostCall \/ AllAccounted \/ SettleCrashed
    BY <2>1, <2>3, <1>a, Processes DEF AccountForLostCall, AllAccounted, SettleCrashed, Go,
                                       sweepVars, SweepsTheDead
  <2>4. CASE ClassifyTasks \/ ResumeFound \/ BeginReattach \/ BeginSweep \/ FinishSweep
             \/ \E s \in Process : ReattachPendingApprovals(s)
    BY <2>4, <1>a, Processes DEF ClassifyTasks, ResumeFound, BeginReattach, BeginSweep,
                      FinishSweep, ReattachPendingApprovals, Go, SweepsTheDead
  <2> QED BY <1>2, <2>2, <2>3, <2>4 DEF SweepStep, ClassifyStep
<1>3. CASE DecisionStep
  BY <1>3, <1>a, Processes DEF DecisionStep, Decide, RefuseDecision, Resume, MarkFailedOrAbandon,
     MarkTaskSuperseded, Deciding, Go, SweepsTheDead
<1>4. CASE WindowStep
  BY <1>4, <1>a, WindowKinds, Processes
     DEF WindowFrame, Takes, Answered, ClosesOut, Forgets, sweepVars, SweepsTheDead
<1>5. CASE CrashShell \/ CrashDriver \/ StartDriver
  BY <1>5, <1>a, Processes DEF CrashShell, CrashDriver, StartDriver, Go, sweepVars, SweepsTheDead
<1>6. CASE Launch
  BY <1>6 DEF Launch, SweepsTheDead
<1> QED BY <1>1, <1>2, <1>3, <1>4, <1>5, <1>6 DEF Next

LEMMA GoalFitsStay == ASSUME IInv, Next PROVE GoalFits' /\ PromptsFit'
<1>a. /\ TypeOK /\ GoalFits /\ PromptsFit /\ DOMAIN at = Process
      /\ prompts \in [Task -> 0..2]
  BY DEF IInv, TurnInv, TypeOK
<1>1. CASE \E p \in Process : TurnStep(p)
  <2>1. PICK p \in Process : TurnFrame(p)
    BY <1>1, <1>a, TurnSteps
  <2> QED BY <2>1, <1>a, Processes DEF TurnFrame, GoalFits, PromptsFit, TurnAt, Classifying
<1>2. CASE SweepStep
  <2>0. PromptsFit'
    BY <1>2, <1>a DEF SweepStep, BeginSweep, ClassifyStep, ClassifySession, AccountForLostCall,
       AllAccounted, SettleCrashed, ClassifyTasks, durable, ResumeFound, BeginReattach,
       FinishSweep, ReattachPendingApprovals, PromptsFit
  <2>1. CASE BeginSweep \/ BeginReattach \/ FinishSweep \/ ClassifyTasks \/ ResumeFound
    BY <2>0, <2>1, <1>a, Processes DEF BeginSweep, BeginReattach, FinishSweep, ClassifyTasks, durable,
       window, ResumeFound, idle, Go, sweepVars, GoalFits, Classifying
  <2>2. CASE \E s \in Process : ClassifySession(s) \/ ReattachPendingApprovals(s)
    BY <2>0, <2>2, <1>a, Processes DEF ClassifySession, ReattachPendingApprovals, Go, GoalFits, Classifying
  <2>3. CASE AccountForLostCall \/ AllAccounted \/ SettleCrashed
    BY <2>0, <2>3, <1>a, Processes DEF AccountForLostCall, AllAccounted, SettleCrashed, Go, sweepVars,
       GoalFits, Classifying
  <2> QED BY <1>2, <2>0, <2>1, <2>2, <2>3 DEF SweepStep, ClassifyStep
<1>3. CASE DecisionStep
  <2>1. CASE \E t \in Task, d \in Decision : Decide(t, d)
    BY <2>1, <1>a, Processes DEF Decide, Go, GoalFits, PromptsFit, Classifying
  <2>2. CASE RefuseDecision \/ MarkFailedOrAbandon
    BY <2>2, <1>a, Processes DEF RefuseDecision, MarkFailedOrAbandon, decisionFrame, idle, Go,
       GoalFits, PromptsFit, Classifying
  <2>3. CASE Resume
    BY <2>3, <1>a, Processes DEF Resume, Deciding, MayDecide, decisionFrame, Go, GoalFits,
       PromptsFit, Classifying
  <2>4. CASE MarkTaskSuperseded
    BY <2>4, <1>a, Processes DEF MarkTaskSuperseded, idle, Go, GoalFits, PromptsFit, Classifying
  <2> QED BY <1>3, <2>1, <2>2, <2>3, <2>4 DEF DecisionStep
<1>4. CASE WindowStep
  BY <1>4, <1>a, WindowKinds, Processes
     DEF WindowFrame, Takes, Answered, ClosesOut, Forgets, sweepVars, GoalFits, PromptsFit,
         Classifying
<1>5. CASE CrashShell \/ CrashDriver
  BY <1>5, <1>a, Processes DEF CrashShell, CrashDriver, Go, sweepVars, window, durable, idle,
     GoalFits, PromptsFit, Classifying
<1>6. CASE Launch \/ StartDriver
  BY <1>6, <1>a, Processes DEF Launch, StartDriver, Go, sweepVars, window, durable, history,
     GoalFits, PromptsFit, Classifying
<1> QED BY <1>1, <1>2, <1>3, <1>4, <1>5, <1>6 DEF Next

\* The numbers of one process and of one task.
ProcessNumbers(p) ==
  /\ at[p] \in {"saved", "asking"} => link[cur[p]] < MaxProposals
  /\ at[p] \in {"call", "uncounted"} =>
       calls[cur[p]] \in 1..MaxCalls /\ usage[cur[p]][calls[cur[p]]] = 0
TaskNumbers(t) ==
  /\ \A c \in 1..MaxCalls : usage[t][c] <= 1 /\ (c > calls[t] => usage[t][c] = 0)
  /\ \A m \in markers : m.task = t =>
       IF m.action = "model_call" THEN m.n \in 1..calls[t] ELSE m.n = 0
  /\ status[t] = "waiting_for_approval" => link[t] # 0

LEMMA NumbersSplit ==
  /\ TypeOK => (NumbersFit <=> /\ \A p \in Process : ProcessNumbers(p)
                               /\ \A t \in Task : TaskNumbers(t))
  /\ TypeOK' => (NumbersFit' <=> /\ \A p \in Process : ProcessNumbers(p)'
                                 /\ \A t \in Task : TaskNumbers(t)')
<1>1. TypeOK => \A m \in markers : m.task \in Task
  BY DEF TypeOK, Marker
<1>2. TypeOK' => \A m \in markers' : m.task \in Task
  BY DEF TypeOK, Marker
<1> QED BY <1>1, <1>2 DEF NumbersFit, ProcessNumbers, TaskNumbers

LEMMA OwnNumbers ==
  ASSUME IInv, NEW p \in Process, TurnStep(p)
  PROVE  /\ ProcessNumbers(p)'
         /\ \A t \in Task : t \in {cur[p], cur'[p]} => TaskNumbers(t)'
<1>a. /\ TypeOK /\ ProcessNumbers(p) /\ (\A t \in Task : TaskNumbers(t)) /\ CardsWait
      /\ NoTask \notin Task
  BY NumbersSplit, NoTaskAssumption DEF IInv, TurnInv, CardsFit
<1>b. /\ at[p] \in TurnAt => cur[p] \in Task
      /\ status \in [Task -> Status] /\ calls \in [Task -> 0..MaxCalls]
      /\ link \in [Task -> 0..MaxProposals] /\ DOMAIN at = Process /\ DOMAIN cur = Process
      /\ usage \in [Task -> [1..MaxCalls -> 0..2]]
      /\ MaxCalls \in Nat /\ MaxProposals \in Nat
  BY <1>a, Bounds DEF TypeOK
<1> USE DEF Go, SetStatus, ProcessNumbers, TaskNumbers
<1>1. CASE \E t \in Task : StartTurn(p, t)
  BY <1>1, <1>a, <1>b DEF StartTurn
<1>2. CASE PrepareContext(p) \/ ContinueTurn(p) \/ BeginValidating(p)
  BY <1>2, <1>a, <1>b DEF PrepareContext, ContinueTurn, BeginValidating, TurnAt
<1>3. CASE StartCall(p)
  <2>1. cur[p] \in Task /\ cur'[p] = cur[p] /\ calls[cur[p]] < MaxCalls /\ calls[cur[p]] \in 0..MaxCalls
    BY <1>3, <1>b DEF StartCall, TurnAt
  <2>2. calls'[cur[p]] = calls[cur[p]] + 1 /\ usage' = usage /\ at'[p] = "call" /\ status' = status
        /\ link' = link
    BY <1>3, <1>b, <2>1 DEF StartCall
  <2>3. ASSUME NEW m \in markers', m.task = cur[p], m \notin markers
        PROVE  m.action = "model_call" /\ m.n = calls[cur[p]] + 1
    BY <1>3, <2>3 DEF StartCall, Call
  <2>4. \A m \in markers' : m.task = cur[p] =>
          IF m.action = "model_call" THEN m.n \in 1..calls'[cur[p]] ELSE m.n = 0
    BY <1>a, <2>1, <2>2, <2>3
  <2>5. ProcessNumbers(p)'
    BY <1>a, <1>b, <2>1, <2>2
  <2>6. \A c \in 1..MaxCalls : usage'[cur[p]][c] <= 1
                               /\ (c > calls'[cur[p]] => usage'[cur[p]][c] = 0)
    BY <1>a, <2>1, <2>2
  <2> QED BY <1>a, <2>1, <2>2, <2>4, <2>5, <2>6
<1>4. CASE FinishCall(p)
  BY <1>4, <1>a, <1>b DEF FinishCall, TurnAt
<1>5. CASE RecordUsage(p) \/ StopCall(p)
  <2>1. /\ cur[p] \in Task /\ cur'[p] = cur[p] /\ calls[cur[p]] \in 1..MaxCalls
        /\ usage[cur[p]][calls[cur[p]]] = 0
    BY <1>5, <1>a, <1>b DEF RecordUsage, StopCall, TurnAt
  <2>2. /\ UNCHANGED <<status, markers, calls, link>>
        /\ at'[p] \in {"ready", "failing", "cancelling"}
        /\ usage' = [usage EXCEPT ![cur[p]][calls[cur[p]]] = @ + 1]
    BY <1>5, <1>b DEF RecordUsage, StopCall, Count
  <2>3. \A c \in 1..MaxCalls :
          usage'[cur[p]][c] = IF c = calls[cur[p]] THEN 1 ELSE usage[cur[p]][c]
    BY <1>b, <2>1, <2>2
  <2> QED BY <1>a, <1>b, <2>1, <2>2, <2>3
<1>6. CASE Fail(p) \/ FinishCancelledTurn(p)
  BY <1>6, <1>a, <1>b DEF Fail, FinishCancelledTurn, EndTurn, TurnAt
<1>13. CASE TurnErrs(p)
  <2>1. /\ cur[p] \in Task /\ cur'[p] = NoTask /\ at'[p] = "idle"
        /\ UNCHANGED <<status, markers, calls, usage, link>>
    BY <1>13, <1>b DEF TurnErrs, durable, TurnAt
  <2> QED BY <2>1, <1>a
<1>7. CASE StartTool(p) \/ Dispatch(p) \/ FinishTool(p)
  BY <1>7, <1>a, <1>b DEF StartTool, Dispatch, FinishTool, durable, Tool
<1>8. CASE SavePausedTurn(p) \/ FinishProposing(p) \/ ProposePatch(p)
  BY <1>8, <1>a, <1>b DEF SavePausedTurn, FinishProposing, ProposePatch
<1>9. CASE AwaitApproval(p)
  <2>1. cur[p] \in Task /\ link[cur[p]] \in 0..MaxProposals
    BY <1>9, <1>b DEF AwaitApproval, TurnAt
  <2>2. link'[cur[p]] = link[cur[p]] + 1 /\ at'[p] = "idle" /\ cur'[p] = NoTask
    BY <1>9, <1>b, <2>1 DEF AwaitApproval
  <2>3. UNCHANGED <<calls, usage, markers>>
    BY <1>9 DEF AwaitApproval
  <2> QED BY <1>a, <2>1, <2>2, <2>3
<1>10. CASE RunVerificationCheck(p) \/ RunApproved(p)
  BY <1>10, <1>a, <1>b DEF RunVerificationCheck, RunApproved, durable
<1>11. CASE StartSettlement(p) \/ WriteSettlement(p) \/ FinishSettlement(p)
  BY <1>11, <1>a, <1>b DEF StartSettlement, WriteSettlement, FinishSettlement, Settlement, TurnAt
<1>12. CASE \E pr \in Proposal : AnswerApproval(p, pr)
  BY <1>12, <1>a, <1>b DEF AnswerApproval, TakePausedTurn
<1> QED BY <1>1, <1>2, <1>3, <1>4, <1>5, <1>6, <1>7, <1>8, <1>9, <1>10, <1>11, <1>12,
           <1>13 DEF TurnStep

\* A lost call that is counted is of a task nobody runs.
LEMMA CountedUnattended ==
  ASSUME IInv, NEW m \in markers, CountWrites(m)
  PROVE  /\ m.task \in Task /\ Home(m.task) = here /\ m.n \in 1..calls[m.task] /\ m.n \in 1..MaxCalls
         /\ usage[m.task][m.n] = 0 /\ \A p \in Process : cur[p] # m.task
<1>a. TypeOK /\ OwnTurns /\ SweepsTheDead /\ NumbersFit
  BY DEF IInv, TurnInv
<1>1. /\ m.task \in Task /\ Home(m.task) = here /\ m.n \in 1..calls[m.task]
      /\ usage[m.task][m.n] = 0 /\ at["shell"] = "account"
  BY <1>a DEF CountWrites, LostCalls, TypeOK, Marker, NumbersFit
<1>2. \A p \in Process : cur[p] # m.task
  BY <1>1, <1>a, NotRunning, Processes DEF SweepsTheDead, TurnAt
<1>3. calls[m.task] \in 0..MaxCalls
  BY <1>1, <1>a DEF TypeOK
<1> QED BY <1>1, <1>2, <1>3, Bounds

LEMMA NumbersFitStay == ASSUME IInv, Next PROVE NumbersFit'
<1>a. /\ TypeOK /\ (\A p \in Process : ProcessNumbers(p)) /\ (\A t \in Task : TaskNumbers(t))
      /\ NoTask \notin Task /\ NumbersFit
  BY NumbersSplit, NoTaskAssumption DEF IInv, TurnInv
<1>b. TypeOK'
  BY TypesStay
<1>c. /\ DOMAIN cur = Process /\ DOMAIN at = Process /\ status \in [Task -> Status]
      /\ \A p \in Process : cur[p] \in Task <=> at[p] \in TurnAt
      /\ \A p \in Process : cur'[p] \in Task <=> at'[p] \in TurnAt
      /\ usage \in [Task -> [1..MaxCalls -> 0..2]]
      /\ markers' \subseteq Marker
  BY <1>a, <1>b DEF TypeOK
<1> SUFFICES (\A p \in Process : ProcessNumbers(p)') /\ (\A t \in Task : TaskNumbers(t)')
  BY <1>b, NumbersSplit
<1>1. CASE \E p \in Process : TurnStep(p)
  <2>1. PICK p \in Process : TurnStep(p)
    BY <1>1
  <2>2. TurnFrame(p)
    BY <1>a, <2>1, TurnSteps
  <2>3. ASSUME NEW t \in Task PROVE TaskNumbers(t)'
    <3>1. CASE t \in {cur[p], cur'[p]}
      BY <2>1, <3>1, OwnNumbers
    <3>2. CASE t \notin {cur[p], cur'[p]}
      BY <3>2, <2>2, <1>a, <1>c DEF TurnFrame, TaskNumbers
    <3> QED BY <3>1, <3>2
  <2>4. ASSUME NEW q \in Process PROVE ProcessNumbers(q)'
    <3>1. CASE q = p
      BY <2>1, <3>1, OwnNumbers
    <3>2. CASE q # p /\ at[q] \in TurnAt
      <4>1. /\ cur'[q] = cur[q] /\ at'[q] = at[q] /\ calls'[cur[q]] = calls[cur[q]]
            /\ usage'[cur[q]] = usage[cur[q]] /\ link'[cur[q]] = link[cur[q]]
        BY <2>1, <2>2, <3>2, <1>c, TurnsApart DEF TurnFrame
      <4> QED BY <4>1, <1>a DEF ProcessNumbers
    <3>3. CASE q # p /\ at[q] \notin TurnAt
      BY <3>3, <2>2 DEF TurnFrame, ProcessNumbers, TurnAt
    <3> QED BY <3>1, <3>2, <3>3
  <2> QED BY <2>3, <2>4
<1>2. CASE SweepStep \/ DecisionStep
  <2>1. ShellSteps /\ StatusMoves /\ ShellWrites
    BY <1>2, <1>a, ShellFrames, ShellStatuses, ShellStepWrites
  <2>2. markers' \subseteq markers
    BY <2>1 DEF ShellWrites, SettleWrites, ResumeWrites, CloseWrites, CountWrites
  <2>3. \A t \in Task : status'[t] = "waiting_for_approval" => link'[t] # 0
    BY <2>1, <1>a DEF StatusMoves, ShellSteps, TaskNumbers
  <2>4. CASE usage' = usage
    <3>1. ASSUME NEW p \in Process PROVE ProcessNumbers(p)'
      BY <2>1, <2>4, <1>a, Processes DEF ShellSteps, ProcessNumbers, TurnAt
    <3> QED BY <2>1, <2>2, <2>3, <2>4, <3>1, <1>a DEF ShellSteps, TaskNumbers
  <2>5. CASE \E m \in markers : CountWrites(m)
    <3>1. PICK m \in markers : CountWrites(m)
      BY <2>5
    <3>2. usage' = [usage EXCEPT ![m.task][m.n] = @ + 1]
      BY <3>1 DEF CountWrites, Count
    <3>3. \A t \in Task : t # m.task => usage'[t] = usage[t]
      BY <3>2, <1>c
    <3>4. \A c \in 1..MaxCalls : usage'[m.task][c] = IF c = m.n THEN 1 ELSE usage[m.task][c]
      <4>1. m.task \in Task /\ m.n \in 1..MaxCalls /\ usage[m.task][m.n] = 0
        BY <3>1, CountedUnattended
      <4>2. usage[m.task] \in [1..MaxCalls -> 0..2]
        BY <4>1, <1>c
      <4>3. usage'[m.task] = [usage[m.task] EXCEPT ![m.n] = @ + 1]
        BY <3>2, <4>1, <1>c
      <4>4. \A c \in 1..MaxCalls : usage'[m.task][c] = IF c = m.n THEN usage[m.task][c] + 1
                                                      ELSE usage[m.task][c]
        BY <4>2, <4>3
      <4> QED BY <4>1, <4>4
    <3>5. ASSUME NEW p \in Process PROVE ProcessNumbers(p)'
      <4>1. CASE at[p] \in TurnAt /\ p = "worker"
        <5>1. cur[p] \in Task /\ cur[p] # m.task /\ at'[p] = at[p] /\ cur' = cur
              /\ calls' = calls /\ link' = link
          BY <4>1, <3>1, <1>c, <2>1, CountedUnattended DEF ShellSteps
        <5> QED BY <5>1, <3>3, <1>a DEF ProcessNumbers
      <4>2. CASE at[p] \notin TurnAt \/ p = "shell"
        BY <4>2, <2>1, Processes DEF ShellSteps, ProcessNumbers, TurnAt
      <4> QED BY <4>1, <4>2, Processes
    <3>6. ASSUME NEW t \in Task PROVE TaskNumbers(t)'
      <4>1. \A c \in 1..MaxCalls : usage'[t][c] <= 1 /\ (c > calls[t] => usage'[t][c] = 0)
        <5>1. CASE t = m.task
          <6>1. m.n \in 1..calls[t] /\ calls[t] \in 0..MaxCalls
            BY <3>1, <5>1, <1>a, CountedUnattended DEF TypeOK
          <6> QED BY <5>1, <6>1, <3>4, <1>a, Bounds DEF TaskNumbers
        <5>2. CASE t # m.task
          BY <5>2, <3>3, <1>a DEF TaskNumbers
        <5> QED BY <5>1, <5>2
      <4> QED BY <4>1, <2>1, <2>2, <2>3, <1>a DEF ShellSteps, TaskNumbers
    <3> QED BY <3>5, <3>6
  <2> QED BY <2>1, <2>4, <2>5
          DEF ShellWrites, SettleWrites, ResumeWrites, CloseWrites
<1>3. CASE WindowStep
  <2>1. WindowFrame /\ ((\E pr \in Proposal : Takes(pr) \/ Answered(pr)) \/ ClosesOut \/ Forgets)
    BY <1>3, <1>a, WindowKinds
  <2>2. \A t \in Task : status'[t] = "waiting_for_approval" => status[t] = "waiting_for_approval"
    BY <2>1, <1>c DEF Takes, Answered, ClosesOut, Forgets
  <2>3. \A p \in Process : at'[p] \in {"saved", "asking", "call", "uncounted"} =>
          at'[p] = at[p] /\ cur'[p] = cur[p]
    BY <2>1, <1>c, Processes DEF Takes, Answered, ClosesOut, Forgets
  <2> QED BY <2>1, <2>2, <2>3, <1>a DEF WindowFrame, ProcessNumbers, TaskNumbers
<1>4. CASE Death
  <2>1. DeathFrame
    BY <1>4, <1>a, Deaths
  <2>2. \A p \in Process : at'[p] \in {"saved", "asking", "call", "uncounted"} =>
          at'[p] = at[p] /\ cur'[p] = cur[p]
    BY <2>1 DEF DeathFrame
  <2> QED BY <2>1, <2>2, <1>a DEF DeathFrame, durable, ProcessNumbers, TaskNumbers
<1> QED BY <1>1, <1>2, <1>3, <1>4 DEF Next, Death

\* Which cards there are after a step, and which of them can be answered.
Answerable == AllCards \cap Kept

\* A step that saves, adds and renumbers no approval keeps the answerable cards.
LEMMA CardsKept ==
  ASSUME IInv,
         AllCards' \subseteq AllCards, Answerable' \subseteq Answerable,
         \A t \in Task : link'[t] = link[t],
         \A pr \in Answerable' : /\ status'[pr[1]] = status[pr[1]]
                                 /\ \A p \in Process : cur'[p] # pr[1]
  PROVE  CardsWait' /\ OneCard' /\ CardNumbers'
<1>1. CardsWait /\ OneCard /\ CardNumbers
  BY DEF IInv, CardsFit, Answerable
<1>2. \A pr \in AllCards : pr[1] \in Task
  BY DEF IInv, TypeOK, Proposal, AllCards
<1> QED BY <1>1, <1>2 DEF CardsWait, OneCard, CardNumbers, Answerable

LEMMA TurnCards ==
  ASSUME IInv, NEW p \in Process, TurnStep(p)
  PROVE  CardsWait' /\ OneCard' /\ CardNumbers'
<1>a. /\ TypeOK /\ OwnTurns /\ CardsWait /\ OneCard /\ CardNumbers /\ NoTask \notin Task
      /\ TurnFrame(p) /\ TurnMoves(p) /\ cards' = cards
  BY NoTaskAssumption, TurnSteps DEF IInv, TurnInv, CardsFit, TurnFrame
<1>b. /\ \A pr \in AllCards : pr[1] \in Task /\ pr[2] \in Nat /\ pr = <<pr[1], pr[2]>>
      /\ \A t \in Task : link[t] \in Nat
  BY <1>a, Bounds DEF TypeOK, Proposal, AllCards
<1>c. \A pr \in Answerable : pr[1] # cur[p] /\ status[pr[1]] = "waiting_for_approval"
  BY <1>a DEF CardsWait, Answerable
<1>d. \A pr \in cards : pr \notin offered
  BY DEF IInv, CardsFit, CardPhases
<1>1. CASE Proceeds(p)
  <2>1. \A pr \in Answerable : pr[1] # cur'[p] /\ \A q \in Process : cur'[q] # pr[1]
    BY <1>1, <1>a, <1>b, <1>c DEF Proceeds, Answerable, CardsWait, TurnFrame
  <2> QED BY <1>1, <2>1, <1>a, <1>b, <1>c, CardsKept DEF Proceeds, TurnFrame, AllCards, Answerable,
        Kept
<1>2. CASE Saves(p)
  <2>1. AllCards' = AllCards
    BY <1>2, <1>a DEF Saves, AllCards
  <2>2. <<cur[p], link[cur[p]] + 1>> \notin AllCards
    <3>1. ASSUME <<cur[p], link[cur[p]] + 1>> \in AllCards PROVE FALSE
      <4>1. link[cur[p]] + 1 <= link[cur[p]]
        BY <3>1, <1>a DEF CardNumbers
      <4> QED BY <4>1, <1>2, <1>b DEF Saves
    <3> QED BY <3>1
  <2>3. Answerable' = Answerable
    BY <1>2, <2>1, <2>2 DEF Saves, Answerable
  <2>4. \A q \in Process : cur'[q] = cur[q]
    BY <1>2, <1>a DEF Saves, TurnFrame
  <2> QED BY <1>2, <1>a, <2>1, <2>3, <2>4
          DEF Saves, CardsWait, OneCard, CardNumbers, Answerable
<1>3. CASE Pauses(p)
  <2>0. DEFINE new == <<cur[p], link[cur[p]] + 1>>
  <2>1. AllCards' \subseteq AllCards \cup {new} /\ AllCards \subseteq AllCards' /\ Kept' = Kept
    BY <1>3, <1>a DEF Pauses, AllCards, Kept
  <2>2. /\ \A t \in Task : t # cur[p] => link'[t] = link[t] /\ status'[t] = status[t]
        /\ status'[cur[p]] = "waiting_for_approval" /\ link'[cur[p]] = link[cur[p]] + 1
        /\ cur[p] \in Task
    BY <1>3, <1>a DEF Pauses, TurnFrame
  <2>3. \A q \in Process : cur'[q] # cur[p] /\ (cur'[q] = cur[q] \/ cur'[q] = NoTask)
    BY <1>3, <1>a, Apart DEF Pauses, TurnFrame
  <2>4. Answerable' \subseteq Answerable \cup {new} /\ new[1] = cur[p] /\ new[2] = link[cur[p]] + 1
    BY <2>1 DEF Answerable
  <2>5. CardsWait'
    BY <2>2, <2>3, <2>4, <1>a, <1>b, <1>c DEF CardsWait, Answerable
  <2>6. OneCard'
    BY <2>4, <1>a, <1>c DEF OneCard, Answerable
  <2>7. CardNumbers'
    <3>1. ASSUME NEW pr \in AllCards PROVE pr[2] <= link'[pr[1]]
      BY <2>2, <1>a, <1>b DEF CardNumbers
    <3>2. new[2] <= link'[new[1]]
      BY <2>2, <2>4, <1>b
    <3> QED BY <2>1, <3>1, <3>2 DEF CardNumbers
  <2> QED BY <2>5, <2>6, <2>7
<1>4. CASE \E pr \in Proposal : Answers(p, pr)
  <2>1. PICK pr \in Proposal : Answers(p, pr)
    BY <1>4
  <2>2. pr \in Answerable
    BY <2>1 DEF Answers, Answerable, AllCards, Kept
  <2>3. \A qr \in Answerable' : qr \in Answerable /\ qr[1] # pr[1]
    BY <2>1, <2>2, <1>a, <1>d DEF Answers, Answerable, AllCards, OneCard, Kept
  <2>4. \A qr \in Answerable' : \A q \in Process : cur'[q] # qr[1]
    BY <2>1, <2>3, <1>a DEF Answers, TurnFrame, CardsWait, Answerable
  <2>5. AllCards' \subseteq AllCards /\ Answerable' \subseteq Answerable /\ UNCHANGED <<status, link>>
    BY <2>1, <2>3, <1>a DEF Answers, AllCards
  <2> QED BY <2>4, <2>5, CardsKept
<1> QED BY <1>a, <1>1, <1>2, <1>3, <1>4, TurnKinds

LEMMA ShellCards ==
  ASSUME IInv, SweepStep \/ DecisionStep
  PROVE  CardsWait' /\ OneCard' /\ CardNumbers'
<1>a. /\ TypeOK /\ CardsWait /\ OneCard /\ CardNumbers /\ ShellSteps /\ StatusMoves
  BY ShellFrames, ShellStatuses DEF IInv, CardsFit
<1>b. /\ \A pr \in AllCards : pr[1] \in Task
      /\ \A t \in Task : link[t] \in Nat
  BY <1>a, Bounds DEF TypeOK, Proposal, AllCards
<1>1. CASE cards' = cards
  <2>1. AllCards' = AllCards /\ Answerable' = Answerable
    BY <1>1, <1>a DEF ShellSteps, AllCards, Answerable, Kept
  <2>2. \A pr \in Answerable : status'[pr[1]] = status[pr[1]]
    BY <1>a, <1>b DEF StatusMoves, Unattended, Answerable
  <2> QED BY <1>a, <2>1, <2>2, CardsKept DEF ShellSteps, CardsWait, Answerable
<1>2. CASE cards' # cards
  <2>1. PICK s \in scan :
           /\ at["shell"] = "reattach" /\ (s = "worker" => at["worker"] = "down")
           /\ scan' = scan \ {s} /\ UNCHANGED <<status, at>>
           /\ cards' = cards \cup {<<t, link[t]>> : t \in Waiting(s)}
    BY <1>2, <1>a, Reattaches
  <2>2. ASSUME NEW t \in Waiting(s)
        PROVE  /\ t \in Task /\ status[t] = "waiting_for_approval"
               /\ \A p \in Process : cur[p] # t
               /\ \A pr \in AllCards : pr[1] # t
    BY <2>1, NewCards
  <2>3. \A pr \in AllCards' : pr \in AllCards \/ \E t \in Waiting(s) : pr = <<t, link[t]>>
    BY <2>1, <1>a DEF ShellSteps, AllCards
  <2>4. UNCHANGED <<status, cur, link, Kept>>
    BY <2>1, <1>a DEF ShellSteps, Kept
  <2>5. CardsWait'
    BY <2>2, <2>3, <2>4, <1>a DEF CardsWait
  <2>6. OneCard'
    <3> SUFFICES ASSUME NEW pr \in AllCards' \cap Kept', NEW qr \in AllCards' \cap Kept',
                        pr[1] = qr[1]
                 PROVE  pr = qr
      BY DEF OneCard
    <3>1. CASE pr \in AllCards
      BY <3>1, <2>2, <2>3, <2>4, <1>a DEF OneCard
    <3>2. CASE \E t \in Waiting(s) : pr = <<t, link[t]>>
      BY <3>2, <2>2, <2>3
    <3> QED BY <2>3, <3>1, <3>2
  <2>7. CardNumbers'
    BY <2>2, <2>3, <2>4, <1>a, <1>b DEF CardNumbers
  <2> QED BY <2>5, <2>6, <2>7
<1> QED BY <1>1, <1>2

LEMMA WindowCards ==
  ASSUME IInv, WindowStep
  PROVE  CardsWait' /\ OneCard' /\ CardNumbers'
<1>a. /\ TypeOK /\ CardsWait /\ OneCard /\ WindowFrame /\ DOMAIN cur = Process
      /\ status \in [Task -> Status]
  BY WindowKinds DEF IInv, CardsFit, TypeOK
<1>b. \A pr \in AllCards : pr[1] \in Task
  BY <1>a DEF TypeOK, Proposal, AllCards
<1>1. CASE \E pr \in Proposal : Takes(pr)
  <2>1. PICK pr \in Proposal : Takes(pr)
    BY <1>1
  <2>2. pr \in Answerable
    BY <2>1 DEF Takes, Answerable, AllCards, Kept
  <2>3. \A qr \in Answerable' : qr \in Answerable /\ qr[1] # pr[1]
    BY <2>1, <2>2, <1>a DEF Takes, WindowFrame, Answerable, AllCards, OneCard, Kept
  <2>4. \A qr \in Answerable' : \A q \in Process : cur'[q] # qr[1]
    BY <2>1, <2>3, <1>a, Processes DEF Takes, CardsWait, Answerable
  <2> QED BY <2>1, <2>3, <2>4, <1>a, CardsKept DEF Takes, WindowFrame, AllCards
<1>2. CASE ClosesOut
  <2>1. AllCards' \subseteq AllCards /\ Answerable' \subseteq Answerable
    BY <1>2, <1>a DEF ClosesOut, WindowFrame, AllCards, Answerable, Kept
  <2>2. \A pr \in AllCards' : pr[1] # resolving
    BY <1>2, <1>a, ResolvedUnattended DEF ClosesOut, WindowFrame, AllCards
  <2>3. \A pr \in Answerable' : /\ status'[pr[1]] = status[pr[1]]
                                /\ \A p \in Process : cur'[p] # pr[1]
    BY <1>2, <1>a, <2>1, <2>2 DEF ClosesOut, Answerable, CardsWait
  <2> QED BY <1>a, <2>1, <2>3, CardsKept DEF WindowFrame
<1>3. CASE (\E pr \in Proposal : Answered(pr)) \/ Forgets
  <2>1. /\ AllCards' \subseteq AllCards /\ Answerable' \subseteq Answerable
        /\ UNCHANGED <<status, cur, link>>
    BY <1>3, <1>a DEF Answered, Forgets, WindowFrame, AllCards, Answerable, Kept
  <2> QED BY <2>1, <1>a, CardsKept DEF CardsWait, Answerable
<1> QED BY <1>a, <1>1, <1>2, <1>3, WindowKinds

LEMMA DeathCards ==
  ASSUME IInv, Death
  PROVE  CardsWait' /\ OneCard' /\ CardNumbers'
<1>1. TypeOK /\ CardsWait /\ DeathFrame
  BY Deaths DEF IInv, CardsFit
<1>2. /\ AllCards' \subseteq AllCards /\ Answerable' \subseteq Answerable
      /\ UNCHANGED <<status, link>>
  BY <1>1 DEF DeathFrame, durable, window, AllCards, Answerable, Kept
<1>3. \A pr \in AllCards : pr[1] \in Task
  BY <1>1 DEF TypeOK, Proposal, AllCards
<1>4. \A pr \in Answerable' : \A p \in Process : cur'[p] # pr[1]
  BY <1>1, <1>2, <1>3, NoTaskAssumption DEF DeathFrame, CardsWait, Answerable
<1> QED BY <1>2, <1>4, CardsKept

\* The shell's requests never begin a launch again.
LEMMA ShellPhases ==
  ASSUME TypeOK, GoalFits, SweepStep \/ DecisionStep
  PROVE  /\ Launching' => Launching
         /\ Launching' /\ at'["shell"] # "reattach" => at["shell"] # "reattach"
         /\ at["shell"] = "reattach" => scan' \subseteq scan
<1>a. DOMAIN at = Process
  BY DEF TypeOK
<1> USE DEF Go, Launching, Classifying, GoalFits
<1>1. CASE BeginSweep \/ BeginReattach \/ FinishSweep \/ ClassifyTasks \/ ResumeFound
  BY <1>1, <1>a, Processes DEF BeginSweep, BeginReattach, FinishSweep, ClassifyTasks,
     ResumeFound, sweepVars
<1>2. CASE \E s \in Process : ClassifySession(s) \/ ReattachPendingApprovals(s)
  BY <1>2, <1>a, Processes DEF ClassifySession, ReattachPendingApprovals
<1>3. CASE AccountForLostCall \/ AllAccounted \/ SettleCrashed
  BY <1>3, <1>a, Processes DEF AccountForLostCall, AllAccounted, SettleCrashed, sweepVars
<1>4. CASE \E t \in Task, d \in Decision : Decide(t, d)
  BY <1>4, <1>a, Processes DEF Decide, Decision
<1>5. CASE RefuseDecision \/ Resume \/ MarkFailedOrAbandon \/ MarkTaskSuperseded
  BY <1>5, <1>a, Processes DEF RefuseDecision, Resume, MarkFailedOrAbandon, MarkTaskSuperseded,
     decisionFrame
<1> QED BY <1>1, <1>2, <1>3, <1>4, <1>5 DEF SweepStep, ClassifyStep, DecisionStep

\* Each part of CardPhases.
Phases ==
  /\ Launching /\ at["shell"] # "reattach" => cards = {}
  /\ at["shell"] = "reattach" => \A pr \in cards : Home(pr[1]) \notin scan
  /\ Launching => \A pr \in offered : pr[1] \in WorkerTask
  /\ at["worker"] = "down" => \A pr \in offered : pr[1] \notin WorkerTask
CardTasks ==
  /\ resolving \in Task => \E pr \in cards : pr[1] = resolving
  /\ \A pr \in cards : /\ status[pr[1]] # "none"
                       /\ \A qr \in offered : pr[1] # qr[1]
                       /\ pr[1] = cur["shell"] => pr[1] = resolving

LEMMA PhasesStay == ASSUME IInv, Next PROVE Phases'
<1>a. /\ TypeOK /\ OwnTurns /\ GoalFits /\ Phases /\ DOMAIN at = Process /\ NoTask \notin Task
  BY NoTaskAssumption DEF IInv, TurnInv, CardsFit, CardPhases, Phases, TypeOK
<1>b. \A pr \in Proposal : pr[1] \in Task
  BY DEF Proposal
<1>1. CASE TurnStep("worker")
  <2>1. /\ UNCHANGED <<cards, scan, goal>> /\ at'["shell"] = at["shell"]
        /\ at'["worker"] # "down"
    BY <1>1, <1>a, TurnSteps, Processes DEF TurnFrame, TurnAt
  <2>2. cur["worker"] \in Task => cur["worker"] \in WorkerTask
    BY <1>a DEF OwnTurns
  <2>3. \A pr \in offered' : pr \in offered \/ pr[1] \in WorkerTask
    BY <1>1, <1>a, <2>2, TurnKinds, Processes DEF Pauses, Saves, Answers, Proceeds
  <2> QED BY <2>1, <2>3, <1>a DEF Phases, Launching
<1>2. CASE TurnStep("shell")
  <2>1. /\ UNCHANGED <<cards, scan, goal>> /\ at'["worker"] = at["worker"]
        /\ at'["shell"] \in TurnAt \cup {"idle"}
    BY <1>2, <1>a, TurnSteps, Processes DEF TurnFrame
  <2>2. ~Launching' /\ at'["shell"] # "reattach"
    BY <2>1 DEF Launching, Classifying, TurnAt
  <2>3. \A pr \in offered' : pr \in offered \/ pr[1] \notin WorkerTask
    <3>1. \/ Pauses("shell") \/ Saves("shell") \/ Proceeds("shell")
          \/ \E pr \in Proposal : Answers("shell", pr)
      BY <1>2, <1>a, TurnKinds, Processes
    <3>2. cur["shell"] \in WorkerTask => cur["shell"] = resolving
      BY <1>a DEF OwnTurns
    <3> QED BY <3>1, <3>2 DEF Pauses, Saves, Answers, Proceeds
  <2> QED BY <2>1, <2>2, <2>3, <1>a DEF Phases
<1>3. CASE SweepStep \/ DecisionStep
  <2>1. /\ Launching' => Launching
        /\ Launching' /\ at'["shell"] # "reattach" => at["shell"] # "reattach"
        /\ at["shell"] = "reattach" => scan' \subseteq scan
        /\ offered' = offered /\ at'["worker"] = at["worker"]
    BY <1>3, <1>a, ShellPhases, ShellFrames DEF ShellSteps
  <2>2. CASE cards' = cards
    BY <2>1, <2>2, <1>a DEF Phases, Launching
  <2>3. CASE cards' # cards
    <3>1. PICK s \in scan :
             /\ at["shell"] = "reattach" /\ (s = "worker" => at["worker"] = "down")
             /\ scan' = scan \ {s} /\ UNCHANGED <<status, at>>
             /\ cards' = cards \cup {<<t, link[t]>> : t \in Waiting(s)}
      BY <1>3, <2>3, <1>a, Reattaches
    <3>2. \A t \in Waiting(s) : Home(t) = s
      BY DEF Waiting, TasksOf
    <3>3. \A pr \in cards' : pr \in cards \/ Home(pr[1]) = s
      BY <3>1, <3>2
    <3>4. at'["shell"] = "reattach" /\ at["shell"] = "reattach"
      BY <3>1
    <3> QED BY <2>1, <3>1, <3>3, <3>4, <1>a DEF Phases
  <2> QED BY <2>2, <2>3
<1>4. CASE WindowStep
  <2>1. WindowFrame /\ at["shell"] = "idle"
        /\ at'["shell"] \in {"idle", "approved", "continuing"}
    BY <1>4, <1>a, WindowKinds, Processes DEF Takes, Answered, ClosesOut, Forgets
  <2> QED BY <2>1, <1>a DEF WindowFrame, Phases, Launching, Classifying
<1>5. CASE CrashShell
  <2>1. /\ cards' = {} /\ offered' = {pr \in offered : Home(pr[1]) \notin {"shell"}}
        /\ at' = [at EXCEPT !["shell"] = "down"]
    BY <1>5 DEF CrashShell, Lose, Go
  <2> QED BY <2>1, <1>a, Processes DEF Phases
<1>6. CASE CrashDriver
  <2>1. /\ UNCHANGED <<cards, scan, goal>> /\ at' = [at EXCEPT !["worker"] = "down"]
        /\ offered' = {pr \in offered : Home(pr[1]) \notin {"worker"}}
    BY <1>6 DEF CrashDriver, Lose, Go, window, sweepVars
  <2> QED BY <2>1, <1>a, Processes DEF Phases, Launching
<1>7. CASE Launch
  <2>1. /\ UNCHANGED <<cards, scan, goal>> /\ at["shell"] = "down"
        /\ at' = [shell |-> "launched", worker |-> "down"]
        /\ offered' = {pr \in offered : Home(pr[1]) \notin {"worker"}}
    BY <1>7 DEF Launch, Lose, window, sweepVars
  <2>2. at'["shell"] = "launched"
    BY <2>1
  <2> QED BY <2>1, <2>2, <1>a, Processes DEF Phases, Launching
<1>8. CASE StartDriver
  BY <1>8, <1>a, Processes DEF StartDriver, Go, window, sweepVars, Phases, Launching
<1> QED BY <1>1, <1>2, <1>3, <1>4, <1>5, <1>6, <1>7, <1>8, Processes DEF Next

LEMMA CardTasksStay == ASSUME IInv, Next PROVE CardTasks'
<1>a. /\ TypeOK /\ OwnTurns /\ CardTasks /\ DOMAIN cur = Process /\ NoTask \notin Task
  BY NoTaskAssumption DEF IInv, TurnInv, CardsFit, CardPhases, CardTasks, TypeOK
<1>b. /\ \A pr \in cards : pr[1] \in Task
      /\ at["shell"] \notin TurnAt => cur["shell"] \notin Task
  BY <1>a, Processes DEF TypeOK, Proposal
<1>c. \A t \in Task : status'[t] = "none" => status[t] = "none"
  BY NoneStays
<1>1. CASE TurnStep("worker")
  <2>1. /\ cards' = cards /\ cur'["shell"] = cur["shell"]
        /\ \/ Pauses("worker") \/ Saves("worker") \/ Proceeds("worker")
           \/ \E pr \in Proposal : Answers("worker", pr)
    BY <1>1, <1>a, TurnSteps, TurnKinds, Processes DEF TurnFrame
  <2>2. resolving' = resolving
    BY <2>1, Processes DEF Pauses, Saves, Answers, Proceeds
  <2>3. \A pr \in cards : pr[1] # cur["worker"]
    BY <1>a, <1>b DEF OwnTurns, TakenOver
  <2>4. \A qr \in offered' : qr \in offered \/ qr[1] = cur["worker"]
    BY <2>1 DEF Pauses, Saves, Answers, Proceeds
  <2> QED BY <2>1, <2>2, <2>3, <2>4, <1>a, <1>b, <1>c DEF CardTasks
<1>2. CASE TurnStep("shell")
  <2>1. /\ cards' = cards
        /\ \/ Pauses("shell") \/ Saves("shell") \/ Proceeds("shell")
           \/ \E pr \in Proposal : Answers("shell", pr)
    BY <1>2, <1>a, TurnSteps, TurnKinds, Processes DEF TurnFrame
  <2>2. resolving' = resolving \/ (resolving' = NoTask /\ cur'["shell"] = NoTask)
    BY <2>1 DEF Pauses, Saves, Answers, Proceeds
  <2>3. ASSUME NEW pr \in cards, cur'["shell"] = pr[1]
        PROVE  cur["shell"] = pr[1] /\ resolving' = resolving
    BY <2>1, <2>2, <2>3, <1>a, <1>b DEF CardTasks, Pauses, Saves, Answers, Proceeds
  <2>4. ASSUME NEW pr \in cards, NEW qr \in offered' PROVE pr[1] # qr[1]
    BY <2>1, <2>4, <1>a DEF CardTasks, Pauses, Saves, Answers, Proceeds
  <2> QED BY <2>1, <2>2, <2>3, <2>4, <1>a, <1>b, <1>c DEF CardTasks
<1>3. CASE SweepStep \/ DecisionStep
  <2>1. ShellSteps
    BY <1>3, <1>a, ShellFrames
  <2>2. cards \subseteq cards'
    BY <1>3, <1>a, Reattaches
  <2>3. ASSUME NEW pr \in cards', pr \notin cards
        PROVE  status[pr[1]] # "none" /\ (\A qr \in offered : pr[1] # qr[1]) /\ pr[1] \in Task
    <3>1. \E s \in scan : /\ at["shell"] = "reattach" /\ (s = "worker" => at["worker"] = "down")
                          /\ \E t \in Waiting(s) : t = pr[1]
      BY <1>3, <2>3, <1>a, Reattaches
    <3> QED BY <3>1, NewCards DEF AllCards
  <2> QED BY <2>1, <2>2, <2>3, <1>a, <1>b, <1>c DEF ShellSteps, CardTasks
<1>4. CASE WindowStep
  <2>1. WindowFrame /\ at["shell"] = "idle"
        /\ ((\E pr \in Proposal : Takes(pr) \/ Answered(pr)) \/ ClosesOut \/ Forgets)
    BY <1>4, <1>a, WindowKinds DEF Takes, Answered, ClosesOut, Forgets
  <2>2. cur["shell"] \notin Task
    BY <2>1, <1>b DEF TurnAt
  <2>3. CASE \E pr \in Proposal : Takes(pr) \/ Answered(pr)
    <3>1. PICK pr \in Proposal : Takes(pr) \/ Answered(pr)
      BY <2>3
    <3>2. /\ resolving' = pr[1] /\ pr \in cards /\ UNCHANGED cards
          /\ cur'["shell"] = pr[1] \/ cur'["shell"] \notin Task
      BY <3>1, <2>2, <1>a, Processes DEF Takes, Answered
    <3> QED BY <2>1, <3>2, <1>a, <1>b, <1>c DEF WindowFrame, CardTasks
  <2>4. CASE ClosesOut \/ Forgets
    <3>1. resolving' = NoTask /\ cards' \subseteq cards /\ cur'["shell"] \notin Task
      BY <2>2, <2>4 DEF ClosesOut, Forgets
    <3> QED BY <2>1, <3>1, <1>a, <1>b, <1>c DEF WindowFrame, CardTasks
  <2> QED BY <2>1, <2>3, <2>4
<1>5. CASE Death
  <2>1. DeathFrame
    BY <1>5, <1>a, Deaths
  <2>2. CASE UNCHANGED window
    BY <2>1, <2>2, <1>a, <1>b, Processes DEF DeathFrame, window, durable, CardTasks
  <2>3. CASE cards' = {} /\ resolving' = NoTask
    BY <2>3, <1>a DEF CardTasks
  <2> QED BY <2>1, <2>2, <2>3 DEF DeathFrame
<1> QED BY <1>1, <1>2, <1>3, <1>4, <1>5, Processes DEF Next, Death

LEMMA CardsFitStay == ASSUME IInv, Next PROVE CardsFit'
<1>1. CardsWait' /\ OneCard' /\ CardNumbers'
  BY TurnCards, ShellCards, WindowCards, DeathCards DEF Next, Death
<1>2. CardPhases'
  BY PhasesStay, CardTasksStay DEF Phases, CardTasks, CardPhases
<1> QED BY <1>1, <1>2 DEF CardsFit

\* The markers of a task and the turn that runs it.
LEMMA OwnMarkers ==
  ASSUME IInv, NEW p \in Process, TurnStep(p)
  PROVE  /\ at'[p] \in {"tool", "effect"} => Tool(cur'[p]) \in markers'
         /\ cur[p] \notin Task => markers' = markers
         /\ cur[p] \in Task /\ Settlement(cur[p]) \in markers' =>
              \/ cur'[p] = cur[p] /\ at'[p] \in {"settling", "settled"}
              \/ Settlement(cur[p]) \in markers /\ at[p] \notin {"settling", "settled"}
<1>a. /\ at[p] \in TurnAt <=> cur[p] \in Task
      /\ DOMAIN at = Process /\ DOMAIN cur = Process
      /\ at[p] \in {"tool", "effect"} => Tool(cur[p]) \in markers
  BY DEF IInv, HistoryInv, MarkersFit, TypeOK
<1>b. \A t : Settlement(t) # Tool(t)
  BY DEF Settlement, Tool
<1> USE DEF Go
<1>1. CASE (\E t \in Task : StartTurn(p, t)) \/ PrepareContext(p) \/ ContinueTurn(p)
           \/ BeginValidating(p)
  BY <1>1, <1>a DEF StartTurn, PrepareContext, ContinueTurn, BeginValidating, TurnAt
<1>2. CASE StartCall(p)
  <2>1. [Call(cur[p]) EXCEPT !.n = @ + 1] # Settlement(cur[p])
    BY DEF Call, Settlement
  <2> QED BY <1>2, <2>1, <1>a DEF StartCall, TurnAt
<1>3. CASE FinishCall(p) \/ RecordUsage(p) \/ StopCall(p)
  BY <1>3, <1>a DEF FinishCall, RecordUsage, StopCall, TurnAt
<1>4. CASE Fail(p) \/ FinishCancelledTurn(p) \/ TurnErrs(p)
  BY <1>4, <1>a DEF Fail, FinishCancelledTurn, EndTurn, TurnErrs, durable, TurnAt
<1>5. CASE StartTool(p) \/ Dispatch(p) \/ FinishTool(p)
  BY <1>5, <1>a, <1>b DEF StartTool, Dispatch, FinishTool, durable, TurnAt
<1>6. CASE SavePausedTurn(p) \/ FinishProposing(p) \/ ProposePatch(p) \/ AwaitApproval(p)
  BY <1>6, <1>a DEF SavePausedTurn, FinishProposing, ProposePatch, AwaitApproval, TurnAt
<1>7. CASE RunVerificationCheck(p) \/ RunApproved(p)
  BY <1>7, <1>a DEF RunVerificationCheck, RunApproved, durable, TurnAt
<1>8. CASE StartSettlement(p) \/ WriteSettlement(p) \/ FinishSettlement(p)
  BY <1>8, <1>a DEF StartSettlement, WriteSettlement, FinishSettlement, TurnAt
<1>9. CASE \E pr \in Proposal : AnswerApproval(p, pr)
  BY <1>9, <1>a DEF AnswerApproval, TakePausedTurn, TurnAt
<1> QED BY <1>1, <1>2, <1>3, <1>4, <1>5, <1>6, <1>7, <1>8, <1>9 DEF TurnStep

\* A stopped task gets no marker, and loses none but a settlement's.
LEMMA StoppedMarkers ==
  ASSUME IInv, Next, NEW t \in Task, Stopped(t)
  PROVE  /\ Tool(t) \in markers <=> Tool(t) \in markers'
         /\ Settlement(t) \in markers' => Settlement(t) \in markers
<1>a. TypeOK /\ Tool(t) \in Marker /\ Settlement(t) \in Marker
      /\ Tool(t).task = t /\ Settlement(t).task = t
  BY MarkerTypes DEF IInv, Tool, Settlement
<1>b. \A s : Settlement(s) # Tool(t)
  BY DEF Settlement, Tool
<1>1. CASE \E p \in Process : TurnStep(p)
  BY <1>1, <1>a, TurnSteps, TurnsApart DEF TurnFrame
<1>2. CASE SweepStep \/ DecisionStep
  BY <1>2, <1>b, ShellStepWrites
     DEF ShellWrites, SettleWrites, ResumeWrites, CloseWrites, CountWrites
<1>3. CASE WindowStep
  BY <1>3, <1>a, WindowKinds DEF WindowFrame
<1>4. CASE Death
  BY <1>4, <1>a, Deaths DEF DeathFrame, durable
<1> QED BY <1>1, <1>2, <1>3, <1>4 DEF Next, Death

LEMMA MarkersFitStay == ASSUME IInv, Next PROVE MarkersFit'
<1>a. /\ TypeOK /\ OwnTurns /\ StatusFits /\ MarkersFit /\ CardsWait /\ NoTask \notin Task
      /\ DOMAIN cur = Process /\ DOMAIN at = Process
      /\ \A p \in Process : cur[p] \in Task <=> at[p] \in TurnAt
  BY NoTaskAssumption DEF IInv, TurnInv, CardsFit, HistoryInv, TypeOK
<1>b. \A t \in Task : Stopped(t) => Stopped(t)'
  BY StoppedStay
<1>c. \A t \in Task : Tool(t) \in Marker /\ Settlement(t) \in Marker
                      /\ Tool(t).task = t /\ Settlement(t).task = t
  BY <1>a, MarkerTypes DEF Tool, Settlement
<1>d. \A s, t : Settlement(s) # Tool(t)
  BY DEF Settlement, Tool
\* An unfinished settlement is of a task that is stopped or being settled.
<1>e. \A t \in Task : Settlement(t) \in markers =>
        \/ Stopped(t)
        \/ \E p \in Process : cur[p] = t /\ at[p] \in {"settling", "settled"}
  BY <1>a DEF MarkersFit
<1>f. \A t \in Task, p \in Process :
        Settlement(t) \in markers /\ cur[p] = t => at[p] \in {"settling", "settled"}
  BY <1>a, <1>e, Apart DEF Stopped
<1>g. \A t \in Task : Settlement(t) \in markers => status[t] \notin {"none", "waiting_for_approval"}
  BY <1>a, <1>e DEF Stopped, StatusFits
<1>1. CASE \E p \in Process : TurnStep(p)
  <2>1. PICK p \in Process : TurnStep(p)
    BY <1>1
  <2>2. TurnFrame(p) /\ TurnMoves(p)
    BY <2>1, <1>a, TurnSteps
  <2>3. ASSUME NEW q \in Process, at'[q] \in {"tool", "effect"}
        PROVE  Tool(cur'[q]) \in markers'
    <3>1. CASE q = p
      BY <2>1, <2>3, <3>1, OwnMarkers
    <3>2. CASE q # p
      <4>1. cur'[q] = cur[q] /\ at'[q] = at[q] /\ cur[q] \in Task
        BY <2>2, <2>3, <3>2, <1>a DEF TurnFrame, TurnAt
      <4>2. Tool(cur[q]) \in markers /\ cur[q] # cur[p] /\ cur[q] # cur'[p]
        BY <2>1, <2>3, <3>2, <4>1, <1>a, TurnsApart DEF MarkersFit
      <4> QED BY <4>1, <4>2, <2>2, <1>c DEF TurnFrame
    <3> QED BY <3>1, <3>2
  <2>4. ASSUME NEW t \in Task, Settlement(t) \in markers'
        PROVE  \/ Stopped(t)'
               \/ \E q \in Process : cur'[q] = t /\ at'[q] \in {"settling", "settled"}
    <3>1. CASE t = cur[p]
      BY <2>1, <2>4, <3>1, <1>f, OwnMarkers
    <3>2. CASE t # cur[p]
      <4>1. Settlement(t) \in markers
        <5>1. CASE t # cur'[p]
          BY <2>2, <2>4, <3>2, <5>1, <1>c DEF TurnFrame
        <5>2. CASE t = cur'[p]
          <6>1. cur[p] \notin Task
            BY <2>2, <3>2, <5>2, <1>a DEF TurnMoves
          <6> QED BY <2>1, <2>4, <6>1, OwnMarkers
        <5> QED BY <5>1, <5>2
      <4>2. CASE Stopped(t)
        BY <4>2, <1>b
      <4>3. CASE \E q \in Process : cur[q] = t /\ at[q] \in {"settling", "settled"}
        BY <4>3, <3>2, <2>2 DEF TurnFrame
      <4> QED BY <4>1, <4>2, <4>3, <1>e
    <3> QED BY <3>1, <3>2
  <2> QED BY <2>3, <2>4 DEF MarkersFit
<1>2. CASE SweepStep \/ DecisionStep
  <2>1. ShellSteps /\ ShellWrites
    BY <1>2, <1>a, ShellFrames, ShellStepWrites
  <2>2. /\ markers' \subseteq markers
        /\ \A t \in Task : Tool(t) \in markers => Tool(t) \in markers'
    BY <2>1, <1>d DEF ShellWrites, SettleWrites, ResumeWrites, CloseWrites, CountWrites
  <2>3. \A p \in Process : at[p] \in TurnAt \/ at'[p] \in TurnAt =>
          at'[p] = at[p] /\ cur'[p] = cur[p] /\ cur[p] \in Task
    BY <2>1, <1>a, Processes DEF ShellSteps
  <2> QED BY <2>2, <2>3, <1>a, <1>b, <1>e DEF MarkersFit, TurnAt
<1>3. CASE WindowStep
  <2>1. markers' = markers /\ ((\E pr \in Proposal : Takes(pr) \/ Answered(pr)) \/ ClosesOut \/ Forgets)
    BY <1>3, <1>a, WindowKinds DEF WindowFrame
  <2>2. \A p \in Process : at'[p] \in {"tool", "effect"} => at'[p] = at[p] /\ cur'[p] = cur[p]
    BY <2>1, <1>a, Processes DEF Takes, Answered, ClosesOut, Forgets
  <2>3. \A p \in Process : at[p] \in TurnAt => at'[p] = at[p] /\ cur'[p] = cur[p]
    BY <2>1, <1>a, Processes DEF Takes, Answered, ClosesOut, Forgets, TurnAt
  <2> QED BY <2>1, <2>2, <2>3, <1>a, <1>b, <1>e DEF MarkersFit, TurnAt
<1>4. CASE Death
  <2>1. DeathFrame /\ markers' = markers /\ status' = status
    BY <1>4, <1>a, Deaths DEF DeathFrame, durable
  <2>2. \A p \in Process : at'[p] \in {"tool", "effect"} => at'[p] = at[p] /\ cur'[p] = cur[p]
    BY <2>1 DEF DeathFrame
  <2>3. ASSUME NEW t \in Task, NEW p \in Process, cur[p] = t, at[p] \in {"settling", "settled"}
        PROVE  Stopped(t)' \/ (cur'[p] = t /\ at'[p] \in {"settling", "settled"})
    <3>1. CASE cur'[p] = cur[p] /\ at'[p] = at[p]
      BY <2>3, <3>1
    <3>2. CASE cur'[p] = NoTask
      <4>1. \A q \in Process : cur'[q] # t
        BY <2>1, <2>3, <3>2, <1>a, Apart DEF DeathFrame
      <4>2. status[t] \notin {"none", "waiting_for_approval"}
        BY <2>3, <1>a DEF StatusFits
      <4> QED BY <2>1, <4>1, <4>2 DEF Stopped
    <3> QED BY <2>1, <2>3, <3>1, <3>2 DEF DeathFrame, TurnAt
  <2> QED BY <2>1, <2>2, <2>3, <1>a, <1>b, <1>e DEF MarkersFit
<1> QED BY <1>1, <1>2, <1>3, <1>4 DEF Next, Death

\* What a step does to the history, and to tasks that are stopped.
LEMMA HistorySteps ==
  ASSUME IInv, Next
  PROVE  /\ \/ UNCHANGED <<resumed, lost, lostCheck>>
            \/ UNCHANGED <<lost, lostCheck>> /\ \E t \in found : ResumeWrites(t)
            \/ DeathFrame /\ Death
         /\ vanished \subseteq vanished'
         /\ \A t \in Task : Stopped(t) =>
              status'[t] = status[t] \/ status'[t] \in Terminal \/ ResumeWrites(t)
<1>a. TypeOK /\ status \in [Task -> Status] /\ markers \subseteq Marker
  BY DEF IInv, TypeOK
<1>1. CASE \E p \in Process : TurnStep(p)
  BY <1>1, <1>a, TurnSteps, TurnsApart DEF TurnFrame
<1>2. CASE SweepStep \/ DecisionStep
  <2>1. ShellSteps /\ ShellWrites
    BY <1>2, <1>a, ShellFrames, ShellStepWrites
  <2>2. vanished \subseteq vanished'
    <3>1. CASE SweepStep
      BY <3>1 DEF SweepStep, BeginSweep, ClassifyStep, ClassifySession, AccountForLostCall,
         AllAccounted, SettleCrashed, ClassifyTasks, ResumeFound, BeginReattach,
         ReattachPendingApprovals, FinishSweep, shellFrame
    <3>2. CASE DecisionStep
      BY <3>2 DEF DecisionStep, Decide, RefuseDecision, Resume, MarkFailedOrAbandon,
         MarkTaskSuperseded, decisionFrame, shellFrame
    <3> QED BY <1>2, <3>1, <3>2
  <2>3. \A t \in Task : status'[t] = status[t] \/ status'[t] \in Terminal \/ ResumeWrites(t)
    BY <2>1, <1>a DEF ShellWrites, SettleWrites, ResumeWrites, CloseWrites, CountWrites, Terminal
  <2>4. UNCHANGED resumed \/ \E t \in found : ResumeWrites(t)
    BY <2>1 DEF ShellWrites, SettleWrites, CloseWrites, CountWrites
  <2> QED BY <2>1, <2>2, <2>3, <2>4 DEF ShellSteps
<1>3. CASE WindowStep
  BY <1>3, <1>a, WindowKinds DEF WindowFrame, Takes, Answered, ClosesOut, Forgets, Terminal
<1>4. CASE Death
  BY <1>4, <1>a, Deaths DEF DeathFrame, durable
<1> QED BY <1>1, <1>2, <1>3, <1>4 DEF Next, Death

\* What a death cuts off is not stopped before and is stopped after.
LEMMA CutOff ==
  ASSUME IInv, Death, NEW t \in Task, NEW p \in Process, cur[p] = t,
         at[p] \in {"effect", "checking"}, at'[p] = "down"
  PROVE  ~Stopped(t) /\ Stopped(t)'
<1>a. /\ TypeOK /\ OwnTurns /\ StatusFits /\ DeathFrame
  BY Deaths DEF IInv, TurnInv
<1>1. status[t] \notin {"none", "waiting_for_approval"} /\ status' = status
  BY <1>a DEF StatusFits, DeathFrame, durable
<1>2. cur'[p] = NoTask
  BY <1>a DEF DeathFrame, TurnAt
<1>3. \A q \in Process : q # p => cur[q] # t
  BY <1>a, Apart
<1>4. \A q \in Process : cur'[q] # t
  BY <1>a, <1>2, <1>3, NoTaskAssumption DEF DeathFrame
<1> QED BY <1>1, <1>4 DEF Stopped

LEMMA LostFitStay == ASSUME IInv, Next PROVE LostFit'
<1>a. /\ TypeOK /\ OwnTurns /\ LostFit /\ StatusFits /\ MarkersFit
      /\ lost \subseteq Task /\ lostCheck \subseteq Task
  BY DEF IInv, TurnInv, HistoryInv, TypeOK
<1>b. \A t \in Task : Stopped(t) => Stopped(t)' /\ (Tool(t) \in markers <=> Tool(t) \in markers')
  BY StoppedStay, StoppedMarkers
<1>1. ASSUME NEW t \in lost PROVE Stopped(t)' /\ Tool(t) \in markers'
  BY <1>a, <1>b DEF LostFit
<1>2. resumed \subseteq resumed'
  BY HistorySteps DEF ResumeWrites, DeathFrame
<1>3. ASSUME NEW t \in lostCheck
      PROVE  Stopped(t)' /\ (status'[t] \in Terminal \cup {"validating"} \/ <<t, "user">> \in resumed')
  <2>1. Stopped(t) /\ (status[t] \in Terminal \cup {"validating"} \/ <<t, "user">> \in resumed)
    BY <1>a DEF LostFit
  <2>2. CASE ResumeWrites(t)
    <3>1. Recovered(t)
      BY <2>2, FoundUnattended DEF ResumeWrites
    <3> QED BY <1>a, <1>b, <1>2, <2>1, <2>2, <3>1 DEF ResumeWrites, Recovered
  <2> QED BY <1>a, <1>b, <1>2, <2>1, <2>2, HistorySteps
<1>4. CASE UNCHANGED <<lost, lostCheck>>
  BY <1>1, <1>3, <1>4 DEF LostFit
<1>5. CASE DeathFrame /\ Death
  <2>1. ASSUME NEW t \in lost', t \notin lost PROVE Stopped(t)' /\ Tool(t) \in markers'
    <3>1. PICK p \in Process : cur[p] = t /\ at[p] = "effect" /\ at'[p] = "down"
      BY <1>5, <2>1 DEF DeathFrame
    <3>2. cur[p] \in Task /\ Tool(t) \in markers /\ markers' = markers
      BY <1>5, <3>1, <1>a DEF DeathFrame, durable, MarkersFit, TypeOK, TurnAt
    <3> QED BY <1>5, <3>1, <3>2, CutOff
  <2>2. ASSUME NEW t \in lostCheck', t \notin lostCheck
        PROVE  Stopped(t)' /\ status'[t] = "validating"
    <3>1. PICK p \in Process : cur[p] = t /\ at[p] = "checking" /\ at'[p] = "down"
      BY <1>5, <2>2 DEF DeathFrame
    <3>2. cur[p] \in Task /\ status'[t] = "validating"
      BY <1>5, <3>1, <1>a DEF DeathFrame, durable, StatusFits, TypeOK, TurnAt
    <3> QED BY <1>5, <3>1, <3>2, CutOff
  <2> QED BY <1>1, <1>3, <2>1, <2>2 DEF LostFit
<1> QED BY <1>4, <1>5, HistorySteps

\* A task that is being resumed has no unfinished settlement but one whose
\* repository is gone, and lost nothing but a check.
LEMMA ResumedSafely ==
  ASSUME IInv, NEW t \in found, ResumeWrites(t)
  PROVE  /\ t \in Task \ WorkerTask /\ t \notin lost
         /\ Settlement(t) \in markers => t \in vanished
         /\ t \in lostCheck => status[t] = "validating" \/ <<t, "user">> \in resumed
<1>1. /\ LostFit /\ FoundFit /\ t \in found \ WorkerTask /\ Tool(t) \notin markers
  BY DEF IInv, HistoryInv, ResumeWrites
<1>2. Recovered(t) /\ t \in Task
  BY <1>1, FoundUnattended
<1> QED BY <1>1, <1>2 DEF LostFit, FoundFit, Recovered

LEMMA ResumedFitStay ==
  ASSUME IInv, Next PROVE ResumedFit' /\ OnlySafeTasksAreResumed'
<1>a. /\ TypeOK /\ ResumedFit /\ LostFit /\ OnlySafeTasksAreResumed
      /\ resumed \subseteq Task \X {"sweep", "user"} /\ status \in [Task -> Status]
      /\ lost \subseteq Task /\ lostCheck \subseteq Task
  BY DEF IInv, HistoryInv, TypeOK
<1>b. \A t \in Resumed : t \in Task /\ Stopped(t)
  BY <1>a DEF ResumedFit, Resumed
<1>1. ASSUME NEW t \in Resumed
      PROVE  Stopped(t)' /\ t \notin WorkerTask /\ (Settlement(t) \in markers' => t \in vanished')
  BY <1>a, <1>b, StoppedStay, StoppedMarkers, HistorySteps DEF ResumedFit
<1>2. CASE UNCHANGED <<resumed, lost, lostCheck>>
  <2>1. ResumedFit'
    BY <1>1, <1>2 DEF ResumedFit, Resumed
  <2> QED BY <1>2, <2>1, <1>a DEF ResumedFit, OnlySafeTasksAreResumed, LostOutcomeIsNeverResumed,
             CutOffCheckNeedsAPerson, AnsweredTaskIsNeverResumed, Resumed
<1>3. CASE UNCHANGED <<lost, lostCheck>> /\ \E t \in found : ResumeWrites(t)
  <2>1. PICK t \in found : ResumeWrites(t)
    BY <1>3
  <2>2. /\ t \in Task \ WorkerTask /\ t \notin lost
        /\ Settlement(t) \in markers => t \in vanished
        /\ t \in lostCheck => status[t] = "validating" \/ <<t, "user">> \in resumed
    BY <2>1, ResumedSafely
  <2>3. Resumed' = Resumed \cup {t}
    <3>1. PICK w : resumed' = resumed \cup {<<t, w>>}
      BY <2>1 DEF ResumeWrites
    <3>2. <<t, w>>[1] = t
      OBVIOUS
    <3> QED BY <3>1, <3>2 DEF Resumed
  <2>4. Stopped(t)
    BY <2>1, <2>2, FoundUnattended DEF ResumeWrites, Stopped, Unattended, Recovered
  <2>5. Stopped(t)' /\ (Settlement(t) \in markers' => t \in vanished')
    BY <2>2, <2>4, StoppedStay, StoppedMarkers, HistorySteps
  <2>6. ResumedFit'
    BY <1>1, <2>2, <2>3, <2>5 DEF ResumedFit
  <2>7. LostOutcomeIsNeverResumed'
    BY <1>3, <2>2, <2>3, <1>a DEF OnlySafeTasksAreResumed, LostOutcomeIsNeverResumed
  <2>8. CutOffCheckNeedsAPerson'
    <3> SUFFICES ASSUME NEW s \in lostCheck, <<s, "sweep">> \in resumed'
                 PROVE  <<s, "user">> \in resumed'
      BY <1>3 DEF CutOffCheckNeedsAPerson
    <3>1. CASE <<s, "sweep">> \in resumed
      BY <2>1, <3>1, <1>a DEF ResumeWrites, OnlySafeTasksAreResumed, CutOffCheckNeedsAPerson
    <3>2. CASE <<s, "sweep">> \notin resumed
      BY <2>1, <2>2, <3>2 DEF ResumeWrites
    <3> QED BY <3>1, <3>2
  <2> QED BY <2>6, <2>7, <2>8 DEF ResumedFit, OnlySafeTasksAreResumed, AnsweredTaskIsNeverResumed
<1>4. CASE DeathFrame /\ Death
  <2>1. resumed' = resumed /\ Resumed' = Resumed
    BY <1>4 DEF DeathFrame, Resumed
  <2>2. ResumedFit'
    BY <1>1, <2>1 DEF ResumedFit
  <2>3. ASSUME NEW t \in Resumed PROVE t \in lost' => t \in lost
    <3> SUFFICES ASSUME t \in lost', t \notin lost PROVE FALSE
      OBVIOUS
    <3>1. PICK p \in Process : cur[p] = t
      BY <1>4 DEF DeathFrame
    <3> QED BY <3>1, <1>b DEF Stopped
  <2>4. ASSUME NEW t \in Resumed PROVE t \in lostCheck' => t \in lostCheck
    <3> SUFFICES ASSUME t \in lostCheck', t \notin lostCheck PROVE FALSE
      OBVIOUS
    <3>1. PICK p \in Process : cur[p] = t
      BY <1>4 DEF DeathFrame
    <3> QED BY <3>1, <1>b DEF Stopped
  <2>5. \A t : <<t, "sweep">> \in resumed => t \in Resumed
    BY DEF Resumed
  <2> QED BY <2>1, <2>2, <2>3, <2>4, <2>5, <1>a
          DEF ResumedFit, OnlySafeTasksAreResumed, LostOutcomeIsNeverResumed,
              CutOffCheckNeedsAPerson, AnsweredTaskIsNeverResumed
<1> QED BY <1>2, <1>3, <1>4, HistorySteps

\* A task found is still to be settled, or cannot be.
FoundTask(t) ==
  /\ Recovered(t)
  /\ Settlement(t) \in markers => t \in vanished \/ Tool(t) \in markers
  /\ "shell" \notin scan /\ (at["shell"] \in {"account", "settle"} => here # "shell")

\* Nothing but a request of the shell writes to a task that was found.
LEMMA FoundElsewhere ==
  ASSUME IInv, (\E p \in Process : TurnStep(p)) \/ WindowStep \/ Death, found' # {}
  PROVE  /\ UNCHANGED <<found, scan, here, vanished>> /\ at'["shell"] = at["shell"]
         /\ at["shell"] \in Classifying
         /\ \A t \in found \ WorkerTask :
              /\ status'[t] = status[t]
              /\ Settlement(t) \in markers' <=> Settlement(t) \in markers
              /\ Tool(t) \in markers' <=> Tool(t) \in markers
<1>a. /\ TypeOK /\ OwnTurns /\ FoundFit /\ found \subseteq Task /\ NoTask \notin Task
      /\ DOMAIN at = Process
  BY NoTaskAssumption DEF IInv, TurnInv, HistoryInv, TypeOK
<1>b. found # {} => at["shell"] \in Classifying
  BY <1>a DEF FoundFit
<1>1. CASE TurnStep("worker")
  <2>1. TurnFrame("worker") /\ TurnMoves("worker")
    BY <1>1, <1>a, TurnSteps, Processes
  <2>2. \A t \in Task \ WorkerTask : t # cur["worker"] /\ t # cur'["worker"]
    BY <2>1, <1>a, Processes DEF OwnTurns, TurnMoves
  <2>3. \A t \in Task : /\ Tool(t) \in Marker /\ Settlement(t) \in Marker
                        /\ Tool(t).task = t /\ Settlement(t).task = t
    BY <1>a, MarkerTypes DEF Tool, Settlement
  <2> QED BY <2>1, <2>2, <2>3, <1>a, <1>b, Processes DEF TurnFrame
<1>2. CASE TurnStep("shell")
  <2>1. found' = found /\ at["shell"] \in TurnAt \cup {"idle"}
    BY <1>2, <1>a, TurnSteps, Processes DEF TurnFrame
  <2> QED BY <2>1, <1>b DEF TurnAt, Classifying
<1>3. CASE WindowStep
  <2>1. found' = found /\ at["shell"] = "idle"
    BY <1>3, <1>a, WindowKinds DEF WindowFrame, sweepVars, Takes, Answered, ClosesOut, Forgets
  <2> QED BY <2>1, <1>b DEF Classifying
<1>4. CASE CrashShell
  BY <1>4 DEF CrashShell
<1>5. CASE CrashDriver
  BY <1>5, <1>a, <1>b, Processes DEF CrashDriver, sweepVars, durable, Go
<1>6. CASE Launch \/ StartDriver
  BY <1>6, <1>b DEF Launch, StartDriver, sweepVars, Classifying
<1> QED BY <1>1, <1>2, <1>3, <1>4, <1>5, <1>6, Processes DEF Death

LEMMA FoundFitStay == ASSUME IInv, Next PROVE FoundFit'
<1>a. /\ TypeOK /\ DOMAIN at = Process /\ found \subseteq Task /\ here \in Process
      /\ status \in [Task -> Status] /\ scan \subseteq Process
      /\ found # {} => at["shell"] \in Classifying
      /\ at["shell"] \in {"account", "settle"} => here \notin scan
      /\ \A t \in found \ WorkerTask : FoundTask(t) /\ t \in Task
  BY DEF IInv, HistoryInv, TypeOK, FoundFit, FoundTask
<1> SUFFICES /\ found' # {} => at'["shell"] \in Classifying
             /\ at'["shell"] \in {"account", "settle"} => here' \notin scan'
             /\ \A t \in found' \ WorkerTask : FoundTask(t)'
  BY DEF FoundFit, FoundTask
<1>1. CASE (\E p \in Process : TurnStep(p)) \/ WindowStep \/ Death
  <2>1. at'["shell"] \in {"account", "settle"} => at'["shell"] = at["shell"] /\ UNCHANGED <<here, scan>>
    <3>1. CASE \E p \in Process : TurnStep(p)
      <4>1. PICK p \in Process : TurnFrame(p)
        BY <3>1, <1>a, TurnSteps
      <4> QED BY <4>1, Processes DEF TurnFrame, TurnAt
    <3>2. CASE WindowStep
      BY <3>2, <1>a, WindowKinds, Processes
         DEF WindowFrame, sweepVars, Takes, Answered, ClosesOut, Forgets
    <3>3. CASE Death
      BY <3>3, <1>a, Processes
         DEF Death, CrashShell, CrashDriver, Launch, StartDriver, sweepVars, Go
    <3> QED BY <1>1, <3>1, <3>2, <3>3
  <2>2. CASE found' = {}
    BY <2>1, <2>2, <1>a
  <2>3. CASE found' # {}
    BY <1>1, <2>1, <2>3, <1>a, FoundElsewhere DEF FoundTask, Recovered
  <2> QED BY <2>2, <2>3
<1>2. CASE SweepStep
  <2>1. CASE BeginSweep \/ BeginReattach \/ FinishSweep
    <3>1. found' = found /\ found = {} /\ at'["shell"] \notin {"account", "settle"}
      BY <2>1, <1>a, Processes DEF BeginSweep, BeginReattach, FinishSweep, Go, sweepVars, Classifying
    <3> QED BY <3>1
  <2>2. CASE \E s \in Process : ClassifySession(s)
    <3>1. PICK s \in Process : ClassifySession(s)
      BY <2>2
    <3>2. /\ UNCHANGED <<status, markers, found, vanished>> /\ at["shell"] = "scan"
          /\ s \in scan /\ scan' = scan \ {s} /\ here' = s
          /\ at'["shell"] \in {"scan", "account"}
      BY <3>1, <1>a, Processes DEF ClassifySession, Go, shellFrame
    <3> QED BY <3>2, <1>a DEF FoundTask, Recovered, Classifying
  <2>3. CASE AccountForLostCall \/ AllAccounted
    BY <2>3, <1>a, Processes DEF AccountForLostCall, AllAccounted, Go, sweepVars, shellFrame, FoundTask,
                      Recovered, Classifying
  <2>4. CASE SettleCrashed
    <3>1. PICK m \in markers : SettleWrites(m)
      BY <2>4, Settles
    <3>2. UNCHANGED <<at, scan, here, found, vanished>>
      BY <2>4 DEF SettleCrashed, sweepVars, shellFrame
    <3>3. ASSUME NEW t \in found \ WorkerTask PROVE FoundTask(t)'
      <4>1. t # m.task /\ t \in Task
        BY <3>1, <1>a, Processes DEF SettleWrites, FoundTask
      <4>2. /\ \A s : Settlement(s) # Tool(t)
            /\ Settlement(t) # Settlement(m.task)
        BY <4>1 DEF Settlement, Tool
      <4>3. /\ Tool(t) \in markers => Tool(t) \in markers'
            /\ Settlement(t) \in markers' => Settlement(t) \in markers
            /\ status'[t] = status[t]
        BY <3>1, <4>1, <4>2, <1>a DEF SettleWrites
      <4> QED BY <3>2, <4>3, <1>a DEF FoundTask, Recovered
    <3> QED BY <3>2, <3>3, <1>a
  <2>5. CASE ClassifyTasks
    <3>1. /\ at["shell"] = "settle" /\ at'["shell"] = "scan" /\ UNCHANGED <<status, markers, scan>>
      BY <2>5, <1>a, Processes DEF ClassifyTasks, Go, durable
    <3>2. ASSUME NEW t \in found' \ WorkerTask PROVE FoundTask(t)'
      <4>1. CASE t \in found
        BY <2>5, <3>1, <4>1, <1>a DEF ClassifyTasks, FoundTask, Recovered
      <4>2. CASE t \notin found
        <5>1. t \in TasksOf(here) /\ Recovered(t)
          BY <2>5, <4>2 DEF ClassifyTasks
        <5>2. here = "shell" /\ Home(t) = here /\ t \in Task
          BY <3>2, <5>1, <1>a, Processes DEF TasksOf
        <5>3. Settlement(t) \in markers => Settlement(t) \in OpenSettlements(here)
          BY <5>2 DEF OpenSettlements, Settlement
        <5>4. Settlement(t).task = t
          BY DEF Settlement
        <5>5. Settlement(t) \in markers /\ Tool(t) \notin markers => t \in vanished'
          <6> SUFFICES ASSUME Settlement(t) \in markers, Tool(t) \notin markers
                       PROVE  t \in vanished'
            OBVIOUS
          <6>1. t \in {m.task : m \in {n \in OpenSettlements(here) : Tool(n.task) \notin markers}}
            BY <5>3, <5>4
          <6> QED BY <2>5, <6>1 DEF ClassifyTasks
        <5> QED BY <3>1, <5>1, <5>2, <5>5, <1>a DEF FoundTask, Recovered
      <4> QED BY <4>1, <4>2
    <3> QED BY <3>1, <3>2 DEF Classifying
  <2>6. CASE ResumeFound
    <3>1. PICK t \in found :
             /\ found' = found \ {t}
             /\ status' = status \/ status' = [status EXCEPT ![t] = "preparing_context"]
      BY <2>6 DEF ResumeFound, SetStatus
    <3>2. UNCHANGED <<at, scan, here, vanished, markers>>
      BY <2>6 DEF ResumeFound, shellFrame
    <3>3. \A s \in found' : status'[s] = status[s]
      BY <3>1, <1>a
    <3> QED BY <3>1, <3>2, <3>3, <1>a DEF FoundTask, Recovered
  <2>7. CASE \E s \in Process : ReattachPendingApprovals(s)
    BY <2>7, <1>a DEF ReattachPendingApprovals, Classifying
  <2> QED BY <1>2, <2>1, <2>2, <2>3, <2>4, <2>5, <2>6, <2>7 DEF SweepStep, ClassifyStep
<1>3. CASE DecisionStep
  <2>1. CASE (\E t \in Task, d \in Decision : Decide(t, d)) \/ RefuseDecision \/ Resume
             \/ MarkFailedOrAbandon
    <3>1. found' = {} /\ at'["shell"] \notin {"account", "settle"}
      BY <2>1, <1>a, Processes DEF Decide, RefuseDecision, Resume, MarkFailedOrAbandon, Go
    <3> QED BY <3>1
  <2>2. CASE MarkTaskSuperseded
    <3>1. found' = found /\ found = {} /\ at'["shell"] \notin {"account", "settle"}
      BY <2>2, <1>a, Processes DEF MarkTaskSuperseded, Go, Classifying
    <3> QED BY <3>1
  <2> QED BY <1>3, <2>1, <2>2 DEF DecisionStep
<1> QED BY <1>1, <1>2, <1>3 DEF Next, Death

-----------------------------------------------------------------------------
(* The invariant *)

LEMMA InitInv == Init => IInv
<1> SUFFICES ASSUME Init PROVE IInv
  OBVIOUS
<1>1. TypeOK
  BY InitTypes
<1>2. TurnInv
  BY Bounds, Processes
     DEF Init, TurnInv, OwnTurns, TakenOver, StatusFits, NumbersFit, SweepsTheDead, GoalFits,
         PromptsFit, Classifying
<1>3. CardsFit
  BY Bounds, Processes
     DEF Init, CardsFit, CardsWait, OneCard, CardNumbers, CardPhases, AllCards, Kept
<1>4. Resumed = {}
  BY DEF Init, Resumed
<1>5. HistoryInv
  BY <1>4, Processes
     DEF Init, HistoryInv, MarkersFit, LostFit, ResumedFit, FoundFit, OnlySafeTasksAreResumed,
         LostOutcomeIsNeverResumed, CutOffCheckNeedsAPerson, AnsweredTaskIsNeverResumed
<1> QED BY <1>1, <1>2, <1>3, <1>5 DEF IInv

LEMMA StutterInv == ASSUME IInv, UNCHANGED vars PROVE IInv'
<1>1. UNCHANGED <<status, markers, calls, usage, paused, link, superseded, at, cur, offered,
                  scan, here, goal, found, shown, cards, resolving, crashes>>
      /\ UNCHANGED <<patches, decided, resumed, prompts, ran, vanished, lost, lostCheck, erred>>
  BY DEF vars, durable, sweepVars, window, history
<1>2. TypeOK'
  BY TypesStay DEF IInv
<1>3. TurnInv'
  BY <1>1 DEF IInv, TurnInv, OwnTurns, TakenOver, StatusFits, NumbersFit, SweepsTheDead, GoalFits,
              PromptsFit, Classifying
<1>4. CardsFit'
  BY <1>1 DEF IInv, CardsFit, CardsWait, OneCard, CardNumbers, CardPhases, AllCards, Kept, Launching,
              Classifying
<1>5. HistoryInv'
  BY <1>1 DEF IInv, HistoryInv, MarkersFit, Stopped, LostFit, ResumedFit, FoundFit, Recovered,
     OnlySafeTasksAreResumed, Resumed, Classifying,
     LostOutcomeIsNeverResumed, CutOffCheckNeedsAPerson, AnsweredTaskIsNeverResumed
<1> QED BY <1>2, <1>3, <1>4, <1>5 DEF IInv

LEMMA NextInv == ASSUME IInv, [Next]_vars PROVE IInv'
<1>1. CASE Next
  <2>1. TypeOK'
    BY TypesStay
  <2>2. TurnInv'
    BY <1>1, OwnTurnsStay, StatusFitsStay, NumbersFitStay, SweepsTheDeadStay, GoalFitsStay
       DEF TurnInv
  <2>3. CardsFit'
    BY <1>1, CardsFitStay
  <2>4. HistoryInv'
    BY <1>1, MarkersFitStay, LostFitStay, ResumedFitStay, FoundFitStay DEF HistoryInv
  <2> QED BY <2>1, <2>2, <2>3, <2>4 DEF IInv
<1>2. CASE UNCHANGED vars
  BY <1>2, StutterInv
<1> QED BY <1>1, <1>2

LEMMA Invariance == Spec => []IInv
BY InitInv, NextInv, PTL DEF Spec

\* Every variable keeps its type and a process has a task exactly in a turn.
THEOREM TypeCorrect == Spec => []TypeOK
<1>1. IInv => TypeOK
  BY DEF IInv
<1> QED BY <1>1, Invariance, PTL

\* Recovery continues a task only when what was cut off is known and harmless,
\* over any number of launches, sweeps, decisions and crashes (recovery.rs).
THEOREM ResumesAreSafe == Spec => []OnlySafeTasksAreResumed
<1>1. IInv => OnlySafeTasksAreResumed
  BY DEF IInv, HistoryInv
<1> QED BY <1>1, Invariance, PTL

\* A call is counted at most once and a request handed back at most once,
\* whatever launches, sweeps and re-classifications there are (recovery.rs).
THEOREM NothingIsRecoveredTwice == Spec => []RecoveredOnce
<1>1. ASSUME IInv PROVE RecoveredOnce
  <2>1. NumbersFit /\ PromptsFit
    BY <1>1 DEF IInv, TurnInv
  <2> QED BY <2>1 DEF NumbersFit, PromptsFit, RecoveredOnce, UsageCountedOnce, RequestResentOnce
<1> QED BY <1>1, Invariance, PTL

-----------------------------------------------------------------------------
(* What has ended and what another process runs is left alone *)

\* A turn's step moves its process, and leaves the status once it is settled.
LEMMA TurnsMove ==
  ASSUME TypeOK, NEW p \in Process, TurnStep(p)
  PROVE  /\ at'[p] # at[p]
         /\ at[p] = "settled" => status' = status
<1>a. DOMAIN at = Process
  BY DEF TypeOK
<1> USE DEF Go
<1>1. CASE (\E t \in Task : StartTurn(p, t)) \/ PrepareContext(p) \/ ContinueTurn(p)
           \/ BeginValidating(p)
  BY <1>1, <1>a DEF StartTurn, PrepareContext, ContinueTurn, BeginValidating
<1>2. CASE StartCall(p) \/ FinishCall(p) \/ RecordUsage(p) \/ StopCall(p)
  BY <1>2, <1>a DEF StartCall, FinishCall, RecordUsage, StopCall
<1>3. CASE Fail(p) \/ FinishCancelledTurn(p) \/ TurnErrs(p)
  BY <1>3, <1>a DEF Fail, FinishCancelledTurn, EndTurn, TurnErrs, durable
<1>4. CASE StartTool(p) \/ Dispatch(p) \/ FinishTool(p)
  BY <1>4, <1>a DEF StartTool, Dispatch, FinishTool
<1>5. CASE SavePausedTurn(p) \/ FinishProposing(p) \/ ProposePatch(p) \/ AwaitApproval(p)
  BY <1>5, <1>a DEF SavePausedTurn, FinishProposing, ProposePatch, AwaitApproval
<1>6. CASE RunVerificationCheck(p) \/ RunApproved(p)
  BY <1>6, <1>a DEF RunVerificationCheck, RunApproved
<1>7. CASE StartSettlement(p) \/ WriteSettlement(p) \/ FinishSettlement(p)
  BY <1>7, <1>a DEF StartSettlement, WriteSettlement, FinishSettlement
<1>8. CASE \E pr \in Proposal : AnswerApproval(p, pr)
  BY <1>8, <1>a DEF AnswerApproval, TakePausedTurn
<1> QED BY <1>1, <1>2, <1>3, <1>4, <1>5, <1>6, <1>7, <1>8 DEF TurnStep

LEMMA ClosedStay == ASSUME IInv, Next PROVE ClosedNeverReopens
<1>a. TypeOK /\ StatusFits /\ CardsWait /\ status \in [Task -> Status] /\ found \subseteq Task
  BY DEF IInv, TurnInv, CardsFit, TypeOK
<1> SUFFICES ASSUME NEW t \in Task, status[t] \in Terminal, status'[t] # status[t]
             PROVE  status'[t] \in Terminal
  BY DEF ClosedNeverReopens
<1>1. CASE \E p \in Process : TurnStep(p)
  <2>1. PICK p \in Process : TurnStep(p)
    BY <1>1
  <2>2. TurnFrame(p) /\ TurnMoves(p) /\ status' # status
    BY <2>1, <1>a, TurnSteps
  <2>3. t = cur[p] \/ t = cur'[p]
    BY <2>2 DEF TurnFrame
  <2>4. CASE t = cur[p]
    BY <2>1, <2>2, <2>4, <1>a, TurnsMove DEF StatusFits, TypeOK, TurnAt, Terminal
  <2>5. CASE t = cur'[p] /\ t # cur[p]
    BY <2>2, <2>5, <1>a, NoTaskAssumption DEF TurnMoves, CardsWait, AllCards, Kept, Terminal
  <2> QED BY <2>3, <2>4, <2>5
<1>2. CASE SweepStep \/ DecisionStep
  <2>1. ShellWrites
    BY <1>2, ShellStepWrites
  <2>2. CASE \E s \in found : ResumeWrites(s)
    BY <2>2, <1>a, FoundUnattended DEF ResumeWrites, Recovered
  <2> QED BY <2>1, <2>2, <1>a DEF ShellWrites, SettleWrites, CloseWrites, CountWrites, Terminal
<1>3. CASE WindowStep
  BY <1>3, <1>a, WindowKinds DEF Takes, Answered, ClosesOut, Forgets, Terminal
<1>4. CASE Death
  BY <1>4, <1>a, Deaths DEF DeathFrame, durable
<1> QED BY <1>1, <1>2, <1>3, <1>4 DEF Next, Death

LEMMA LiveStay == ASSUME IInv, Next PROVE LiveWorkersTaskIsItsOwn
<1>a. /\ TypeOK /\ markers \subseteq Marker /\ status \in [Task -> Status]
      /\ usage \in [Task -> [1..MaxCalls -> 0..2]]
  BY DEF IInv, TypeOK
<1>b. markers' \subseteq Marker /\ WorkerTask \subseteq Task
  BY TypesStay, WorkerTaskAssumption DEF TypeOK
<1> SUFFICES ASSUME NEW t \in WorkerTask, cur["worker"] = t, at'["worker"] = at["worker"]
             PROVE  /\ status'[t] = status[t] /\ usage'[t] = usage[t]
                    /\ \A m \in Marker : m.task = t => (m \in markers' <=> m \in markers)
  BY <1>a, <1>b DEF LiveWorkersTaskIsItsOwn
<1>1. CASE \E p \in Process : TurnStep(p)
  <2>1. PICK p \in Process : TurnStep(p)
    BY <1>1
  <2>2. p # "worker"
    BY <2>1, <1>a, TurnsMove
  <2>3. t # cur[p] /\ t # cur'[p]
    BY <2>1, <2>2, <1>b, Processes, TurnsApart
  <2> QED BY <2>1, <2>3, <1>a, <1>b, TurnSteps DEF TurnFrame
<1>2. CASE SweepStep \/ DecisionStep
  <2>1. ShellWrites /\ StatusMoves
    BY <1>2, ShellStepWrites, ShellStatuses
  <2>2. status'[t] = status[t]
    BY <2>1, <1>b, Processes DEF StatusMoves, Unattended
  <2>3. CASE \E m \in markers : SettleWrites(m)
    BY <2>2, <2>3, Processes DEF SettleWrites, Unattended
  <2>4. CASE \E m \in markers : CountWrites(m)
    <3>1. PICK m \in markers : CountWrites(m)
      BY <2>4
    <3>2. m.task # t /\ markers' = markers /\ usage' = [usage EXCEPT ![m.task][m.n] = @ + 1]
      BY <3>1, CountedUnattended, Processes DEF CountWrites, Count
    <3> QED BY <2>2, <3>2, <1>a, <1>b
  <2> QED BY <2>1, <2>2, <2>3, <2>4 DEF ShellWrites, ResumeWrites, CloseWrites
<1>3. CASE WindowStep
  <2>1. UNCHANGED <<markers, usage>>
    BY <1>3, <1>a, WindowKinds DEF WindowFrame
  <2>2. ClosesOut => resolving # t
    BY ResolvedUnattended, Processes DEF ClosesOut
  <2> QED BY <1>3, <2>1, <2>2, <1>a, <1>b, WindowKinds DEF Takes, Answered, ClosesOut, Forgets
<1>4. CASE Death
  BY <1>4, <1>a, Deaths DEF DeathFrame, durable
<1> QED BY <1>1, <1>2, <1>3, <1>4 DEF Next, Death

\* What has ended, and what a live driver is at work on, is left alone by sweeps,
\* decisions and the closing-out of approvals (session.rs, is_terminal; recovery.rs,
\* spec 57 correction C12).
THEOREM NothingSettledIsDisturbed == Spec => EndedAndLiveAreLeftAlone
<1>1. IInv /\ [Next]_vars => [ClosedNeverReopens /\ LiveWorkersTaskIsItsOwn]_vars
  BY ClosedStay, LiveStay
<1> QED BY <1>1, Invariance, PTL DEF Spec, EndedAndLiveAreLeftAlone

-----------------------------------------------------------------------------
(* The launch sweep counts every lost call *)

\* Once the shell's session is accounted for, no open call of it is uncounted.
Counted ==
  \/ at["shell"] = "reattach"
  \/ /\ at["shell"] \in Classifying /\ goal.why = "sweep" /\ "shell" \notin scan
     /\ at["shell"] = "account" => here # "shell"
  => LostCalls("shell") = {}

LEMMA LostCallsStay ==
  ASSUME IInv, Next, at["shell"] \in Classifying \cup {"reattach"},
         at'["shell"] \in Classifying \cup {"reattach"}
  PROVE  LostCalls("shell")' \subseteq LostCalls("shell")
<1>a. /\ TypeOK /\ OwnTurns /\ markers \subseteq Marker /\ NoTask \notin Task
      /\ usage \in [Task -> [1..MaxCalls -> 0..2]]
  BY NoTaskAssumption DEF IInv, TurnInv, TypeOK
<1>b. markers' \subseteq Marker
  BY TypesStay DEF TypeOK
<1> SUFFICES ASSUME NEW m \in Marker, m \in markers', Home(m.task) = "shell",
                    usage'[m.task][m.n] = 0
             PROVE  m \in markers /\ usage[m.task][m.n] = 0
  BY <1>b DEF LostCalls
<1>c. m.task \in Task \ WorkerTask
  BY Processes DEF Marker
<1>1. CASE \E p \in Process : TurnStep(p)
  <2>1. PICK p \in Process : TurnStep(p) /\ TurnFrame(p) /\ TurnMoves(p)
    BY <1>1, <1>a, TurnSteps
  <2>2. p = "worker"
    BY <2>1, Processes DEF TurnFrame, Classifying, TurnAt
  <2>3. m.task # cur[p] /\ m.task # cur'[p]
    BY <2>1, <2>2, <1>a, <1>c, Processes DEF OwnTurns, TurnMoves
  <2> QED BY <2>1, <2>3, <1>c DEF TurnFrame
<1>2. CASE SweepStep \/ DecisionStep
  <2>1. ShellWrites
    BY <1>2, ShellStepWrites
  <2>2. CASE \E k \in markers : CountWrites(k)
    <3>1. PICK k \in markers : CountWrites(k)
      BY <2>2
    <3>2. /\ k.task \in Task /\ k.n \in 1..MaxCalls /\ usage[k.task][k.n] = 0 /\ markers' = markers
          /\ usage' = [usage EXCEPT ![k.task][k.n] = @ + 1]
      BY <3>1, CountedUnattended DEF CountWrites, Count
    <3>3. usage[k.task] \in [1..MaxCalls -> 0..2]
      BY <3>2, <1>a
    <3>5. k.task # m.task => usage'[m.task] = usage[m.task]
      BY <3>2, <1>a
    <3>6. k.task = m.task => usage'[m.task] = [usage[m.task] EXCEPT ![k.n] = @ + 1]
      BY <3>2, <1>a
    <3>7. k.task = m.task /\ k.n # m.n => usage'[m.task][m.n] = usage[m.task][m.n]
      BY <3>6, <3>2, <3>3
    <3>4. k.task = m.task /\ k.n = m.n => usage'[m.task][m.n] = usage[k.task][k.n] + 1
      BY <3>6, <3>2, <3>3
    <3> QED BY <3>2, <3>4, <3>5, <3>7
  <2> QED BY <2>1, <2>2 DEF ShellWrites, SettleWrites, ResumeWrites, CloseWrites
<1>3. CASE WindowStep
  BY <1>3, <1>a, WindowKinds DEF WindowFrame
<1>4. CASE Death
  BY <1>4, <1>a, Deaths DEF DeathFrame, durable
<1> QED BY <1>1, <1>2, <1>3, <1>4 DEF Next, Death

LEMMA CountedStay == ASSUME IInv, Counted, Next PROVE Counted'
<1>a. /\ TypeOK /\ DOMAIN at = Process /\ GoalFits
  BY DEF IInv, TurnInv, TypeOK
<1> SUFFICES ASSUME \/ at'["shell"] = "reattach"
                    \/ /\ at'["shell"] \in Classifying /\ goal'.why = "sweep" /\ "shell" \notin scan'
                       /\ at'["shell"] = "account" => here' # "shell"
             PROVE  LostCalls("shell")' = {}
  BY DEF Counted
<1>1. ASSUME \/ at["shell"] = "reattach"
             \/ /\ at["shell"] \in Classifying /\ goal.why = "sweep" /\ "shell" \notin scan
                /\ at["shell"] = "account" => here # "shell"
      PROVE  LostCalls("shell")' = {}
  BY <1>1, LostCallsStay DEF Counted
<1>2. CASE UNCHANGED <<scan, here, goal>> /\ at'["shell"] = at["shell"]
  BY <1>1, <1>2
<1>3. CASE \E p \in Process : TurnStep(p)
  <2>1. PICK p \in Process : TurnFrame(p)
    BY <1>3, <1>a, TurnSteps
  <2> QED BY <2>1, <1>2, Processes DEF TurnFrame, Classifying, TurnAt
<1>4. CASE SweepStep
  <2>1. CASE BeginSweep \/ FinishSweep
    BY <2>1, <1>a, Processes DEF BeginSweep, FinishSweep, Go, Classifying
  <2>2. CASE \E s \in Process : ClassifySession(s)
    <3>1. PICK s \in Process : ClassifySession(s)
      BY <2>2
    <3>2. /\ at["shell"] = "scan" /\ s \in scan /\ scan' = scan \ {s} /\ here' = s /\ goal' = goal
          /\ s = "shell" => at'["shell"] = "account"
          /\ at'["shell"] \in {"scan", "account"}
      BY <3>1, <1>a, Processes DEF ClassifySession, LiveWorker, Go
    <3> QED BY <3>2, <1>1 DEF Classifying
  <2>3. CASE AccountForLostCall \/ SettleCrashed
    BY <2>3, <1>2 DEF AccountForLostCall, SettleCrashed, sweepVars
  <2>4. CASE AllAccounted
    <3>1. UNCHANGED <<markers, usage, scan, here, goal>> /\ LostCalls(here) = {}
          /\ at["shell"] = "account" /\ at'["shell"] = "settle"
      BY <2>4, <1>a, Processes DEF AllAccounted, sweepVars, Go
    <3>2. CASE here = "shell"
      BY <3>1, <3>2 DEF LostCalls
    <3>3. CASE here # "shell"
      BY <3>1, <3>3, <1>1 DEF Classifying
    <3> QED BY <3>2, <3>3
  <2>5. CASE ClassifyTasks
    BY <2>5, <1>a, <1>1, Processes DEF ClassifyTasks, Go, Classifying
  <2>6. CASE ResumeFound
    BY <2>6, <1>2 DEF ResumeFound
  <2>7. CASE BeginReattach
    BY <2>7, <1>1 DEF BeginReattach, Classifying
  <2>8. CASE \E s \in Process : ReattachPendingApprovals(s)
    BY <2>8, <1>1 DEF ReattachPendingApprovals
  <2> QED BY <1>4, <2>1, <2>2, <2>3, <2>4, <2>5, <2>6, <2>7, <2>8 DEF SweepStep, ClassifyStep
<1>5. CASE DecisionStep
  <2>1. CASE \E t \in Task, d \in Decision : Decide(t, d)
    BY <2>1, <1>a, Processes DEF Decide, Go, Decision, Classifying
  <2>2. CASE RefuseDecision \/ Resume \/ MarkFailedOrAbandon \/ MarkTaskSuperseded
    BY <2>2, <1>a, Processes DEF RefuseDecision, Resume, MarkFailedOrAbandon, MarkTaskSuperseded,
                                 Go, Classifying
  <2> QED BY <1>5, <2>1, <2>2 DEF DecisionStep
<1>6. CASE WindowStep
  <2>1. at'["shell"] \in {"idle", "approved", "continuing"}
    BY <1>6, <1>a, WindowKinds, Processes DEF Takes, Answered, ClosesOut, Forgets
  <2> QED BY <2>1 DEF Classifying
<1>7. CASE Death
  BY <1>7, <1>a, <1>2, Processes DEF Death, CrashShell, CrashDriver, Launch, StartDriver, sweepVars,
                                   Go, Classifying
<1> QED BY <1>3, <1>4, <1>5, <1>6, <1>7 DEF Next, Death

LEMMA CountedInvariance == Spec => [](IInv /\ Counted)
<1>1. Init => Counted
  BY Processes DEF Init, Counted, Classifying
<1>2. ASSUME IInv, Counted, UNCHANGED vars PROVE Counted'
  BY <1>2 DEF vars, durable, sweepVars, Counted, LostCalls
<1>3. IInv /\ Counted /\ [Next]_vars => IInv' /\ Counted'
  BY <1>2, NextInv, CountedStay
<1> QED BY <1>1, <1>3, InitInv, PTL DEF Spec

\* When the launch sweep ends, every call of the shell's session whose marker is
\* open has been counted (recovery.rs, account_for_lost_model_calls).
THEOREM NoLostCallIsForgotten == Spec => SweepCountsEveryLostCall
<1> DEFINE AllCounted == at["shell"] = "reattach" /\ at'["shell"] = "idle" =>
                           \A m \in markers : m.action = "model_call" /\ Home(m.task) = "shell" =>
                                               usage[m.task][m.n] = 1
<1>1. ASSUME IInv, Counted PROVE AllCounted
  <2> SUFFICES ASSUME NEW m \in markers, m.action = "model_call", Home(m.task) = "shell",
                      at["shell"] = "reattach"
               PROVE  usage[m.task][m.n] = 1
    OBVIOUS
  <2>1. TypeOK /\ NumbersFit /\ m.task \in Task
    BY <1>1 DEF IInv, TurnInv, TypeOK, Marker
  <2>2. m.n \in 1..calls[m.task] /\ calls[m.task] \in 0..MaxCalls
    BY <2>1 DEF NumbersFit, TypeOK
  <2>3. m.n \in 1..MaxCalls
    BY <2>2, Bounds
  <2>4. usage[m.task][m.n] # 0
    BY <1>1 DEF Counted, LostCalls
  <2>5. usage[m.task][m.n] \in 0..2 /\ usage[m.task][m.n] <= 1
    BY <2>1, <2>3 DEF NumbersFit, TypeOK
  <2> QED BY <2>4, <2>5
<1>2. IInv /\ Counted => [AllCounted]_vars
  BY <1>1
<1> QED BY <1>2, CountedInvariance, PTL DEF SweepCountsEveryLostCall

-----------------------------------------------------------------------------
(* Every open task is in front of the user *)

\* A task of the shell's session that is neither ended nor handed on.
Open(t) == t \in TasksOf("shell") \ superseded /\ status[t] \notin Terminal \cup {"none"}
HasCard(t) == \E pr \in AllCards : pr[1] = t
Covered(t) == t \in shown \/ t = resolving \/ HasCard(t) \/ OnNoCard(t)

\* Its session is yet to be classified in this sweep.
Pending == "shell" \in scan \/ (here = "shell" /\ at["shell"] # "scan")

\* After the launch sweep an open task is covered, or exempted, unless the shell
\* runs it.
CoveredAfter == ~Launching => \A t \in Task : Open(t) /\ t # cur["shell"] => Covered(t)

\* Within it, a task that does not wait is still to be classified, found or shown ...
CoveredBy ==
  Launching /\ at["shell"] \in Classifying =>
    \A t \in Task : Open(t) /\ status[t] # "waiting_for_approval" =>
      Pending \/ t \in found \cup shown

\* ... and when approvals are reattached it is shown, and one that waits gets its card.
CoveredLast ==
  at["shell"] = "reattach" =>
    \A t \in Task : Open(t) =>
      IF status[t] = "waiting_for_approval"
      THEN "shell" \in scan \/ HasCard(t) \/ PatchAlreadyDecided(t)
      ELSE t \in shown

Coverage == CoveredAfter /\ CoveredBy /\ CoveredLast

LEMMA TurnEnds ==
  ASSUME IInv, NEW p \in Process, TurnStep(p), cur[p] \in Task, cur'[p] = NoTask
  PROVE  \/ status'[cur[p]] \in Terminal \/ Pauses(p)
         \/ cur[p] \in TasksOf("shell") => cur[p] \in erred'
<1>a. /\ TypeOK /\ StatusFits /\ NoTask \notin Task /\ DOMAIN cur = Process
      /\ status \in [Task -> Status]
  BY NoTaskAssumption DEF IInv, TurnInv, TypeOK
<1> USE DEF SetStatus
<1>1. CASE (\E t \in Task : StartTurn(p, t)) \/ PrepareContext(p) \/ ContinueTurn(p)
           \/ BeginValidating(p)
  BY <1>1, <1>a DEF StartTurn, PrepareContext, ContinueTurn, BeginValidating
<1>2. CASE StartCall(p) \/ FinishCall(p) \/ RecordUsage(p) \/ StopCall(p)
  BY <1>2, <1>a DEF StartCall, FinishCall, RecordUsage, StopCall
<1>3. CASE Fail(p) \/ FinishCancelledTurn(p) \/ TurnErrs(p)
  BY <1>3, <1>a DEF Fail, FinishCancelledTurn, EndTurn, TurnErrs, durable, Terminal
<1>4. CASE StartTool(p) \/ Dispatch(p) \/ FinishTool(p)
  BY <1>4, <1>a DEF StartTool, Dispatch, FinishTool
<1>5. CASE SavePausedTurn(p) \/ FinishProposing(p) \/ ProposePatch(p)
  BY <1>5, <1>a DEF SavePausedTurn, FinishProposing, ProposePatch
<1>6. CASE AwaitApproval(p)
  BY <1>6, <1>a, TurnKinds DEF AwaitApproval, Saves, Answers, Proceeds, TypeOK
<1>7. CASE RunVerificationCheck(p) \/ RunApproved(p)
  BY <1>7, <1>a DEF RunVerificationCheck, RunApproved
<1>8. CASE StartSettlement(p) \/ WriteSettlement(p)
  BY <1>8, <1>a DEF StartSettlement, WriteSettlement
<1>9. CASE FinishSettlement(p)
  BY <1>9, <1>a DEF FinishSettlement, StatusFits, Terminal
<1>10. CASE \E pr \in Proposal : AnswerApproval(p, pr)
  <2>1. \A pr \in Proposal : pr[1] \in Task
    BY DEF Proposal
  <2> QED BY <1>10, <1>a, <2>1 DEF AnswerApproval, TakePausedTurn
<1> QED BY <1>1, <1>2, <1>3, <1>4, <1>5, <1>6, <1>7, <1>8, <1>9, <1>10 DEF TurnStep

\* A task that is open, and not started by this step, was open before it.
LEMMA OpenBefore ==
  ASSUME IInv, Next, NEW t \in Task, Open(t)', t # cur'["shell"]
  PROVE  Open(t)
<1>a. TypeOK /\ StatusFits /\ NoTask \notin Task
  BY NoTaskAssumption DEF IInv, TurnInv
<1>1. superseded \subseteq superseded'
  <2>1. CASE \E p \in Process : TurnStep(p)
    BY <2>1, <1>a, TurnSteps DEF TurnFrame
  <2>2. CASE SweepStep
    BY <2>2 DEF SweepStep, BeginSweep, ClassifyStep, ClassifySession, AccountForLostCall,
       AllAccounted, SettleCrashed, ClassifyTasks, durable, ResumeFound, BeginReattach,
       FinishSweep, ReattachPendingApprovals
  <2>3. CASE DecisionStep
    BY <2>3 DEF DecisionStep, Decide, RefuseDecision, Resume, MarkFailedOrAbandon,
       MarkTaskSuperseded, decisionFrame
  <2>4. CASE WindowStep
    BY <2>4, <1>a, WindowKinds DEF WindowFrame
  <2>5. CASE Death
    BY <2>5, <1>a, Deaths DEF DeathFrame, durable
  <2> QED BY <2>1, <2>2, <2>3, <2>4, <2>5 DEF Next, Death
<1>2. status[t] \notin Terminal /\ t \in TasksOf("shell")
  BY ClosedStay DEF ClosedNeverReopens, Open, TasksOf
<1>3. status[t] # "none"
  <2>1. CASE status'[t] = status[t]
    BY <2>1 DEF Open
  <2>2. CASE status'[t] # status[t] /\ \E p \in Process : TurnStep(p)
    <3>1. PICK p \in Process : TurnStep(p)
      BY <2>2
    <3>2. TurnFrame(p) /\ TurnMoves(p)
      BY <3>1, <1>a, TurnSteps
    <3>3. CASE t = cur[p]
      BY <3>3, <1>a DEF StatusFits, TypeOK, TurnAt
    <3>4. CASE t = cur'[p] /\ t # cur[p]
      BY <3>2, <3>4, <1>2, <1>a, Processes DEF TurnMoves, TasksOf
    <3> QED BY <2>2, <3>2, <3>3, <3>4 DEF TurnFrame
  <2>3. CASE status'[t] # status[t] /\ (SweepStep \/ DecisionStep)
    BY <2>3, ShellStatuses DEF StatusMoves
  <2>4. CASE status'[t] # status[t] /\ WindowStep
    BY <2>4, <1>a, WindowKinds, ResolvedUnattended
       DEF Takes, Answered, ClosesOut, Forgets, TypeOK
  <2>5. CASE status'[t] # status[t] /\ Death
    BY <2>5, <1>a, Deaths DEF DeathFrame, durable
  <2> QED BY <2>1, <2>2, <2>3, <2>4, <2>5 DEF Next, Death
<1> QED BY <1>1, <1>2, <1>3 DEF Open

\* The worker's turns do not touch the shell's tasks.
LEMMA WorkerApart ==
  ASSUME IInv, TurnStep("worker"), NEW t \in TasksOf("shell")
  PROVE  /\ status'[t] = status[t] /\ (HasCard(t)' <=> HasCard(t))
         /\ (OnNoCard(t) => OnNoCard(t)') /\ (PatchAlreadyDecided(t) => PatchAlreadyDecided(t)')
         /\ UNCHANGED <<scan, here, goal, found, shown, resolving>>
         /\ at'["shell"] = at["shell"] /\ cur'["shell"] = cur["shell"]
<1>a. TypeOK /\ OwnTurns /\ NoTask \notin Task /\ t \in Task \ WorkerTask
  BY NoTaskAssumption, Processes DEF IInv, TurnInv, TasksOf
<1>1. TurnFrame("worker") /\ TurnMoves("worker")
  BY <1>a, TurnSteps, Processes
<1>2. cur["worker"] # t /\ cur'["worker"] # t
  BY <1>1, <1>a, Processes DEF OwnTurns, TurnMoves
<1>3. \/ Pauses("worker") \/ Saves("worker") \/ Proceeds("worker")
      \/ \E pr \in Proposal : Answers("worker", pr)
  BY <1>a, TurnKinds, Processes
<1>4. \A pr : pr[1] = t => (pr \in offered' <=> pr \in offered)
  BY <1>2, <1>3 DEF Pauses, Saves, Proceeds, Answers
<1>5. HasCard(t)' <=> HasCard(t)
  BY <1>1, <1>4 DEF TurnFrame, HasCard, AllCards
<1>6. resolving' = resolving
  BY <1>3, Processes DEF Pauses, Saves, Proceeds, Answers
<1>7. status'[t] = status[t] /\ link'[t] = link[t] /\ decided' = decided /\ erred \subseteq erred'
  BY <1>1, <1>2, <1>a DEF TurnFrame
<1>8. /\ OnNoCard(t) => OnNoCard(t)'
      /\ PatchAlreadyDecided(t) => PatchAlreadyDecided(t)'
  BY <1>7 DEF OnNoCard, PatchAlreadyDecided
<1> QED BY <1>1, <1>2, <1>5, <1>6, <1>7, <1>8, <1>a, Processes DEF TurnFrame

\* Neither a sweep nor a decision takes a task that stays open from its wait.
LEMMA WaitStays ==
  ASSUME IInv, SweepStep \/ DecisionStep, NEW t \in Task, Open(t)',
         status[t] = "waiting_for_approval"
  PROVE  status'[t] = status[t]
<1>a. status \in [Task -> Status] /\ found \subseteq Task
  BY DEF IInv, TypeOK
<1>1. status'[t] \notin Terminal /\ ShellWrites
  BY ShellStepWrites DEF Open
<1>2. CASE \E s \in found : ResumeWrites(s)
  BY <1>2, <1>a, FoundUnattended DEF ResumeWrites, Recovered
<1>3. CASE \E m \in markers : SettleWrites(m)
  BY <1>3, <1>a, <1>1 DEF SettleWrites, Terminal
<1>4. CASE \E s \in Task : CloseWrites(s)
  BY <1>4, <1>a, <1>1 DEF CloseWrites, Terminal
<1> QED BY <1>1, <1>2, <1>3, <1>4 DEF ShellWrites, CountWrites

LEMMA AfterStay == ASSUME IInv, Coverage, Next PROVE CoveredAfter'
<1>a. /\ TypeOK /\ OwnTurns /\ GoalFits /\ CardPhases /\ NoTask \notin Task
      /\ DOMAIN at = Process /\ DOMAIN cur = Process /\ status \in [Task -> Status]
      /\ at["shell"] \notin TurnAt => cur["shell"] \notin Task
  BY NoTaskAssumption, Processes DEF IInv, TurnInv, CardsFit, TypeOK
<1> SUFFICES ASSUME ~Launching', NEW t \in Task, Open(t)', t # cur'["shell"]
             PROVE  Covered(t)'
  BY DEF CoveredAfter
<1>1. Open(t) /\ t \in TasksOf("shell")
  BY OpenBefore DEF Open
<1>b. ~Launching /\ t # cur["shell"] => Covered(t)
  BY <1>1 DEF Coverage, CoveredAfter
\* Who answers an approval that was reattached has its card.
<1>c. t = resolving => \E pr \in cards : pr[1] = t
  BY <1>a DEF CardPhases
<1>2. CASE TurnStep("worker")
  BY <1>2, <1>1, <1>b, WorkerApart DEF Covered, Launching
<1>3. CASE TurnStep("shell")
  <2>1. /\ TurnFrame("shell") /\ TurnMoves("shell")
        /\ \/ Pauses("shell") \/ Saves("shell") \/ Proceeds("shell")
           \/ \E pr \in Proposal : Answers("shell", pr)
    BY <1>3, <1>a, TurnSteps, TurnKinds, Processes
  <2>2. ~Launching /\ cards' = cards /\ shown' = shown
    BY <2>1, Processes DEF TurnFrame, Launching, Classifying, TurnAt
  <2>3. CASE t # cur["shell"]
    <3>1. \A pr \in offered : pr[1] = t => pr \in offered'
      BY <2>1 DEF Pauses, Saves, Proceeds, Answers
    <3>2. HasCard(t) => HasCard(t)'
      BY <2>2, <3>1 DEF HasCard, AllCards
    <3>3. t = resolving => HasCard(t)'
      BY <1>c, <2>2 DEF HasCard, AllCards
    <3>4. OnNoCard(t) => OnNoCard(t)'
      BY <2>1, <2>3 DEF TurnFrame, OnNoCard, PatchAlreadyDecided
    <3> QED BY <1>b, <2>2, <2>3, <3>2, <3>3, <3>4 DEF Covered
  <2>4. CASE t = cur["shell"]
    <3>1. cur'["shell"] = NoTask
      BY <2>1, <2>4, <1>a DEF TurnMoves
    <3>2. status'[t] \notin Terminal
      BY DEF Open
    <3>7. CASE ~Pauses("shell")
      BY <1>1, <1>3, <2>4, <3>1, <3>2, <3>7, TurnEnds, Processes DEF Covered, OnNoCard
    <3> SUFFICES ASSUME Pauses("shell") PROVE Covered(t)'
      BY <3>7
    <3>3. Pauses("shell")
      OBVIOUS
    <3>4. CASE t = resolving
      BY <3>3, <3>4 DEF Pauses, Covered
    <3>5. CASE t # resolving /\ <<t, link'[t]>> \in offered'
      BY <3>5 DEF Covered, HasCard, AllCards
    <3>6. CASE t # resolving /\ offered' = offered
      <4>1. AwaitApproval("shell")
        BY <1>3, <3>3 DEF Pauses, TurnStep, StartTurn, PrepareContext, StartCall, FinishCall,
           RecordUsage, StopCall, Fail, FinishCancelledTurn, StartTool, Dispatch, FinishTool,
           TurnErrs, SavePausedTurn, FinishProposing, ProposePatch, BeginValidating,
           RunVerificationCheck,
           StartSettlement, WriteSettlement, FinishSettlement, AnswerApproval, RunApproved,
           ContinueTurn
      <4>2. offered' = offered \cup {<<t, link[t] + 1>>}
        BY <4>1, <2>4, <3>6 DEF AwaitApproval
      <4>3. <<t, link[t] + 1>> \in AllCards' /\ <<t, link[t] + 1>>[1] = t
        BY <4>2 DEF AllCards
      <4> QED BY <4>3 DEF Covered, HasCard
    <3> QED BY <2>4, <3>3, <3>4, <3>5, <3>6 DEF Pauses
  <2> QED BY <2>3, <2>4
<1>4. CASE FinishSweep
  <2>1. /\ at["shell"] = "reattach" /\ scan = {}
        /\ UNCHANGED <<status, superseded, shown, cards, offered, link, decided>>
    BY <1>4 DEF FinishSweep, shellFrame
  <2>2. t \in shown \/ HasCard(t) \/ PatchAlreadyDecided(t)
    BY <2>1, <1>1 DEF Coverage, CoveredLast
  <2> QED BY <2>1, <2>2 DEF Covered, OnNoCard, PatchAlreadyDecided, HasCard, AllCards
<1>5. CASE (SweepStep /\ ~FinishSweep) \/ DecisionStep
  <2>1. ShellSteps
    BY <1>5, <1>a, ShellFrames
  <2>2. ~Launching /\ shown \subseteq shown' /\ cards \subseteq cards'
    <3>1. CASE BeginSweep \/ BeginReattach \/ ResumeFound
      BY <3>1, <1>a, Processes DEF BeginSweep, BeginReattach, ResumeFound, Launching, Classifying,
                                   Go, idle
    <3>2. CASE \E s \in Process : ClassifySession(s)
      BY <3>2, <1>a, Processes DEF ClassifySession, Launching, Classifying, Go
    <3>3. CASE AccountForLostCall \/ SettleCrashed \/ AllAccounted \/ ClassifyTasks
      BY <3>3, <1>a, Processes DEF AccountForLostCall, SettleCrashed, AllAccounted, ClassifyTasks,
                                   Launching, Classifying, Go, sweepVars, window
    <3>4. CASE \E s \in Process : ReattachPendingApprovals(s)
      BY <3>4 DEF ReattachPendingApprovals, Launching
    <3>5. CASE \E s \in Task, d \in Decision : Decide(s, d)
      BY <3>5, <1>a DEF Decide, Launching, Classifying
    <3>6. CASE RefuseDecision \/ Resume \/ MarkFailedOrAbandon \/ MarkTaskSuperseded
      BY <3>6, <1>a DEF RefuseDecision, Resume, MarkFailedOrAbandon, MarkTaskSuperseded, Deciding,
                        decisionFrame, Launching, Classifying, GoalFits, Decision
    <3> QED BY <1>5, <3>1, <3>2, <3>3, <3>4, <3>5, <3>6 DEF SweepStep, ClassifyStep, DecisionStep
  <2>3. t # cur["shell"]
    BY <2>1 DEF ShellSteps
  <2>4. OnNoCard(t) => OnNoCard(t)'
    BY <1>5, <2>1, WaitStays DEF ShellSteps, OnNoCard, PatchAlreadyDecided
  <2> QED BY <1>b, <2>1, <2>2, <2>3, <2>4 DEF ShellSteps, Covered, HasCard, AllCards
<1>6. CASE WindowStep
  <2>1. WindowFrame /\ at["shell"] = "idle"
        /\ ((\E pr \in Proposal : Takes(pr) \/ Answered(pr)) \/ ClosesOut \/ Forgets)
    BY <1>6, <1>a, WindowKinds DEF Takes, Answered, ClosesOut, Forgets
  <2>2. Covered(t)
    BY <2>1, <1>1, <1>a, <1>b DEF Launching, Classifying, TurnAt
  <2>6. OnNoCard(t) /\ status'[t] = status[t] => OnNoCard(t)'
    BY <2>1 DEF WindowFrame, OnNoCard, PatchAlreadyDecided
  <2>3. CASE \E pr \in Proposal : Takes(pr) \/ Answered(pr)
    <3>1. UNCHANGED <<shown, cards, offered>>
      BY <2>1, <2>3 DEF Takes, Answered, WindowFrame
    <3>2. status' = status
      BY <2>3 DEF Takes, Answered
    <3> QED BY <2>2, <2>6, <3>1, <3>2, <1>c DEF Covered, HasCard, AllCards
  <2>4. CASE ClosesOut
    <3>1. t # resolving
      BY <2>4, <1>a DEF ClosesOut, Open, Terminal
    <3>2. /\ \A pr \in cards : pr[1] = t => pr \in cards'
          /\ t \in shown => t \in shown'
      BY <2>4, <3>1 DEF ClosesOut
    <3>3. status'[t] = status[t] /\ offered' = offered
      BY <2>4, <3>1, <1>a DEF ClosesOut
    <3> QED BY <2>2, <2>6, <3>1, <3>2, <3>3 DEF Covered, HasCard, AllCards
  <2>5. CASE Forgets
    <3>1. UNCHANGED <<shown, cards, status>>
      BY <2>5 DEF Forgets
    <3>2. CASE HasCard(t)' \/ ~HasCard(t)
      BY <2>2, <2>6, <3>1, <3>2, <1>c DEF Covered, HasCard, AllCards
    <3>3. CASE HasCard(t) /\ ~HasCard(t)'
      \* The card that goes is of a patch that is now decided.
      <4>1. PICK pr \in offered \cap patches : pr[1] = t /\ pr \in decided'
        BY <2>5, <3>1, <3>3 DEF Forgets, HasCard, AllCards
      <4>2. pr \in Proposal /\ pr \in AllCards \cap Kept
        BY <4>1, <1>a DEF TypeOK, AllCards, Kept
      <4>3. status[t] = "waiting_for_approval" /\ pr = <<t, link[t]>>
        BY <4>1, <4>2 DEF IInv, CardsFit, CardsWait, Proposal
      <4>4. status'[t] = "waiting_for_approval" /\ link' = link
        BY <2>1, <3>1, <4>3 DEF WindowFrame
      <4> QED BY <4>1, <4>3, <4>4 DEF Covered, OnNoCard, PatchAlreadyDecided
    <3> QED BY <3>2, <3>3
  <2> QED BY <2>1, <2>3, <2>4, <2>5
<1>7. CASE CrashShell \/ Launch
  <2>1. at' = [at EXCEPT !["shell"] = "down"] \/ at' = [shell |-> "launched", worker |-> "down"]
    BY <1>7 DEF CrashShell, Launch, Go
  <2> QED BY <2>1, <1>a, Processes DEF Launching
<1>8. CASE CrashDriver
  <2>1. /\ UNCHANGED <<shown, cards, resolving, goal, status, link, decided, erred>>
        /\ offered' = {pr \in offered : Home(pr[1]) \notin {"worker"}}
        /\ at'["shell"] = at["shell"] /\ cur'["shell"] = cur["shell"]
    BY <1>8, <1>a, Processes DEF CrashDriver, durable, window, sweepVars, Lose, Go
  <2>2. HasCard(t) => HasCard(t)'
    BY <2>1, <1>1, Processes DEF HasCard, AllCards, TasksOf
  <2> QED BY <2>1, <2>2, <1>b DEF Covered, OnNoCard, PatchAlreadyDecided, Launching
<1>9. CASE StartDriver
  <2>1. /\ UNCHANGED <<shown, cards, resolving, goal, offered, cur>>
        /\ UNCHANGED <<status, link, decided, erred>> /\ at'["shell"] = at["shell"]
    BY <1>9, <1>a, Processes DEF StartDriver, durable, window, sweepVars, Go
  <2> QED BY <2>1, <1>b DEF Covered, OnNoCard, PatchAlreadyDecided, HasCard, AllCards, Launching
<1> QED BY <1>2, <1>3, <1>4, <1>5, <1>6, <1>7, <1>8, <1>9, Processes DEF Next


LEMMA ByStay == ASSUME IInv, Coverage, Next PROVE CoveredBy'
<1>a. /\ TypeOK /\ TypeOK' /\ DOMAIN at = Process /\ status \in [Task -> Status]
      /\ NoTask \notin Task /\ found \subseteq Task
  BY NextInv, NoTaskAssumption DEF IInv, TypeOK
<1> SUFFICES ASSUME Launching', at'["shell"] \in Classifying, NEW t \in Task, Open(t)',
                    status'[t] # "waiting_for_approval"
             PROVE  Pending' \/ t \in found' \cup shown'
  BY DEF CoveredBy
<1>1. t # cur'["shell"]
  <2>1. "shell" \in Process /\ at'["shell"] \notin TurnAt
    BY Processes DEF Classifying, TurnAt
  <2> QED BY <2>1, <1>a DEF TypeOK
<1>2. Open(t) /\ t \in TasksOf("shell") /\ t \notin superseded
  BY <1>1, OpenBefore DEF Open
<1>b. Launching /\ at["shell"] \in Classifying /\ status[t] # "waiting_for_approval" =>
        Pending \/ t \in found \cup shown
  BY <1>2 DEF Coverage, CoveredBy
<1>3. CASE TurnStep("worker")
  BY <1>3, <1>2, <1>b, WorkerApart DEF Launching, Pending
<1>4. CASE TurnStep("shell")
  BY <1>4, <1>a, TurnSteps, Processes DEF TurnFrame, Classifying, TurnAt
<1>5. CASE BeginSweep
  BY <1>5, Processes DEF BeginSweep, Pending
<1>6. CASE \E s \in Process : ClassifySession(s)
  <2>1. PICK s \in Process : ClassifySession(s)
    BY <1>6
  <2>2. CASE s = "shell"
    BY <2>1, <2>2, <1>a, Processes DEF ClassifySession, LiveWorker, Go, Pending
  <2>3. CASE s = "worker"
    <3>1. /\ at["shell"] = "scan" /\ scan' = scan \ {"worker"} /\ at'["shell"] \in Classifying
          /\ UNCHANGED <<status, goal, found, shown>>
      BY <2>1, <2>3 DEF ClassifySession, shellFrame
    <3>2. Launching
      BY <3>1 DEF Launching, Classifying
    <3>3. "shell" \in scan \/ t \in found \cup shown
      BY <3>1, <3>2, <1>b DEF Pending, Classifying
    <3> QED BY <3>1, <3>3, Processes DEF Pending
  <2> QED BY <2>2, <2>3, Processes
<1>7. CASE AccountForLostCall \/ AllAccounted \/ SettleCrashed
  <2>1. /\ at["shell"] \in {"account", "settle"} /\ at'["shell"] \in {"account", "settle"}
        /\ UNCHANGED <<scan, here, goal, found, shown>>
    BY <1>7, <1>a, Processes DEF AccountForLostCall, AllAccounted, SettleCrashed, sweepVars, Go
  <2>2. status'[t] = status[t]
    <3>1. CASE AccountForLostCall \/ AllAccounted
      BY <3>1 DEF AccountForLostCall, AllAccounted
    <3>2. CASE SettleCrashed
      BY <3>2, <1>a DEF SettleCrashed, SetStatus, Open, Terminal
    <3> QED BY <1>7, <3>1, <3>2
  <2> QED BY <2>1, <2>2, <1>b DEF Pending, Launching, Classifying
<1>8. CASE ClassifyTasks
  <2>1. /\ at["shell"] = "settle" /\ at'["shell"] = "scan"
        /\ UNCHANGED <<status, scan, here, goal, shown>>
        /\ found' = found \cup {s \in TasksOf(here) : Recovered(s)}
    BY <1>8, <1>a, Processes DEF ClassifyTasks, durable, window, Go
  <2>2. CASE here = "shell"
    <3>1. Recovered(t)
      BY <2>1, <1>2 DEF Open, Recovered
    <3> QED BY <2>1, <2>2, <3>1, <1>2
  <2>3. CASE here # "shell"
    BY <2>1, <2>3, <1>b DEF Pending, Launching, Classifying
  <2> QED BY <2>2, <2>3
<1>9. CASE ResumeFound
  <2>1. PICK s \in found :
          /\ found' = found \ {s}
          /\ IF s \in superseded THEN UNCHANGED <<status, shown>>
             ELSE shown' = shown \cup {s}
                  /\ (status' = status \/ status' = [status EXCEPT ![s] = "preparing_context"])
    BY <1>9 DEF ResumeFound, SetStatus
  <2>2. at["shell"] = "scan" /\ scan = {} /\ goal.why = "sweep"
    BY <1>9 DEF ResumeFound
  <2>3. CASE t = s
    BY <2>1, <2>3, <1>2
  <2>4. CASE t # s
    <3>1. status'[t] = status[t] /\ shown \subseteq shown'
      BY <2>1, <2>4, <1>a
    <3>2. t \in found \cup shown
      BY <3>1, <2>2, <1>b DEF Pending, Launching, Classifying
    <3> QED BY <2>1, <2>4, <3>1, <3>2
  <2> QED BY <2>3, <2>4
<1>10. CASE BeginReattach \/ FinishSweep \/ \E s \in Process : ReattachPendingApprovals(s)
  BY <1>10, <1>a, Processes DEF BeginReattach, FinishSweep, ReattachPendingApprovals, Go, Classifying
<1>11. CASE DecisionStep
  <2>1. CASE \E s \in Task, d \in Decision : Decide(s, d)
    BY <2>1, <1>a, Processes DEF Decide, Go, Launching, Classifying, Decision
  <2>2. CASE RefuseDecision \/ Resume \/ MarkFailedOrAbandon \/ MarkTaskSuperseded
    BY <2>2, <1>a, Processes DEF RefuseDecision, Resume, MarkFailedOrAbandon, MarkTaskSuperseded,
                                 Go, Classifying
  <2> QED BY <1>11, <2>1, <2>2 DEF DecisionStep
<1>12. CASE WindowStep
  <2>1. at'["shell"] \in {"idle", "approved", "continuing"}
    BY <1>12, <1>a, WindowKinds, Processes DEF Takes, Answered, ClosesOut, Forgets
  <2> QED BY <2>1 DEF Classifying
<1>13. CASE CrashShell \/ Launch
  BY <1>13, <1>a, Processes DEF CrashShell, Launch, Go, Classifying
<1>14. CASE CrashDriver \/ StartDriver
  <2>1. UNCHANGED <<status, scan, here, goal, found, shown>> /\ at'["shell"] = at["shell"]
    BY <1>14, <1>a, Processes DEF CrashDriver, StartDriver, durable, sweepVars, window, Go
  <2> QED BY <2>1, <1>b DEF Pending, Launching, Classifying
<1> QED BY <1>3, <1>4, <1>5, <1>6, <1>7, <1>8, <1>9, <1>10, <1>11, <1>12, <1>13, <1>14, Processes
        DEF Next, SweepStep, ClassifyStep

LEMMA LastStay == ASSUME IInv, Coverage, Next PROVE CoveredLast'
<1>a. /\ TypeOK /\ TypeOK' /\ DOMAIN at = Process /\ status \in [Task -> Status]
      /\ NoTask \notin Task
  BY NextInv, NoTaskAssumption DEF IInv, TypeOK
<1> SUFFICES ASSUME at'["shell"] = "reattach", NEW t \in Task, Open(t)'
             PROVE  IF status'[t] = "waiting_for_approval"
                    THEN "shell" \in scan' \/ HasCard(t)' \/ PatchAlreadyDecided(t)'
                    ELSE t \in shown'
  BY DEF CoveredLast
<1>1. t # cur'["shell"]
  <2>1. "shell" \in Process /\ at'["shell"] \notin TurnAt
    BY Processes DEF TurnAt
  <2> QED BY <2>1, <1>a DEF TypeOK
<1>2. Open(t) /\ t \in TasksOf("shell")
  BY <1>1, OpenBefore DEF Open
<1>b. at["shell"] = "reattach" =>
        IF status[t] = "waiting_for_approval"
        THEN "shell" \in scan \/ HasCard(t) \/ PatchAlreadyDecided(t) ELSE t \in shown
  BY <1>2 DEF Coverage, CoveredLast
<1>3. CASE TurnStep("worker")
  BY <1>3, <1>2, <1>b, WorkerApart
<1>4. CASE TurnStep("shell")
  BY <1>4, <1>a, TurnSteps, Processes DEF TurnFrame, TurnAt
<1>5. CASE BeginReattach
  <2>1. /\ at["shell"] = "scan" /\ scan = {} /\ goal.why = "sweep" /\ found = {}
        /\ scan' = Process /\ UNCHANGED <<status, shown>>
    BY <1>5 DEF BeginReattach
  <2>2. status[t] # "waiting_for_approval" => t \in shown
    BY <2>1, <1>2 DEF Coverage, CoveredBy, Pending, Launching, Classifying
  <2> QED BY <2>1, <2>2, Processes
<1>6. CASE \E s \in Process : ReattachPendingApprovals(s)
  <2>1. PICK s \in Process : ReattachPendingApprovals(s)
    BY <1>6
  <2>2. /\ at["shell"] = "reattach" /\ UNCHANGED <<shown, offered, link, decided>>
    BY <2>1 DEF ReattachPendingApprovals, shellFrame
  <2>3. CASE /\ scan' = scan \ {s} /\ UNCHANGED status
             /\ cards' = IF LiveWorker(s) THEN cards
                         ELSE cards \cup {<<u, link[u]>> : u \in Waiting(s)}
    <3>1. HasCard(t) => HasCard(t)'
      BY <2>2, <2>3 DEF HasCard, AllCards
    <3>4. PatchAlreadyDecided(t) => PatchAlreadyDecided(t)'
      BY <2>2, <2>3 DEF PatchAlreadyDecided
    <3>2. CASE status[t] = "waiting_for_approval" /\ s = "shell" /\ ~PatchAlreadyDecided(t)
      <4>1. t \in Waiting(s) /\ ~LiveWorker(s)
        BY <3>2, <1>2, Processes DEF Waiting, LiveWorker
      <4>2. <<t, link[t]>> \in cards'
        BY <2>3, <4>1
      <4>3. <<t, link[t]>>[1] = t
        OBVIOUS
      <4> QED BY <2>3, <3>2, <4>2, <4>3 DEF HasCard, AllCards
    <3>3. CASE ~(status[t] = "waiting_for_approval" /\ s = "shell" /\ ~PatchAlreadyDecided(t))
      BY <2>2, <2>3, <3>1, <3>3, <3>4, <1>b
    <3> QED BY <3>2, <3>3
  <2>4. CASE (\E u \in Waiting(s) : SetStatus(u, "failed")) /\ UNCHANGED <<scan, cards>>
    <3>1. PICK u \in Waiting(s) : status' = [status EXCEPT ![u] = "failed"]
      BY <2>4 DEF SetStatus
    <3>2. u # t
      BY <3>1, <1>a DEF Open, Terminal
    <3>3. status'[t] = status[t]
      BY <3>1, <3>2, <1>a
    <3> QED BY <2>2, <2>4, <3>3, <1>b DEF PatchAlreadyDecided, HasCard, AllCards
  <2> QED BY <2>1, <2>3, <2>4 DEF ReattachPendingApprovals
<1>7. CASE ClassifyStep \/ BeginSweep \/ ResumeFound \/ FinishSweep
  BY <1>7, <1>a, Processes DEF ClassifyStep, ClassifySession, AccountForLostCall, AllAccounted,
     SettleCrashed, ClassifyTasks, BeginSweep, ResumeFound, FinishSweep, Go
<1>8. CASE DecisionStep
  BY <1>8, <1>a, Processes DEF DecisionStep, Decide, RefuseDecision, Resume, MarkFailedOrAbandon,
     MarkTaskSuperseded, Go
<1>9. CASE WindowStep
  <2>1. at'["shell"] \in {"idle", "approved", "continuing"}
    BY <1>9, <1>a, WindowKinds, Processes DEF Takes, Answered, ClosesOut, Forgets
  <2> QED BY <2>1
<1>10. CASE CrashShell \/ Launch
  BY <1>10, <1>a, Processes DEF CrashShell, Launch, Go
<1>11. CASE CrashDriver
  <2>1. /\ UNCHANGED <<status, scan, shown, cards, link, decided>> /\ at'["shell"] = at["shell"]
        /\ offered' = {pr \in offered : Home(pr[1]) \notin {"worker"}}
    BY <1>11, <1>a, Processes DEF CrashDriver, durable, sweepVars, window, Lose, Go
  <2>2. HasCard(t) => HasCard(t)'
    BY <2>1, <1>2, Processes DEF HasCard, AllCards, TasksOf
  <2> QED BY <2>1, <2>2, <1>b DEF PatchAlreadyDecided
<1>12. CASE StartDriver
  <2>1. UNCHANGED <<status, scan, shown, cards, offered, link, decided>> /\ at'["shell"] = at["shell"]
    BY <1>12, <1>a, Processes DEF StartDriver, durable, sweepVars, window, Go
  <2> QED BY <2>1, <1>b DEF PatchAlreadyDecided, HasCard, AllCards
<1> QED BY <1>3, <1>4, <1>5, <1>6, <1>7, <1>8, <1>9, <1>10, <1>11, <1>12, Processes
        DEF Next, SweepStep

LEMMA CoverageInvariance == Spec => [](IInv /\ Coverage)
<1>1. ASSUME Init PROVE Coverage
  <2>1. at["shell"] = "down" /\ \A t \in Task : status[t] = "none"
    BY <1>1, Processes DEF Init
  <2> QED BY <2>1 DEF Coverage, CoveredAfter, CoveredBy, CoveredLast, Launching, Classifying
<1>2. ASSUME Coverage, UNCHANGED vars PROVE Coverage'
  <2>1. UNCHANGED <<status, superseded, at, cur, offered, scan, here, goal, found, shown, cards,
                    resolving, link, decided, erred>>
    BY <1>2 DEF vars, durable, sweepVars, window
  <2>2. CoveredAfter' /\ CoveredBy' /\ CoveredLast'
    BY <1>2, <2>1 DEF Coverage, CoveredAfter, CoveredBy, CoveredLast, Launching, Open, Covered,
                      OnNoCard, PatchAlreadyDecided, HasCard, AllCards, Pending
  <2> QED BY <2>2 DEF Coverage
<1>3. IInv /\ Coverage /\ [Next]_vars => IInv' /\ Coverage'
  BY <1>2, NextInv, AfterStay, ByStay, LastStay DEF Coverage
<1> QED BY <1>1, <1>3, InitInv, PTL DEF Spec

\* Whenever the shell is ready for a request, every task of its session that is
\* neither ended nor handed on is in front of the user, unless its turn ended in an
\* error since the launch or it waits for a patch that is decided (recovery.rs).
THEOREM NoOpenTaskIsLost == Spec => []EveryOpenTaskIsOffered
<1>1. ASSUME IInv, Coverage PROVE EveryOpenTaskIsOffered
  <2> SUFFICES ASSUME at["shell"] = "idle", NEW t \in TasksOf("shell") \ superseded,
                      status[t] \notin Terminal \cup {"none"}
               PROVE  \/ t \in shown \/ t = resolving
                      \/ \E pr \in offered \cup cards : pr[1] = t
                      \/ OnNoCard(t)
    BY DEF EveryOpenTaskIsOffered
  <2>1. ~Launching /\ t \in Task /\ Open(t)
    BY DEF Launching, Classifying, TasksOf, Open
  <2>2. t # cur["shell"]
    BY <1>1, <2>1, Processes DEF IInv, TypeOK, TurnAt
  <2>3. Covered(t)
    BY <1>1, <2>1, <2>2 DEF Coverage, CoveredAfter
  <2> QED BY <2>3 DEF Covered, HasCard, AllCards
<1> QED BY <1>1, CoverageInvariance, PTL
=============================================================================
