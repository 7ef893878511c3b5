---------------------------- MODULE TaskRecovery ----------------------------
(***************************************************************************)
(* Durable task state and what is made of it after a crash.                *)
(*                                                                         *)
(* A turn writes its task's status and, around each action, a start marker *)
(* and a finish marker (workspace-engine/src/chat.rs, session.rs,          *)
(* completion.rs). At its first request after a launch the desktop shell   *)
(* sweeps every session (desktop-shell/src/recovery.rs, workspace-engine/  *)
(* src/recovery.rs): it counts the model calls a crash cut off, settles    *)
(* tasks that were being settled, resumes what is safe, and offers the     *)
(* rest, and every approval still awaited, to the user.                    *)
(*                                                                         *)
(* Two processes run turns: the shell, which serves one request at a time  *)
(* and therefore never sweeps during its own turn, and a worker's driver,  *)
(* which runs beside it and dies alone or with it. Each has one session,   *)
(* named like the process. A task's number of calls and proposals, and the *)
(* crashes, are bounded.                                                   *)
(***************************************************************************)
EXTENDS Integers, FiniteSets

CONSTANTS Task,         \* the tasks that may be created
          WorkerTask,   \* those of the worker's session
          NoTask,       \* not a task
          MaxCalls,     \* bound: model calls per task
          MaxProposals, \* bound: commands and patches a task proposes
          MaxCrashes,   \* bound: process deaths
          LateSweep     \* TRUE: a driver may start before the launch sweep

ASSUME WorkerTaskAssumption == WorkerTask \subseteq Task
ASSUME NoTaskAssumption == NoTask \notin Task
ASSUME MaxCallsAssumption == MaxCalls \in Nat
ASSUME MaxProposalsAssumption == MaxProposals \in Nat
ASSUME MaxCrashesAssumption == MaxCrashes \in Nat
ASSUME LateSweepAssumption == LateSweep \in BOOLEAN

VARIABLES
  (* in the session logs and the data directory *)
  status,      \* each task's status
  markers,     \* start markers with no finish marker
  calls,       \* how many model calls each task has started
  usage,       \* how many usage events name each call's marker
  paused,      \* the paused turns saved on disk, by proposal
  link,        \* the proposal each task waits on, or the last it waited on
  superseded,  \* tasks whose request was handed to a later turn
  patches,     \* the proposals that are patches
  decided,     \* the patches every file of which the user has decided
  (* in the processes *)
  at,          \* where each process is
  cur,         \* the task whose turn it runs
  offered,     \* approval cards of turns this process paused itself
  scan,        \* sessions the shell has yet to classify, or to reattach
  here,        \* the session it classifies
  goal,        \* what it classifies for: the sweep, or a user's decision
  found,       \* the recovered tasks classified so far
  shown,       \* tasks with a recovery card in the window
  cards,       \* reattached approvals in the window
  resolving,   \* the task whose reattached approval was just answered
  (* history *)
  crashes,     \* how many process deaths
  resumed,     \* tasks recovery authorized to continue, and on whose word
  prompts,     \* how often a task's request was given back for re-sending
  ran,         \* how often each proposal's command was run
  vanished,    \* tasks whose repository was gone when a launch would settle them
  lost,        \* tasks whose marked side effect was cut by a crash
  lostCheck,   \* tasks whose validation command was cut by a crash
  erred        \* the shell's tasks whose turn ended in an error, this launch

durable == <<status, markers, calls, usage, paused, link, superseded, patches, decided>>
sweepVars == <<scan, here, goal, found>>
window == <<shown, cards, resolving>>
history == <<resumed, prompts, ran, vanished, lost, lostCheck>>
vars == <<durable, at, cur, offered, sweepVars, window, crashes, history, erred>>

-----------------------------------------------------------------------------
(* Statuses, markers, processes *)

Process == {"shell", "worker"}

\* The statuses the engine writes. "complete" stands for the three verdicts of
\* the completion gate, "failed" for the turn's other failing ends.
Terminal == {"complete", "failed", "cancelled"}
Status == Terminal \cup {"none", "created", "preparing_context", "validating",
                         "waiting_for_approval"}

Home(t) == IF t \in WorkerTask THEN "worker" ELSE "shell"
TasksOf(s) == {t \in Task : Home(t) = s}

\* A start marker. Only a tool's dispatch is a side effect; `n` tells the
\* model calls of a task apart and is 0 for the others.
Marker == [task : Task, action : {"model_call", "tool", "completion_settlement"},
           n : 0..MaxCalls]
Call(t) == [task |-> t, action |-> "model_call", n |-> calls[t]]
Tool(t) == [task |-> t, action |-> "tool", n |-> 0]
Settlement(t) == [task |-> t, action |-> "completion_settlement", n |-> 0]

Proposal == Task \X (1..MaxProposals)

\* Mutant: the classifier does not ask whether a worker is alive.
LiveWorker_Never(s) == FALSE

\* has_live_worker: the driver's process is registered and alive.
LiveWorker(s) == s = "worker" /\ at["worker"] # "down"

Go(p, l) == at' = [at EXCEPT ![p] = l]
SetStatus(t, s) == status' = [status EXCEPT ![t] = s]
Count(t, c) == usage' = [usage EXCEPT ![t][c] = @ + 1]

Authorize(t, who) == resumed' = resumed \cup {<<t, who>>}
Resumed == {r[1] : r \in resumed}

\* Once or more often is all that is told apart.
CountRun(pr) == ran' = [ran EXCEPT ![pr] = IF @ = 2 THEN 2 ELSE @ + 1]

-----------------------------------------------------------------------------
Init ==
  /\ status = [t \in Task |-> "none"]
  /\ markers = {}
  /\ calls = [t \in Task |-> 0]
  /\ usage = [t \in Task |-> [c \in 1..MaxCalls |-> 0]]
  /\ paused = {} /\ superseded = {} /\ patches = {} /\ decided = {}
  /\ link = [t \in Task |-> 0]
  /\ at = [p \in Process |-> "down"]
  /\ cur = [p \in Process |-> NoTask]
  /\ offered = {}
  /\ scan = {} /\ here = "shell" /\ found = {}
  /\ goal = [why |-> "sweep", task |-> NoTask]
  /\ shown = {} /\ cards = {} /\ resolving = NoTask
  /\ crashes = 0
  /\ resumed = {} /\ lost = {} /\ lostCheck = {} /\ erred = {}
  /\ prompts = [t \in Task |-> 0]
  /\ ran = [pr \in Proposal |-> 0] /\ vanished = {}

-----------------------------------------------------------------------------
(* A turn, run by process p on task cur[p] *)

recoveryFrame == UNCHANGED <<sweepVars, shown, cards, crashes, resumed, prompts,
                             vanished, lost, lostCheck>>
turnFrame == recoveryFrame /\ UNCHANGED <<patches, decided, erred>>

\* The desktop runs a turn only after the page's sweep; a driver starts idle.
StartTurn(p, t) ==
  /\ at[p] = "idle"
  /\ status[t] = "none" /\ Home(t) = p
  /\ SetStatus(t, "created")
  /\ cur' = [cur EXCEPT ![p] = t]
  /\ Go(p, "created")
  /\ turnFrame
  /\ UNCHANGED <<markers, calls, usage, paused, link, superseded, offered,
                 resolving, ran>>

PrepareContext(p) ==
  /\ at[p] = "created"
  /\ SetStatus(cur[p], "preparing_context")
  /\ Go(p, "ready")
  /\ turnFrame
  /\ UNCHANGED <<markers, calls, usage, paused, link, superseded, cur, offered,
                 resolving, ran>>

\* One round's model call: its marker is durable before the request goes out.
StartCall(p) ==
  /\ at[p] = "ready"
  /\ calls[cur[p]] < MaxCalls
  /\ calls' = [calls EXCEPT ![cur[p]] = @ + 1]
  /\ markers' = markers \cup {[Call(cur[p]) EXCEPT !.n = @ + 1]}
  /\ Go(p, "call")
  /\ turnFrame
  /\ UNCHANGED <<status, usage, paused, link, superseded, cur, offered,
                 resolving, ran>>

\* The answer, or the provider's refusal, is in: the marker closes first ...
FinishCall(p) ==
  /\ at[p] = "call"
  /\ markers' = markers \ {Call(cur[p])}
  /\ Go(p, "uncounted")
  /\ turnFrame
  /\ UNCHANGED <<status, calls, usage, paused, link, superseded, cur, offered,
                 resolving, ran>>

\* ... and the call's usage is recorded after it.
RecordUsage(p) ==
  /\ at[p] = "uncounted"
  /\ Count(cur[p], calls[cur[p]])
  /\ \E l \in {"ready", "failing"} : Go(p, l)
  /\ turnFrame
  /\ UNCHANGED <<status, markers, calls, paused, link, superseded, cur, offered,
                 resolving, ran>>

\* The user's stop: the call is counted, its marker stays as it is.
StopCall(p) ==
  /\ at[p] = "call"
  /\ Count(cur[p], calls[cur[p]])
  /\ Go(p, "cancelling")
  /\ turnFrame
  /\ UNCHANGED <<status, markers, calls, paused, link, superseded, cur, offered,
                 resolving, ran>>

\* The end of a turn without an answer. A window that awaited the turn of a
\* reattached approval gets an error and does not close the task out.
EndTurn(p, s) ==
  /\ SetStatus(cur[p], s)
  /\ cur' = [cur EXCEPT ![p] = NoTask]
  /\ Go(p, "idle")
  /\ resolving' = IF s = "failed" /\ p = "shell" THEN NoTask ELSE resolving
  /\ turnFrame
  /\ UNCHANGED <<markers, calls, usage, paused, link, superseded, offered, ran>>

\* A transport error fails the task with the call's marker open, uncounted; a
\* refusal fails it once counted.
Fail(p) == at[p] \in {"call", "failing"} /\ EndTurn(p, "failed")

FinishCancelledTurn(p) == at[p] \in {"cancelling", "ready"} /\ EndTurn(p, "cancelled")

\* A tool's dispatch is bracketed: marker, effect, finish.
StartTool(p) ==
  /\ at[p] = "ready"
  /\ markers' = markers \cup {Tool(cur[p])}
  /\ Go(p, "tool")
  /\ turnFrame
  /\ UNCHANGED <<status, calls, usage, paused, link, superseded, cur, offered,
                 resolving, ran>>

Dispatch(p) ==
  /\ at[p] = "tool"
  /\ Go(p, "effect")
  /\ turnFrame
  /\ UNCHANGED <<durable, cur, offered, resolving, ran>>

FinishTool(p) ==
  /\ at[p] = "effect"
  /\ markers' = markers \ {Tool(cur[p])}
  /\ \E l \in {"ready", "cancelling"} : Go(p, l)
  /\ turnFrame
  /\ UNCHANGED <<status, calls, usage, paused, link, superseded, cur, offered,
                 resolving, ran>>

\* A command that needs approval pauses the turn: the turn is saved, the marker
\* is closed, and the status names the proposal, in three writes.
SavePausedTurn(p) ==
  LET t == cur[p] IN
  /\ at[p] = "tool"
  /\ link[t] < MaxProposals
  /\ paused' = paused \cup {<<t, link[t] + 1>>}
  /\ Go(p, "saved")
  /\ turnFrame
  /\ UNCHANGED <<status, markers, calls, usage, link, superseded, cur, offered,
                 resolving, ran>>

FinishProposing(p) ==
  /\ at[p] = "saved"
  /\ markers' = markers \ {Tool(cur[p])}
  /\ Go(p, "asking")
  /\ turnFrame
  /\ UNCHANGED <<status, calls, usage, paused, link, superseded, cur, offered,
                 resolving, ran>>

\* A patch is a proposal too, but no turn is saved with it: what the user makes
\* of its files does not continue the turn. Nothing reads it until the status
\* names it.
ProposePatch(p) ==
  LET t == cur[p] IN
  /\ at[p] = "tool"
  /\ link[t] < MaxProposals
  /\ patches' = patches \cup {<<t, link[t] + 1>>}
  /\ markers' = markers \ {Tool(t)}
  /\ Go(p, "asking")
  /\ recoveryFrame
  /\ UNCHANGED <<status, calls, usage, paused, link, superseded, decided, cur, offered,
                 resolving, ran, erred>>

\* The turn's answer carries the proposal to the window that streams it; the
\* window of a reattached approval only prints it.
AwaitApproval(p) ==
  LET t == cur[p] IN
  /\ at[p] = "asking"
  /\ SetStatus(t, "waiting_for_approval")
  /\ link' = [link EXCEPT ![t] = @ + 1]
  /\ offered' = IF t = resolving THEN offered ELSE offered \cup {<<t, link[t] + 1>>}
  /\ cur' = [cur EXCEPT ![p] = NoTask]
  /\ Go(p, "idle")
  /\ turnFrame
  /\ UNCHANGED <<markers, calls, usage, paused, superseded, resolving, ran>>

\* A verification turn: a turn of its own that runs checks instead of asking
\* the model. Its commands have no markers.
BeginValidating(p) ==
  /\ at[p] = "ready"
  /\ calls[cur[p]] = 0 /\ link[cur[p]] = 0
  /\ SetStatus(cur[p], "validating")
  /\ Go(p, "validating")
  /\ turnFrame
  /\ UNCHANGED <<markers, calls, usage, paused, link, superseded, cur, offered,
                 resolving, ran>>

RunVerificationCheck(p) ==
  /\ at[p] \in {"validating", "checking"}
  /\ Go(p, IF at[p] = "checking" THEN "validating" ELSE "checking")
  /\ turnFrame
  /\ UNCHANGED <<durable, cur, offered, resolving, ran>>

\* An answered turn, and a finished verification, are settled through the
\* completion gate: marker, status with the report, finish.
StartSettlement(p) ==
  /\ at[p] \in {"ready", "validating"}
  /\ markers' = markers \cup {Settlement(cur[p])}
  /\ Go(p, "settling")
  /\ turnFrame
  /\ UNCHANGED <<status, calls, usage, paused, link, superseded, cur, offered,
                 resolving, ran>>

WriteSettlement(p) ==
  /\ at[p] = "settling"
  /\ SetStatus(cur[p], "complete")
  /\ Go(p, "settled")
  /\ turnFrame
  /\ UNCHANGED <<markers, calls, usage, paused, link, superseded, cur, offered,
                 resolving, ran>>

\* Mutant: the process keeps the task whose turn has ended.
FinishSettlement_KeepsTask(p) ==
  /\ at[p] = "settled"
  /\ markers' = markers \ {Settlement(cur[p])}
  /\ Go(p, "idle")
  /\ turnFrame
  /\ UNCHANGED <<status, calls, usage, paused, link, superseded, cur, offered,
                 resolving, ran>>

FinishSettlement(p) ==
  /\ at[p] = "settled"
  /\ markers' = markers \ {Settlement(cur[p])}
  /\ cur' = [cur EXCEPT ![p] = NoTask]
  /\ Go(p, "idle")
  /\ turnFrame
  /\ UNCHANGED <<status, calls, usage, paused, link, superseded, offered,
                 resolving, ran>>

\* A command that cannot be loaded, authorized or started is an error of the
\* whole request: the turn is over and nothing is written about its task, whose
\* marker, or whose wait for an approval already taken, stays in the log.
TurnErrs(p) ==
  /\ at[p] \in {"tool", "effect", "approved", "continuing"}
  /\ erred' = erred \cup ({cur[p]} \cap TasksOf("shell"))
  /\ cur' = [cur EXCEPT ![p] = NoTask]
  /\ Go(p, "idle")
  /\ resolving' = IF p = "shell" THEN NoTask ELSE resolving
  /\ recoveryFrame
  /\ UNCHANGED <<durable, offered, ran>>

-----------------------------------------------------------------------------
(* Answering an approval *)

\* The saved turn is taken (read and removed); an approved command is run before
\* the status moves on, and a declined one is not run at all.
TakePausedTurn(p, pr) ==
  /\ pr \in paused
  /\ paused' = paused \ {pr}
  /\ cur' = [cur EXCEPT ![p] = pr[1]]
  /\ \E l \in {"approved", "continuing"} : Go(p, l)

\* The card of a turn this process paused.
AnswerApproval(p, pr) ==
  /\ at[p] = "idle"
  /\ pr \in offered /\ Home(pr[1]) = p
  /\ TakePausedTurn(p, pr)
  /\ offered' = offered \ {pr}
  /\ turnFrame
  /\ UNCHANGED <<status, markers, calls, usage, link, superseded, resolving, ran>>

RunApproved(p) ==
  /\ at[p] = "approved"
  /\ CountRun(<<cur[p], link[cur[p]]>>)
  /\ Go(p, "continuing")
  /\ turnFrame
  /\ UNCHANGED <<durable, cur, offered, resolving>>

ContinueTurn(p) ==
  /\ at[p] = "continuing"
  /\ SetStatus(cur[p], "preparing_context")
  /\ Go(p, "ready")
  /\ turnFrame
  /\ UNCHANGED <<markers, calls, usage, paused, link, superseded, cur, offered,
                 resolving, ran>>

\* A reattached approval's card: /api/run-command and /api/reject-command resume
\* the saved turn when it is still on disk and otherwise act on the proposal
\* alone.
AnswerReattached(pr) ==
  /\ at["shell"] = "idle" /\ resolving = NoTask
  /\ pr \in cards \ patches
  /\ resolving' = pr[1]
  /\ IF pr \in paused
     THEN TakePausedTurn("shell", pr) /\ UNCHANGED ran
     ELSE /\ \/ CountRun(pr)
             \/ UNCHANGED ran
          /\ UNCHANGED <<paused, cur, at>>
  /\ turnFrame
  /\ UNCHANGED <<status, markers, calls, usage, link, superseded, offered>>

\* The last file of a patch is applied or rejected. The task's status is not
\* touched; a reattached patch's card goes on to close the task out.
DecidePatch(pr) ==
  /\ at["shell"] = "idle" /\ resolving = NoTask
  /\ pr \in patches \cap (offered \cup cards)
  /\ decided' = decided \cup {pr}
  /\ offered' = offered \ {pr}
  /\ resolving' = IF pr \in cards THEN pr[1] ELSE NoTask
  /\ recoveryFrame
  /\ UNCHANGED <<status, markers, calls, usage, paused, link, superseded, patches, at,
                 cur, ran, erred>>

\* /api/recovery-approval-resolved, sent once the answer's request returned.
ResolveReattachedApproval ==
  /\ at["shell"] = "idle" /\ resolving # NoTask
  /\ SetStatus(resolving, "cancelled")
  /\ cards' = {pr \in cards : pr[1] # resolving}
  /\ shown' = shown \ {resolving}
  /\ resolving' = NoTask
  /\ UNCHANGED <<markers, calls, usage, paused, link, superseded, patches, decided, at,
                 cur, offered, sweepVars, crashes, history, erred>>

\* The window is reloaded between those two requests.
ReloadWindow ==
  /\ at["shell"] = "idle" /\ resolving # NoTask
  /\ resolving' = NoTask
  /\ UNCHANGED <<durable, at, cur, offered, sweepVars, shown, cards, crashes, history,
                 erred>>

-----------------------------------------------------------------------------
(* Classifying a session: by the launch sweep, or for one decision *)

idle == [why |-> "sweep", task |-> NoTask]

shellFrame == UNCHANGED <<calls, paused, link, patches, decided, cur, offered,
                          resolving, crashes, ran, vanished, lost, lostCheck, erred>>

BeginSweep ==
  /\ at["shell"] = "launched"
  /\ scan' = Process /\ goal' = idle
  /\ Go("shell", "scan")
  /\ shellFrame
  /\ UNCHANGED <<status, markers, usage, superseded, here, found, shown, cards,
                 resumed, prompts>>

\* A live worker's session is passed over before anything is written about it.
ClassifySession(s) ==
  /\ at["shell"] = "scan" /\ s \in scan
  /\ scan' = scan \ {s}
  /\ here' = s
  /\ Go("shell", IF LiveWorker(s) THEN "scan" ELSE "account")
  /\ shellFrame
  /\ UNCHANGED <<status, markers, usage, superseded, goal, found, shown, cards,
                 resumed, prompts>>

\* Mutant: an open call is counted at every sweep.
LostCalls_AtEverySweep(s) == {m \in markers : /\ m.action = "model_call"
                                              /\ Home(m.task) = s}

\* Mutant: only the calls of tasks still open are counted.
LostCalls_OpenTasks(s) == {m \in markers : /\ m.action = "model_call"
                                           /\ Home(m.task) = s
                                           /\ status[m.task] \notin Terminal
                                           /\ usage[m.task][m.n] = 0}

\* account_for_lost_model_calls: open calls no usage event names yet.
LostCalls(s) == {m \in markers : /\ m.action = "model_call" /\ Home(m.task) = s
                                 /\ usage[m.task][m.n] = 0}

AccountForLostCall ==
  /\ at["shell"] = "account"
  /\ \E m \in LostCalls(here) : Count(m.task, m.n)
  /\ shellFrame
  /\ UNCHANGED <<status, markers, superseded, at, sweepVars, shown, cards, resumed,
                 prompts>>

AllAccounted ==
  /\ at["shell"] = "account"
  /\ LostCalls(here) = {}
  /\ Go("shell", "settle")
  /\ shellFrame
  /\ UNCHANGED <<status, markers, usage, superseded, sweepVars, shown, cards,
                 resumed, prompts>>

\* settle_crashed_completions: a task already terminal only has its marker
\* closed; a task with a side effect in flight is left alone; another is settled
\* again, status first.
OpenSettlements(s) == {m \in markers : m.action = "completion_settlement"
                                       /\ Home(m.task) = s}

SettleCrashed ==
  /\ at["shell"] = "settle"
  /\ \E m \in OpenSettlements(here) :
       \/ /\ status[m.task] \in Terminal
          /\ markers' = markers \ {m}
          /\ UNCHANGED status
       \/ /\ status[m.task] \notin Terminal
          /\ Tool(m.task) \notin markers
          /\ SetStatus(m.task, "complete")
          /\ UNCHANGED markers
  /\ shellFrame
  /\ UNCHANGED <<usage, superseded, at, sweepVars, shown, cards, resumed, prompts>>

\* What is neither ended nor waiting for a person was interrupted.
Recovered(t) == status[t] \notin Terminal \cup {"none", "waiting_for_approval"}

UnknownExternalOutcome(t) == Tool(t) \in markers

\* Mutant: the status does not speak against a resume.
AutoResumePermitted_AnyStatus(t) ==
  ~UnknownExternalOutcome(t) /\ t \notin WorkerTask

AutoResumePermitted(t) ==
  /\ ~UnknownExternalOutcome(t)
  /\ status[t] # "validating"
  /\ t \notin WorkerTask

\* An unfinished settlement is left over when a side effect is in flight too or
\* the task's repository is gone.
ClassifyTasks ==
  /\ at["shell"] = "settle"
  /\ \A m \in OpenSettlements(here) : status[m.task] \notin Terminal
  /\ vanished' = vanished \cup
       {m.task : m \in {n \in OpenSettlements(here) : Tool(n.task) \notin markers}}
  /\ found' = found \cup {t \in TasksOf(here) : Recovered(t)}
  /\ Go("shell", "scan")
  /\ UNCHANGED <<durable, cur, offered, scan, here, goal, window, crashes, resumed,
                 prompts, ran, lost, lostCheck, erred>>

-----------------------------------------------------------------------------
(* The launch sweep's second half *)

\* Mutant: only what is resumed automatically is put to the user.
ResumeFound_OnlySafe ==
  /\ at["shell"] = "scan" /\ scan = {} /\ goal.why = "sweep"
  /\ \E t \in found :
       /\ found' = found \ {t}
       /\ IF t \in superseded \/ ~AutoResumePermitted(t)
          THEN UNCHANGED <<status, shown, resumed>>
          ELSE /\ shown' = shown \cup {t}
               /\ SetStatus(t, "preparing_context") /\ Authorize(t, "sweep")
  /\ shellFrame
  /\ UNCHANGED <<markers, usage, superseded, at, scan, here, goal, cards, prompts>>

ResumeFound ==
  /\ at["shell"] = "scan" /\ scan = {} /\ goal.why = "sweep"
  /\ \E t \in found :
       /\ found' = found \ {t}
       /\ IF t \in superseded
          THEN UNCHANGED <<status, shown, resumed>>
          ELSE /\ shown' = shown \cup {t}
               /\ IF AutoResumePermitted(t)
                  THEN SetStatus(t, "preparing_context") /\ Authorize(t, "sweep")
                  ELSE UNCHANGED <<status, resumed>>
  /\ shellFrame
  /\ UNCHANGED <<markers, usage, superseded, at, scan, here, goal, cards, prompts>>

BeginReattach ==
  /\ at["shell"] = "scan" /\ scan = {} /\ goal.why = "sweep" /\ found = {}
  /\ scan' = Process
  /\ Go("shell", "reattach")
  /\ shellFrame
  /\ UNCHANGED <<status, markers, usage, superseded, here, goal, found, shown, cards,
                 resumed, prompts>>

\* Mutant: a patch is taken for decided as soon as it is proposed.
Waiting_Patches(s) == {t \in TasksOf(s) : /\ status[t] = "waiting_for_approval"
                                          /\ <<t, link[t]>> \notin patches}

\* A task whose patch is decided still waits, and is passed over at every launch.
PatchAlreadyDecided(t) ==
  status[t] = "waiting_for_approval" /\ <<t, link[t]>> \in decided

Waiting(s) ==
  {t \in TasksOf(s) : status[t] = "waiting_for_approval" /\ ~PatchAlreadyDecided(t)}

\* reattach_pending_approvals: a proposal that cannot be loaded fails its task.
ReattachPendingApprovals(s) ==
  /\ at["shell"] = "reattach" /\ s \in scan
  /\ \/ /\ scan' = scan \ {s}
        /\ cards' = IF LiveWorker(s) THEN cards
                    ELSE cards \cup {<<t, link[t]>> : t \in Waiting(s)}
        /\ UNCHANGED status
     \/ /\ ~LiveWorker(s)
        /\ \E t \in Waiting(s) : SetStatus(t, "failed")
        /\ UNCHANGED <<scan, cards>>
  /\ shellFrame
  /\ UNCHANGED <<markers, usage, superseded, at, here, goal, found, shown, resumed,
                 prompts>>

FinishSweep ==
  /\ at["shell"] = "reattach" /\ scan = {}
  /\ Go("shell", "idle")
  /\ shellFrame
  /\ UNCHANGED <<status, markers, usage, superseded, sweepVars, shown, cards, resumed,
                 prompts>>

-----------------------------------------------------------------------------
(* A user's decision on a recovered task *)

Decision == {"resume", "mark_failed", "abandon"}

\* A card may be stale: the task is classified again before anything is done. A
\* worker's tasks get no card.
Decide(t, d) ==
  /\ at["shell"] = "idle" /\ resolving = NoTask
  /\ t \in shown /\ t \notin WorkerTask
  /\ goal' = [why |-> d, task |-> t]
  /\ scan' = {Home(t)} /\ found' = {}
  /\ Go("shell", "scan")
  /\ shellFrame
  /\ UNCHANGED <<status, markers, usage, superseded, here, shown, cards, resumed,
                 prompts>>

\* apply_decision, after the classification: refused unless the task is among
\* the recovered and was not handed on; an unknown outcome is never resumed.
MayDecide(t) == t \in found /\ t \notin superseded

Deciding(d) == at["shell"] = "scan" /\ scan = {} /\ goal.why = d

decisionFrame == shellFrame /\ UNCHANGED <<markers, usage, superseded, scan, here,
                                           shown, cards, prompts>>

RefuseDecision ==
  /\ \E d \in Decision :
       /\ Deciding(d)
       /\ MayDecide(goal.task) => d = "resume" /\ UnknownExternalOutcome(goal.task)
  /\ found' = {} /\ goal' = idle
  /\ Go("shell", "idle")
  /\ decisionFrame
  /\ UNCHANGED <<status, resumed>>

Resume ==
  /\ Deciding("resume")
  /\ MayDecide(goal.task) /\ ~UnknownExternalOutcome(goal.task)
  /\ SetStatus(goal.task, "preparing_context")
  /\ Authorize(goal.task, "user")
  /\ found' = {} /\ UNCHANGED goal
  /\ Go("shell", "superseding")
  /\ decisionFrame

MarkFailedOrAbandon ==
  /\ \E d \in {"mark_failed", "abandon"} :
       /\ Deciding(d)
       /\ MayDecide(goal.task)
       /\ SetStatus(goal.task, IF d = "abandon" THEN "cancelled" ELSE "failed")
  /\ found' = {} /\ goal' = idle
  /\ Go("shell", "idle")
  /\ decisionFrame
  /\ UNCHANGED resumed

\* The request goes back to the window once the task is marked handed on.
MarkTaskSuperseded ==
  LET t == goal.task IN
  /\ at["shell"] = "superseding"
  /\ superseded' = superseded \cup {t}
  /\ prompts' = [prompts EXCEPT ![t] = @ + 1]
  /\ goal' = idle
  /\ Go("shell", "idle")
  /\ shellFrame
  /\ UNCHANGED <<status, markers, usage, scan, here, found, shown, cards, resumed>>

-----------------------------------------------------------------------------
(* Processes *)

\* What a crash cuts off.
Lose(ps) ==
  LET cut(l) == {cur[p] : p \in {q \in ps : at[q] = l}} IN
  /\ lost' = lost \cup cut("effect")
  /\ lostCheck' = lostCheck \cup cut("checking")
  /\ cur' = [p \in Process |-> IF p \in ps THEN NoTask ELSE cur[p]]
  /\ offered' = {pr \in offered : Home(pr[1]) \notin ps}

CrashShell ==
  /\ at["shell"] # "down" /\ crashes < MaxCrashes
  /\ crashes' = crashes + 1
  /\ Lose({"shell"})
  /\ Go("shell", "down")
  /\ scan' = {} /\ here' = "shell" /\ goal' = idle /\ found' = {}
  /\ shown' = {} /\ cards' = {} /\ resolving' = NoTask /\ erred' = {}
  /\ UNCHANGED <<durable, resumed, prompts, ran, vanished>>

\* The driver dies, or finds its lifeline closed.
CrashDriver ==
  /\ at["worker"] # "down" /\ crashes < MaxCrashes
  /\ crashes' = crashes + 1
  /\ Lose({"worker"})
  /\ Go("worker", "down")
  /\ UNCHANGED <<durable, sweepVars, window, resumed, prompts, ran, vanished, erred>>

\* A launch first ends what an earlier shell left running.
Launch ==
  /\ at["shell"] = "down"
  /\ Lose({"worker"})
  /\ at' = [shell |-> "launched", worker |-> "down"]
  /\ UNCHANGED <<durable, sweepVars, window, crashes, resumed, prompts, ran, vanished,
                 erred>>

StartDriver ==
  /\ WorkerTask # {}
  /\ at["worker"] = "down"
  /\ at["shell"] = "idle" \/ (LateSweep /\ at["shell"] = "launched")
  /\ Go("worker", "idle")
  /\ UNCHANGED <<durable, cur, offered, sweepVars, window, crashes, history, erred>>

-----------------------------------------------------------------------------
TurnStep(p) ==
  \/ \E t \in Task : StartTurn(p, t)
  \/ PrepareContext(p) \/ StartCall(p) \/ FinishCall(p) \/ RecordUsage(p)
  \/ StopCall(p) \/ Fail(p) \/ FinishCancelledTurn(p)
  \/ StartTool(p) \/ Dispatch(p) \/ FinishTool(p)
  \/ SavePausedTurn(p) \/ FinishProposing(p) \/ ProposePatch(p) \/ AwaitApproval(p)
  \/ BeginValidating(p) \/ RunVerificationCheck(p)
  \/ StartSettlement(p) \/ WriteSettlement(p) \/ FinishSettlement(p)
  \/ \E pr \in Proposal : AnswerApproval(p, pr)
  \/ RunApproved(p) \/ ContinueTurn(p) \/ TurnErrs(p)

ClassifyStep ==
  \/ \E s \in Process : ClassifySession(s)
  \/ AccountForLostCall \/ AllAccounted \/ SettleCrashed \/ ClassifyTasks

SweepStep ==
  \/ BeginSweep \/ ClassifyStep \/ ResumeFound \/ BeginReattach
  \/ \E s \in Process : ReattachPendingApprovals(s)
  \/ FinishSweep

DecisionStep ==
  \/ \E t \in Task, d \in Decision : Decide(t, d)
  \/ RefuseDecision \/ Resume \/ MarkFailedOrAbandon \/ MarkTaskSuperseded

WindowStep ==
  \/ \E pr \in Proposal : AnswerReattached(pr) \/ DecidePatch(pr)
  \/ ResolveReattachedApproval \/ ReloadWindow

Next ==
  \/ \E p \in Process : TurnStep(p)
  \/ SweepStep \/ DecisionStep \/ WindowStep
  \/ CrashShell \/ CrashDriver \/ Launch \/ StartDriver

\* A request the shell has begun runs to its end: nothing else uses its thread.
Spec == Init /\ [][Next]_vars /\ WF_vars(SweepStep)

-----------------------------------------------------------------------------
(* Properties *)

TurnAt == {"created", "ready", "call", "uncounted", "failing", "cancelling", "tool",
           "effect", "saved", "asking", "validating", "checking", "settling",
           "settled", "approved", "continuing"}
SweepAt == {"launched", "scan", "account", "settle", "reattach", "superseding"}

\* Every variable keeps its type, and a process has a task exactly in a turn.
TypeOK ==
  /\ status \in [Task -> Status]
  /\ markers \subseteq Marker
  /\ calls \in [Task -> 0..MaxCalls]
  /\ usage \in [Task -> [1..MaxCalls -> 0..2]]
  /\ paused \subseteq Proposal /\ offered \subseteq Proposal /\ cards \subseteq Proposal
  /\ link \in [Task -> 0..MaxProposals]
  /\ superseded \subseteq Task /\ found \subseteq Task /\ shown \subseteq Task
  /\ at \in [Process -> {"down", "idle"} \cup TurnAt \cup SweepAt]
  /\ cur \in [Process -> Task \cup {NoTask}]
  /\ \A p \in Process : cur[p] \in Task <=> at[p] \in TurnAt
  /\ scan \subseteq Process /\ here \in Process
  /\ goal \in [why : Decision \cup {"sweep"}, task : Task \cup {NoTask}]
  /\ resolving \in Task \cup {NoTask}
  /\ crashes \in 0..MaxCrashes
  /\ resumed \subseteq Task \X {"sweep", "user"} /\ lost \subseteq Task /\ lostCheck \subseteq Task
  /\ prompts \in [Task -> 0..2]
  /\ ran \in [Proposal -> 0..2] /\ vanished \subseteq Task
  /\ patches \subseteq Proposal /\ decided \subseteq Proposal /\ erred \subseteq Task

\* A task whose marked side effect was cut off by a crash is never continued by
\* recovery, neither by the sweep on its own nor by a user's decision, in any
\* later launch (recovery.rs, resume_allowed).
LostOutcomeIsNeverResumed == lost \cap Resumed = {}

\* A task whose validation command, which has no marker, was cut off by a crash
\* is not continued on the sweep's own word: a person decides first (recovery.rs,
\* classify_session, the status backstop).
CutOffCheckNeedsAPerson ==
  \A t \in lostCheck : <<t, "sweep">> \in resumed => <<t, "user">> \in resumed

\* A task whose answer was being settled when a crash came is settled by recovery
\* and not resumed, unless its repository was gone (recovery.rs,
\* settle_crashed_completions).
AnsweredTaskIsNeverResumed == \A t \in Resumed \ vanished : Settlement(t) \notin markers

\* Recovery continues a task only when what was cut off is known and harmless,
\* over any number of launches, sweeps and decisions (recovery.rs).
OnlySafeTasksAreResumed ==
  LostOutcomeIsNeverResumed /\ CutOffCheckNeedsAPerson /\ AnsweredTaskIsNeverResumed

\* A call is counted at most once, by the turn or by one of the sweeps and
\* re-classifications of later launches (recovery.rs, spec 19 section 5.5).
UsageCountedOnce == \A t \in Task, c \in 1..MaxCalls : usage[t][c] <= 1

\* A task's request is handed back for re-sending at most once, whatever crashes
\* and stale cards there are (desktop-shell recovery.rs, superseded_task_ids).
RequestResentOnce == \A t \in Task : prompts[t] <= 1

\* Recovery does nothing a second time that an earlier launch already did.
RecoveredOnce == UsageCountedOnce /\ RequestResentOnce

\* The open tasks that are on no card: those whose turn an error ended in this
\* launch (the next one offers them), and those that go on waiting for a patch
\* whose files are all decided (no launch does, reattach_pending_approvals).
OnNoCard(t) == t \in erred \/ PatchAlreadyDecided(t)

\* Whenever the shell is ready for a request, every task of its session that is
\* neither ended nor handed on is in front of the user: as a recovered task, an
\* approval, or an answer on its way; unless its turn ended in an error since the
\* launch or all files of the patch it waits for are decided (recovery.rs, spec 17
\* requirements 4 and 8).
EveryOpenTaskIsOffered ==
  at["shell"] = "idle" =>
    \A t \in TasksOf("shell") \ superseded :
      status[t] \notin Terminal \cup {"none"} =>
        \/ t \in shown \/ t = resolving
        \/ \E pr \in offered \cup cards : pr[1] = t
        \/ OnNoCard(t)

\* A task that has ended is never made open again (session.rs, is_terminal).
ClosedNeverReopens ==
  \A t \in Task : status[t] \in Terminal => status'[t] \in Terminal

\* When the launch sweep ends, every call of the shell's session whose marker is
\* open has been counted (recovery.rs, account_for_lost_model_calls).
SweepCountsEveryLostCall ==
  [][at["shell"] = "reattach" /\ at'["shell"] = "idle" =>
       \A m \in markers : m.action = "model_call" /\ Home(m.task) = "shell" =>
                           usage[m.task][m.n] = 1]_vars

\* While a driver runs a turn, no step of the shell changes that task's status,
\* markers or usage (recovery.rs, spec 57 correction C12).
LiveWorkersTaskIsItsOwn ==
  \A t \in WorkerTask :
    cur["worker"] = t /\ at'["worker"] = at["worker"] =>
      /\ status'[t] = status[t] /\ usage'[t] = usage[t]
      /\ {m \in markers' : m.task = t} = {m \in markers : m.task = t}

\* What has ended, and what another process is at work on, is left alone by
\* sweeps, decisions and the closing-out of approvals.
EndedAndLiveAreLeftAlone == [][ClosedNeverReopens /\ LiveWorkersTaskIsItsOwn]_vars

\* A task that is open at a launch, after a crash or an error of its turn, is ended
\* or put in front of the user unless the shell dies again; only a task waiting
\* for a patch that is decided is passed over (desktop-shell recovery.rs,
\* run_sweep).
CrashedTaskIsSettledOrOffered ==
  \A t \in TasksOf("shell") :
    (at["shell"] = "launched" /\ status[t] \notin Terminal \cup {"none"}) ~>
      \/ at["shell"] = "down"
      \/ status[t] \in Terminal \/ t \in superseded \cup shown
      \/ \E pr \in cards : pr[1] = t
      \/ PatchAlreadyDecided(t)

\* Refuted. What the closing-out of a reattached approval is there for: no
\* approved command is run twice (desktop-shell recovery.rs).
CommandRunsOnce == \A pr \in Proposal : ran[pr] <= 1

=============================================================================
