--------------------------- MODULE DelegatedWorker ---------------------------
(***************************************************************************)
(* One delegated worker: a session with its own worktree, driven by a      *)
(* process of its own, started and steered by the desktop shell.           *)
(*                                                                         *)
(* The driver (desktop-shell/src/worker.rs) has a thread that runs turns,  *)
(* a thread that serves the control socket, and a main thread that waits   *)
(* for the shutdown signal. They share one slot: the turn's state, its     *)
(* cancel token, its pause flag and notes (workspace-engine/src/           *)
(* steering.rs) and the decision it waits on. The shell                    *)
(* (desktop-shell/src/workers.rs) relays the user's commands one at a time *)
(* and stops a worker in steps, the last of them on a thread of its own.   *)
(* A task that ends is returned to the parent session's log, from where    *)
(* the user continues with it, once (workspace-engine/src/session.rs).     *)
(*                                                                         *)
(* A turn that stops for a patch or for a provider's fallback leaves the   *)
(* driver idle; the fallback is answered through the shell's own route,    *)
(* which then runs the turn itself.                                        *)
(*                                                                         *)
(* Every command is one step: the control thread holds the slot's lock.    *)
(* Tasks, jobs, notes, incarnations and stops are bounded. "command"       *)
(* stands for the decisions a driver does not bring back after a restart   *)
(* (commands, check cards, round budgets), "offer" for the paused turns    *)
(* only the shell's routes answer (provider fallbacks, context reviews).   *)
(***************************************************************************)
EXTENDS Integers, Sequences, FiniteSets

CONSTANTS MaxTasks,  \* bound: tasks the worker's session may get
          MaxJobs,   \* bound: jobs handed to one driver's turn thread
          MaxNotes,  \* bound: steering notes
          MaxRuns,   \* bound: driver processes, one after the other
          MaxStops,  \* bound: stops the user asks for
          Consumer   \* the requests that may continue with a result

ASSUME MaxTasksAssumption == MaxTasks \in Nat
ASSUME MaxJobsAssumption == MaxJobs \in Nat
ASSUME MaxNotesAssumption == MaxNotes \in Nat
ASSUME MaxRunsAssumption == MaxRuns \in Nat \ {0}
ASSUME MaxStopsAssumption == MaxStops \in Nat

VARIABLES
  (* on disk *)
  task,      \* each task's status in the worker's session
  pend,      \* what each task waits for, as its status event links it
  pausedTurn,\* the tasks whose paused turn is saved
  said,      \* the notes in the worker's conversation
  parent,    \* the parent session's log: open, deleted, or made anew
  returned,  \* how many worker_returned events each task has there
  continued, \* how many parent tasks were created from each return
  (* the driver *)
  run,       \* which driver process this is, and whether it lives
  st,        \* the slot's state
  pending,   \* the slot's pending decision
  cancel,    \* the turn's cancel token
  hold,      \* the turn's pause flag
  queue,     \* its undelivered notes, oldest first
  job,       \* the job handed to the turn thread
  pc,        \* where the turn thread is
  cur,       \* the task it runs
  (* the shell *)
  esc,       \* the stop escalation
  deleting,  \* TRUE: the parent's deletion has stopped its workers
  chosen,    \* the return each continuing request found pending
  inShell,   \* the task whose paused turn the shell's route has taken
  (* history *)
  jobs,      \* how many jobs this driver was handed
  notes,     \* how many notes were accepted
  mine,      \* those accepted for the turn the slot holds
  stops,     \* how many stops were asked for
  cutOff,    \* tasks that had ended, unreturned, when their driver went down
  elsewhere  \* tasks whose turn went to the shell's route

disk == <<task, pend, pausedTurn, said, parent, returned, continued>>
slot == <<st, pending, cancel, hold, queue>>
thread == <<job, pc, cur>>
shell == <<esc, deleting, chosen, inShell>>
history == <<jobs, notes, mine, stops, cutOff, elsewhere>>
vars == <<disk, run, slot, thread, shell, history>>

-----------------------------------------------------------------------------
Task == 1..MaxTasks
NoTask == 0

\* "running" stands for every status of a turn under way, "ended" for every
\* terminal one.
TaskStatus == {"none", "running", "paused", "waiting", "ended"}
Decision == {"command", "plan", "question"}
\* A question whose answer is in the log is no longer open. A patch saves no
\* paused turn: the routes that decide its files leave the task waiting.
Link == Decision \cup {"none", "answered", "patch", "offer"}

State == {"idle", "running", "paused", "waiting", "shutting_down"}
Pending == [task : Task, kind : Decision]
NoDecision == [task |-> NoTask, kind |-> "none"]

\* A job starts a turn of its own (a message, a due verification, a repair, a
\* continued task) or answers the pending decision.
Job == [kind : {"none", "start"} \cup Decision, task : Task \cup {NoTask}]
NoJob == [kind |-> "none", task |-> NoTask]
StartJob == [kind |-> "start", task |-> NoTask]

Place == {"wait", "boundary", "held", "asleep", "check", "round",
          "ask_command", "ask_plan", "ask_question", "ask_offer", "took",
          "resume", "return", "settle", "err", "err_return", "settle_none"}

EscPlace == {"none", "status", "stop", "restatus", "await", "shutdown", "term"}
NoEsc == [at |-> "none", run |-> 0, itsTurn |-> FALSE]

Created == {t \in Task : task[t] # "none"}
Newest == CHOOSE t \in Created : \A u \in Created : u <= t

Up == run.alive
Go(p) == pc' = p
SetTask(t, s) == task' = [task EXCEPT ![t] = s]

Init ==
  /\ task = [t \in Task |-> "none"]
  /\ pend = [t \in Task |-> "none"]
  /\ pausedTurn = {} /\ said = {}
  /\ parent = "open"
  /\ returned = [t \in Task |-> 0]
  /\ continued = [t \in Task |-> 0]
  /\ run = [n |-> 1, alive |-> TRUE, ending |-> FALSE]
  /\ st = "idle" /\ pending = NoDecision
  /\ cancel = FALSE /\ hold = FALSE /\ queue = <<>>
  /\ job = NoJob /\ pc = "wait" /\ cur = NoTask
  /\ esc = NoEsc /\ deleting = FALSE
  /\ chosen = [c \in Consumer |-> NoTask] /\ inShell = NoTask
  /\ jobs = 0 /\ notes = 0 /\ mine = {}
  /\ stops = 0 /\ cutOff = {} /\ elsewhere = {}

-----------------------------------------------------------------------------
(* The control thread: one command, under the slot's lock *)

\* The shell serves one request at a time; a stop's first exchanges and a
\* deletion are requests too.
ShellFree == ~deleting /\ esc.at \notin {"status", "stop", "restatus"}
Steerable == st \in {"running", "paused"}

\* Mutant: a stop leaves a paused turn to its timeout.
Wake_Never == UNCHANGED pc

\* TurnSteering::wake, and the notification of TurnSteering::resume.
Wake == pc' = IF pc = "asleep" THEN "held" ELSE pc

\* Mutant: the notes stay with the steering that is replaced.
Carried_Dropped(j) == <<>>

\* Only an answer continues the turn, with the notes it has not reached yet.
Carried(j) == IF j.kind \in Decision THEN queue ELSE <<>>

HandOver(j) ==
  /\ jobs < MaxJobs
  /\ job' = j
  /\ cancel' = FALSE /\ hold' = FALSE
  /\ queue' = Carried(j)
  /\ st' = "running"
  /\ jobs' = jobs + 1
  /\ IF j.kind = "start"
       THEN mine' = {} /\ esc' = [esc EXCEPT !.itsTurn = FALSE]
       ELSE UNCHANGED <<mine, esc>>

Start ==
  /\ Up /\ ShellFree /\ st = "idle"
  /\ Cardinality(Created) < MaxTasks
  /\ HandOver(StartJob)
  /\ UNCHANGED <<disk, run, pending, pc, cur, deleting, chosen, inShell, notes,
                 stops, cutOff, elsewhere>>

\* approve, reject, checks and answer_question: the id must be the one the
\* slot waits on, and of the command's kind.
Decide ==
  /\ Up /\ ShellFree /\ st = "waiting"
  /\ HandOver([kind |-> pending.kind, task |-> pending.task])
  /\ pending' = NoDecision
  /\ UNCHANGED <<disk, run, pc, cur, deleting, chosen, inShell, notes, stops,
                 cutOff, elsewhere>>

Pause ==
  /\ Up /\ ShellFree /\ Steerable
  /\ hold' = TRUE
  /\ UNCHANGED <<disk, run, st, pending, cancel, queue, thread, shell, history>>

QueueNote ==
  /\ notes < MaxNotes
  /\ notes' = notes + 1
  /\ queue' = Append(queue, notes')
  /\ mine' = mine \cup {notes'}

Note ==
  /\ Up /\ ShellFree /\ Steerable
  /\ QueueNote
  /\ UNCHANGED <<disk, run, st, pending, cancel, hold, thread, shell, jobs,
                 stops, cutOff, elsewhere>>

Resume ==
  /\ Up /\ ShellFree /\ Steerable
  /\ QueueNote \/ UNCHANGED <<queue, notes, mine>>
  /\ hold' = FALSE
  /\ Wake
  /\ UNCHANGED <<disk, run, st, pending, cancel, job, cur, shell, jobs, stops,
                 cutOff, elsewhere>>

CancelTurn == cancel' = TRUE /\ Wake

\* shutdown, from the escalation, a deletion or the quitting shell.
Shutdown ==
  /\ st' = "shutting_down"
  /\ CancelTurn
  /\ run' = [run EXCEPT !.ending = TRUE]
  /\ UNCHANGED <<pending, hold, queue, job, cur, disk, history>>

-----------------------------------------------------------------------------
(* The turn thread: taking a job *)

threadFrame == UNCHANGED <<run, shell, history>>

\* Everything that fails before the engine has changed anything: the worktree,
\* the configuration, the model adapter, a refused budget.
FailEarly ==
  /\ Up /\ pc = "wait" /\ job.kind # "none"
  /\ Go("err")
  /\ threadFrame
  /\ UNCHANGED <<disk, slot, job, cur>>

BeginTurn ==
  /\ Up /\ pc = "wait" /\ job.kind = "start"
  /\ \E t \in Task :
       /\ t = Cardinality(Created) + 1
       /\ SetTask(t, "running")
       /\ cur' = t
  /\ Go("boundary")
  /\ threadFrame
  /\ UNCHANGED <<pend, pausedTurn, said, parent, returned, continued, slot, job>>

\* PendingCommandStore::take: a decision resumes its turn once. The paused
\* turn is gone from the disk before anything else is written.
TakePausedTurn ==
  /\ Up /\ pc = "wait" /\ job.kind \in Decision
  /\ job.task \in pausedTurn
  /\ pausedTurn' = pausedTurn \ {job.task}
  /\ cur' = job.task
  /\ Go(IF job.kind = "question" THEN "took" ELSE "resume")
  /\ threadFrame
  /\ UNCHANGED <<task, pend, said, parent, returned, continued, slot, job>>

\* An answer the question does not allow puts the paused turn back.
RefuseAnswer ==
  /\ Up /\ pc = "took"
  /\ pausedTurn' = pausedTurn \cup {cur}
  /\ Go("err")
  /\ threadFrame
  /\ UNCHANGED <<task, pend, said, parent, returned, continued, slot, job, cur>>

RecordAnswer ==
  /\ Up /\ pc = "took"
  /\ pend' = [pend EXCEPT ![cur] = "answered"]
  /\ Go("resume")
  /\ threadFrame
  /\ UNCHANGED <<task, pausedTurn, said, parent, returned, continued, slot, job,
                 cur>>

ResumeTurn ==
  /\ Up /\ pc = "resume"
  /\ SetTask(cur, "running")
  /\ pend' = [pend EXCEPT ![cur] = "none"]
  /\ Go("boundary")
  /\ threadFrame
  /\ UNCHANGED <<pausedTurn, said, parent, returned, continued, slot, job, cur>>

\* A write between the take and the new status fails.
FailResuming ==
  /\ Up /\ pc = "resume"
  /\ Go("err")
  /\ threadFrame
  /\ UNCHANGED <<disk, slot, job, cur>>

-----------------------------------------------------------------------------
(* The turn thread: a round boundary *)

\* WorkerHost::set_paused: a turn that is shutting down stays so.
SetPaused(p) ==
  st' = IF Steerable THEN IF p THEN "paused" ELSE "running" ELSE st

HoldAtBoundary ==
  /\ Up /\ pc = "boundary"
  /\ IF hold /\ ~cancel
       THEN SetTask(cur, "paused") /\ SetPaused(TRUE) /\ Go("held")
       ELSE Go("check") /\ UNCHANGED <<task, st>>
  /\ threadFrame
  /\ UNCHANGED <<pend, pausedTurn, said, parent, returned, continued, pending,
                 cancel, hold, queue, job, cur>>

\* wait_while_paused looks under the steering's lock, cancellation first, and
\* sleeps until it is woken.
LookAtPause ==
  /\ Up /\ pc = "held"
  /\ \/ cancel /\ Go("check") /\ UNCHANGED <<task, st>>
     \/ ~cancel /\ ~hold /\ Go("check")
        /\ SetTask(cur, "running") /\ SetPaused(FALSE)
     \/ ~cancel /\ hold /\ Go("asleep") /\ UNCHANGED <<task, st>>
  /\ threadFrame
  /\ UNCHANGED <<pend, pausedTurn, said, parent, returned, continued, pending,
                 cancel, hold, queue, job, cur>>

\* The wait times out after RECHECK and looks again.
Recheck ==
  /\ Up /\ pc = "asleep"
  /\ Go("held")
  /\ threadFrame
  /\ UNCHANGED <<disk, slot, job, cur>>

\* finish_cancelled_turn, at the boundary or in the middle of a model call.
FinishCancelledTurn ==
  /\ Up /\ pc \in {"check", "round"}
  /\ cancel
  /\ SetTask(cur, "ended")
  /\ Go("return")
  /\ threadFrame
  /\ UNCHANGED <<pend, pausedTurn, said, parent, returned, continued, slot, job,
                 cur>>

\* The cancel check, then the notes.
DrainNotes ==
  /\ Up /\ pc = "check"
  /\ ~cancel
  /\ said' = said \cup {queue[i] : i \in DOMAIN queue}
  /\ queue' = <<>>
  /\ Go("round")
  /\ threadFrame
  /\ UNCHANGED <<task, pend, pausedTurn, parent, returned, continued, st,
                 pending, cancel, hold, job, cur>>

\* A round of model call and tools: it leads to the next boundary, ends the
\* turn (with an answer, or failed and persisted as such and returned as an
\* error), or fails leaving the task as it is.
Round ==
  /\ Up /\ pc = "round"
  /\ \/ Go("boundary") /\ UNCHANGED task
     \/ \E p \in {"return", "err"} : Go(p) /\ SetTask(cur, "ended")
     \/ Go("err") /\ UNCHANGED task
  /\ threadFrame
  /\ UNCHANGED <<pend, pausedTurn, said, parent, returned, continued, slot, job,
                 cur>>

\* What a round may leave a paused turn for.
PausedFor == Decision \cup {"offer"}

AskPlace(k) == CASE k = "command" -> "ask_command"
                 [] k = "plan" -> "ask_plan"
                 [] k = "question" -> "ask_question"
                 [] k = "offer" -> "ask_offer"

\* A turn that went on in the shell had its fallback: it is offered no other.
SavePausedTurn ==
  /\ Up /\ pc = "round"
  /\ \E k \in PausedFor :
       /\ k = "offer" => cur \notin elsewhere
       /\ Go(AskPlace(k))
  /\ pausedTurn' = pausedTurn \cup {cur}
  /\ threadFrame
  /\ UNCHANGED <<task, pend, said, parent, returned, continued, slot, job, cur>>

\* await_approval and await_answer: the status and its link are one event.
AwaitDecision ==
  /\ Up
  /\ \E k \in PausedFor :
       /\ pc = AskPlace(k)
       /\ SetTask(cur, "waiting")
       /\ pend' = [pend EXCEPT ![cur] = k]
  /\ Go("return")
  /\ threadFrame
  /\ UNCHANGED <<pausedTurn, said, parent, returned, continued, slot, job, cur>>

\* A proposed patch ends the turn's loop; nothing is saved to resume.
ProposePatch ==
  /\ Up /\ pc = "round"
  /\ SetTask(cur, "waiting")
  /\ pend' = [pend EXCEPT ![cur] = "patch"]
  /\ Go("return")
  /\ threadFrame
  /\ UNCHANGED <<pausedTurn, said, parent, returned, continued, slot, job, cur>>

-----------------------------------------------------------------------------
(* The turn thread: a job's end *)

\* Mutant: every terminal task found is recorded.
RecordWorkerReturn_Again(t) ==
  IF parent = "open"
    THEN returned' = [returned EXCEPT ![t] = @ + 1] /\ UNCHANGED parent
    ELSE UNCHANGED <<parent, returned>>

\* record_worker_return, under the parent log's lock: never for a parent that
\* is gone, never twice for a task.
RecordWorkerReturn(t) ==
  IF parent = "open" /\ returned[t] = 0
    THEN returned' = [returned EXCEPT ![t] = 1] /\ UNCHANGED parent
    ELSE UNCHANGED <<parent, returned>>

\* Only a terminal task returns.
RecordParentReturn(t) ==
  IF task[t] = "ended" THEN RecordWorkerReturn(t)
                       ELSE UNCHANGED <<parent, returned>>

ReturnResult ==
  /\ Up /\ pc = "return"
  /\ RecordParentReturn(cur)
  /\ Go("settle")
  /\ threadFrame
  /\ UNCHANGED <<task, pend, pausedTurn, said, continued, slot, job, cur>>

\* The slot of a worker that shuts down is left alone.
SettleSlot(d) ==
  /\ IF st = "shutting_down"
       THEN UNCHANGED <<st, pending>>
       ELSE /\ st' = IF d = NoDecision THEN "idle" ELSE "waiting"
            /\ pending' = d
  /\ job' = NoJob /\ Go("wait") /\ cur' = NoTask
  /\ UNCHANGED <<cancel, hold, queue>>

\* Mutant: the link is read whatever became of the task.
PendingDecision_Any(t) == [task |-> t, kind |-> pend[t]]

\* A patch or an offer ends the turn and leaves the worker idle.
PendingDecision(t) ==
  IF task[t] = "waiting" /\ pend[t] \in Decision
    THEN [task |-> t, kind |-> pend[t]] ELSE NoDecision

Settle ==
  /\ Up /\ pc = "settle"
  /\ SettleSlot(PendingDecision(cur))
  /\ threadFrame /\ UNCHANGED disk

\* durable_plan_review: the task, its link and the paused turn still agree.
PlanReviewIsDurable(t) ==
  task[t] = "waiting" /\ pend[t] = "plan" /\ t \in pausedTurn

\* The question is open and its task is linked to it.
QuestionIsOpen(t) == task[t] = "waiting" /\ pend[t] = "question"

\* Mutant: only plan reviews are restored.
Refused_PlanOnly == job.kind = "plan" /\ PlanReviewIsDurable(job.task)

Refused ==
  \/ job.kind = "plan" /\ PlanReviewIsDurable(job.task)
  \/ job.kind = "question" /\ QuestionIsOpen(job.task)

\* The engine refused a decision without consuming it.
RestoreRefused ==
  /\ Up /\ pc = "err"
  /\ IF Refused
       THEN SettleSlot([task |-> job.task, kind |-> job.kind])
       ELSE Go("err_return") /\ UNCHANGED <<slot, job, cur>>
  /\ threadFrame /\ UNCHANGED disk

\* Mutant: only turns that end well return.
RecordFailedReturn_Not == UNCHANGED <<parent, returned>>

RecordFailedReturn ==
  IF Created = {} THEN UNCHANGED <<parent, returned>>
                  ELSE RecordParentReturn(Newest)

\* A turn that failed may have persisted a terminal task: the newest one.
ReturnFailed ==
  /\ Up /\ pc = "err_return"
  /\ RecordFailedReturn
  /\ Go("settle_none")
  /\ threadFrame
  /\ UNCHANGED <<task, pend, pausedTurn, said, continued, slot, job, cur>>

SettleNone ==
  /\ Up /\ pc = "settle_none"
  /\ SettleSlot(NoDecision)
  /\ threadFrame /\ UNCHANGED disk

-----------------------------------------------------------------------------
(* The driver process *)

\* An ended task whose return the parent's log lacks.
Unreturned == {t \in Task : /\ task[t] = "ended"
                            /\ parent = "open" /\ returned[t] = 0}

Down ==
  /\ run' = [run EXCEPT !.alive = FALSE, !.ending = FALSE]
  /\ st' = "idle" /\ pending' = NoDecision
  /\ cancel' = FALSE /\ hold' = FALSE /\ queue' = <<>>
  /\ job' = NoJob /\ pc' = "wait" /\ cur' = NoTask
  /\ jobs' = 0 /\ mine' = {}
  /\ cutOff' = cutOff \cup Unreturned

\* The main thread has swept the children and leaves, whatever the turn
\* thread is doing.
Exit ==
  /\ Up /\ run.ending
  /\ Down
  /\ UNCHANGED <<disk, shell, notes, stops, elsewhere>>

\* A crash, a SIGKILL, or the handler of a SIGTERM.
Die ==
  /\ Up
  /\ Down
  /\ UNCHANGED <<disk, shell, notes, stops, elsewhere>>

\* The task a restart looks at: the newest that waits on a person.
Waiting == {t \in Task : task[t] = "waiting"}
NewestWaiting == CHOOSE t \in Waiting : \A u \in Waiting : u <= t

RestoredDecision ==
  IF Waiting = {} THEN NoDecision
  ELSE LET t == NewestWaiting IN
       IF PlanReviewIsDurable(t) THEN [task |-> t, kind |-> "plan"]
       ELSE IF QuestionIsOpen(t) THEN [task |-> t, kind |-> "question"]
       ELSE NoDecision

\* Restart worker: refused while a process holds the worktree. The thread is
\* started after the pending decision is back in the slot.
Restart ==
  /\ ~Up /\ run.n < MaxRuns /\ ShellFree
  /\ run' = [n |-> run.n + 1, alive |-> TRUE, ending |-> FALSE]
  /\ pending' = RestoredDecision
  /\ st' = IF RestoredDecision = NoDecision THEN "idle" ELSE "waiting"
  /\ UNCHANGED <<disk, cancel, hold, queue, thread, shell, history>>

-----------------------------------------------------------------------------
(* The shell: stopping a worker *)

escFrame ==
  UNCHANGED <<disk, deleting, chosen, inShell, jobs, notes, mine, cutOff, elsewhere>>
Escalate(p) == esc' = [esc EXCEPT !.at = p]
EscDone == esc' = NoEsc

\* Not when the worker is gone: "This worker is not running."
AskStop ==
  /\ Up /\ ShellFree /\ esc = NoEsc
  /\ stops < MaxStops
  /\ stops' = stops + 1
  /\ esc' = [at |-> "status", run |-> run.n, itsTurn |-> FALSE]
  /\ escFrame
  /\ UNCHANGED <<run, slot, thread>>

Gone == ~Up \/ run.n # esc.run

\* begin_stop's first exchange. A worker that does not answer is shut down.
BeginStop ==
  /\ esc.at = "status"
  /\ IF Gone \/ st = "waiting" THEN Escalate("shutdown")
     ELSE IF Steerable THEN Escalate("stop")
     ELSE EscDone
  /\ escFrame
  /\ UNCHANGED <<run, slot, thread, stops>>

\* begin_stop's second: `stop`, for whichever turn the slot holds by now.
SendStop ==
  /\ esc.at = "stop"
  /\ IF Gone
       THEN Escalate("shutdown") /\ UNCHANGED <<cancel, pc>>
     ELSE IF Steerable
       THEN esc' = [esc EXCEPT !.at = "await", !.itsTurn = TRUE] /\ CancelTurn
       ELSE Escalate("restatus") /\ UNCHANGED <<cancel, pc>>
  /\ escFrame
  /\ UNCHANGED <<run, st, pending, hold, queue, job, cur, stops>>

\* Refused: the turn moved on, to an approval or to its end.
AskAgain ==
  /\ esc.at = "restatus"
  /\ IF ~Gone /\ st = "waiting" THEN Escalate("shutdown") ELSE EscDone
  /\ escFrame
  /\ UNCHANGED <<run, slot, thread, stops>>

\* finish_stop, off the request thread: is the turn over?
TurnIsOver == Gone \/ st \in {"idle", "shutting_down"}

AwaitTurnEnd ==
  /\ esc.at = "await"
  /\ \/ TurnIsOver /\ EscDone
     \/ ~TurnIsOver /\ Escalate("shutdown")   \* at the deadline
  /\ escFrame
  /\ UNCHANGED <<run, slot, thread, stops>>

EscalateToShutdown ==
  /\ esc.at = "shutdown"
  /\ Escalate("term")
  /\ UNCHANGED <<deleting, chosen, inShell>>
  /\ IF Gone
       THEN UNCHANGED <<disk, run, slot, thread, history>>
       ELSE Shutdown

\* It has exited, or is terminated by its identity at the deadline.
FinishStop ==
  /\ esc.at = "term"
  /\ EscDone
  /\ UNCHANGED <<disk, deleting, chosen, inShell, notes, stops, elsewhere>>
  /\ IF Gone THEN UNCHANGED <<run, slot, thread, jobs, mine, cutOff>>
             ELSE Down

-----------------------------------------------------------------------------
(* The shell: the parent session *)

\* handle_session_delete shuts the session's workers down, then removes its log.
StopForDelete ==
  /\ parent = "open" /\ ShellFree
  /\ deleting' = TRUE
  /\ UNCHANGED <<esc, chosen, inShell>>
  /\ IF Up THEN Shutdown ELSE UNCHANGED <<disk, run, slot, thread, history>>

DeleteParent ==
  /\ deleting
  /\ deleting' = FALSE
  /\ parent' = "deleted"
  /\ UNCHANGED <<task, pend, pausedTurn, said, returned, continued, run, slot,
                 thread, esc, chosen, inShell, history>>

PendingReturn(t) == parent = "open" /\ returned[t] > 0 /\ continued[t] = 0

\* A request to continue with a result finds it pending, and prepares.
FindReturn(c) ==
  /\ chosen[c] = NoTask
  /\ \E t \in Task :
       /\ PendingReturn(t)
       /\ chosen' = [chosen EXCEPT ![c] = t]
  /\ UNCHANGED <<disk, run, slot, thread, esc, deleting, inShell, history>>

\* Nothing is consumed when the model adapter cannot be built.
GiveUpContinuing(c) ==
  /\ chosen[c] # NoTask
  /\ chosen' = [chosen EXCEPT ![c] = NoTask]
  /\ UNCHANGED <<disk, run, slot, thread, esc, deleting, inShell, history>>

\* consume_worker_return_and_create_task: under the lock, the return is looked
\* up again; one event consumes it and holds the parent task.
ConsumeReturn(c) ==
  /\ chosen[c] # NoTask
  /\ LET t == chosen[c] IN
       IF PendingReturn(t)
         THEN continued' = [continued EXCEPT ![t] = @ + 1]
         ELSE UNCHANGED continued
  /\ chosen' = [chosen EXCEPT ![c] = NoTask]
  /\ UNCHANGED <<task, pend, pausedTurn, said, parent, returned, run, slot,
                 thread, esc, deleting, inShell, history>>

-----------------------------------------------------------------------------
(* The shell: a worker's turn answered through the shell's own routes *)

inShellFrame == UNCHANGED <<said, parent, returned, continued, run, slot, thread,
                            esc, deleting, chosen, jobs, notes, mine, stops, cutOff>>

\* The offer's card is shown while the worker is idle, until its next job.
TakeInShell ==
  /\ Up /\ st = "idle"
  /\ inShell = NoTask
  /\ \E t \in pausedTurn :
       /\ task[t] = "waiting" /\ pend[t] = "offer"
       /\ pausedTurn' = pausedTurn \ {t}
       /\ inShell' = t
       /\ elsewhere' = elsewhere \cup {t}
  /\ UNCHANGED <<task, pend>>
  /\ inShellFrame

\* Declining an offer fails the task without a model call.
DeclineOffer ==
  /\ inShell # NoTask /\ task[inShell] = "waiting"
  /\ SetTask(inShell, "ended")
  /\ inShell' = NoTask
  /\ UNCHANGED <<pend, pausedTurn, elsewhere>>
  /\ inShellFrame

ContinueInShell ==
  /\ inShell # NoTask /\ task[inShell] = "waiting"
  /\ SetTask(inShell, "running")
  /\ pend' = [pend EXCEPT ![inShell] = "none"]
  /\ UNCHANGED <<pausedTurn, inShell, elsewhere>>
  /\ inShellFrame

\* The turn runs in the shell, with no slot and no notes, to its end or to its
\* next pause, where the model leaves it: only a restarted driver may take it
\* up again. Nothing here returns the task to the parent.
RunInShell ==
  /\ inShell # NoTask /\ task[inShell] = "running"
  /\ \/ SetTask(inShell, "ended") /\ UNCHANGED <<pend, pausedTurn>>
     \/ \E k \in Decision \cup {"patch"} :
          /\ SetTask(inShell, "waiting")
          /\ pend' = [pend EXCEPT ![inShell] = k]
          /\ pausedTurn' = IF k = "patch" THEN pausedTurn
                                          ELSE pausedTurn \cup {inShell}
  /\ inShell' = NoTask
  /\ UNCHANGED elsewhere
  /\ inShellFrame

\* A write fails, the model cannot be reached, or the shell is gone.
FailInShell ==
  /\ inShell # NoTask
  /\ inShell' = NoTask
  /\ UNCHANGED <<task, pend, pausedTurn, elsewhere>>
  /\ inShellFrame

-----------------------------------------------------------------------------
\* The shell quits or dies. Its workers' lifelines break; its escalation and
\* requests are gone. The next shell starts with none of them.
ShellEnds ==
  /\ Up /\ ~run.ending
  /\ esc' = NoEsc /\ deleting' = FALSE
  /\ chosen' = [c \in Consumer |-> NoTask] /\ inShell' = NoTask
  /\ Shutdown

-----------------------------------------------------------------------------
Thread ==
  \/ FailEarly \/ BeginTurn \/ TakePausedTurn \/ RefuseAnswer \/ RecordAnswer
  \/ ResumeTurn \/ FailResuming \/ HoldAtBoundary \/ LookAtPause
  \/ FinishCancelledTurn \/ DrainNotes \/ Round \/ SavePausedTurn
  \/ AwaitDecision \/ ProposePatch \/ ReturnResult \/ Settle \/ RestoreRefused \/ ReturnFailed
  \/ SettleNone

Control == Start \/ Decide \/ Pause \/ Note \/ Resume

Stopping ==
  \/ BeginStop \/ SendStop \/ AskAgain \/ AwaitTurnEnd \/ EscalateToShutdown
  \/ FinishStop

InShell ==
  \/ TakeInShell \/ DeclineOffer \/ ContinueInShell \/ RunInShell \/ FailInShell

Next ==
  \/ Thread \/ Recheck
  \/ Control
  \/ Exit \/ Die \/ Restart
  \/ AskStop \/ Stopping
  \/ StopForDelete \/ DeleteParent
  \/ \E c \in Consumer : FindReturn(c) \/ GiveUpContinuing(c) \/ ConsumeReturn(c)
  \/ InShell \/ ShellEnds

\* The turn thread and the main thread run. Nothing is asked of the wait's
\* timeout, a wake must be enough, nor of the escalation, which would end the
\* turn with its process.
Fairness == WF_vars(Thread) /\ WF_vars(Exit)

Spec == Init /\ [][Next]_vars /\ Fairness

-----------------------------------------------------------------------------
(* Properties *)

\* Every variable keeps its type (WorkerHost, TurnSlot, TurnJob, WorkerReturn).
TypeOK ==
  /\ task \in [Task -> TaskStatus] /\ pend \in [Task -> Link]
  /\ pausedTurn \subseteq Task /\ said \subseteq 1..MaxNotes
  /\ parent \in {"open", "deleted", "remade"}
  /\ returned \in [Task -> Nat] /\ continued \in [Task -> Nat]
  /\ run \in [n : 1..MaxRuns, alive : BOOLEAN, ending : BOOLEAN]
  /\ st \in State /\ pending \in Pending \cup {NoDecision}
  /\ cancel \in BOOLEAN /\ hold \in BOOLEAN /\ queue \in Seq(1..MaxNotes)
  /\ job \in Job /\ pc \in Place /\ cur \in Task \cup {NoTask}
  /\ esc \in [at : EscPlace, run : 0..MaxRuns, itsTurn : BOOLEAN]
  /\ deleting \in BOOLEAN
  /\ chosen \in [Consumer -> Task \cup {NoTask}] /\ inShell \in Task \cup {NoTask}
  /\ jobs \in 0..MaxJobs /\ notes \in 0..MaxNotes /\ mine \subseteq 1..MaxNotes
  /\ stops \in 0..MaxStops /\ cutOff \subseteq Task /\ elsewhere \subseteq Task

\* A task's result reaches its parent once, only as the task's outcome, and is
\* continued by one parent task, whatever was restarted, retried, failed or
\* asked for twice (record_worker_return, consume_worker_return_and_create_task).
ReturnedOnce == \A t \in Task :
  /\ returned[t] <= 1 /\ continued[t] <= returned[t]
  /\ returned[t] = 1 => task[t] = "ended"

\* As long as its driver lives, a task the driver brought to its end is
\* returned before the driver looks at its next job, however the turn ended
\* (TurnDriver::run). Nothing is said of a turn the shell's route took up.
OutcomeIsReturned ==
  \A t \in Unreturned \ (cutOff \cup elsewhere) :
    Up /\ pc \in {"return", "err", "err_return"}

\* A worker that finishes after its parent was deleted does not make the
\* parent's log anew (record_worker_return, delete_session).
DeletedParentStaysDeleted == parent # "remade"

\* No outcome is lost between the driver that produced it and the parent, none
\* comes twice, and none to a parent that is gone.
OutcomesReturnOnce == ReturnedOnce /\ OutcomeIsReturned /\ DeletedParentStaysDeleted

\* The decision a worker waits on is the one its session has open: answering
\* it answers that task, and an answered question is not asked again.
WaitingIsDurable ==
  Up /\ st = "waiting" => /\ task[pending.task] = "waiting"
                         /\ pend[pending.task] = pending.kind

\* A worker that reports idle hides no plan review that could still be
\* answered and no open question.
IdleHidesNothing ==
  Up /\ st = "idle" =>
    \A t \in Task \ elsewhere : ~PlanReviewIsDurable(t) /\ ~QuestionIsOpen(t)

\* What a worker shows is what its session waits for: also after a refused
\* decision, a failure, a crash at any point and a restart
\* (restore_pending_decision, restore_open_question, pending_decision). A turn
\* the shell's route took up is shown by the shell.
ShowsWhatIsOpen == WaitingIsDurable /\ IdleHidesNothing

\* A note the worker accepted for the turn it holds is in the conversation or
\* still queued, once and in order, also across an approval (hand_over).
NotesAreKept ==
  LET held == {queue[i] : i \in DOMAIN queue} IN
  /\ mine \subseteq said \cup held
  /\ \A n \in said : n \notin held
  /\ \A i, j \in DOMAIN queue : i < j => queue[i] < queue[j]

\* A stop ends a running turn and a paused one, without waiting for the
\* pause's timeout (cancel_turn, wait_while_paused).
StopEndsTheTurn == (cancel /\ Steerable) ~> ~(cancel /\ Steerable)

\* Refuted: the escalation shuts a worker down only over the turn it was asked
\* to stop, not over one that began after that turn had ended (finish_stop;
\* docs/specs/57: "if the turn has not ended within 10 seconds").
EscalationIsAboutItsTurn ==
  [][esc.at = "await" /\ esc'.at = "shutdown" => esc.itsTurn]_vars

\* Refuted: a question the session still waits on, open or answered, can be
\* resumed after a crash (docs/specs/50: "a crash while a question is open
\* resumes with the question pending").
QuestionCanBeResumed ==
  ~Up => \A t \in Task :
           task[t] = "waiting" /\ pend[t] \in {"question", "answered"}
             => t \in pausedTurn

\* Refuted: a terminal worker task returns its result to its parent, as long as
\* its driver lives (docs/specs/100, requirements 1 and 2). The outcome of a
\* turn that the shell's route took up is not returned.
EveryOutcomeReturns ==
  \A t \in Task : (Up /\ t \in Unreturned \ cutOff) ~> ~(Up /\ t \in Unreturned)

=============================================================================
