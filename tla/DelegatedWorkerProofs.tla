------------------------ MODULE DelegatedWorkerProofs ------------------------
(* What a worker, its driver and the shell keep, for any number of tasks,     *)
(* jobs, notes, restarts, stops and requests that continue with a result.     *)
EXTENDS DelegatedWorker, FiniteSetTheorems, WellFoundedInduction, TLAPS

-----------------------------------------------------------------------------
(* The invariant *)

\* Tasks are created in order.
InOrder == \E k \in 0..MaxTasks : Created = 1..k
Latest(t) == t \in Created /\ \A u \in Created : u <= t

\* What a restart would bring back.
Open(t) == PlanReviewIsDurable(t) \/ QuestionIsOpen(t)

Turning == {"boundary", "held", "asleep", "check", "round", "ask_command", "ask_plan",
            "ask_question", "ask_offer"}

\* The driver works on the newest task, or on one that came back from the shell.
Owned(t) == Latest(t) \/ t \in elsewhere

\* A slot that is idle or waits has no job, and a process that is gone no slot.
SlotFits ==
  /\ ~Up => st = "idle" /\ queue = <<>> /\ mine = {} /\ ~cancel
  /\ st \in {"idle", "waiting"} => job.kind = "none"
  /\ job.kind = "none" => pc = "wait"
  /\ pc = "wait" => cur = NoTask
  /\ st = "waiting" => /\ pending \in Pending
                       /\ task[pending.task] = "waiting" /\ pend[pending.task] = pending.kind
                       /\ Owned(pending.task)

\* The thread knows how far the status of the task it runs has come.
JobFits ==
  /\ job.kind \in Decision => job.task \in Task /\ Owned(job.task)
  /\ pc = "wait" /\ job.kind \in Decision =>
       task[job.task] = "waiting" /\ pend[job.task] = job.kind
  /\ cur # NoTask => Owned(cur) /\ (job.kind \in Decision => cur = job.task)
  /\ pc \in Turning => cur # NoTask /\ task[cur] \in {"running", "paused"}
  /\ pc \in {"took", "resume"} =>
       cur = job.task /\ job.kind \in Decision /\ task[cur] = "waiting" /\ cur \notin pausedTurn
  /\ pc = "took" => job.kind = "question" /\ pend[cur] = "question"
  /\ pc = "resume" => pend[cur] # "question"
  /\ pc \in {"return", "settle"} => cur # NoTask /\ task[cur] \in {"ended", "waiting"}

\* The task the shell runs is nobody else's.
ShellFits ==
  /\ elsewhere \subseteq Created
  /\ inShell # NoTask =>
       /\ inShell \in elsewhere
       /\ task[inShell] = "running" \/ (task[inShell] = "waiting" /\ pend[inShell] = "offer")
       /\ inShell # cur /\ (job.kind \in Decision => inShell # job.task)
       /\ st = "waiting" => inShell # pending.task

\* What is open is of the newest task, and the slot shows it or the thread will.
OpenFits ==
  \A t \in Task \ elsewhere : Open(t) =>
    /\ Latest(t)
    /\ cur # NoTask => cur = t
    /\ job.kind = "start" => cur = t
    /\ job.kind \in Decision => job.task = t
    /\ st = "waiting" => pending.task = t
    /\ pc = "err" => Refused
    /\ pc \notin {"err_return", "settle_none"}
    /\ Up => st # "idle"

\* Only the newest task can still have to be returned, and only at a job's end.
ReturnsFit ==
  /\ ReturnedOnce /\ DeletedParentStaysDeleted
  /\ \A t \in Unreturned \ (cutOff \cup elsewhere) :
       /\ pc \in {"return", "err", "err_return"} /\ Latest(t)
       /\ pc \in {"return", "err"} => cur = t

\* Notes are numbered as they are accepted.
NotesFit ==
  /\ NotesAreKept
  /\ \A i \in DOMAIN queue : queue[i] \in 1..notes
  /\ said \subseteq 1..notes /\ mine \subseteq 1..notes

IInv == /\ TypeOK /\ InOrder /\ SlotFits /\ JobFits /\ ShellFits /\ OpenFits /\ ReturnsFit
        /\ NotesFit

-----------------------------------------------------------------------------
(* Types *)

LEMMA Numbers == /\ MaxTasks \in Nat /\ MaxJobs \in Nat /\ MaxNotes \in Nat /\ MaxStops \in Nat
                 /\ MaxRuns \in Nat \ {0} /\ NoTask = 0 /\ NoTask \notin Task /\ Task \subseteq Nat
  BY MaxTasksAssumption, MaxJobsAssumption, MaxNotesAssumption, MaxRunsAssumption,
     MaxStopsAssumption DEF NoTask, Task

DiskTypes ==
  /\ task \in [Task -> TaskStatus] /\ pend \in [Task -> Link]
  /\ pausedTurn \subseteq Task /\ said \subseteq 1..MaxNotes
  /\ parent \in {"open", "deleted", "remade"}
  /\ returned \in [Task -> Nat] /\ continued \in [Task -> Nat]
RunTypes == run \in [n : 1..MaxRuns, alive : BOOLEAN, ending : BOOLEAN]
SlotTypes ==
  /\ st \in State /\ pending \in Pending \cup {NoDecision}
  /\ cancel \in BOOLEAN /\ hold \in BOOLEAN /\ queue \in Seq(1..MaxNotes)
ThreadTypes == job \in Job /\ pc \in Place /\ cur \in Task \cup {NoTask}
ShellTypes ==
  /\ esc \in [at : EscPlace, run : 0..MaxRuns, itsTurn : BOOLEAN]
  /\ deleting \in BOOLEAN
  /\ chosen \in [Consumer -> Task \cup {NoTask}] /\ inShell \in Task \cup {NoTask}
HistoryTypes ==
  /\ jobs \in 0..MaxJobs /\ notes \in 0..MaxNotes /\ mine \subseteq 1..MaxNotes
  /\ stops \in 0..MaxStops /\ cutOff \subseteq Task /\ elsewhere \subseteq Task

LEMMA TypesSplit ==
  /\ TypeOK <=> DiskTypes /\ RunTypes /\ SlotTypes /\ ThreadTypes /\ ShellTypes /\ HistoryTypes
  /\ TypeOK' <=> DiskTypes' /\ RunTypes' /\ SlotTypes' /\ ThreadTypes' /\ ShellTypes'
                 /\ HistoryTypes'
  BY DEF TypeOK, DiskTypes, RunTypes, SlotTypes, ThreadTypes, ShellTypes, HistoryTypes

LEMMA InitTypes == Init => TypeOK
<1> SUFFICES ASSUME Init PROVE TypeOK
  OBVIOUS
<1>0. HistoryTypes
  <2>1. /\ jobs = 0 /\ notes = 0 /\ mine = {} /\ stops = 0 /\ cutOff = {} /\ elsewhere = {}
        /\ MaxJobs \in Nat /\ MaxNotes \in Nat /\ MaxStops \in Nat
    BY Numbers DEF Init
  <2>3. jobs \in 0..MaxJobs /\ notes \in 0..MaxNotes /\ stops \in 0..MaxStops
    BY <2>1
  <2>4. mine \subseteq 1..MaxNotes /\ cutOff \subseteq Task /\ elsewhere \subseteq Task
    BY <2>1
  <2> QED BY <2>3, <2>4 DEF HistoryTypes
<1> USE Numbers DEF Init
<1>1. DiskTypes
  BY DEF DiskTypes, TaskStatus, Link
<1>2. RunTypes /\ ThreadTypes
  BY DEF RunTypes, ThreadTypes, Job, NoJob, Place
<1>3. SlotTypes
  <2>1. <<>> \in Seq(1..MaxNotes)
    OBVIOUS
  <2>2. st \in State /\ pending \in Pending \cup {NoDecision}
    BY DEF State
  <2>3. cancel \in BOOLEAN /\ hold \in BOOLEAN
    OBVIOUS
  <2> QED BY <2>1, <2>2, <2>3 DEF SlotTypes
<1>4. ShellTypes
  <2>1. esc \in [at : EscPlace, run : 0..MaxRuns, itsTurn : BOOLEAN]
    BY DEF EscPlace, NoEsc
  <2>2. /\ chosen \in [Consumer -> Task \cup {NoTask}] /\ deleting \in BOOLEAN
        /\ inShell \in Task \cup {NoTask}
    OBVIOUS
  <2> QED BY <2>1, <2>2 DEF ShellTypes
<1> QED BY <1>0, <1>1, <1>2, <1>3, <1>4, TypesSplit

-----------------------------------------------------------------------------
(* Tasks *)

\* The next task is the first not created.
LEMMA NextTask ==
  ASSUME TypeOK, InOrder, NEW t \in Task, t = Cardinality(Created) + 1
  PROVE  /\ task[t] = "none" /\ \A u \in Created : u < t
         /\ Created \cup {t} = 1..t /\ t \in 0..MaxTasks
<1>1. PICK k \in 0..MaxTasks : Created = 1..k
  BY DEF InOrder
<1>2. k \in Nat /\ Cardinality(1..k) = k
  <2>1. k \in Nat
    BY Numbers
  <2>2. Cardinality(1..k) = IF 1 > k THEN 0 ELSE k - 1 + 1
    BY <2>1, FS_Interval
  <2> QED BY <2>1, <2>2
<1>3. t = k + 1
  BY <1>1, <1>2
<1>4. t \notin Created /\ \A u \in Created : u < t
  BY <1>1, <1>2, <1>3
<1>5. task[t] = "none" /\ t \in 0..MaxTasks
  BY <1>4, Numbers DEF Created, Task
<1>6. Created \cup {t} = 1..t
  BY <1>1, <1>2, <1>3
<1> QED BY <1>4, <1>5, <1>6

\* The newest task there is, is the one a failed turn returns.
LEMMA NewestIsLatest ==
  ASSUME InOrder, Created # {}
  PROVE  Latest(Newest) /\ \A t : Latest(t) => t = Newest
<1>1. PICK k \in 0..MaxTasks : Created = 1..k
  BY DEF InOrder
<1>2. k \in Created /\ \A u \in Created : u <= k
  BY <1>1, Numbers
<1>3. Newest \in Created /\ \A u \in Created : u <= Newest
  BY <1>2 DEF Newest
<1>4. Latest(Newest)
  BY <1>3 DEF Latest
<1>5. ASSUME NEW t, Latest(t) PROVE t = Newest
  <2>1. t \in Created /\ t <= Newest /\ Newest <= t
    BY <1>3, <1>5 DEF Latest
  <2>2. t \in Nat /\ Newest \in Nat
    BY <1>1, <1>3, <2>1
  <2> QED BY <2>1, <2>2
<1> QED BY <1>4, <1>5

LEMMA OneLatest ==
  ASSUME InOrder, NEW t, NEW u, Latest(t), Latest(u) PROVE t = u
  BY NewestIsLatest DEF Latest

LEMMA LatestSame ==
  ASSUME Created' = Created PROVE \A t : Latest(t)' <=> Latest(t)
  BY DEF Latest

-----------------------------------------------------------------------------
(* What the steps do *)

\* A step beside the thread: at most it wakes it, or shuts the slot down.
Aside ==
  /\ UNCHANGED <<disk, job, cur, pending, cutOff, elsewhere>>
  /\ inShell' \in {inShell, NoTask}
  /\ pc' = pc \/ (pc = "asleep" /\ pc' = "held")
  /\ st' = st \/ (Up /\ st' = "shutting_down")
  /\ Up' = Up

AsideSteps ==
  \/ Pause \/ Note \/ Resume \/ Recheck \/ AskStop \/ BeginStop \/ SendStop \/ AskAgain
  \/ AwaitTurnEnd \/ EscalateToShutdown \/ (FinishStop /\ Gone) \/ StopForDelete \/ ShellEnds
  \/ \E c \in Consumer : FindReturn(c) \/ GiveUpContinuing(c)

\* A job is handed over.
Taken(j) ==
  /\ Up /\ UNCHANGED <<disk, run, pc, cur, cutOff, inShell, elsewhere>>
  /\ st' = "running" /\ job' = j
  /\ \/ st = "idle" /\ j = StartJob /\ pending' = pending
     \/ st = "waiting" /\ j = [kind |-> pending.kind, task |-> pending.task]
        /\ pending' = NoDecision

\* The driver is gone.
Fallen == Down /\ UNCHANGED <<disk, notes, stops, deleting, chosen, inShell, elsewhere>>
          /\ (UNCHANGED esc \/ esc' = NoEsc)

Consumed == \E c \in Consumer : ConsumeReturn(c)

LEMMA Steps ==
  ASSUME Next
  PROVE  \/ AsideSteps \/ Start \/ Decide \/ Fallen \/ Restart \/ DeleteParent \/ Consumed
         \/ Thread \/ InShell
<1>1. CASE Thread \/ InShell \/ Recheck \/ Control \/ Restart \/ AskStop \/ StopForDelete \/ DeleteParent
           \/ (\E c \in Consumer : FindReturn(c) \/ GiveUpContinuing(c) \/ ConsumeReturn(c))
           \/ ShellEnds
  BY <1>1 DEF AsideSteps, Control, Consumed
<1>2. CASE Exit \/ Die
  BY <1>2 DEF Exit, Die, Fallen, shell
<1>3. CASE Stopping /\ ~(FinishStop /\ ~Gone)
  BY <1>3 DEF Stopping, AsideSteps
<1>4. CASE FinishStop /\ ~Gone
  BY <1>4 DEF FinishStop, Fallen, EscDone
<1> QED BY <1>1, <1>2, <1>3, <1>4 DEF Next

LEMMA AsideIs == ASSUME TypeOK, AsideSteps PROVE Aside
<1>a. run \in [n : 1..MaxRuns, alive : BOOLEAN, ending : BOOLEAN]
  BY DEF TypeOK
<1> USE DEF Aside, Up, disk, slot, thread, history, shell
<1>1. CASE Pause \/ Note \/ Resume \/ Recheck
  BY <1>1 DEF Pause, Note, Resume, Recheck, QueueNote, Wake, Go, threadFrame
<1>2. CASE AskStop \/ BeginStop \/ AskAgain \/ AwaitTurnEnd
  BY <1>2 DEF AskStop, BeginStop, AskAgain, AwaitTurnEnd, escFrame
<1>3. CASE SendStop
  BY <1>3 DEF SendStop, escFrame, CancelTurn, Wake
<1>4. CASE EscalateToShutdown
  BY <1>4, <1>a DEF EscalateToShutdown, Shutdown, CancelTurn, Wake, Gone
<1>5. CASE FinishStop /\ Gone
  BY <1>5 DEF FinishStop
<1>6. CASE StopForDelete \/ ShellEnds
  BY <1>6, <1>a DEF StopForDelete, ShellEnds, Shutdown, CancelTurn, Wake
<1>7. CASE \E c \in Consumer : FindReturn(c) \/ GiveUpContinuing(c)
  BY <1>7 DEF FindReturn, GiveUpContinuing
<1> QED BY <1>1, <1>2, <1>3, <1>4, <1>5, <1>6, <1>7 DEF AsideSteps

LEMMA TakenIs == ASSUME Start \/ Decide PROVE \E j : Taken(j)
<1>1. CASE Start
  BY <1>1 DEF Start, HandOver, Taken, StartJob, shell
<1>2. CASE Decide
  BY <1>2 DEF Decide, HandOver, Taken
<1> QED BY <1>1, <1>2

\* What a step of the shell's own route does, to the task it has taken.
InShellWrites ==
  /\ UNCHANGED <<said, parent, returned, continued, run, slot, thread, esc, deleting, chosen, jobs,
                 notes, mine, stops, cutOff>>
  /\ \/ /\ Up /\ st = "idle" /\ UNCHANGED <<task, pend>>
        /\ \E t \in pausedTurn :
             /\ task[t] = "waiting" /\ pend[t] = "offer" /\ pausedTurn' = pausedTurn \ {t}
             /\ inShell' = t /\ elsewhere' = elsewhere \cup {t}
     \/ /\ inShell # NoTask /\ UNCHANGED elsewhere
        /\ \/ inShell' = NoTask
           \/ inShell' = inShell /\ task' = [task EXCEPT ![inShell] = "running"]
        /\ \/ UNCHANGED task
           \/ \E v \in {"ended", "running", "waiting"} : task' = [task EXCEPT ![inShell] = v]
        /\ \/ UNCHANGED pend
           \/ \E k \in Decision \cup {"patch", "none"} : pend' = [pend EXCEPT ![inShell] = k]
        /\ pausedTurn' \in {pausedTurn, pausedTurn \cup {inShell}}

LEMMA InShellIs == ASSUME InShell PROVE InShellWrites
<1> USE DEF inShellFrame, InShellWrites, SetTask
<1>1. CASE TakeInShell
  BY <1>1 DEF TakeInShell
<1>2. CASE DeclineOffer
  BY <1>2 DEF DeclineOffer
<1>3. CASE ContinueInShell
  BY <1>3 DEF ContinueInShell
<1>4. CASE RunInShell
  BY <1>4 DEF RunInShell
<1>5. CASE FailInShell
  BY <1>5 DEF FailInShell
<1> QED BY <1>1, <1>2, <1>3, <1>4, <1>5 DEF InShell

-----------------------------------------------------------------------------
(* Types stay *)

LEMMA ThreadFrames == ASSUME Thread PROVE Up /\ UNCHANGED <<run, shell, history>>
<1> USE DEF threadFrame
<1>1. CASE FailEarly \/ BeginTurn \/ TakePausedTurn \/ RefuseAnswer \/ RecordAnswer \/ ResumeTurn
           \/ FailResuming
  BY <1>1 DEF FailEarly, BeginTurn, TakePausedTurn, RefuseAnswer, RecordAnswer, ResumeTurn,
              FailResuming
<1>2. CASE HoldAtBoundary \/ LookAtPause \/ FinishCancelledTurn \/ DrainNotes \/ Round
           \/ SavePausedTurn \/ AwaitDecision \/ ProposePatch
  BY <1>2 DEF HoldAtBoundary, LookAtPause, FinishCancelledTurn, DrainNotes, Round, SavePausedTurn,
              AwaitDecision, ProposePatch
<1>3. CASE ReturnResult \/ Settle \/ RestoreRefused \/ ReturnFailed \/ SettleNone
  BY <1>3 DEF ReturnResult, Settle, RestoreRefused, ReturnFailed, SettleNone
<1> QED BY <1>1, <1>2, <1>3 DEF Thread

\* A status, a link or a count is written for the task the thread runs.
StatusSet ==
  \/ UNCHANGED task
  \/ \E s \in {"running", "paused", "waiting", "ended"} : cur \in Task /\ SetTask(cur, s)
LinkSet ==
  \/ UNCHANGED pend
  \/ \E k \in Link : cur \in Task /\ pend' = [pend EXCEPT ![cur] = k]
ReturnSet ==
  \/ UNCHANGED <<parent, returned>>
  \/ \E t \in Task : /\ parent = "open" /\ returned[t] = 0 /\ task[t] = "ended" /\ UNCHANGED parent
                     /\ returned' = [returned EXCEPT ![t] = 1]

LEMMA ReturnIs ==
  ASSUME NEW t \in Task, RecordParentReturn(t) PROVE ReturnSet
  BY DEF RecordParentReturn, RecordWorkerReturn, ReturnSet

\* What a step of the thread does to the disk.
LEMMA ThreadWrites ==
  ASSUME TypeOK, InOrder, SlotFits, JobFits, Thread
  PROVE  /\ BeginTurn \/ StatusSet
         /\ LinkSet /\ ReturnSet /\ UNCHANGED continued
         /\ pausedTurn' \subseteq pausedTurn \cup ({cur} \ {NoTask})
         /\ said' = said \/ (DrainNotes /\ said' = said \cup {queue[i] : i \in DOMAIN queue})
<1>a. cur \in Task \cup {NoTask} /\ (pc \notin {"wait", "err", "err_return", "settle_none"} =>
        cur \in Task) /\ pc \in Place /\ Created \subseteq Task
  BY DEF TypeOK, JobFits, Turning, Place, Created
<1> USE DEF StatusSet, LinkSet, Link, disk, Decision, PausedFor, SetTask
<1>1. CASE FailEarly \/ FailResuming \/ Settle \/ RestoreRefused \/ SettleNone
  BY <1>1 DEF FailEarly, FailResuming, Settle, RestoreRefused, SettleNone, ReturnSet
<1>2. CASE BeginTurn
  BY <1>2 DEF BeginTurn, ReturnSet
<1>3. CASE TakePausedTurn \/ RefuseAnswer
  BY <1>3, <1>a, Numbers DEF TakePausedTurn, RefuseAnswer, ReturnSet
<1>4. CASE RecordAnswer \/ ResumeTurn
  BY <1>4, <1>a DEF RecordAnswer, ResumeTurn, ReturnSet
<1>5. CASE HoldAtBoundary \/ LookAtPause
  BY <1>5, <1>a DEF HoldAtBoundary, LookAtPause, ReturnSet
<1>6. CASE FinishCancelledTurn \/ DrainNotes
  BY <1>6, <1>a DEF FinishCancelledTurn, DrainNotes, ReturnSet
<1>7. CASE Round
  BY <1>7, <1>a DEF Round, ReturnSet
<1>8. CASE SavePausedTurn
  BY <1>8, <1>a, Numbers DEF SavePausedTurn, ReturnSet
<1>9. CASE AwaitDecision
  <2>1. /\ \E k \in Link : pend' = [pend EXCEPT ![cur] = k]
        /\ SetTask(cur, "waiting") /\ cur \in Task
        /\ UNCHANGED <<pausedTurn, said, parent, returned, continued>>
    BY <1>9, <1>a DEF AwaitDecision, AskPlace
  <2> QED BY <2>1 DEF ReturnSet
<1>10. CASE ReturnResult
  BY <1>10, <1>a, ReturnIs DEF ReturnResult
<1>11. CASE ReturnFailed
  <2>1. CASE Created = {}
    BY <2>1, <1>11 DEF ReturnFailed, RecordFailedReturn, ReturnSet
  <2>2. CASE Created # {}
    BY <2>2, <1>11, <1>a, ReturnIs, NewestIsLatest DEF ReturnFailed, RecordFailedReturn, Latest
  <2> QED BY <2>1, <2>2
<1>12. CASE ProposePatch
  BY <1>12, <1>a DEF ProposePatch, ReturnSet
<1> QED BY <1>1, <1>2, <1>3, <1>4, <1>5, <1>6, <1>7, <1>8, <1>9, <1>10, <1>11, <1>12 DEF Thread

LEMMA QueuedAreNotes ==
  ASSUME NEW S, NEW q \in Seq(S) PROVE {q[i] : i \in DOMAIN q} \subseteq S
  OBVIOUS

LEMMA DiskStay == ASSUME IInv, Next PROVE DiskTypes'
<1>a. /\ TypeOK /\ InOrder /\ SlotFits /\ JobFits /\ DiskTypes /\ cur \in Task \cup {NoTask}
      /\ queue \in Seq(1..MaxNotes)
  BY TypesSplit DEF IInv, TypeOK
<1>1. CASE UNCHANGED disk
  BY <1>1, <1>a DEF DiskTypes, disk
<1>2. CASE DeleteParent
  BY <1>2, <1>a DEF DiskTypes, DeleteParent
<1>3. CASE Consumed
  <2>1. PICK c \in Consumer : ConsumeReturn(c)
    BY <1>3 DEF Consumed
  <2>2. chosen[c] \in Task
    BY <2>1, <1>a DEF ConsumeReturn, TypeOK
  <2>3. \A t \in Task : [continued EXCEPT ![t] = @ + 1] \in [Task -> Nat]
    BY <1>a DEF DiskTypes
  <2>4. continued' = continued \/ \E t \in Task : continued' = [continued EXCEPT ![t] = @ + 1]
    BY <2>1, <2>2 DEF ConsumeReturn
  <2>5. continued' \in [Task -> Nat]
    BY <2>3, <2>4, <1>a DEF DiskTypes
  <2> QED BY <2>1, <2>5, <1>a DEF ConsumeReturn, DiskTypes
<1>4. CASE Thread
  <2>1. task' \in [Task -> TaskStatus]
    <3>1. CASE BeginTurn
      BY <3>1, <1>a DEF BeginTurn, SetTask, DiskTypes, TaskStatus
    <3>2. CASE StatusSet
      BY <3>2, <1>a DEF StatusSet, SetTask, DiskTypes, TaskStatus
    <3> QED BY <3>1, <3>2, <1>4, <1>a, ThreadWrites
  <2>2. pend' \in [Task -> Link]
    BY <1>4, <1>a, ThreadWrites DEF LinkSet, DiskTypes
  <2>3. parent' = parent /\ returned' \in [Task -> Nat] /\ continued' = continued
    BY <1>4, <1>a, ThreadWrites DEF ReturnSet, DiskTypes
  <2>4. pausedTurn' \subseteq Task
    BY <1>4, <1>a, ThreadWrites DEF DiskTypes
  <2>5. said' \subseteq 1..MaxNotes
    <3>1. {queue[i] : i \in DOMAIN queue} \subseteq 1..MaxNotes
      BY <1>a, QueuedAreNotes
    <3>2. said' = said \/ said' = said \cup {queue[i] : i \in DOMAIN queue}
      BY <1>4, <1>a, ThreadWrites
    <3> QED BY <3>1, <3>2, <1>a DEF DiskTypes
  <2> QED BY <2>1, <2>2, <2>3, <2>4, <2>5, <1>a DEF DiskTypes
<1>5. CASE AsideSteps \/ Start \/ Decide \/ Fallen \/ Restart
  <2>1. UNCHANGED disk
    BY <1>5, <1>a, AsideIs DEF Aside, Start, Decide, Fallen, Restart
  <2> QED BY <2>1, <1>1
<1>6. CASE InShell
  <2>1. InShellWrites /\ inShell \in Task \cup {NoTask}
    BY <1>6, <1>a, InShellIs DEF TypeOK
  <2>2. task' \in [Task -> TaskStatus] /\ pend' \in [Task -> Link]
    BY <2>1, <1>a DEF InShellWrites, DiskTypes, TaskStatus, Link
  <2>3. pausedTurn' \subseteq Task
    BY <2>1, <1>a DEF InShellWrites, DiskTypes
  <2> QED BY <2>1, <2>2, <2>3, <1>a DEF InShellWrites, DiskTypes
<1> QED BY <1>2, <1>3, <1>4, <1>5, <1>6, Steps

LEMMA RunStay == ASSUME IInv, Next PROVE RunTypes'
<1>a. TypeOK /\ run \in [n : 1..MaxRuns, alive : BOOLEAN, ending : BOOLEAN] /\ MaxRuns \in Nat
  BY Numbers DEF IInv, TypeOK
<1>b. Shutdown => RunTypes'
  BY <1>a DEF Shutdown, RunTypes
<1>c. Down => RunTypes'
  BY <1>a DEF Down, RunTypes
<1> USE DEF slot, thread, shell, disk, history
<1>1. CASE Thread \/ InShell \/ DeleteParent \/ Consumed \/ Start \/ Decide
  BY <1>1, <1>a, ThreadFrames, InShellIs
     DEF InShellWrites, DeleteParent, Consumed, ConsumeReturn, Start, Decide, RunTypes
<1>2. CASE Restart
  <2>1. run' = [n |-> run.n + 1, alive |-> TRUE, ending |-> FALSE] /\ run.n < MaxRuns
    BY <1>2 DEF Restart
  <2>2. run.n \in Nat /\ run.n + 1 \in 1..MaxRuns
    BY <2>1, <1>a
  <2> QED BY <2>1, <2>2 DEF RunTypes
<1>3. CASE Fallen
  BY <1>3, <1>c DEF Fallen
<1>4. CASE Pause \/ Note \/ Resume \/ Recheck
  BY <1>4, <1>a DEF Pause, Note, Resume, Recheck, threadFrame, RunTypes
<1>5. CASE AskStop \/ BeginStop \/ SendStop \/ AskAgain \/ AwaitTurnEnd
  BY <1>5, <1>a DEF AskStop, BeginStop, SendStop, AskAgain, AwaitTurnEnd, RunTypes
<1>6. CASE EscalateToShutdown \/ (FinishStop /\ Gone) \/ StopForDelete \/ ShellEnds
  BY <1>6, <1>a, <1>b DEF EscalateToShutdown, FinishStop, StopForDelete, ShellEnds, RunTypes
<1>7. CASE \E c \in Consumer : FindReturn(c) \/ GiveUpContinuing(c)
  BY <1>7, <1>a DEF FindReturn, GiveUpContinuing, RunTypes
<1> QED BY <1>1, <1>2, <1>3, <1>4, <1>5, <1>6, <1>7, Steps DEF AsideSteps

\* The thread's own writes to the slot.
LEMMA ThreadSlots ==
  ASSUME Thread
  PROVE  \/ /\ pc' # "wait" /\ job' = job
            /\ \/ UNCHANGED slot
               \/ \E p \in BOOLEAN : SetPaused(p) /\ UNCHANGED <<pending, cancel, hold, queue>>
               \/ DrainNotes /\ queue' = <<>> /\ UNCHANGED <<st, pending, cancel, hold>>
         \/ \E d : /\ SettleSlot(d) /\ UNCHANGED disk
                   /\ \/ d = NoDecision
                      \/ d = PendingDecision(cur) /\ pc = "settle"
                      \/ d = [task |-> job.task, kind |-> job.kind] /\ Refused /\ pc = "err"
<1> USE DEF slot, Go
<1>1. CASE FailEarly \/ BeginTurn \/ TakePausedTurn \/ RefuseAnswer \/ RecordAnswer \/ ResumeTurn
           \/ FailResuming
  BY <1>1 DEF FailEarly, BeginTurn, TakePausedTurn, RefuseAnswer, RecordAnswer, ResumeTurn,
              FailResuming
<1>2. CASE HoldAtBoundary
  BY <1>2 DEF HoldAtBoundary
<1>3. CASE LookAtPause
  BY <1>3 DEF LookAtPause
<1>4. CASE FinishCancelledTurn \/ Round \/ SavePausedTurn \/ AwaitDecision \/ ProposePatch
  BY <1>4 DEF FinishCancelledTurn, Round, SavePausedTurn, AwaitDecision, ProposePatch, AskPlace,
              PausedFor, Decision
<1>5. CASE DrainNotes
  BY <1>5 DEF DrainNotes
<1>6. CASE ReturnResult \/ ReturnFailed
  BY <1>6 DEF ReturnResult, ReturnFailed
<1>7. CASE Settle
  BY <1>7 DEF Settle
<1>8. CASE RestoreRefused
  BY <1>8 DEF RestoreRefused
<1>9. CASE SettleNone
  BY <1>9 DEF SettleNone
<1> QED BY <1>1, <1>2, <1>3, <1>4, <1>5, <1>6, <1>7, <1>8, <1>9 DEF Thread

\* Where the thread is afterwards.
LEMMA ThreadPlaces ==
  ASSUME TypeOK, InOrder, SlotFits, JobFits, Thread
  PROVE  /\ pc' \in Place /\ pc # pc'
         /\ cur' \in Task \cup {NoTask}
         /\ job' = job \/ (job' = NoJob /\ pc' = "wait" /\ cur' = NoTask)
         /\ cur' = cur \/ pc = "wait" \/ pc' = "wait"
<1>a. /\ cur \in Task \cup {NoTask} /\ pc \in Place /\ job \in Job
      /\ NoTask \in Task \cup {NoTask} /\ pausedTurn \subseteq Task
  BY DEF TypeOK
<1> USE DEF Place, Go
<1>1. CASE FailEarly \/ BeginTurn \/ FailResuming
  BY <1>1, <1>a DEF FailEarly, BeginTurn, FailResuming
<1>2. CASE TakePausedTurn \/ RefuseAnswer
  BY <1>2, <1>a DEF TakePausedTurn, RefuseAnswer
<1>3. CASE RecordAnswer \/ ResumeTurn
  BY <1>3, <1>a DEF RecordAnswer, ResumeTurn
<1>4. CASE HoldAtBoundary \/ LookAtPause
  BY <1>4, <1>a DEF HoldAtBoundary, LookAtPause
<1>5. CASE FinishCancelledTurn \/ DrainNotes
  BY <1>5, <1>a DEF FinishCancelledTurn, DrainNotes
<1>6. CASE Round
  BY <1>6, <1>a DEF Round
<1>7. CASE SavePausedTurn
  BY <1>7, <1>a DEF SavePausedTurn, AskPlace, PausedFor, Decision
<1>8. CASE AwaitDecision \/ ProposePatch
  BY <1>8, <1>a DEF AwaitDecision, ProposePatch, AskPlace, PausedFor, Decision
<1>9. CASE ReturnResult \/ ReturnFailed
  BY <1>9, <1>a DEF ReturnResult, ReturnFailed
<1>10. CASE Settle \/ RestoreRefused \/ SettleNone
  BY <1>10, <1>a DEF Settle, RestoreRefused, SettleNone, SettleSlot
<1> QED BY <1>1, <1>2, <1>3, <1>4, <1>5, <1>6, <1>7, <1>8, <1>9, <1>10 DEF Thread

LEMMA PendingIs ==
  ASSUME TypeOK, JobFits, NEW d,
         \/ d = NoDecision
         \/ d = PendingDecision(cur) /\ pc = "settle"
         \/ d = [task |-> job.task, kind |-> job.kind] /\ Refused /\ pc = "err"
  PROVE  d \in Pending \cup {NoDecision}
<1>1. CASE d = PendingDecision(cur) /\ pc = "settle"
  <2>1. cur \in Task
    BY <1>1 DEF JobFits, TypeOK
  <2> QED BY <2>1, <1>1 DEF PendingDecision, Pending
<1>2. CASE d = [task |-> job.task, kind |-> job.kind] /\ Refused /\ pc = "err"
  <2>1. job.kind \in Decision
    BY <1>2 DEF Refused, Decision
  <2> QED BY <2>1, <1>2 DEF Pending, JobFits
<1> QED BY <1>1, <1>2

LEMMA GreatestOfSome ==
  ASSUME NEW n \in Nat, NEW S \in SUBSET (1..n), S # {}
  PROVE  \E k \in S : \A l \in S : l <= k
<1> DEFINE T == {n - k : k \in S}
<1>1. T \subseteq Nat /\ T # {}
  <2>1. \A k \in S : n - k \in Nat
    OBVIOUS
  <2>2. PICK k \in S : TRUE
    OBVIOUS
  <2>3. n - k \in T
    OBVIOUS
  <2> QED BY <2>1, <2>3
<1> HIDE DEF T
<1>2. PICK m \in T : \A k \in T : <<k, m>> \notin OpToRel(<, Nat)
  BY <1>1, NatLessThanWellFounded, WFMin, Zenon
<1>3. \A k \in T : ~(k < m)
  BY <1>1, <1>2, Zenon DEF OpToRel
<1>4. PICK k \in S : m = n - k
  BY DEF T
<1>5. \A l \in S : ~(n - l < n - k)
  BY <1>3, <1>4 DEF T
<1> QED BY <1>5

\* What a restart brings back is open; and if anything is, as only the newest task can,
\* it is brought back.
LEMMA RestoredIs ==
  ASSUME TypeOK, InOrder
  PROVE  /\ \/ RestoredDecision = NoDecision
            \/ \E t \in Task : /\ Open(t) /\ task[t] = "waiting" /\ pend[t] \in Decision
                               /\ RestoredDecision = [task |-> t, kind |-> pend[t]]
         /\ \A t \in Task : Open(t) /\ Latest(t) =>
              RestoredDecision = [task |-> t, kind |-> pend[t]]
<1>a. PICK k \in 0..MaxTasks : Created = 1..k
  BY DEF InOrder
<1>b. k \in Nat /\ Waiting \in SUBSET (1..k) /\ Waiting \subseteq Created /\ Waiting \subseteq Task
  BY <1>a, Numbers DEF Waiting, Created
<1>1. ASSUME Waiting # {}
      PROVE  NewestWaiting \in Waiting /\ \A u \in Waiting : u <= NewestWaiting
  <2>1. \E t \in Waiting : \A u \in Waiting : u <= t
    BY <1>1, <1>b, GreatestOfSome
  <2> QED BY <2>1 DEF NewestWaiting
<1>2. ASSUME Waiting # {}, RestoredDecision # NoDecision
      PROVE  \E t \in Task : /\ Open(t) /\ task[t] = "waiting" /\ pend[t] \in Decision
                             /\ RestoredDecision = [task |-> t, kind |-> pend[t]]
  <2>1. NewestWaiting \in Task /\ task[NewestWaiting] = "waiting"
    BY <1>1, <1>2, <1>b DEF Waiting
  <2>2. CASE PlanReviewIsDurable(NewestWaiting)
    BY <2>1, <2>2, <1>2 DEF RestoredDecision, Open, PlanReviewIsDurable, Decision
  <2>3. CASE ~PlanReviewIsDurable(NewestWaiting)
    BY <2>1, <2>3, <1>2 DEF RestoredDecision, Open, QuestionIsOpen, Decision
  <2> QED BY <2>2, <2>3
<1>3. Waiting = {} => RestoredDecision = NoDecision
  BY DEF RestoredDecision
<1>4. ASSUME NEW t \in Task, Open(t), Latest(t)
      PROVE  RestoredDecision = [task |-> t, kind |-> pend[t]]
  <2>1. t \in Waiting
    BY <1>4 DEF Waiting, Open, PlanReviewIsDurable, QuestionIsOpen
  <2>2. NewestWaiting \in Waiting /\ t <= NewestWaiting
    BY <2>1, <1>1
  <2>3. NewestWaiting <= t /\ t \in Nat /\ NewestWaiting \in Nat
    BY <2>2, <1>b, <1>a, <1>4 DEF Latest
  <2>4. NewestWaiting = t
    BY <2>2, <2>3
  <2> QED BY <2>1, <2>4, <1>4 DEF RestoredDecision, Open, PlanReviewIsDurable, QuestionIsOpen
<1> QED BY <1>2, <1>3, <1>4

LEMMA SlotTypesStay == ASSUME IInv, Next PROVE SlotTypes'
<1>a. /\ TypeOK /\ InOrder /\ SlotFits /\ JobFits /\ SlotTypes /\ job \in Job
      /\ notes \in 0..MaxNotes /\ MaxNotes \in Nat
  BY TypesSplit, Numbers DEF IInv, TypeOK
<1>b. ASSUME NEW S, NEW q \in Seq(S), NEW x \in S PROVE Append(q, x) \in Seq(S)
  OBVIOUS
<1>c. ASSUME QueueNote PROVE queue' \in Seq(1..MaxNotes)
  <2>1. notes + 1 \in 1..MaxNotes
    BY <1>a, <1>c DEF QueueNote
  <2>2. queue' = Append(queue, notes + 1)
    BY <1>c DEF QueueNote
  <2> QED BY <2>1, <2>2, <1>a, <1>b DEF SlotTypes
<1>d. <<>> \in Seq(1..MaxNotes) /\ "idle" \in State /\ "shutting_down" \in State
      /\ "running" \in State /\ "paused" \in State /\ "waiting" \in State
  BY DEF State
<1>e. Shutdown => SlotTypes'
  BY <1>a, <1>d DEF Shutdown, CancelTurn, SlotTypes
<1> USE DEF slot, thread, shell, disk, history
<1>1. CASE Thread
  <2>1. CASE \E p \in BOOLEAN : SetPaused(p) /\ UNCHANGED <<pending, cancel, hold, queue>>
    BY <2>1, <1>a, <1>d DEF SetPaused, SlotTypes
  <2>2. CASE UNCHANGED slot \/ (queue' = <<>> /\ UNCHANGED <<st, pending, cancel, hold>>)
    BY <2>2, <1>a, <1>d DEF SlotTypes
  <2>3. ASSUME NEW d, SettleSlot(d), d \in Pending \cup {NoDecision} PROVE SlotTypes'
    BY <2>3, <1>a, <1>d DEF SettleSlot, SlotTypes
  <2> QED BY <2>1, <2>2, <2>3, <1>1, <1>a, ThreadSlots, PendingIs
<1>2. CASE Start \/ Decide
  <2>1. \E j : Carried(j) \in {<<>>, queue} /\ queue' = Carried(j)
    BY <1>2 DEF Start, Decide, HandOver, Carried
  <2>2. cancel' = FALSE /\ hold' = FALSE /\ st' = "running" /\ pending' \in {pending, NoDecision}
    BY <1>2 DEF Start, Decide, HandOver
  <2> QED BY <2>1, <2>2, <1>a, <1>d DEF SlotTypes
<1>3. CASE Restart
  <2>1. RestoredDecision \in Pending \cup {NoDecision}
    BY <1>a, RestoredIs DEF Pending
  <2> QED BY <2>1, <1>3, <1>a, <1>d DEF Restart, SlotTypes
<1>4. CASE Fallen
  BY <1>4, <1>d DEF Fallen, Down, SlotTypes
<1>5. CASE DeleteParent \/ Consumed \/ InShell
  BY <1>5, <1>a, InShellIs DEF DeleteParent, Consumed, ConsumeReturn, InShellWrites, SlotTypes
<1>6. CASE Note \/ Resume
  BY <1>6, <1>a, <1>c DEF Note, Resume, SlotTypes
<1>7. CASE Pause \/ Recheck \/ AskStop \/ BeginStop \/ AskAgain \/ AwaitTurnEnd
  BY <1>7, <1>a DEF Pause, Recheck, AskStop, BeginStop, AskAgain, AwaitTurnEnd, SlotTypes
<1>8. CASE SendStop
  BY <1>8, <1>a DEF SendStop, CancelTurn, SlotTypes
<1>9. CASE EscalateToShutdown \/ (FinishStop /\ Gone) \/ StopForDelete \/ ShellEnds
  BY <1>9, <1>a, <1>e DEF EscalateToShutdown, FinishStop, StopForDelete, ShellEnds, SlotTypes
<1>10. CASE \E c \in Consumer : FindReturn(c) \/ GiveUpContinuing(c)
  BY <1>10, <1>a DEF FindReturn, GiveUpContinuing, SlotTypes
<1> QED BY <1>1, <1>2, <1>3, <1>4, <1>5, <1>6, <1>7, <1>8, <1>9, <1>10, Steps DEF AsideSteps

LEMMA ThreadTypesStay == ASSUME IInv, Next PROVE ThreadTypes'
<1>a. /\ TypeOK /\ InOrder /\ SlotFits /\ JobFits /\ ThreadTypes
  BY TypesSplit DEF IInv
<1>b. NoJob \in Job /\ StartJob \in Job /\ "wait" \in Place /\ "held" \in Place
  BY DEF NoJob, StartJob, Job, Place, Decision
<1>1. CASE Thread
  BY <1>1, <1>a, <1>b, ThreadPlaces DEF ThreadTypes
<1>2. CASE AsideSteps
  BY <1>2, <1>a, <1>b, AsideIs DEF Aside, ThreadTypes
<1>3. CASE Start \/ Decide
  <2>1. PICK j : Taken(j)
    BY <1>3, TakenIs
  <2>2. j \in Job
    BY <2>1, <1>a, <1>b DEF Taken, SlotFits, Pending, Job
  <2> QED BY <2>1, <2>2, <1>a DEF Taken, ThreadTypes
<1>4. CASE Fallen
  BY <1>4, <1>b DEF Fallen, Down, ThreadTypes
<1>5. CASE Restart \/ DeleteParent \/ Consumed \/ InShell
  BY <1>5, <1>a, InShellIs
     DEF Restart, DeleteParent, Consumed, ConsumeReturn, InShellWrites, ThreadTypes, thread
<1> QED BY <1>1, <1>2, <1>3, <1>4, <1>5, Steps

LEMMA ShellTypesStay == ASSUME IInv, Next PROVE ShellTypes'
<1>a. /\ TypeOK /\ ShellTypes /\ NoEsc \in [at : EscPlace, run : 0..MaxRuns, itsTurn : BOOLEAN]
      /\ run.n \in 0..MaxRuns
  <2>1. MaxRuns \in Nat /\ run \in [n : 1..MaxRuns, alive : BOOLEAN, ending : BOOLEAN]
    BY Numbers DEF IInv, TypeOK
  <2>2. NoEsc \in [at : EscPlace, run : 0..MaxRuns, itsTurn : BOOLEAN] /\ run.n \in 0..MaxRuns
    BY <2>1 DEF NoEsc, EscPlace
  <2> QED BY <2>2, TypesSplit DEF IInv
<1>b. /\ \A p \in EscPlace : Escalate(p) => esc' \in [at : EscPlace, run : 0..MaxRuns, itsTurn : BOOLEAN]
      /\ EscDone => esc' \in [at : EscPlace, run : 0..MaxRuns, itsTurn : BOOLEAN]
  BY <1>a DEF Escalate, EscDone, ShellTypes
<1> USE DEF slot, thread, shell, disk, history, EscPlace
<1>1. CASE Thread \/ Restart \/ Pause \/ Note \/ Resume \/ Recheck
  BY <1>1, <1>a, ThreadFrames DEF Restart, Pause, Note, Resume, Recheck, threadFrame, ShellTypes
<1>2. CASE Start \/ Decide
  BY <1>2, <1>a DEF Start, Decide, HandOver, ShellTypes
<1>3. CASE Fallen
  BY <1>3, <1>a DEF Fallen, ShellTypes
<1>4. CASE DeleteParent
  BY <1>4, <1>a DEF DeleteParent, ShellTypes
<1>5. CASE \E c \in Consumer : FindReturn(c) \/ GiveUpContinuing(c) \/ ConsumeReturn(c)
  BY <1>5, <1>a DEF FindReturn, GiveUpContinuing, ConsumeReturn, ShellTypes
<1>6. CASE AskStop
  BY <1>6, <1>a DEF AskStop, escFrame, ShellTypes
<1>7. CASE BeginStop \/ AskAgain \/ AwaitTurnEnd
  BY <1>7, <1>a, <1>b DEF BeginStop, AskAgain, AwaitTurnEnd, escFrame, ShellTypes
<1>8. CASE SendStop
  <2>1. [esc EXCEPT !.at = "await", !.itsTurn = TRUE]
          \in [at : EscPlace, run : 0..MaxRuns, itsTurn : BOOLEAN]
    BY <1>a DEF ShellTypes
  <2> QED BY <2>1, <1>8, <1>a, <1>b DEF SendStop, escFrame, ShellTypes
<1>9. CASE EscalateToShutdown \/ (FinishStop /\ Gone)
  BY <1>9, <1>a, <1>b DEF EscalateToShutdown, FinishStop, ShellTypes
<1>10. CASE StopForDelete \/ ShellEnds
  BY <1>10, <1>a DEF StopForDelete, ShellEnds, ShellTypes
<1>11. CASE InShell
  <2>1. inShell' \in Task \cup {NoTask}
    BY <1>11, <1>a, InShellIs DEF InShellWrites, ShellTypes, TypeOK
  <2> QED BY <2>1, <1>11, <1>a, InShellIs DEF InShellWrites, ShellTypes
<1> QED BY <1>1, <1>2, <1>3, <1>4, <1>5, <1>6, <1>7, <1>8, <1>9, <1>10, <1>11, Steps
        DEF AsideSteps, Consumed

\* The counts of what was handed over, accepted and asked for.
Counted ==
  /\ jobs \in 0..MaxJobs /\ notes \in 0..MaxNotes /\ mine \subseteq 1..MaxNotes
  /\ stops \in 0..MaxStops

LEMMA CountedStay == ASSUME IInv, Next PROVE Counted'
<1>a. TypeOK /\ Counted /\ MaxJobs \in Nat /\ MaxNotes \in Nat /\ MaxStops \in Nat
  BY Numbers DEF IInv, TypeOK, Counted
<1>b. QueueNote => notes' \in 0..MaxNotes /\ mine' \subseteq 1..MaxNotes
  BY <1>a DEF QueueNote, Counted
<1> USE DEF slot, thread, shell, disk, history
<1>1. CASE Thread \/ InShell \/ Restart \/ Pause \/ Recheck \/ DeleteParent
  BY <1>1, <1>a, ThreadFrames, InShellIs
     DEF InShellWrites, Restart, Pause, Recheck, threadFrame, DeleteParent, Counted
<1>2. CASE Note \/ Resume
  BY <1>2, <1>a, <1>b DEF Note, Resume, Counted
<1>3. CASE Start \/ Decide
  BY <1>3, <1>a DEF Start, Decide, HandOver, Counted
<1>4. CASE Fallen
  BY <1>4, <1>a DEF Fallen, Down, Counted
<1>5. CASE \E c \in Consumer : FindReturn(c) \/ GiveUpContinuing(c) \/ ConsumeReturn(c)
  BY <1>5, <1>a DEF FindReturn, GiveUpContinuing, ConsumeReturn, Counted
<1>6. CASE AskStop
  BY <1>6, <1>a DEF AskStop, escFrame, Counted
<1>7. CASE BeginStop \/ SendStop \/ AskAgain \/ AwaitTurnEnd
  BY <1>7, <1>a DEF BeginStop, SendStop, AskAgain, AwaitTurnEnd, escFrame, Counted
<1>8. CASE EscalateToShutdown \/ (FinishStop /\ Gone) \/ StopForDelete \/ ShellEnds
  BY <1>8, <1>a DEF EscalateToShutdown, FinishStop, StopForDelete, ShellEnds, Shutdown, Counted
<1> QED BY <1>1, <1>2, <1>3, <1>4, <1>5, <1>6, <1>7, <1>8, Steps DEF AsideSteps, Consumed

LEMMA HistoryTypesStay == ASSUME IInv, Next PROVE HistoryTypes'
<1>1. cutOff' \subseteq Task
  <2>a. TypeOK /\ cutOff \subseteq Task
    BY DEF IInv, TypeOK
  <2>1. cutOff' = cutOff \/ (Fallen /\ cutOff' = cutOff \cup Unreturned)
    BY <2>a, Steps, AsideIs, TakenIs, ThreadFrames, InShellIs
       DEF Aside, Taken, Restart, DeleteParent, Consumed, ConsumeReturn, Fallen, Down, history,
           InShellWrites
  <2> QED BY <2>1, <2>a DEF Unreturned
<1>2. elsewhere' \subseteq Task
  <2>a. TypeOK /\ elsewhere \subseteq Task /\ pausedTurn \subseteq Task
    BY DEF IInv, TypeOK
  <2>1. elsewhere' = elsewhere \/ \E t \in pausedTurn : elsewhere' = elsewhere \cup {t}
    BY <2>a, Steps, AsideIs, TakenIs, ThreadFrames, InShellIs
       DEF Aside, Taken, Restart, DeleteParent, Consumed, ConsumeReturn, Fallen, history,
           InShellWrites
  <2> QED BY <2>1, <2>a
<1> QED BY <1>1, <1>2, CountedStay DEF HistoryTypes, Counted

LEMMA TypesStay == ASSUME IInv, Next PROVE TypeOK'
  BY DiskStay, RunStay, SlotTypesStay, ThreadTypesStay, ShellTypesStay, HistoryTypesStay, TypesSplit

-----------------------------------------------------------------------------
(* The newest task and the slot *)

\* Only a new turn creates a task.
LEMMA CreatedStays ==
  ASSUME IInv, Next, ~(Thread /\ BeginTurn) PROVE Created' = Created
<1>a. /\ TypeOK /\ InOrder /\ SlotFits /\ JobFits /\ ShellFits /\ task \in [Task -> TaskStatus]
  BY DEF IInv, TypeOK
<1>1. CASE task' = task
  BY <1>1 DEF Created
<1>2. CASE Thread
  <2>1. CASE \E s \in {"running", "paused", "waiting", "ended"} : cur \in Task /\ SetTask(cur, s)
    <3>1. cur \in Created
      BY <2>1, <1>a, Numbers DEF JobFits, ShellFits, Owned, Latest
    <3> QED BY <2>1, <3>1, <1>a DEF SetTask, Created
  <2> QED BY <2>1, <1>1, <1>2, <1>a, ThreadWrites DEF StatusSet
<1>3. CASE AsideSteps \/ Start \/ Decide \/ Fallen \/ Restart \/ DeleteParent \/ Consumed
  <2>1. task' = task
    BY <1>3, <1>a, AsideIs DEF Aside, Start, Decide, Fallen, Restart, DeleteParent, Consumed,
                               ConsumeReturn, disk
  <2> QED BY <2>1, <1>1
<1>4. CASE InShell
  <2>1. CASE inShell = NoTask
    BY <2>1, <1>1, <1>4, InShellIs DEF InShellWrites
  <2>2. CASE inShell # NoTask
    <3>1. inShell \in Created
      BY <2>2, <1>a DEF ShellFits
    <3>2. task' = task \/ \E v \in {"ended", "running", "waiting"} : task' = [task EXCEPT ![inShell] = v]
      BY <1>4, InShellIs DEF InShellWrites
    <3> QED BY <3>1, <3>2, <1>a DEF Created
  <2> QED BY <2>1, <2>2
<1> QED BY <1>2, <1>3, <1>4, Steps

LEMMA BeginsNewest ==
  ASSUME IInv, BeginTurn
  PROVE  /\ InOrder'
         /\ \E t \in Task : /\ cur' = t /\ task' = [task EXCEPT ![t] = "running"]
                            /\ task[t] = "none" /\ Latest(t)'
                            /\ Created' = Created \cup {t} /\ \A u \in Created : u < t
<1>a. TypeOK /\ InOrder /\ task \in [Task -> TaskStatus]
  BY DEF IInv, TypeOK
<1>1. PICK t \in Task : t = Cardinality(Created) + 1 /\ SetTask(t, "running") /\ cur' = t
  BY DEF BeginTurn
<1>2. /\ task[t] = "none" /\ \A u \in Created : u < t
      /\ Created \cup {t} = 1..t /\ t \in 0..MaxTasks
  BY <1>1, <1>a, NextTask
<1>3. Created' = Created \cup {t}
  BY <1>1, <1>a DEF SetTask, Created
<1>4. \A u \in Created' : u <= t
  BY <1>2, <1>3, Numbers DEF Task, Created
<1>5. InOrder'
  BY <1>2, <1>3 DEF InOrder
<1>6. Latest(t)'
  BY <1>3, <1>4 DEF Latest
<1> QED BY <1>1, <1>2, <1>3, <1>5, <1>6 DEF SetTask

LEMMA OrderStays == ASSUME IInv, Next PROVE InOrder'
<1>1. CASE BeginTurn
  BY <1>1, BeginsNewest
<1>2. CASE ~BeginTurn
  BY <1>2, CreatedStays DEF IInv, InOrder
<1> QED BY <1>1, <1>2

\* What the shell's route has taken up stays known.
LEMMA ElsewhereGrows == ASSUME IInv, Next PROVE elsewhere \subseteq elsewhere'
<1>a. TypeOK
  BY DEF IInv
<1> QED BY <1>a, Steps, AsideIs, TakenIs, ThreadFrames, InShellIs
        DEF Aside, Taken, Restart, DeleteParent, Consumed, ConsumeReturn, Fallen, history,
            InShellWrites

LEMMA OwnedStays ==
  ASSUME IInv, Next, ~BeginTurn, NEW t, Owned(t) PROVE Owned(t)'
  BY CreatedStays, LatestSame, ElsewhereGrows DEF Owned

\* The slot's decision is of a task that is the driver's, and nobody else moves its status.
LEMMA SlotStays == ASSUME IInv, Next PROVE SlotFits'
<1>a. /\ TypeOK /\ InOrder /\ SlotFits /\ JobFits /\ ShellFits /\ OpenFits /\ st \in State
      /\ pending \in Pending \cup {NoDecision} /\ run \in [n : 1..MaxRuns, alive : BOOLEAN, ending : BOOLEAN]
  BY DEF IInv, TypeOK
<1>b. ASSUME ~BeginTurn, NEW t, Owned(t) PROVE Owned(t)'
  BY <1>b, OwnedStays
<1>c. SlotFits => (BeginTurn => st \notin {"idle", "waiting"})
  BY DEF BeginTurn, SlotFits
<1> USE DEF slot, thread, shell, disk, history
<1>1. CASE AsideSteps
  <2>1. Aside
    BY <1>1, <1>a, AsideIs
  <2>2. ~Up => queue' = queue /\ mine' = mine /\ cancel' = cancel
    <3>1. CASE Pause \/ Note \/ Resume \/ Recheck
      BY <3>1 DEF Pause, Note, Resume, Recheck, threadFrame
    <3>2. CASE AskStop \/ BeginStop \/ AskAgain \/ AwaitTurnEnd
      BY <3>2 DEF AskStop, BeginStop, AskAgain, AwaitTurnEnd, escFrame
    <3>3. CASE SendStop \/ EscalateToShutdown \/ (FinishStop /\ Gone) \/ StopForDelete \/ ShellEnds
      BY <3>3 DEF SendStop, EscalateToShutdown, FinishStop, StopForDelete, ShellEnds, Gone, escFrame
    <3>4. CASE \E c \in Consumer : FindReturn(c) \/ GiveUpContinuing(c)
      BY <3>4 DEF FindReturn, GiveUpContinuing
    <3> QED BY <1>1, <3>1, <3>2, <3>3, <3>4 DEF AsideSteps
  <2> QED BY <2>1, <2>2, <1>a, <1>b, <1>c DEF Aside, SlotFits
<1>2. CASE Start \/ Decide
  <2>1. PICK j : Taken(j)
    BY <1>2, TakenIs
  <2>2. j.kind # "none"
    BY <2>1, <1>a DEF Taken, SlotFits, Pending, StartJob, Decision
  <2> QED BY <2>1, <2>2, <1>a DEF Taken, SlotFits, Up
<1>3. CASE Fallen
  BY <1>3 DEF Fallen, Down, SlotFits, Up, NoJob
<1>4. CASE Restart
  <2>1. Up' /\ UNCHANGED <<task, pend, job, pc, cur>> /\ ~Up
    BY <1>4 DEF Restart, Up
  <2>2. CASE RestoredDecision = NoDecision
    BY <2>1, <2>2, <1>4, <1>a DEF Restart, SlotFits
  <2>3. CASE RestoredDecision # NoDecision
    <3>1. PICK t \in Task : /\ Open(t) /\ task[t] = "waiting" /\ pend[t] \in Decision
                            /\ RestoredDecision = [task |-> t, kind |-> pend[t]]
      BY <2>3, <1>a, RestoredIs
    <3>2. Owned(t)'
      BY <3>1, <2>1, <1>a, <1>b DEF OpenFits, Owned, BeginTurn
    <3>3. pending' = [task |-> t, kind |-> pend[t]] /\ st' = "waiting" /\ job.kind = "none"
      BY <3>1, <2>3, <2>1, <1>4, <1>a DEF Restart, SlotFits
    <3> QED BY <3>1, <3>2, <3>3, <2>1, <1>a DEF SlotFits, Pending
  <2> QED BY <2>2, <2>3
<1>5. CASE DeleteParent \/ Consumed
  <2>1. UNCHANGED <<run, slot, job, pc, cur, task, pend, mine>>
    BY <1>5 DEF DeleteParent, Consumed, ConsumeReturn
  <2> QED BY <2>1, <1>a, <1>b, <1>c DEF SlotFits, Up
<1>6. CASE Thread
  <2>1. Up /\ Up' /\ job.kind # "none" /\ st \notin {"idle", "waiting"}
    <3>1. Up /\ Up' /\ job.kind # "none"
      BY <1>6, <1>a, ThreadFrames
         DEF Up, SlotFits, Thread, FailEarly, BeginTurn, TakePausedTurn, RefuseAnswer, RecordAnswer,
             ResumeTurn, FailResuming, HoldAtBoundary, LookAtPause, FinishCancelledTurn, DrainNotes,
             Round, SavePausedTurn, AwaitDecision, ProposePatch, AskPlace, PausedFor, Decision,
             ReturnResult, Settle, RestoreRefused, ReturnFailed, SettleNone
    <3> QED BY <3>1, <1>a DEF SlotFits
  <2>2. ASSUME NEW d, SettleSlot(d), UNCHANGED disk,
               \/ d = NoDecision
               \/ d = PendingDecision(cur) /\ pc = "settle"
               \/ d = [task |-> job.task, kind |-> job.kind] /\ Refused /\ pc = "err"
        PROVE  SlotFits'
    <3>1. d # NoDecision => /\ d \in Pending /\ Owned(d.task)
                            /\ task[d.task] = "waiting" /\ pend[d.task] = d.kind
      <4>1. CASE d = PendingDecision(cur) /\ pc = "settle"
        BY <4>1, <1>a DEF PendingDecision, JobFits, TypeOK, Pending
      <4>2. CASE d = [task |-> job.task, kind |-> job.kind] /\ Refused /\ pc = "err"
        BY <4>2, <1>a DEF Refused, PlanReviewIsDurable, QuestionIsOpen, JobFits, Decision, Pending
      <4> QED BY <2>2, <4>1, <4>2
    <3>2. UNCHANGED <<task, pend>> /\ ~BeginTurn
      BY <2>2 DEF SettleSlot, BeginTurn, Go
    <3>3. job'.kind = "none" /\ pc' = "wait" /\ cur' = NoTask
      BY <2>2 DEF SettleSlot, NoJob, Go
    <3>4. \/ st' = "shutting_down"
          \/ st' = "idle"
          \/ st' = "waiting" /\ d # NoDecision /\ pending' = d
      BY <2>2 DEF SettleSlot
    <3> QED BY <3>1, <3>2, <3>3, <3>4, <2>1, <1>b DEF SlotFits
  <2>3. ASSUME pc' # "wait", job' = job, st' \in {st, "running", "paused"}
        PROVE  SlotFits'
    BY <2>3, <2>1 DEF SlotFits
  <2> QED BY <2>2, <2>3, <1>6, ThreadSlots DEF SetPaused
<1>7. CASE InShell
  <2>1. InShellWrites /\ UNCHANGED <<run, st, pending, cancel, queue, job, pc, cur, mine>>
    BY <1>7, InShellIs DEF InShellWrites
  <2>2. ASSUME st = "waiting"
        PROVE  task'[pending.task] = task[pending.task] /\ pend'[pending.task] = pend[pending.task]
    BY <2>1, <2>2, <1>a DEF InShellWrites, ShellFits, SlotFits, Pending, TypeOK
  <2> QED BY <2>1, <2>2, <1>a, <1>b, <1>c DEF SlotFits, Up
<1> QED BY <1>1, <1>2, <1>3, <1>4, <1>5, <1>6, <1>7, Steps

\* The thread works on the newest task, and a step sees how far the last one came.
LEMMA JobStays == ASSUME IInv, Next PROVE JobFits'
<1>a. /\ SlotFits /\ JobFits /\ ShellFits /\ TypeOK /\ task \in [Task -> TaskStatus] /\ pend \in [Task -> Link]
      /\ cur \in Task \cup {NoTask} /\ job \in Job /\ NoTask \notin Task /\ pausedTurn \subseteq Task
  BY Numbers DEF IInv, TypeOK
<1>b. ASSUME ~BeginTurn, NEW t, Owned(t) PROVE Owned(t)'
  BY <1>b, OwnedStays
<1>c. BeginTurn => pc = "wait" /\ job.kind = "start" /\ pc' = "boundary"
  BY DEF BeginTurn, Go
<1> USE DEF Go, SetTask
<1>1. CASE AsideSteps
  <2>1. Aside /\ ~BeginTurn
    BY <1>1, <1>a, <1>c, AsideIs DEF Aside
  <2> QED BY <2>1, <1>a, <1>b DEF Aside, disk, JobFits, Turning
<1>2. CASE Start \/ Decide
  <2>1. PICK j : Taken(j)
    BY <1>2, TakenIs
  <2>2. /\ UNCHANGED <<task, pend, pausedTurn, pc, cur>> /\ ~BeginTurn /\ job' = j
        /\ pc = "wait" /\ cur = NoTask
    BY <2>1, <1>a, <1>c DEF Taken, SlotFits, disk
  <2>3. j.kind \in Decision => j.task \in Task /\ Owned(j.task) /\ task[j.task] = "waiting"
                               /\ pend[j.task] = j.kind
    BY <2>1, <1>a DEF Taken, SlotFits, StartJob, Decision, Pending
  <2> QED BY <2>2, <2>3, <1>b DEF JobFits, Turning
<1>3. CASE Fallen
  BY <1>3 DEF Fallen, Down, JobFits, NoJob, Decision, Turning
<1>4. CASE Restart \/ DeleteParent \/ Consumed
  <2>1. UNCHANGED <<task, pend, pausedTurn, job, pc, cur>> /\ ~BeginTurn
    BY <1>4, <1>c DEF Restart, DeleteParent, Consumed, ConsumeReturn, disk, thread
  <2> QED BY <2>1, <1>a, <1>b DEF JobFits
<1>5. CASE Thread /\ ~BeginTurn
  <2>2. \A t : Owned(t) => Owned(t)'
    BY <1>5, <1>b
  <2>3. job.kind \in Decision => job.task \in Task /\ Owned(job.task)
    BY <2>2, <1>a DEF JobFits
  <2>4. cur # NoTask => Owned(cur) /\ cur \in Task /\ (job.kind \in Decision => cur = job.task)
    BY <2>2, <1>a DEF JobFits
  <2> USE <1>a, <2>2, <2>3, <2>4
  <2>5. CASE FailEarly \/ FailResuming
    BY <2>5 DEF FailEarly, FailResuming, disk, JobFits, Turning
  <2>6. CASE TakePausedTurn
    BY <2>6 DEF TakePausedTurn, JobFits, Turning, Decision
  <2>7. CASE RefuseAnswer \/ RecordAnswer
    BY <2>7 DEF RefuseAnswer, RecordAnswer, JobFits, Turning
  <2>8. CASE ResumeTurn
    BY <2>8 DEF ResumeTurn, JobFits, Turning
  <2>9. CASE HoldAtBoundary
    BY <2>9 DEF HoldAtBoundary, JobFits, Turning
  <2>10. CASE LookAtPause
    BY <2>10 DEF LookAtPause, JobFits, Turning
  <2>11. CASE FinishCancelledTurn \/ DrainNotes
    BY <2>11 DEF FinishCancelledTurn, DrainNotes, JobFits, Turning
  <2>12. CASE Round
    BY <2>12 DEF Round, JobFits, Turning
  <2>13. CASE SavePausedTurn
    BY <2>13 DEF SavePausedTurn, JobFits, Turning, AskPlace, PausedFor, Decision
  <2>14. CASE AwaitDecision
    BY <2>14 DEF AwaitDecision, JobFits, Turning, AskPlace, PausedFor, Decision
  <2>15. CASE ReturnResult
    BY <2>15 DEF ReturnResult, JobFits, Turning
  <2>16. CASE Settle \/ SettleNone
    BY <2>16 DEF Settle, SettleNone, SettleSlot, JobFits, Turning, NoJob, Decision
  <2>17. CASE RestoreRefused
    BY <2>17 DEF RestoreRefused, SettleSlot, disk, JobFits, Turning, NoJob, Decision
  <2>18. CASE ReturnFailed
    BY <2>18 DEF ReturnFailed, JobFits, Turning
  <2>19. CASE ProposePatch
    BY <2>19 DEF ProposePatch, JobFits, Turning
  <2> QED BY <1>5, <2>5, <2>6, <2>7, <2>8, <2>9, <2>10, <2>11, <2>12, <2>13, <2>14, <2>15, <2>16,
             <2>17, <2>18, <2>19 DEF Thread
<1>6. CASE BeginTurn
  <2>1. PICK t \in Task : cur' = t /\ task' = [task EXCEPT ![t] = "running"] /\ Latest(t)'
    BY <1>6, BeginsNewest
  <2>2. pc' = "boundary" /\ job' = job /\ job.kind = "start"
    BY <1>6 DEF BeginTurn
  <2> QED BY <2>1, <2>2, <1>a DEF JobFits, Turning, Decision, Owned
<1>7. CASE InShell
  <2>1. /\ InShellWrites /\ UNCHANGED <<job, pc, cur>> /\ ~BeginTurn
        /\ \/ inShell = NoTask
           \/ inShell # cur /\ (job.kind \in Decision => inShell # job.task)
    BY <1>7, <1>a, <1>c, InShellIs DEF InShellWrites, ShellFits, thread
  <2>2. /\ \A t \in Task : t = inShell \/ (task'[t] = task[t] /\ pend'[t] = pend[t])
        /\ inShell = NoTask => UNCHANGED <<task, pend>>
        /\ pausedTurn' \subseteq pausedTurn \cup ({inShell} \ {NoTask})
    BY <2>1, <1>a DEF InShellWrites
  <2>3. cur # NoTask => cur \in Task /\ task'[cur] = task[cur] /\ pend'[cur] = pend[cur]
                        /\ (cur \in pausedTurn' => cur \in pausedTurn)
    BY <2>1, <2>2, <1>a
  <2>4. job.kind \in Decision => task'[job.task] = task[job.task] /\ pend'[job.task] = pend[job.task]
    BY <2>1, <2>2, <1>a DEF JobFits
  <2> QED BY <2>1, <2>3, <2>4, <1>a, <1>b DEF JobFits
<1> QED BY <1>1, <1>2, <1>3, <1>4, <1>5, <1>6, <1>7, Steps

\* What a step of the thread leaves of the slot's state.
LEMMA ThreadKeepsSlot ==
  ASSUME IInv, Thread
  PROVE  /\ Up /\ Up' /\ job.kind # "none" /\ st \notin {"idle", "waiting"}
         /\ pc' # "wait" => st' \notin {"idle", "waiting"}
<1>1. SlotFits
  BY DEF IInv
<1>2. Up /\ Up'
  BY ThreadFrames DEF Up
<1>3. job.kind # "none"
  BY <1>1
     DEF SlotFits, Thread, FailEarly, BeginTurn, TakePausedTurn, RefuseAnswer, RecordAnswer,
         ResumeTurn, FailResuming, HoldAtBoundary, LookAtPause, FinishCancelledTurn, DrainNotes,
         Round, SavePausedTurn, AwaitDecision, ProposePatch, AskPlace, PausedFor, Decision,
         ReturnResult, Settle, RestoreRefused, ReturnFailed, SettleNone
<1>4. st \notin {"idle", "waiting"}
  BY <1>1, <1>3 DEF SlotFits
<1>5. pc' # "wait" => st' \in {st, "running", "paused"}
  BY ThreadSlots DEF SettleSlot, SetPaused, slot, Go
<1> QED BY <1>2, <1>3, <1>4, <1>5

\* The task the shell's route runs is none the driver is at, whatever either does next.
LEMMA ShellStays == ASSUME IInv, Next PROVE ShellFits'
<1>a. /\ TypeOK /\ InOrder /\ SlotFits /\ JobFits /\ ShellFits
      /\ task \in [Task -> TaskStatus] /\ pend \in [Task -> Link] /\ pausedTurn \subseteq Task
      /\ cur \in Task \cup {NoTask} /\ inShell \in Task \cup {NoTask} /\ NoTask \notin Task
      /\ Created \subseteq Task
  BY Numbers DEF IInv, TypeOK, Created
<1>b. Created \subseteq Created'
  BY CreatedStays, BeginsNewest
<1>c. ASSUME UNCHANGED <<task, pend, elsewhere>>, inShell' \in {inShell, NoTask},
             inShell # NoTask => /\ inShell # cur' /\ (job'.kind \in Decision => inShell # job'.task)
                                 /\ (st' = "waiting" => inShell # pending'.task)
      PROVE  ShellFits'
  <2>1. elsewhere' \subseteq Created'
    BY <1>a, <1>b, <1>c DEF ShellFits
  <2> QED BY <2>1, <1>c, <1>a DEF ShellFits
<1>1. CASE AsideSteps
  <2>1. Aside
    BY <1>1, <1>a, AsideIs
  <2>2. st' = "waiting" => st = "waiting"
    BY <2>1 DEF Aside
  <2> QED BY <2>1, <2>2, <1>a, <1>c DEF Aside, ShellFits, disk
<1>2. CASE Start \/ Decide
  <2>1. PICK j : Taken(j)
    BY <1>2, TakenIs
  <2>2. j.kind \in Decision => st = "waiting" /\ j.task = pending.task
    BY <2>1 DEF Taken, StartJob, Decision
  <2> QED BY <2>1, <2>2, <1>a, <1>c DEF Taken, ShellFits, disk
<1>3. CASE Fallen
  BY <1>3, <1>a, <1>c DEF Fallen, Down, NoJob, Decision, disk
<1>4. CASE Restart
  <2>1. /\ UNCHANGED <<task, pend, elsewhere, inShell, job, cur>>
        /\ st' = "waiting" => RestoredDecision # NoDecision /\ pending' = RestoredDecision
    BY <1>4 DEF Restart, disk, thread, shell, history
  <2>2. ASSUME RestoredDecision # NoDecision, inShell # NoTask PROVE inShell # RestoredDecision.task
    BY <2>2, <1>a, RestoredIs DEF ShellFits, Decision
  <2> QED BY <2>1, <2>2, <1>a, <1>c DEF ShellFits
<1>5. CASE DeleteParent \/ Consumed
  <2>1. UNCHANGED <<task, pend, elsewhere, inShell, job, cur, st, pending>>
    BY <1>5 DEF DeleteParent, Consumed, ConsumeReturn, slot, thread, history
  <2> QED BY <2>1, <1>a, <1>c DEF ShellFits
<1>6. CASE Thread
  <2>1. UNCHANGED <<elsewhere, inShell>> /\ elsewhere \subseteq Created'
    BY <1>6, <1>a, <1>b, ThreadFrames DEF shell, history, ShellFits
  <2> SUFFICES ASSUME inShell # NoTask
               PROVE  /\ task'[inShell] = task[inShell] /\ pend'[inShell] = pend[inShell]
                      /\ inShell # cur' /\ (job'.kind \in Decision => inShell # job'.task)
                      /\ st' = "waiting" => inShell # pending'.task
    BY <2>1, <1>a DEF ShellFits
  <2>2. inShell \in Created /\ inShell \in Task /\ inShell # cur
    BY <1>a DEF ShellFits
  <2>3. pend'[inShell] = pend[inShell]
    BY <2>2, <1>6, <1>a, ThreadWrites DEF LinkSet
  <2>4. CASE BeginTurn
    <3>1. PICK t \in Task : cur' = t /\ task' = [task EXCEPT ![t] = "running"] /\ \A u \in Created : u < t
      BY <2>4, BeginsNewest
    <3>2. inShell # t
      BY <3>1, <2>2, Numbers
    <3>3. UNCHANGED <<job, st>> /\ job.kind = "start" /\ st # "waiting"
      BY <2>4, <1>a DEF BeginTurn, slot, SlotFits
    <3> QED BY <3>1, <3>2, <3>3, <2>2, <2>3, <1>a DEF Decision
  <2>5. CASE ~BeginTurn
    <3>1. task'[inShell] = task[inShell]
      BY <2>2, <2>5, <1>6, <1>a, ThreadWrites DEF StatusSet, SetTask
    <3>2. job'.kind \in Decision => inShell # job'.task
      BY <1>6, <1>a, ThreadPlaces DEF NoJob, Decision, ShellFits
    <3>3. cur' # inShell
      <4>1. CASE cur' = cur \/ pc' = "wait"
        BY <4>1, <2>2, <1>6, <1>a, ThreadSlots DEF SettleSlot
      <4>2. CASE TakePausedTurn
        BY <4>2, <1>a DEF TakePausedTurn, ShellFits
      <4>3. CASE pc = "wait" /\ ~TakePausedTurn
        BY <4>3, <2>2, <2>5, <1>6
           DEF Thread, FailEarly, RefuseAnswer, RecordAnswer, ResumeTurn, FailResuming,
               HoldAtBoundary, LookAtPause, FinishCancelledTurn, DrainNotes, Round, SavePausedTurn,
               AwaitDecision, ProposePatch, AskPlace, PausedFor, Decision, ReturnResult, Settle,
               RestoreRefused, ReturnFailed, SettleNone
      <4> QED BY <4>1, <4>2, <4>3, <1>6, <1>a, ThreadPlaces
    <3>4. st' = "waiting" => inShell # pending'.task
      <4>1. CASE pc' # "wait"
        BY <4>1, <1>6, ThreadKeepsSlot
      <4>2. ASSUME NEW d, SettleSlot(d),
                   \/ d = NoDecision
                   \/ d = PendingDecision(cur) /\ pc = "settle"
                   \/ d = [task |-> job.task, kind |-> job.kind] /\ Refused /\ pc = "err"
            PROVE  st' = "waiting" => inShell # pending'.task
        <5>1. st' = "waiting" => d # NoDecision /\ pending' = d
          BY <4>2, <1>6, ThreadKeepsSlot DEF SettleSlot
        <5>2. d # NoDecision => d.task = cur \/ (d.task = job.task /\ job.kind \in Decision)
          BY <4>2 DEF PendingDecision, Refused, Decision
        <5> QED BY <5>1, <5>2, <2>2, <1>a DEF ShellFits
      <4> QED BY <4>1, <4>2, <1>6, ThreadSlots
    <3> QED BY <2>3, <3>1, <3>2, <3>3, <3>4
  <2> QED BY <2>4, <2>5
<1>7. CASE InShell
  <2>1. InShellWrites /\ UNCHANGED <<st, pending, job, pc, cur>>
    BY <1>7, InShellIs DEF InShellWrites, slot, thread
  <2>2. CASE inShell # NoTask /\ UNCHANGED elsewhere
    <3>1. inShell' = NoTask \/ (inShell' = inShell /\ task' = [task EXCEPT ![inShell] = "running"])
      BY <2>1, <2>2, <1>7, <1>a
         DEF InShell, TakeInShell, DeclineOffer, ContinueInShell, RunInShell, FailInShell, SetTask
    <3>2. elsewhere' \subseteq Created'
      BY <2>2, <1>a, <1>b DEF ShellFits
    <3> QED BY <2>1, <2>2, <3>1, <3>2, <1>a DEF ShellFits
  <2>3. CASE TakeInShell
    <3>1. PICK t \in pausedTurn : /\ task[t] = "waiting" /\ pend[t] = "offer"
                                  /\ inShell' = t /\ elsewhere' = elsewhere \cup {t}
      BY <2>3 DEF TakeInShell
    <3>2. UNCHANGED <<task, pend>> /\ st = "idle"
      BY <2>3 DEF TakeInShell
    <3>3. cur = NoTask /\ job.kind = "none"
      BY <3>2, <1>a DEF SlotFits
    <3>4. t \in Task /\ t \in Created
      BY <3>1, <1>a DEF Created
    <3> QED BY <3>1, <3>2, <3>3, <3>4, <2>1, <1>a, <1>b DEF ShellFits, Decision
  <2> QED BY <2>2, <2>3, <1>7
          DEF InShell, DeclineOffer, ContinueInShell, RunInShell, FailInShell
<1> QED BY <1>1, <1>2, <1>3, <1>4, <1>5, <1>6, <1>7, Steps

\* What is open stays the newest task's, and is shown when the thread is done.
LEMMA OpenStays == ASSUME IInv, Next PROVE OpenFits'
<1>a. /\ TypeOK /\ InOrder /\ SlotFits /\ JobFits /\ ShellFits /\ OpenFits
      /\ task \in [Task -> TaskStatus] /\ pend \in [Task -> Link]
      /\ cur \in Task \cup {NoTask} /\ NoTask \notin Task
  BY Numbers DEF IInv, TypeOK
<1>b. ASSUME Created' = Created, NEW t PROVE Latest(t)' <=> Latest(t)
  BY <1>b DEF Latest
<1>c. ASSUME UNCHANGED <<task, pend, pausedTurn>>
      PROVE  /\ \A t : Open(t)' <=> Open(t)
             /\ \A t : Latest(t)' <=> Latest(t)
             /\ UNCHANGED job => Refused' <=> Refused
  BY <1>c, <1>b DEF Open, Refused, PlanReviewIsDurable, QuestionIsOpen, Created
<1>d. ASSUME NEW t \in Task \ elsewhere, Open(t)
      PROVE  /\ t \in Task /\ Latest(t) /\ (cur # NoTask => t = cur)
             /\ (job.kind \in Decision => t = job.task) /\ (job.kind = "start" => t = cur)
             /\ (st = "waiting" => t = pending.task) /\ (pc = "err" => Refused)
             /\ pc \notin {"err_return", "settle_none"} /\ (Up => st # "idle")
  BY <1>a, <1>d DEF OpenFits
<1>e. Task \ elsewhere' \subseteq Task \ elsewhere
  BY ElsewhereGrows
<1> USE DEF Go, SetTask
<1>1. CASE AsideSteps
  <2>1. Aside
    BY <1>1, <1>a, AsideIs
  <2>2. UNCHANGED <<task, pend, pausedTurn, job, cur, pending, elsewhere>>
    BY <2>1 DEF Aside, disk
  <2> QED BY <2>1, <2>2, <1>c, <1>d DEF Aside, OpenFits
<1>2. CASE Start \/ Decide
  <2>1. PICK j : Taken(j)
    BY <1>2, TakenIs
  <2>2. /\ UNCHANGED <<task, pend, pausedTurn, pc, cur, elsewhere>> /\ job' = j /\ pc = "wait"
        /\ st' = "running" /\ cur = NoTask
    BY <2>1, <1>a DEF Taken, SlotFits, disk
  <2>3. ASSUME NEW t \in Task \ elsewhere, Open(t) PROVE j.kind # "start" /\ j.task = t
    BY <2>1, <2>3, <1>a, <1>d DEF Taken, SlotFits, Pending, Decision
  <2> QED BY <2>2, <2>3, <1>c, <1>d DEF OpenFits
<1>3. CASE Fallen
  <2>1. /\ UNCHANGED <<task, pend, pausedTurn, elsewhere>> /\ ~Up' /\ pc' = "wait" /\ job' = NoJob
        /\ cur' = NoTask /\ st' = "idle"
    <3>1. run' = [run EXCEPT !.alive = FALSE, !.ending = FALSE]
      BY <1>3 DEF Fallen, Down
    <3>2. run \in [n : 1..MaxRuns, alive : BOOLEAN, ending : BOOLEAN]
      BY <1>a DEF TypeOK
    <3>3. ~Up'
      BY <3>1, <3>2 DEF Up
    <3> QED BY <3>3, <1>3 DEF Fallen, Down, disk
  <2> QED BY <2>1, <1>c, <1>d DEF OpenFits, NoJob, Decision
<1>4. CASE Restart
  <2>1. /\ UNCHANGED <<task, pend, pausedTurn, job, pc, cur, elsewhere>>
        /\ job.kind = "none" /\ pc = "wait" /\ cur = NoTask
    BY <1>4, <1>a DEF Restart, disk, thread, SlotFits, history
  <2>2. ASSUME NEW t \in Task \ elsewhere, Open(t) PROVE st' = "waiting" /\ pending'.task = t
    <3>1. RestoredDecision = [task |-> t, kind |-> pend[t]]
      BY <2>2, <1>d, <1>a, RestoredIs
    <3>2. RestoredDecision # NoDecision
      BY <3>1, <1>a DEF NoDecision
    <3> QED BY <3>1, <3>2, <1>4 DEF Restart
  <2> QED BY <2>1, <2>2, <1>c, <1>d DEF OpenFits, Decision
<1>5. CASE DeleteParent \/ Consumed
  <2>1. UNCHANGED <<task, pend, pausedTurn, run, st, pending, job, pc, cur, elsewhere>>
    BY <1>5 DEF DeleteParent, Consumed, ConsumeReturn, slot, thread, history
  <2> QED BY <2>1, <1>c, <1>d DEF OpenFits, Up
<1>6. CASE BeginTurn
  <2>1. \A t \in Task \ elsewhere : ~Open(t)
    BY <1>6, <1>a, <1>d DEF BeginTurn, SlotFits
  <2>2. PICK t \in Task : task' = [task EXCEPT ![t] = "running"]
    BY <1>6, BeginsNewest
  <2>3. \A u \in Task \ elsewhere : ~Open(u)'
    BY <2>1, <2>2, <1>6, <1>a DEF BeginTurn, Open, PlanReviewIsDurable, QuestionIsOpen
  <2> QED BY <2>3, <1>e DEF OpenFits
<1>7. CASE Thread /\ ~BeginTurn
  <2>1. \A t : Latest(t)' <=> Latest(t)
    BY <1>7, CreatedStays, <1>b
  <2>2. Up' /\ job.kind # "none" /\ (pc' # "wait" => st' \notin {"idle", "waiting"})
    BY <1>7, ThreadKeepsSlot
  <2>0. UNCHANGED elsewhere
    BY <1>7, ThreadFrames DEF history
  <2>3. CASE FailEarly
    <3>1. UNCHANGED <<task, pend, pausedTurn, job, cur>> /\ pc' = "err" /\ pc = "wait"
      BY <2>3 DEF FailEarly, disk
    <3>2. cur = NoTask
      BY <3>1, <1>a DEF SlotFits
    <3>3. job.kind = "start" => \A t \in Task \ elsewhere : ~Open(t)
      BY <3>2, <1>a, <1>d
    <3>4. job.kind \in Decision => pend[job.task] = job.kind
      BY <3>1, <1>a DEF JobFits
    <3>5. ASSUME NEW t \in Task \ elsewhere, Open(t)
          PROVE  Refused /\ job.kind \in Decision /\ job.task = t
      <4>1. job.kind \in Decision
        BY <2>2, <3>3, <3>5, <1>a DEF TypeOK, Job
      <4>2. t = job.task
        BY <4>1, <3>5, <1>d
      <4> QED BY <4>1, <4>2, <3>4, <3>5 DEF Open, Refused, PlanReviewIsDurable, QuestionIsOpen
    <3> QED BY <3>1, <3>2, <3>5, <2>0, <2>1, <2>2, <1>c, <1>d DEF OpenFits, Decision
  <2>4. CASE TakePausedTurn
    <3>1. \A t \in Task : Open(t)' => Open(t)
      BY <2>4 DEF TakePausedTurn, Open, PlanReviewIsDurable, QuestionIsOpen
    <3>2. job' = job /\ job.kind \in Decision /\ cur' = job.task /\ pc' \in {"took", "resume"}
      BY <2>4 DEF TakePausedTurn
    <3> QED BY <3>1, <3>2, <2>0, <2>1, <2>2, <1>d DEF OpenFits, Decision
  <2>5. CASE RefuseAnswer
    <3>1. /\ cur = job.task /\ task[cur] = "waiting" /\ job.kind = "question" /\ cur \in Task
          /\ pend[cur] = "question" /\ UNCHANGED <<task, pend, job, cur>> /\ pc' = "err"
      BY <2>5, <1>a DEF RefuseAnswer, JobFits
    <3>2. Refused'
      BY <3>1 DEF Refused, QuestionIsOpen
    <3>3. ASSUME NEW t \in Task \ elsewhere, Open(t)' PROVE t = cur
      <4>1. ASSUME t # cur PROVE Open(t)
        BY <4>1, <3>3, <2>5 DEF RefuseAnswer, Open, PlanReviewIsDurable, QuestionIsOpen
      <4> QED BY <4>1, <1>d, <3>1, <3>3, <1>a
    <3>4. cur \notin elsewhere => Latest(cur)
      BY <3>1, <1>a DEF JobFits, Owned
    <3> QED BY <3>1, <3>2, <3>3, <3>4, <2>0, <2>1, <2>2 DEF OpenFits
  <2>6. CASE RecordAnswer \/ ResumeTurn
    <3>1. cur \in Task /\ job'.kind \in Decision /\ pc' \in {"resume", "boundary"}
      BY <2>6, <1>a DEF RecordAnswer, ResumeTurn, JobFits
    <3>2. ASSUME NEW t \in Task \ elsewhere PROVE ~Open(t)'
      <4>1. CASE t = cur
        BY <4>1, <2>6, <1>a DEF RecordAnswer, ResumeTurn, Open, PlanReviewIsDurable, QuestionIsOpen
      <4>2. CASE t # cur
        <5>1. ~Open(t)
          BY <4>2, <3>1, <1>a, <1>d
        <5> QED BY <4>2, <5>1, <2>6, <1>a
                DEF RecordAnswer, ResumeTurn, Open, PlanReviewIsDurable, QuestionIsOpen
      <4> QED BY <4>1, <4>2
    <3> QED BY <3>2, <1>e DEF OpenFits
  <2>7. CASE FailResuming
    <3>1. cur \in Task /\ cur \notin pausedTurn /\ pend[cur] # "question"
      BY <2>7, <1>a DEF FailResuming, JobFits
    <3>2. \A t \in Task \ elsewhere : ~Open(t)
      BY <3>1, <1>d, <1>a DEF Open, PlanReviewIsDurable, QuestionIsOpen
    <3> QED BY <3>2, <2>7, <1>c, <1>e DEF FailResuming, disk, OpenFits
  <2>8. CASE pc \in Turning
    <3>1. cur \in Task /\ task[cur] \in {"running", "paused"}
      BY <2>8, <1>a DEF JobFits
    <3>2. \A t \in Task \ elsewhere : ~Open(t)
      BY <3>1, <1>d, <1>a DEF Open, PlanReviewIsDurable, QuestionIsOpen
    <3>3. CASE AwaitDecision
      <4>1. PICK k \in PausedFor : task' = [task EXCEPT ![cur] = "waiting"] /\ pend' = [pend EXCEPT ![cur] = k]
        BY <3>3 DEF AwaitDecision
      <4>2. ASSUME NEW t \in Task \ elsewhere, t # cur PROVE ~Open(t)'
        BY <4>1, <4>2, <3>2, <3>3, <1>a
           DEF AwaitDecision, Open, PlanReviewIsDurable, QuestionIsOpen
      <4>3. /\ pc' = "return" /\ cur' = cur /\ job' = job /\ Owned(cur)
            /\ (job.kind \in Decision => cur = job.task)
        BY <3>1, <3>3, <1>a DEF AwaitDecision, JobFits
      <4> QED BY <4>2, <4>3, <2>0, <2>1, <2>2 DEF OpenFits, Owned
    <3>4. CASE ~AwaitDecision
      <4>1. \A t \in Task : \/ task'[t] # "waiting"
                            \/ t = cur /\ pend'[t] = "patch"
                            \/ /\ task'[t] = task[t] /\ pend'[t] = pend[t]
                               /\ t = cur \/ (t \in pausedTurn' <=> t \in pausedTurn)
        <5>1. CASE HoldAtBoundary
          BY <5>1, <1>a, <3>1 DEF HoldAtBoundary
        <5>2. CASE LookAtPause
          BY <5>2, <1>a, <3>1 DEF LookAtPause
        <5>3. CASE FinishCancelledTurn \/ DrainNotes
          BY <5>3, <1>a, <3>1 DEF FinishCancelledTurn, DrainNotes
        <5>4. CASE Round
          BY <5>4, <1>a, <3>1 DEF Round
        <5>5. CASE SavePausedTurn
          BY <5>5, <1>a, <3>1 DEF SavePausedTurn
        <5>6. CASE ProposePatch
          BY <5>6, <1>a, <3>1 DEF ProposePatch
        <5> QED BY <5>1, <5>2, <5>3, <5>4, <5>5, <5>6, <1>7, <2>8, <3>4
                DEF Thread, Turning, FailEarly, BeginTurn, TakePausedTurn, RefuseAnswer,
                    RecordAnswer, ResumeTurn, FailResuming, ReturnResult, Settle, RestoreRefused,
                    ReturnFailed, SettleNone
      <4>2. \A t \in Task \ elsewhere : ~Open(t)'
        BY <4>1, <3>1, <3>2 DEF Open, PlanReviewIsDurable, QuestionIsOpen
      <4> QED BY <4>2, <1>e DEF OpenFits
    <3> QED BY <3>3, <3>4
  <2>9. CASE ReturnResult
    <3>1. UNCHANGED <<task, pend, pausedTurn, job, cur>> /\ pc' = "settle"
      BY <2>9 DEF ReturnResult
    <3> QED BY <3>1, <2>0, <2>1, <2>2, <1>c, <1>d DEF OpenFits
  <2>10. CASE Settle
    <3>1. /\ UNCHANGED <<task, pend, pausedTurn>> /\ pc' = "wait" /\ job' = NoJob /\ cur' = NoTask
          /\ cur # NoTask
      BY <2>10, <1>a DEF Settle, SettleSlot, disk, JobFits
    <3>2. ASSUME NEW t \in Task \ elsewhere, Open(t)
          PROVE  st' # "idle" /\ (st' = "waiting" => pending'.task = t)
      <4>1. t = cur /\ task[cur] = "waiting" /\ pend[cur] \in Decision
        BY <3>1, <3>2, <1>d DEF Open, PlanReviewIsDurable, QuestionIsOpen, Decision
      <4>2. PendingDecision(cur) # NoDecision /\ PendingDecision(cur).task = t
        BY <4>1, <1>a DEF PendingDecision, NoDecision
      <4>3. st \notin {"idle", "waiting"}
        BY <1>7, ThreadKeepsSlot
      <4> QED BY <4>2, <4>3, <2>10 DEF Settle, SettleSlot
    <3> QED BY <3>1, <3>2, <2>0, <1>c, <1>d DEF OpenFits, NoJob, Decision
  <2>11. CASE RestoreRefused
    <3>1. UNCHANGED <<task, pend, pausedTurn>> /\ pc = "err"
      BY <2>11 DEF RestoreRefused, disk
    <3>2. CASE Refused
      <4>1. pc' = "wait" /\ job' = NoJob /\ cur' = NoTask
        BY <3>2, <2>11 DEF RestoreRefused, SettleSlot
      <4>2. [task |-> job.task, kind |-> job.kind] # NoDecision /\ job.kind \in Decision
        BY <3>2 DEF Refused, NoDecision, Decision
      <4>3. st \notin {"idle", "waiting"}
        BY <1>7, ThreadKeepsSlot
      <4>4. st' # "idle" /\ (st' = "waiting" => pending'.task = job.task)
        BY <3>2, <4>2, <4>3, <2>11 DEF RestoreRefused, SettleSlot
      <4> QED BY <3>1, <4>1, <4>2, <4>4, <2>0, <1>c, <1>d DEF OpenFits, NoJob, Decision
    <3>3. CASE ~Refused
      BY <3>1, <3>3, <1>c, <1>d, <1>e DEF OpenFits
    <3> QED BY <3>2, <3>3
  <2>12. CASE ReturnFailed \/ SettleNone
    <3>1. UNCHANGED <<task, pend, pausedTurn>> /\ pc \in {"err_return", "settle_none"}
      BY <2>12 DEF ReturnFailed, SettleNone, disk
    <3> QED BY <3>1, <1>c, <1>d, <1>e DEF OpenFits
  <2> QED BY <1>7, <2>3, <2>4, <2>5, <2>6, <2>7, <2>8, <2>9, <2>10, <2>11, <2>12
          DEF Thread, Turning, HoldAtBoundary, LookAtPause, FinishCancelledTurn, DrainNotes, Round,
              SavePausedTurn, AwaitDecision, ProposePatch, AskPlace, PausedFor, Decision
<1>8. CASE InShell
  <2>1. InShellWrites /\ UNCHANGED <<run, st, pending, job, pc, cur>> /\ ~BeginTurn
    <3>1. InShellWrites
      BY <1>8, InShellIs
    <3>2. UNCHANGED <<run, st, pending, job, pc, cur>>
      BY <3>1 DEF InShellWrites, slot, thread
    <3> QED BY <3>1, <3>2 DEF BeginTurn
  <2>2. \A t : Latest(t)' <=> Latest(t)
    BY <1>8, <2>1, CreatedStays, <1>b
  <2>3. ASSUME NEW t \in Task \ elsewhere'
        PROVE  /\ task'[t] = task[t] /\ pend'[t] = pend[t] /\ (t \in pausedTurn' <=> t \in pausedTurn)
               /\ t \in Task \ elsewhere
    <3>1. t \in Task \ elsewhere
      BY <1>e
    <3>2. inShell # NoTask => inShell # t
      BY <3>1, <1>a DEF ShellFits
    <3> QED BY <3>1, <3>2, <2>1, <1>a DEF InShellWrites
  <2>4. ASSUME NEW t \in Task \ elsewhere' PROVE Open(t)' <=> Open(t)
    BY <2>3 DEF Open, PlanReviewIsDurable, QuestionIsOpen
  <2>5. ASSUME NEW t \in Task \ elsewhere', Open(t), pc = "err" PROVE Refused'
    <3>1. Refused /\ t = job.task
      BY <2>3, <2>5, <1>d DEF Refused, Decision
    <3> QED BY <3>1, <2>1, <2>3 DEF Refused, PlanReviewIsDurable, QuestionIsOpen
  <2> QED BY <2>1, <2>2, <2>3, <2>4, <2>5, <1>d DEF OpenFits, Up
<1> QED BY <1>1, <1>2, <1>3, <1>4, <1>5, <1>6, <1>7, <1>8, Steps

-----------------------------------------------------------------------------
(* Results *)

\* An end is final; only a turn that ends, with its last step, ends its task.
LEMMA EndsAreFinal ==
  ASSUME IInv, Next
  PROVE  /\ \A t \in Task : task[t] = "ended" => task'[t] = "ended"
         /\ \A t \in Task \ elsewhere : task'[t] = "ended" /\ task[t] # "ended" =>
              t = cur /\ Thread /\ pc \in Turning /\ pc' \in {"return", "err"}
<1>a. /\ TypeOK /\ InOrder /\ JobFits /\ ShellFits /\ task \in [Task -> TaskStatus]
      /\ cur \in Task \cup {NoTask}
  BY DEF IInv, TypeOK
<1>1. CASE AsideSteps \/ Start \/ Decide \/ Fallen \/ Restart \/ DeleteParent \/ Consumed
  <2>1. task' = task
    BY <1>1, <1>a, AsideIs DEF Aside, Start, Decide, Fallen, Restart, DeleteParent, Consumed,
                               ConsumeReturn, disk
  <2> QED BY <2>1
<1>2. CASE Thread
  <2> USE <1>a DEF SetTask, Go
  <2>1. CASE BeginTurn
    <3>1. PICK t \in Task : task' = [task EXCEPT ![t] = "running"] /\ task[t] = "none"
      BY <2>1, BeginsNewest
    <3> QED BY <3>1
  <2>2. CASE task' = task
    BY <2>2
  <2>3. CASE ResumeTurn
    BY <2>3 DEF ResumeTurn, JobFits
  <2>4. CASE HoldAtBoundary
    BY <2>4 DEF HoldAtBoundary, JobFits, Turning
  <2>5. CASE LookAtPause
    BY <2>5 DEF LookAtPause, JobFits, Turning
  <2>6. CASE FinishCancelledTurn
    BY <2>6, <1>2 DEF FinishCancelledTurn, JobFits, Turning
  <2>7. CASE Round
    BY <2>7, <1>2 DEF Round, JobFits, Turning
  <2>8. CASE AwaitDecision
    BY <2>8 DEF AwaitDecision, AskPlace, PausedFor, Decision, JobFits, Turning
  <2>10. CASE ProposePatch
    BY <2>10 DEF ProposePatch, JobFits, Turning
  <2>9. CASE \/ FailEarly \/ FailResuming \/ TakePausedTurn \/ RefuseAnswer \/ RecordAnswer
             \/ DrainNotes \/ SavePausedTurn \/ ReturnResult \/ Settle \/ RestoreRefused
             \/ ReturnFailed \/ SettleNone
    <3>1. task' = task
      BY <2>9 DEF FailEarly, FailResuming, TakePausedTurn, RefuseAnswer, RecordAnswer, DrainNotes,
                  SavePausedTurn, ReturnResult, Settle, RestoreRefused, ReturnFailed, SettleNone,
                  disk
    <3> QED BY <3>1
  <2> QED BY <1>2, <2>1, <2>3, <2>4, <2>5, <2>6, <2>7, <2>8, <2>9, <2>10 DEF Thread
<1>3. CASE InShell
  <2>1. CASE task' = task
    BY <2>1
  <2>2. CASE inShell # NoTask
    <3>1. inShell \in elsewhere /\ task[inShell] # "ended"
      BY <2>2, <1>a DEF ShellFits
    <3>2. \A t \in Task : t # inShell => task'[t] = task[t]
      BY <2>2, <1>3, <1>a, InShellIs DEF InShellWrites
    <3> QED BY <3>1, <3>2
  <2> QED BY <2>1, <2>2, <1>3, InShellIs DEF InShellWrites
<1> QED BY <1>1, <1>2, <1>3, Steps

LEMMA ReturnedOnceStays == ASSUME IInv, Next PROVE ReturnedOnce'
<1>a. /\ TypeOK /\ InOrder /\ SlotFits /\ JobFits /\ ReturnedOnce
      /\ returned \in [Task -> Nat] /\ continued \in [Task -> Nat]
  BY DEF IInv, TypeOK, ReturnsFit
<1>b. \A t \in Task : task[t] = "ended" => task'[t] = "ended"
  BY EndsAreFinal
<1>1. CASE UNCHANGED <<returned, continued>>
  BY <1>1, <1>a, <1>b DEF ReturnedOnce
<1>2. CASE Thread
  <2>1. continued' = continued /\ ReturnSet
    BY <1>2, <1>a, ThreadWrites
  <2>2. ASSUME NEW t \in Task, returned[t] = 0, task[t] = "ended",
               returned' = [returned EXCEPT ![t] = 1]
        PROVE  ReturnedOnce'
    <3> SUFFICES ASSUME NEW u \in Task
                 PROVE  /\ returned'[u] <= 1 /\ continued'[u] <= returned'[u]
                        /\ returned'[u] = 1 => task'[u] = "ended"
      BY DEF ReturnedOnce
    <3>1. CASE u = t
      BY <3>1, <2>1, <2>2, <1>a, <1>b DEF ReturnedOnce
    <3>2. CASE u # t
      BY <3>2, <2>1, <2>2, <1>a, <1>b DEF ReturnedOnce
    <3> QED BY <3>1, <3>2
  <2> QED BY <2>1, <2>2, <1>1 DEF ReturnSet
<1>3. CASE Consumed
  <2>1. PICK c \in Consumer : ConsumeReturn(c)
    BY <1>3 DEF Consumed
  <2>2. PICK t \in Task : t = chosen[c]
    BY <2>1, <1>a DEF ConsumeReturn, TypeOK
  <2>3. CASE PendingReturn(t)
    <3>1. continued' = [continued EXCEPT ![t] = @ + 1] /\ returned' = returned
      BY <2>1, <2>2, <2>3 DEF ConsumeReturn
    <3>2. \A u \in Task : continued'[u] <= returned'[u]
      BY <3>1, <2>3, <1>a DEF PendingReturn, ReturnedOnce
    <3> QED BY <3>1, <3>2, <1>a, <1>b DEF ReturnedOnce
  <2>4. CASE ~PendingReturn(t)
    BY <2>1, <2>2, <2>4, <1>1 DEF ConsumeReturn
  <2> QED BY <2>3, <2>4
<1>4. CASE AsideSteps \/ Start \/ Decide \/ Fallen \/ Restart \/ DeleteParent \/ InShell
  <2>1. UNCHANGED <<returned, continued>>
    BY <1>4, <1>a, AsideIs, InShellIs
       DEF Aside, Start, Decide, Fallen, Restart, DeleteParent, disk, InShellWrites
  <2> QED BY <2>1, <1>1
<1> QED BY <1>2, <1>3, <1>4, Steps

\* What the driver still has to return is the newest task's, while its job is at its end.
Owing(t) == /\ pc \in {"return", "err", "err_return"} /\ Latest(t)
            /\ pc \in {"return", "err"} => cur = t

LEMMA OwedStays ==
  ASSUME IInv, Next, NEW t \in Task \ elsewhere', t \in Unreturned'
  PROVE  t \in cutOff' \/ Owing(t)'
<1>a. /\ TypeOK /\ InOrder /\ SlotFits /\ JobFits
      /\ returned \in [Task -> Nat] /\ cur \in Task \cup {NoTask}
      /\ t \in Unreturned => t \in cutOff \/ Owing(t)
      /\ t \in Task \ elsewhere
  BY ElsewhereGrows DEF IInv, TypeOK, ReturnsFit, Owing
<1>b. ASSUME Created' = Created PROVE Latest(t)' <=> Latest(t)
  BY <1>b DEF Latest
<1>c. task'[t] = "ended" /\ parent' = "open" /\ returned'[t] = 0
  BY DEF Unreturned
<1>1. CASE AsideSteps
  <2>1. Aside
    BY <1>1, <1>a, AsideIs
  <2>2. t \in Unreturned /\ UNCHANGED cutOff /\ Created' = Created
    BY <2>1, <1>c DEF Aside, disk, Unreturned, Created
  <2> QED BY <2>1, <2>2, <1>a, <1>b DEF Aside, Owing
<1>2. CASE Start \/ Decide \/ Restart \/ Consumed
  <2>1. UNCHANGED <<task, parent, returned, cutOff, pc, cur>>
    BY <1>2 DEF Start, Decide, Restart, Consumed, ConsumeReturn, disk, thread, history
  <2>2. t \in Unreturned /\ Created' = Created
    BY <2>1, <1>c DEF Unreturned, Created
  <2> QED BY <2>1, <2>2, <1>a, <1>b DEF Owing
<1>3. CASE Fallen
  BY <1>3, <1>c DEF Fallen, Down, disk, Unreturned
<1>4. CASE DeleteParent
  BY <1>4, <1>c DEF DeleteParent
<1>5. CASE Thread
  <2>1. cutOff' = cutOff /\ ReturnSet
    BY <1>5, <1>a, ThreadFrames, ThreadWrites DEF history
  <2>2. CASE task[t] # "ended"
    <3>1. t = cur /\ pc \in Turning /\ pc' \in {"return", "err"}
      BY <2>2, <1>a, <1>c, EndsAreFinal
    <3>2. ~BeginTurn /\ Latest(cur)
      BY <3>1, <1>a, Numbers DEF BeginTurn, Turning, JobFits, Owned
    <3>3. cur' = cur
      BY <3>1, <1>5, <1>a, ThreadPlaces DEF Turning
    <3> QED BY <3>1, <3>2, <3>3, <1>b, CreatedStays DEF Owing
  <2>3. CASE task[t] = "ended"
    <3>1. t \in Unreturned
      BY <2>1, <2>3, <1>a, <1>c DEF ReturnSet, Unreturned
    <3>2. CASE t \in cutOff
      BY <3>2, <2>1
    <3>3. CASE Owing(t)
      <4> USE <3>3 DEF Owing
      <4>1. ~BeginTurn /\ ~ReturnResult /\ ~ReturnFailed /\ (RestoreRefused => ~Refused)
        <5>1. ~BeginTurn
          BY <3>3 DEF BeginTurn
        <5>2. ~ReturnResult
          <6>1. ASSUME ReturnResult PROVE t = cur
            BY <6>1, <3>3 DEF ReturnResult
          <6>2. ASSUME ReturnResult PROVE returned' = [returned EXCEPT ![t] = 1]
            BY <6>1, <6>2, <3>1 DEF ReturnResult, RecordParentReturn, RecordWorkerReturn, Unreturned
          <6> QED BY <6>2, <1>a, <1>c
        <5>3. ~ReturnFailed
          <6>1. Created # {} /\ t = Newest
            BY <3>3, <1>a, NewestIsLatest DEF Latest
          <6>2. ASSUME ReturnFailed PROVE returned' = [returned EXCEPT ![t] = 1]
            BY <6>1, <6>2, <3>1
               DEF ReturnFailed, RecordFailedReturn, RecordParentReturn, RecordWorkerReturn,
                   Unreturned
          <6> QED BY <6>2, <1>a, <1>c
        <5>4. RestoreRefused /\ Refused => t = job.task /\ task[job.task] = "waiting"
          BY <3>3, <1>a, Numbers
             DEF RestoreRefused, Refused, PlanReviewIsDurable, QuestionIsOpen, JobFits, Decision
        <5> QED BY <5>1, <5>2, <5>3, <5>4, <2>3
      <4>2. RestoreRefused
        BY <1>5, <4>1, <3>3
           DEF Thread, FailEarly, TakePausedTurn, RefuseAnswer, RecordAnswer, ResumeTurn,
               FailResuming, HoldAtBoundary, LookAtPause, FinishCancelledTurn, DrainNotes, Round,
               SavePausedTurn, AwaitDecision, ProposePatch, AskPlace, PausedFor, Decision, Settle,
               SettleNone
      <4> QED BY <4>1, <4>2, <3>3, <1>5, <1>b, CreatedStays DEF RestoreRefused, Go
    <3> QED BY <3>1, <3>2, <3>3, <1>a
  <2> QED BY <2>2, <2>3
<1>6. CASE InShell
  <2>1. UNCHANGED <<parent, returned, cutOff, pc, cur>>
    BY <1>6, InShellIs DEF InShellWrites, thread
  <2>3. task[t] = "ended"
    BY <2>1, <1>a, <1>c, EndsAreFinal DEF Turning
  <2>4. t \in Unreturned
    BY <2>1, <2>3, <1>a, <1>c DEF Unreturned
  <2>5. ~BeginTurn
    BY <2>1 DEF BeginTurn, Go
  <2> QED BY <2>1, <2>4, <2>5, <1>a, <1>b, CreatedStays DEF Owing
<1> QED BY <1>1, <1>2, <1>3, <1>4, <1>5, <1>6, Steps

LEMMA ReturnsStay == ASSUME IInv, Next PROVE ReturnsFit'
<1>1. DeletedParentStaysDeleted'
  <2>1. TypeOK /\ InOrder /\ SlotFits /\ JobFits /\ parent # "remade"
    BY DEF IInv, ReturnsFit, DeletedParentStaysDeleted
  <2>2. parent' = parent \/ parent' = "deleted"
    BY <2>1, Steps, AsideIs, TakenIs, ThreadWrites, InShellIs
       DEF Aside, Taken, Restart, DeleteParent, Consumed, ConsumeReturn, Fallen, disk, ReturnSet,
           InShellWrites
  <2> QED BY <2>1, <2>2 DEF DeletedParentStaysDeleted
<1>2. Unreturned' \subseteq Task
  BY DEF Unreturned
<1> QED BY <1>1, <1>2, ReturnedOnceStays, OwedStays DEF ReturnsFit, Owing

-----------------------------------------------------------------------------
(* Notes *)

QueuedNotes == {queue[i] : i \in DOMAIN queue}

\* A note that is accepted is the newest, and joins the queue at its end.
LEMMA QueueNoteKeeps ==
  ASSUME TypeOK, NotesFit, QueueNote, UNCHANGED said PROVE NotesFit'
<1>a. queue \in Seq(1..MaxNotes) /\ notes \in Nat /\ notes' = notes + 1
  BY Numbers DEF TypeOK, QueueNote
<1>b. /\ mine \subseteq said \cup QueuedNotes /\ \A n \in said : n \notin QueuedNotes
      /\ \A i, j \in DOMAIN queue : i < j => queue[i] < queue[j]
      /\ \A i \in DOMAIN queue : queue[i] \in 1..notes
      /\ said \subseteq 1..notes /\ mine \subseteq 1..notes
  BY DEF NotesFit, NotesAreKept, QueuedNotes
<1>c. queue' = Append(queue, notes + 1) /\ mine' = mine \cup {notes + 1}
  BY DEF QueueNote
<1>1. /\ Len(queue) \in Nat /\ DOMAIN queue = 1..Len(queue)
      /\ DOMAIN queue' = 1..(Len(queue) + 1)
      /\ \A i \in DOMAIN queue : queue'[i] = queue[i]
      /\ queue'[Len(queue) + 1] = notes + 1
  BY <1>a, <1>c
<1>2. \A i \in DOMAIN queue' : i \in DOMAIN queue \/ i = Len(queue) + 1
  BY <1>1
<1>3. QueuedNotes' = QueuedNotes \cup {notes + 1}
  BY <1>1, <1>2 DEF QueuedNotes
<1>4. \A n \in 1..notes : n \in 1..notes' /\ n < notes + 1
  BY <1>a
<1>5. \A i \in DOMAIN queue' : queue'[i] \in 1..notes'
  <2>1. notes + 1 \in 1..notes'
    BY <1>a
  <2> QED BY <2>1, <1>1, <1>2, <1>4, <1>b
<1>6. ASSUME NEW i \in DOMAIN queue', NEW j \in DOMAIN queue', i < j PROVE queue'[i] < queue'[j]
  <2>1. i \in DOMAIN queue
    BY <1>1, <1>2, <1>6
  <2>2. CASE j \in DOMAIN queue
    BY <2>1, <2>2, <1>1, <1>b, <1>6
  <2>3. CASE j = Len(queue) + 1
    BY <2>1, <2>3, <1>1, <1>4, <1>b
  <2> QED BY <1>2, <2>2, <2>3
<1>7. mine' \subseteq said' \cup QueuedNotes'
  BY <1>3, <1>b, <1>c
<1>8. \A n \in said' : n \notin QueuedNotes'
  BY <1>3, <1>4, <1>a, <1>b
<1>9. said' \subseteq 1..notes' /\ mine' \subseteq 1..notes'
  BY <1>4, <1>a, <1>b, <1>c
<1> QED BY <1>5, <1>6, <1>7, <1>8, <1>9 DEF NotesFit, NotesAreKept, QueuedNotes

LEMMA NotesStay == ASSUME IInv, Next PROVE NotesFit'
<1>a. /\ TypeOK /\ InOrder /\ SlotFits /\ JobFits /\ NotesFit /\ notes \in Nat
  BY Numbers DEF IInv, TypeOK
<1>b. UNCHANGED <<said, queue, notes, mine>> => NotesFit'
  BY <1>a DEF NotesFit, NotesAreKept
<1> USE DEF slot, thread, shell, disk, history
<1>1. CASE Thread
  <2>1. UNCHANGED <<notes, mine>>
    BY <1>1, ThreadFrames
  <2>2. CASE DrainNotes
    <3>1. said' = said \cup QueuedNotes /\ queue' = <<>>
      BY <2>2 DEF DrainNotes, QueuedNotes
    <3>2. QueuedNotes \subseteq 1..notes
      BY <1>a DEF NotesFit, QueuedNotes
    <3>3. mine \subseteq said \cup QueuedNotes
      BY <1>a DEF NotesFit, NotesAreKept, QueuedNotes
    <3>4. DOMAIN queue' = {}
      BY <3>1
    <3>5. said \subseteq 1..notes /\ mine \subseteq 1..notes
      BY <1>a DEF NotesFit
    <3> QED BY <3>1, <3>2, <3>3, <3>4, <3>5, <2>1 DEF NotesFit, NotesAreKept
  <2>3. CASE ~DrainNotes
    <3>1. said' = said
      BY <2>3, <1>1, <1>a, ThreadWrites
    <3>2. queue' = queue
      BY <2>3, <1>1, ThreadSlots DEF SettleSlot
    <3> QED BY <3>1, <3>2, <2>1, <1>b
  <2> QED BY <2>2, <2>3
<1>2. CASE Start \/ Fallen
  <2>1. queue' = <<>> /\ mine' = {} /\ UNCHANGED <<said, notes>>
    BY <1>2 DEF Start, HandOver, Carried, StartJob, Decision, Fallen, Down
  <2>2. DOMAIN queue' = {}
    BY <2>1
  <2> QED BY <2>1, <2>2, <1>a DEF NotesFit, NotesAreKept
<1>3. CASE Decide
  <2>1. pending.kind \in Decision
    BY <1>3, <1>a DEF Decide, SlotFits, Pending
  <2> QED BY <2>1, <1>3, <1>b DEF Decide, HandOver, Carried, Decision
<1>4. CASE Note \/ Resume
  BY <1>4, <1>a, <1>b, QueueNoteKeeps DEF Note, Resume
<1>5. CASE Pause \/ Recheck \/ Restart \/ DeleteParent \/ InShell
  BY <1>5, <1>b, InShellIs DEF Pause, Recheck, threadFrame, Restart, DeleteParent, InShellWrites
<1>6. CASE \E c \in Consumer : FindReturn(c) \/ GiveUpContinuing(c) \/ ConsumeReturn(c)
  BY <1>6, <1>b DEF FindReturn, GiveUpContinuing, ConsumeReturn
<1>7. CASE AskStop \/ BeginStop \/ SendStop \/ AskAgain \/ AwaitTurnEnd
  BY <1>7, <1>b DEF AskStop, BeginStop, SendStop, AskAgain, AwaitTurnEnd, escFrame
<1>8. CASE EscalateToShutdown \/ (FinishStop /\ Gone) \/ StopForDelete \/ ShellEnds
  BY <1>8, <1>b DEF EscalateToShutdown, FinishStop, StopForDelete, ShellEnds, Shutdown
<1> QED BY <1>1, <1>2, <1>3, <1>4, <1>5, <1>6, <1>7, <1>8, Steps DEF AsideSteps, Consumed

-----------------------------------------------------------------------------
(* The invariant holds *)

LEMMA InitInv == ASSUME Init PROVE IInv
<1>1. TypeOK
  BY InitTypes
<1>2. Created = {}
  BY DEF Init, Created
<1>3. InOrder
  <2>1. 0 \in 0..MaxTasks /\ 1..0 = {}
    BY Numbers
  <2> QED BY <2>1, <1>2 DEF InOrder
<1>4. SlotFits
  BY DEF Init, SlotFits, Up, NoJob
<1>5. JobFits
  BY DEF Init, JobFits, NoJob, Decision, Turning
<1>6. OpenFits
  BY DEF Init, OpenFits, Open, PlanReviewIsDurable, QuestionIsOpen
<1>7. ReturnsFit
  BY DEF Init, ReturnsFit, ReturnedOnce, DeletedParentStaysDeleted, Unreturned
<1>8. NotesFit
  <2>1. DOMAIN queue = {} /\ said = {} /\ mine = {}
    BY DEF Init
  <2> QED BY <2>1 DEF NotesFit, NotesAreKept
<1>9. ShellFits
  BY DEF Init, ShellFits
<1> QED BY <1>1, <1>3, <1>4, <1>5, <1>6, <1>7, <1>8, <1>9 DEF IInv

LEMMA StutterInv == ASSUME IInv, UNCHANGED vars PROVE IInv'
<1>1. TypeOK'
  BY DEF IInv, TypeOK, vars, disk, slot, thread, shell, history
<1>2. InOrder' /\ SlotFits'
  BY DEF IInv, InOrder, SlotFits, Owned, Latest, Created, Up, vars, disk, slot, thread, history
<1>3. JobFits'
  BY DEF IInv, JobFits, Owned, Latest, Created, vars, disk, thread, history
<1>4. OpenFits'
  BY DEF IInv, OpenFits, Open, Refused, PlanReviewIsDurable, QuestionIsOpen, Latest, Created, Up,
         vars, disk, slot, thread, history
<1>5. ReturnsFit'
  BY DEF IInv, ReturnsFit, ReturnedOnce, DeletedParentStaysDeleted, Unreturned, Latest, Created,
         vars, disk, thread, history
<1>6. NotesFit' /\ ShellFits'
  BY DEF IInv, NotesFit, NotesAreKept, ShellFits, Created, vars, disk, slot, thread, shell, history
<1> QED BY <1>1, <1>2, <1>3, <1>4, <1>5, <1>6 DEF IInv

LEMMA NextInv == ASSUME IInv, Next PROVE IInv'
  BY TypesStay, OrderStays, SlotStays, JobStays, ShellStays, OpenStays, ReturnsStay, NotesStay
     DEF IInv

LEMMA Invariance == Spec => []IInv
<1>1. Init => IInv
  BY InitInv
<1>2. IInv /\ [Next]_vars => IInv'
  BY NextInv, StutterInv
<1> QED BY <1>1, <1>2, PTL DEF Spec

\* Every variable keeps its type: no count, identity, place of the turn thread or state of the slot
\* leaves its range, in any history of commands, failures, restarts and stops (WorkerHost,
\* TurnSlot, WorkerReturn).
THEOREM TypeCorrect == Spec => []TypeOK
  BY Invariance, PTL DEF IInv

\* A note the worker accepted for the turn it holds is in the conversation or queued, once and in
\* order, whatever was decided, paused or resumed meanwhile (queue_note, hand_over, drain).
THEOREM NotesAreNeverLost == Spec => []NotesAreKept
<1>1. IInv => NotesAreKept
  BY DEF IInv, NotesFit
<1> QED BY <1>1, Invariance, PTL

\* A task's result reaches its parent once and is continued once, no outcome of a turn that stayed
\* with its driver is lost while the driver lives, and a deleted parent's log is not made anew (record_worker_return,
\* consume_worker_return_and_create_task, TurnDriver::run).
THEOREM OutcomesReturn == Spec => []OutcomesReturnOnce
<1>1. ASSUME IInv PROVE OutcomesReturnOnce
  <2>1. pc \in {"return", "err", "err_return"} => Up
    BY <1>1 DEF IInv, SlotFits
  <2> QED BY <2>1, <1>1 DEF IInv, ReturnsFit, OutcomesReturnOnce, OutcomeIsReturned
<1> QED BY <1>1, Invariance, PTL

\* What a worker shows is what its session waits for: an answer reaches the open decision, and a
\* worker that reports idle hides none, whatever was refused, failed, crashed or restarted
\* (settle, restore_pending_decision, restore_open_question).
THEOREM WhatIsOpenIsShown == Spec => []ShowsWhatIsOpen
<1>1. ASSUME IInv PROVE ShowsWhatIsOpen
  BY <1>1 DEF IInv, SlotFits, OpenFits, Open, ShowsWhatIsOpen, WaitingIsDurable, IdleHidesNothing
<1> QED BY <1>1, Invariance, PTL
=============================================================================
