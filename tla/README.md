# Damaian: TLA+ models of the engine's durable state

Damaian is a local AI coding assistant: a Rust engine (`crates/workspace-engine`)
behind a desktop shell (`crates/desktop-shell`: an HTTP server and a web view), a
command line (`crates/damaian-cli`), and one *driver process* per delegated
worker. What it promises a user is mostly about what survives: a session log that
several processes append to, a task a crash left half done, a child process that
outlives its parent, a turn that can be taken back. Those parts are modelled here.
Paths below are relative to `src/crates/`; specifications named by number are in
`src/docs/specs/`.

## Inventory

| component | state | operations | hard behaviour | what makes it correct |
| --- | --- | --- | --- | --- |
| session log (`session.rs`) | a JSONL file per session, a sidecar with the last sequence number, the sidecar's flock | append a transaction, rewind the conversation, read, delete | appends of several processes, death between sidecar and log, cut-off writes, lock-free readers, rewinds after rewinds | numbers unique and in file order; a tear costs at most one event; nothing but a rewind moves the conversation |
| task state and recovery (`recovery.rs`, `session.rs`, `chat.rs`, `completion.rs`, shell `recovery.rs`, `lib.rs`) | task statuses, action markers, usage events, paused turns, recovery cards | the turn's steps, the sweep of a launch, resume / fail / abandon, reattached approvals | death between any two writes, sweeps cut off by further crashes, a live worker beside the sweep | no unknown outcome is continued; nothing is counted, sent or reopened twice; nothing is forgotten |
| process registry (`process_registry.rs`, its callers) | one entry file per child, handles in the owners | register, drop a handle, sweep at launch, sweep at shutdown | owners and sweepers die anywhere, several instances, pids used again | only recorded processes of dead owners are signalled; none of those is missed |
| checkpoints and patches (`checkpoint.rs`, `edit.rs`, `patch_engine.rs`) | a manifest per turn, a Git object store, refs, rollback snapshots, the working tree | begin a turn, capture, seal, apply, roll back, census of a command, rewind, retention | order of manifest, ref, blob and file; user edits between steps; retention of another turn; death half way | a rewind goes back to before the turn and never overwrites what it should report |
| delegated workers (`worker.rs`, `workers.rs`, `worktree*.rs`) | driver process, control socket, lifeline pipe, one slot shared by its threads, returns in the parent's log | start, decide, pause, resume, note, stop, return, continue, restart, delete, shut down, go on in the shell | three threads and a shell on one slot, turns the shell's route takes up, death between any two writes, a stop and a deletion that race the turn's end | one return per task, one continuation per return; what the worker shows is what its session waits for |
| steering and cancellation (`steering.rs`, `cancel.rs`) | pause flag, queued notes, cancel flag, a condition variable | pause, resume, note, stop; the turn's round boundary | missed wake-ups, a stop that arrives late | a stop meets its turn and ends it; no note is lost or doubled |
| task control (`task_segments.rs`, `task_budget.rs`, `task_control.rs`, `plan.rs`, the loop of `chat.rs`) | the round counters of a turn, the open segment in the log, the approved budget, the paused turn | rounds, checkpoints, plan review, segment boundaries, pauses, Continue, a task that carries the plan on | counters kept in three places over pauses and resumes; six rules at one checkpoint | what is counted is what was done; the approval holds; no paused turn is refused; the turn comes to rest |
| completion (`completion.rs`, `verification.rs`, `plan.rs`, the end of a turn in `chat.rs`) | the evidence of a plan's steps, the verification events of the session, the task's status | complete a step, make verification due, run checks, repair, settle | what is due and which attempt it is are deduced from the log after pauses, crashes and nested turns; verdicts on files that changed since | complete only with evidence of the present files; every change is reported on or due; repairs end |
| commands (`command_runner.rs`, `validation.rs`, `command_policy.rs`) | proposals, a child process | propose, approve, run, time out, kill | timeout against exit, output of grandchildren | one run per approval |
| git operations (`commit.rs`, `branch.rs`) | a prepared record, a private index | prepare, approve, recheck, mutate, settle, inspect after a crash | the user moves the repository between any two Git processes; death after Git and before the record | what lands is what was reviewed, once; staged work and history stay |
| hooks, MCP, LSP, model adapters, memory, policy, indexing, audit, user interface | see `PROJECT.json` | | | |

How they interact. Everything durable about a turn is an event in the session log,
written with the log's lock; the other modules use that append as one step, which
is what `EventLog` and `SessionLog` justify. The shell's accept loop serves one
connection at a time (`desktop-shell/src/lib.rs`, `run_server_with_ready`), so
turns, sweeps, decisions, patches and rewinds of one shell exclude each other; a
driver process runs beside it and shares only files. Crashes are process deaths:
the models keep what was written and drop what was in memory. A power cut that
reorders the writes of two files is not modelled.

`PROJECT.json` lists every component with its status, and under `hazards` the
places that are hard to test, each with the properties that cover it.

## Modules

| module | models | extended or used by |
| --- | --- | --- |
| `EventLog` | abstract: what a session log promises its readers | `SessionLog` implements it |
| `SessionLog` | the log, its sidecar, the processes that append | `MCSessionLog`, `SessionLogProofs` |
| `TaskRecovery` | turns, crashes, the launch sweep, the user's decisions | `MCTaskRecovery`, `TaskRecoveryProofs` |
| `ProcessRegistry` | registration of children, the two sweeps, the kernel's processes and pids | `MCProcessRegistry`, `ProcessRegistryProofs` |
| `Checkpoint` | checkpoints of turns, patches, commands, rewinds, retention | `MCCheckpoint`, `CheckpointProofs` |
| `DelegatedWorker` | a worker's driver, its slot and turn thread, the shell's commands to it, its returns | `MCDelegatedWorker`, `DelegatedWorkerProofs` |
| `TaskSegments` | the rounds, segments, budget and pauses of a worker's task | `MCTaskSegments`, `TaskSegmentsProofs` |
| `GitOperations` | prepared commits and branch operations beside a user at the same repository | `MCGitOperations`, `GitOperationsProofs` |
| `CompletionGate` | the steps of a plan, verification, repair turns and the gate that settles a task | `MCCompletionGate`, `CompletionGateProofs` |

The modules overlap at the session log and at task statuses: `DelegatedWorker` and
`TaskSegments` use an append as one step, which `SessionLog` justifies; a worker's death
in `DelegatedWorker` is what `TaskRecovery` sweeps after and `ProcessRegistry` finds the
children of. `DelegatedWorker` treats a round as one step, `TaskSegments` opens it and
leaves the slot out. What `TaskRecovery` calls `complete` is the verdict `CompletionGate`
computes, and the patch `CompletionGate` decides in one step is the request `Checkpoint`
opens. They are not composed by `INSTANCE`: what one assumes of another is
a sentence each time, and the product of their states is out of reach.

An `MC` module only supplies sets, symmetry and constraints. A definition named
`X_Something` is a mutant of `X`: the same definition with a plausible mistake, kept
beside it to show which property would notice. No behaviour of a specification uses
one.

### SessionLog

State: the lines of the file (`log`; a line is an event with its number and, for a
rewind marker, its position, or a fragment that does not parse), whether the last
line has a newline (`open`), the sidecar (`counter`, `lock`) and per process where it
is in an append. `AppendEvents` and `Rewind` decide what is appended (lock-free, as in
the code), `Acquire` takes the flock, `Reserve` writes the counter, `Write` or
`TornWrite` the buffer and releases, `Crash` drops the process anywhere; `Checkpoint`
records a position a later rewind may name, `Delete` removes the log and leaves the
sidecar. Readers are operators over the file: `Readable`, `ActiveSeqs`.

Run `log_append`: two processes, transactions of one or two events, up to two cut-off
writes, rewinds, starting empty or with an older build's log. Checks types, that numbers
increase along the file (`SeqsIncrease`), that a tear costs at most one acknowledged event
(`LossBoundedByTears`), and that `SessionLog` implements `EventLog` with `seqs <- ReadableSeqs(log)`,
`high <- ReservedLast`, `fresh <- (counter = Missing)`. Of rewinds, to any recorded position and
in any order, it checks `OnlyRewindsMoveTheConversation`: what a rewind removed comes back only by
a rewind to a point at or after it, and nothing but a rewind takes an event out.

Run `log_rewind_again` (violation): what a rewind removed does not stay removed
(`RewoundIsInert`). A rewind, a checkpoint after it and a rewind to that checkpoint: only the
newest marker is read (`session.rs:5117`), and the events the first rewind removed are in
the conversation again. `OnlyTheTornEventIsLost`, what the document says of a torn line, is
not so either and is stated beside the property that holds.

Bounds: two processes are the shell and a driver, and every hazard of the lock needs
two; four numbers allow two batches, a death in between and another append; each tear
or rewind pattern needs at most two of them; `TwoPoints` records two positions, which are
an earlier and a later rewind.

### TaskRecovery

Two processes: the shell, which runs its own turns and, at its first request after a
launch, the sweep; and one worker's driver. Durable: `status`, `markers` (started and
not finished actions), `calls`, `usage`, `paused` (paused turns on disk), `link`,
`superseded`, `patches` and `decided` (the proposals that are patches, and those all files of
which are decided). In memory: where each process is (`at`, `cur`), the sweep (`scan`, `here`,
`goal`, `found`) and what the window shows (`shown`, `cards`, `offered`, `resolving`).
Each write of a turn is an action (`StartCall`, `FinishCall`, `RecordUsage`, `StartTool`,
`Dispatch`, `FinishTool`, `SavePausedTurn`, `AwaitApproval`, `ProposePatch`, `StartSettlement`,
...), a turn may end in an error with nothing written (`TurnErrs`), the user decides a patch
without a word to its task (`DecidePatch`), and each write of the sweep is another action
(`AccountForLostCall`, `SettleCrashed`, `ClassifyTasks`, `ResumeFound`,
`ReattachPendingApprovals`, ...), so that a crash can fall between any two.

Abstractions: `complete` stands for the gate's three verdicts; the pauses for a
question, a plan or a fetch are the pause for a command; the window's first request is
the sweep, and a failure of the sweep itself is a crash; `LateSweep` lets a driver start
before it; `ran` stops counting at two; a patch is decided as a whole. Not modelled: the effect of a rewind on
superseded tasks, repair rounds of the verification, the command line.

Runs:
- `recovery_crash`: a task of the shell and one of a worker's driver, one of them with a model
  call and one with a command or a patch to decide, turns that end in an error, and two crashes;
  the second may fall into the recovery of the first. `OnlySafeTasksAreResumed` (a lost side effect, a check cut off,
  an answer being settled), `RecoveredOnce` (usage, re-sent requests), `EveryOpenTaskIsOffered`,
  `EndedAndLiveAreLeftAlone` (a closed task is not reopened, a live driver's is its own),
  `SweepCountsEveryLostCall`, and `CrashedTaskIsSettledOrOffered` under `WF_vars(SweepStep)`
  alone: a request the shell has begun is run to its end by the thread that serves it, and
  nothing else uses that thread. Nothing is assumed of turns, drivers, the user or crashes.
  Two kinds of open tasks are on no card (`OnNoCard`), and `EveryOpenTaskIsOffered` names
  them: one whose turn ended in an error since the launch, which the next launch offers (and
  `CrashedTaskIsSettledOrOffered` has), and one that waits for a patch whose files are all
  decided, which no launch does (`PatchAlreadyDecided`, excepted by both).
  A repository may be gone when a launch would settle its task; `OneAsks` keeps that from
  the runs in which a task asks for an approval, and the approvals to one task: the two
  share no step. `OneCalls` has one task call the model, since calls are counted one by one;
  `PatchesAlone` leaves out the product of a patch with a driver's turn beside it.
- `recovery_run_twice` (violation): the paused turn is taken and the command run before
  the status moves on; a crash in between brings the approval back and the command
  runs again.

### ProcessRegistry

A process is the number it is started with, which stands for its start time; with its
pid it is an identity. Kernel: `kind`, `parent`, `pid`, `life`. Files: `entries`, `temps`.
Owners: `reg`, from `Spawn` over `Register`, `Link`, `RemoveTemp` to `Reap` and
`DropHandle`. Sweepers: `pc`, `todo`, `target`, one sweep of each scope per process:
`Launch` (owners gone) and `BeginShutdown` (own processes) list, `Check` matches an
entry, `Terminate`, `Exited` and `Kill` end it, `FinishSweep` and `SweepFails` end the
sweep. Any process may end at any step and its pid be used again.

Abstractions: a group is its leader; other users' processes are left out; the listing of
the entries is one step; what is left of a dead owner's unfinished registration is put
into one form (`RegWithout`).

`registry_sweep` checks `RegisteredStaysRecorded`, `LiveOwnersAreLeftAlone`, `OnlyTheRecordedIsSignalled` and `SweepEndsWhatIsDue` on three
pids and four processes: two instances, a worker or children, a stranger. Three pids
with four processes force reuse. `PidsInOrder` is a symmetry reduction (pids differ in
name only) and `OneShutdown` a bound: one process shuts down at a time, beside any number
of launch sweeps. `ReuseInGrace = FALSE` is an assumption on the system: a pid is not
handed out again within the 200 ms between match and last signal. With `TRUE`,
`OnlyTheRecordedIsSignalled` fails, because the poll asks only whether the pid names
anybody.

### Checkpoint

Contents are numbers, a new one for each edit, patch or command; `Absent` is no file.
State: `disk`, `head`; the store (`blobs`, and `refs`, what a checkpoint's ref reaches);
`manifest` (`was`: captured, `left`: sealed, `covered`, or torn); `patch` and its rollback
snapshots `snap`; `turn`; and `op`, the request being served, in steps: a patch captures
(`Apply`), writes the manifest and compares the bases (`CheckBase`), writes file by file
(`WriteFile`) and seals (`Seal`); a command is run after a census (`RunCommand`) and
recorded after another (`Record`, `Keep`); a rewind plans (`Restore`), puts back file by
file (`PutBack`) and marks what it restored (`Keep`); a turn creates its checkpoint and
cleans up (`CreateCheckpoint`, `Cleanup`). The user edits and commits between requests;
`Crash` falls between any two steps and may tear the manifest being written. History
variables say what a file held before its task changed it (`had`), what the task last
left (`mine`), what became of the user's edits (`work`), which turns were cut short (`cut`) and
which files a task's command first changed by writing where Git reported a deletion
(`undeleted`).

Abstractions: policy exclusions, modes and links are left out; a rollback snapshot and
its file are written in one step; commands do not move `HEAD`.

- Run `checkpoint_turns`: two families of instances in one run (`SmallerCases`). One turn on
  two files: patches in part or whole, commands that write, delete and revert files,
  rollbacks, rewinds of one file or of all, three requests, or two with a fault or a step
  of the user. Two turns on one file: three requests and a step of the user, or two and a
  fault (a death, a torn manifest, a checkpoint that could not be made, a turn that fails);
  retention may drop the other turn's checkpoint and collect the store.
  Commands that first write over a deletion Git reported (`Undeleting`) are explored with one
  turn on one file.
  `TurnIsOnRecord` (what the turn changed is covered, its content is stored, its own
  changes do not conflict), `TurnCanBeTakenBack` (a file is on record before it is written,
  and a rewind goes back to before the turn, except for a file in `undeleted`: there the
  code takes HEAD's content for what was there), `UnseenWorkIsKept` (of the user's edits that
  no later seal took in).

`DeletionsAreRemembered` and `UserWorkIsKept`, stated beside the properties, are the same
without these exceptions, and are refuted on one file and one turn (see Observations).

Bounds: three contents are the first one, one for the task and one for the user or a
second step; three requests are two changes and the rewind that takes them back, or a
change and two rewinds. Two files matter for partial applies and rewinds, two turns for
retention and torn manifests; both together add no interaction, since turns share only
the store and the tree.

### DelegatedWorker

State on disk: `task`, `pend` (what each task waits for), `pausedTurn`, `said` (the notes in
the conversation), the `parent` log, `returned` and `continued`. In the driver: the slot
(`st`, `pending`, `cancel`, `hold`, `queue`) and the turn thread (`job`, `pc`, `cur`). In the
shell: the escalation of a stop (`esc`), a deletion under way, the requests that continue
with a result (`chosen`), the task whose turn its own route runs (`inShell`). A command is one step, as the control thread holds the slot's lock
(`Start`, `Decide`, `Pause`, `Note`, `Resume`); the turn thread moves from `TakePausedTurn` or
`BeginTurn` over the boundary (`HoldAtBoundary`, `LookAtPause`, `DrainNotes`), `Round`,
`SavePausedTurn` and `AwaitDecision` to `ReturnResult` and `Settle`, or through a refusal or a
failure to `RestoreRefused` and `ReturnFailed`. `pending_decision` (`PendingDecision`) knows
commands, plans and questions; a turn that stops for a patch (`ProposePatch`) or a provider's
fallback leaves the driver idle. A patch's task goes on waiting while its files are decided; an
offer is declined (`DeclineOffer`) or taken up by the shell's route (`TakeInShell`), which runs the
turn in the shell (`ContinueInShell`, `RunInShell`, `FailInShell`), beside the driver, and returns
nothing to the parent. `elsewhere` remembers those tasks. A stop is asked, sent, awaited and escalated
in steps (`AskStop` to `FinishStop`); `Die`, `Exit` and `Restart` end a driver and begin the next.

Run `worker`: two tasks, three jobs, two notes, one stop, a restarted driver, two requests
that continue. `OutcomesReturnOnce`: a result is returned once and none to a parent that was
deleted, and what the driver itself brought to its end is returned before its next job; of
a task cut off at that moment by its driver's end (`cutOff`), or taken up by the shell
(`elsewhere`), that last part is not claimed, as the code does not do it (`EveryOutcomeReturns`, see
Observations). `ShowsWhatIsOpen`, `NotesAreKept`, and `StopEndsTheTurn` under `WF_vars(Thread)` and
`WF_vars(Exit)`: the driver's threads are scheduled. Nothing is assumed of the pause's
timeout (`Recheck` is not needed for a stop: the wake must be enough) nor of the shell's
escalation, which would end the process and with it the question.
`ParentSideAtRest` explores the continuing requests where the turn thread writes the parent's
log and where there is no worker, the only places they can meet; `SmallerCases` leaves out
products of cases (a second note with a stop or a restart, a second job after both), and
`OffersAlone` those of a patch or an offer with notes, pauses and stops. A
second task shows what a late stop or an old return does to the next turn; a third would
only repeat it.

### TaskSegments

State in the log: `status`, `planOf`, `carried`, `approved`, `usage`, `segments` (each task's
newest start), `instructed`, and `paused`, the paused turn on disk. In memory: `turn`, the
loop's locals, with `tracker` for `SegmentRunState`. `EnterLoop` is `run_agentic_turn` up to its
loop, `RunState` is `task_segment_run_state`; the top of the loop is `StartPrePlan`,
`AskForPlan`, `CrossBoundary`, `StopAtCheckpoint`, `PauseForRounds`, `AskModel` and
`RefuseRequest`, whose guards together are the code's nested conditions; what the model
answers is `ReadRound`, `ActionRound`, `ProposePlan`, `PauseForReview`, `PauseForDecision`,
`EndWith` and `ProviderRefuses`; the user approves, declines, decides, continues, stops.

Runs:
- `segments`: two tasks, the second carries the plan on, a tight and a wider
  budget, segments of one action and one exploration round,
  one crash. Small segments make boundaries and checkpoints frequent; a turn cap of three
  is reached by two Continues. `RoundsStayWithinTheApproval`, `PausedTurnCanGoOn`,
  `TurnComesToRest`. Fairness is `WF_vars(TurnGoesOn)`: a turn in memory is run by its
  thread, and its calls are answered or time out.
- `segments_continued` (violation): a task that carries an approved, budgeted plan on
  finds the budget and no usage, and is stopped as if its usage had been lost.

### GitOperations

Commits are numbers with a parent, a tree and what made them; the repository is `ref`,
`head`, `index`, `work`, `hooks`. A record goes from `PrepareCommit`, `PrepareCreate`,
`PrepareSwitch` or `PrepareDelete` to its approval. A commit is `CheckContent`, `Compose` (the
private index), `RunHooks`, `MakeCommit`, `Recheck`, `UpdateRef` (compare and swap),
`ReadIndex`, `WriteIndex`, `Settle`; a branch operation `Consume`, `RunGit`, `SettleBranch`.
Between any two the user edits, stages, commits, switches, moves branches, resets or installs
hooks, Git fails, or the shell dies; `Inspect` is what the next launch tells of a record that
was cut off (`CutOff`).

Run `git`: two files, two branches, four steps of the user, one death or failure.
`CommitIsWhatWasReviewed`, `StagedWorkStays`, `MutationRunsOnce`, `HistoryIsKept`.
`MutationRunsOnce` says what a cut-off record reads as while nothing else moved `HEAD` or a
branch: landed if Git ran, and for a switch to the branch `HEAD` is already on
(`NothingToSwitch`) whether it ran or not; not landed otherwise. That it always tells which
(`InspectSaysWhich`) is refuted by that switch (see Observations). One
preparation: the shell serves one request at a time and a record is its own file.

### CompletionGate

One plan of a session in Code mode, carried from task to task (`plan_resumed`), so that only
the newest task matters. In the log: `plan` (each step's status, evidence and required
check), `exits` (checks whose `verify_` step holds a command's exit), `due` (the newest
`Due` without a `Finished`) and `fold` (`VerificationState`: the attempt, the selected
checks, each check's newest run with the mutation batch and the files it hashed, how it
finished). Then the newest `task`, where its turn is (`mode`), what the turn observed and has
not put on a step (`buffer`), the verification in flight (`run`) and the patch under review.
A content is never written twice, so a record's hashes are the set of files it hashed and
whether one of them changed since (`Disturbed`).

The turn is `RunCommand`, `DeclineCommand`, `RunChangingCommand`, `CompleteStep`,
`ProposePatch` and `Answer`. What happens after an answer is a stack in the code: a repair
turn is called by the verification that failed, which may have been called by the answer of
another repair turn. `task.frames` counts those callers, `task.outer` says that a resume will
close the repair; `RunFloor`, `VerifyAfterCommand`, `EndTurn`, `CloseRepair` and
`RepairStalls` are what each frame does when the turn under it returns. A pause empties the
stack, a crash too. The user decides a patch by files (`DecideFiles`), which makes
verification due (`VerificationDue`); a verification starts (`StartVerification`, with
`NextAttempt` and `Chosen`), runs its checks (`RunCheck`), pauses for those that need an
approval (`PauseForChecks`, `DecideChecks`) and passes, fails or starts a repair turn
(`PassVerification`, `FailVerification`, `StartRepair`). The gate is `Eligible` with
`RequiredIsMet` and `FloorIsMet`; `FloorNeeded` is what an answer finds missing.

Runs:
- `gate`: two steps, two files (interchangeable), a check that runs freely and a suite that
  needs approval and is required by the first step, by the second or by none; one repair
  allowed; four commands, patches, edits, crashes and user turns.
  `CompleteIsVerified`: a task becomes complete only when each check its plan or its files
  require passed or was declined in a verification whose files are unchanged, or by the last
  command of it that a step has, with no patch on a step since. The property's own records
  (`recorded`, the hashes) are kept apart from what the gate reads.
  `ChangesAreVerifiedOrDue`: at rest, a change that no verification has reported on is due.
  `RepairsAreBounded`: between two turns that the user or a restart starts, there are no
  more repair turns than the limit and the decisions of the user: commands approved or
  declined, and wholly rejected patches that no attempt waited for. The last is rare: a
  verification that chose no check (a floor run whose checks are all deferred to open steps)
  cannot say after the restart that its task made the patch, so what was due before stays due
  at the same attempt.
- `gate_limit` (violation): the limit alone does not bound them. A repair turn started by a
  verification that a command (or the floor) made due keeps that due; if it runs an approved
  command and answers without a patch, `verify_after_command_turn` verifies again at the
  same attempt and starts the next repair turn (`chat.rs:2651`, `5436`).

Bounds: a step before and one after the present one are all that the batch rule
distinguishes; two files make a decision by parts and a patch to another file possible; two
checks are one that is deferred or needs approval beside one that does not. Limit 1 has a
first verification, a repair and an exhausted repair. Four acts reach a rejected or applied
repair patch after a command, a crash in the verification of it and the turn that follows;
three already violate `LimitIsAStop`.

Abstractions: a failing check fails by what the patch introduced or otherwise, with no
baseline behind it; the verification's start, its checks and their events are one step each,
and patch files, decision and `Due` are one (see Observations); the user starts no turn while
a patch or a card is open; changed files always belong to a root with detected checks.

`CHECK_DEADLOCK FALSE` where it stands: the bounded counters run out and the program may
be at rest.

## What is proved

With TLAPS, for all values of the constants:

`SessionLogProofs`
- `LogTypeCorrect`: `Spec => []TypeOK`.
- `SequenceNumbersIncrease`: `Spec => []SeqsIncrease`.
- `ReservedNumbersAreFresh`: `Spec => []ReservationsAreFresh`.
- `LogImplementsEventLog`: `Spec => ImplementsEventLog`, that is `EL!Spec`.
- `LossIsBounded`: `Spec => []LossBoundedByTears`.
- `RewindsAloneMove`: `Spec => OnlyRewindsMoveTheConversation`.

`SeqsIncrease` alone is not inductive: a write appends numbers chosen earlier. The
invariant `IInv` adds that one process at most is past the flock (`OneWriter`), that a
known counter covers the file (`CounterCoversLog`), and that reserved numbers are the
newest the sidecar knows and above the file (`ReservationsAreFresh`). Lemmas state what
appending to, tearing and merging lines does to the readable ones; the step proof has one
case per action.

In the refinement, every step of the log is an abstract `Issue`, `Append` or `Delete`, or leaves the lines and
the sidecar alone and is a stutter. That a reservation issues a number at all needs one
fact beside `IInv`: a process in an append has an event to append (`JobsHaveEvents`).
`WrittenAppends` is the heart of it: only the last old line can be lost to a merge, so only
the newest number.

The bound on the loss is inductive with a debt (`LossInv`): a line without its newline is no
acknowledged event, and its tear, counted already, has cost nothing yet (`Debt`). The write
that merges it (`OnlyTheOpenLineGoes`, `WriteLoses`) or tears the line after it
(`TornWriteLoses`) spends that one.

`RewindsAloneMove` speaks of every order of rewinds. A rewind is requested and written in
different steps, and other appends, tears and rewinds fall in between: `NewestMarkerDecides` gives
the reader's view as two bounds of the newest marker, `WritingRemovesNothing` compares it across a
write, with the merge of a torn line, and `WriteKeepsConversation` takes from `IInv` that what is
written is newer than anything on file.

`TaskRecoveryProofs`
- `TypeCorrect`: `Spec => []TypeOK`.
- `ResumesAreSafe`: `Spec => []OnlySafeTasksAreResumed`.
- `NothingIsRecoveredTwice`: `Spec => []RecoveredOnce`.
- `NothingSettledIsDisturbed`: `Spec => EndedAndLiveAreLeftAlone`.
- `NoLostCallIsForgotten`: `Spec => SweepCountsEveryLostCall`.
- `NoOpenTaskIsLost`: `Spec => []EveryOpenTaskIsOffered`.

The properties speak of what recovery did; why it was right is in how the log, the
processes and the window fit between any two writes. `IInv` says it in four groups.
`TurnInv`: one process at most runs a task, and the shell runs a worker's task only for
the reattached approval it answers (`OwnTurns`); the status is the one the turn's place
calls for (`StatusFits`); a call is counted only after it was made (`NumbersFit`); a
sweep is in a worker's session only while its driver is down (`SweepsTheDead`).
`CardsFit`: a card that can still be answered, because its paused turn or its patch is kept
(`Kept`), names a waiting task no process runs, and the task has no other. `HistoryInv`: what a crash cut off is not run again and keeps its
marker (`LostFit`), what recovery continued stays stopped (`ResumedFit`; the process that
takes a re-sent request makes a new task), and a recovered task stays what it was found to
be until it is decided (`FoundFit`), although a worker's driver runs beside the sweep.
A turn's step is abstracted into what it does to its own task (`TurnFrame`, `TurnMoves`) and
to approvals (`TurnKinds`), a step of the sweep or of a decision into the one write it makes
(`ShellStepWrites`), a death into `DeathFrame`; the invariants follow from those. The last
two theorems follow a sweep through its phases: `Counted` says that once the
shell's session is accounted for no open call of it is uncounted, `Coverage` that an open
task is, in turn, in a session yet to be classified, found, shown or about to get its card,
or one of those `OnNoCard` names. `WaitStays` is what the exception for patches rests on:
neither a sweep nor a decision moves a task that stays open on from its wait.

`ProcessRegistryProofs`
- `RegistryTypeCorrect`: `Spec => []TypeOK`.
- `RunningChildrenAreRecorded`: `Spec => []RegisteredStaysRecorded`.
- `SweepsSpareLiveOwners`: `Spec => []LiveOwnersAreLeftAlone`.
- `SignalsReachTheRecorded`: without `ReuseInGrace`, `Spec => []OnlyTheRecordedIsSignalled`.
- `SweepsEndWhatIsDue`: `Spec => SweepEndsWhatIsDue`.

`IInv` is: types, pids unique among the living (`UniquePids`), processes not yet born
unrecorded (`Unborn`), parents older (`Parents`), a reaped registration's process dead
(`ReapedIsDead`), and the first two properties. `Next` is abstracted once into what a step
does to a process's life (`LifeMoves`), its registration (`RegMoves`) and a sweep
(`SweepMoves`); the invariants follow from those. `SignalsReachTheRecorded` adds `Sighted`: what
a sweep is ending still has its pid or is gone. `SweepsEndWhatIsDue` adds `DueFits`: of what was
due, a process that still runs is in the sweep's scope and on its list or its target, whatever
other sweeps and owners do to the entries; a pid used again cannot make it miss one, since the
pid of a process that runs is its own (`UniquePids`).

`TaskSegmentsProofs`
- `TypeCorrect`: `Spec => []TypeOK`. The type of a resumed tracker needs that what a budget
  has left is cut off at zero, that of a pause that its tracker is typed.
- `PausedTurnAlwaysGoesOn`: `Spec => []PausedTurnCanGoOn`.
- `RoundsAlwaysWithinTheApproval`: `Spec => []RoundsStayWithinTheApproval`.

`PausedTurnCanGoOn` says of no task that it is refused and nothing of why; the invariant
`SegmentMatches` says it: a running turn's tracker, a paused turn's saved state and the state
a turn enters with each describe `LastStarted` of its task, and no turn runs beside a paused
one. A new segment is the newest on the plan's path (`LastIsStarted`, from `OwnIsNearest`),
every other step leaves that path alone (`SameSegments`); `SavedMatches`, `EndedMatches`,
`RoundMatches` and `StartedMatches` are the four kinds of steps.

`RoundsStayWithinTheApproval` compares what was done (`spent`) with what was approved, and the code only
compares counters. The invariant `RoundsInv` connects them, beside `SegmentMatches`:
`TaskOrder` (tasks are created in order, only the newest has a turn, only the first may be
without a plan), `Counted` (what is spent is what the log has of the task plus what the turn
or its pause counts, the round a decision waits on included; at most that, for a task that
carries a plan), `Allowed` (a segment's allowance is at most what its budget has left, the
budget is the approved one, and before the plan is asked for the pre-plan one), `PrePlan`
(without a plan no rounds are granted, and an open segment has a tracker) and `Bounded`.
`ActionFits` and `ReadFits` turn the loop's guards into the bound, `TookWithin` uses them for
a round, `NewSegment` carries `Counted` over a boundary, `TakenOff` over a pause. The proof
gives the pre-plan phase a tighter bound than the property asks for: the segment that
`AskForPlan` grants can only propose the plan.

`CompletionGateProofs`
- `TypeCorrect`: `Spec => []TypeOK`. The batch number is a natural only because steps are
  done in order and the first has begun (`StepOrder`); a turn's callers are counted down only
  while something waits for it (`Stack`).
- `ChangesStayDue`: `Spec => []ChangesAreVerifiedOrDue`. The property speaks of rest; the
  invariant `DueOrUnderReview` speaks of every state, and adds the patch of which a part is
  applied and the rest still under review, of which nothing is due yet.
- `RepairsEnd`: `Spec => []RepairsAreBounded`. The code counts attempts and decides from the
  log whether the next verification is a new one (`NextAttempt`); the property counts turns.
  The invariant `RepairCount` says that repairs never exceed the attempt, one more, and what
  the user decided, and exceed the attempt only while `WillBeCounted` holds: the attempt is
  finished, or the turn, patch or due verification of the present repair names the task that
  the attempt started. `CountStays` is used for every step that keeps this, `AskedCounts` for
  the decisions of the user that lose it.
- `OnlyVerifiedTasksComplete`: `Spec => CompleteIsVerified`.

Only an answer and a passed verification settle a task complete, each by the gate
(`SettlesByTheGate`). What the gate reads from the loop's runs is the property's first
disjunct. What it reads from a step's evidence has to be what the turn observed
(`recorded`): the invariant `RecordedIsRight` says so of the last step that has begun, the
only one the gate trusts. `HoldsAfterConcat` is its core: on a step that takes the turn's
observations, the last that speaks of a check is the last of the turn if there is one, and
otherwise what held before, with no patch since. `NothingHoldsAfterPatch` is the case of an
applied patch.

`DelegatedWorkerProofs`
- `TypeCorrect`: `Spec => []TypeOK`.
- `NotesAreNeverLost`: `Spec => []NotesAreKept`.
- `OutcomesReturn`: `Spec => []OutcomesReturnOnce`.
- `WhatIsOpenIsShown`: `Spec => []ShowsWhatIsOpen`.

The slot, the job, the thread's place and the session's log each hold a part of what a worker
is doing, and the code keeps them apart: `settle` reads the log, a refused decision the job,
`return_failed_turn` the newest task, a restart the newest task that waits. That they speak of
the same task is the invariant. `InOrder`: tasks are created in order, so there is one newest
(`OneLatest`). `JobFits`: whatever the thread runs, and whatever a job decides, is the newest
task or one that came back from the shell, in the status its place calls for. `ShellFits`: the
task the shell's route runs is neither the thread's, nor a job's, nor the slot's. `OpenFits`:
of the tasks that never left the driver, what could be brought back is the newest
task's, no failed turn is past the point where its decision is put back, and the slot of a
living driver is not idle over it. `ReturnsFit` says the same of a result still to be
returned. `SlotFits` ties the slot to the job and a dead driver to an empty slot, `NotesFit`
adds to the notes that they are numbered as they are accepted.
Every step is first abstracted: a command, a stop and a request beside the thread change at
most the slot's state and wake the thread (`AsideIs`), a job is taken (`TakenIs`), the driver
falls, is restarted, or its thread writes one task, one link, one return (`ThreadWrites`) and
the slot in one of four ways (`ThreadSlots`). `RestoredIs` is what makes a restart right:
what it reads is open, and if anything is open it reads that.

`GitOperationsProofs`
- `TypeCorrect`: `Spec => []TypeOK`, with HEAD on a branch that exists.
- `CommitsAreReviewed`: `Spec => []CommitIsWhatWasReviewed`.
- `StagedWorkIsKept`: `Spec => []StagedWorkStays`.
- `MutationsRunOnce`: `Spec => []MutationRunsOnce`.
- `HistoriesAreKept`: `Spec => HistoryIsKept`.

`IInv` follows a request between its Git processes. `ReqFits`: what it holds is of one
preparation still in the state it was approved in; the composed tree is the reviewed one, and
so is the commit once made. `MadeAsReviewed` says this of every commit any preparation ever
made, in a branch or not: the user may move a branch to a commit that a dead request left.
`QuietFits`: while nothing else moved HEAD or a branch, the branch is as prepared (`Prepared`)
or as the mutation left it (`Landed`), and `RunsFit` that what is not consumed has not run.
`StagedFits` follows the index a commit found through its two processes. For each conjunct
one lemma says that every step keeps it; most rest on `RecStep` (what a step does to the
records), `MadeBy` (which commit it makes) and `BesideFrame` (most steps move neither a branch
nor HEAD). Histories are the recursive function `History`: `LineageExists` shows by the least
number at which it would fail that the recursion has a solution, `PastStep` that a history is
its commit and its parent's history, `PastIsMade` that it holds only commits. `HistoryIsKept`
then asks one thing of each step of Git that moves a branch (`ReachesMore`).

`CheckpointProofs`
- `TypeCorrect`: `Spec => []TypeOK`.
- `TurnsAreOnRecord`: `Spec => []TurnIsOnRecord`.
- `UnseenWorkSurvives`: `Spec => UnseenWorkIsKept`.
- `CheckpointComesFirst`: `Spec => [][CheckpointBeforeWrite]_vars`.
- `TurnsCanBeTakenBack`: `Spec => TurnCanBeTakenBack`.

`TurnIsOnRecord` speaks of a process at rest and of finished turns; what makes it true is what
a request holds while it is under way. `CopyFits`: the manifest a request is going to write
adds to the one on disk. `ManifestsFit`: a manifest that claims to cover its turn has every
file the task changed (`Covers`), each with a content from before that change or in `undeleted`
(`Faithful`),
and so has the manifest being written; of a command that ran and is not recorded yet, it is
what recording will make of it (`Recorded`), computed from a census taken before and a tree
that has moved since. `SealsFit`: what was sealed is what the task last left, and of a rewind
half way, so it is for the files already put back. `StoreFits` has the contents of both
manifests within the reach of the ref. `WorkFits`: work of the user that no seal took in
conflicts, which needs that a fresh content is none any manifest knows (`ContentsAreMade`).
`TurnsFit` and `OpFits` tie a request to a turn that has begun. `BlankFits`, proved on top of
`IInv`, says that a manifest that is missing or torn captures nothing.
There is one lemma per action; `WritesDoes` and `WithPathsAdds` are what they share of a write
to the tree and of paths added to a manifest. `WhoWrites` (during a patch or a rewind nothing
else changes the tree) carries the invariant to the action properties.

The assumptions are the named ones on the constants. The theorems cover any number of
processes, files, patches, pids, batches, tears, sweeps, tasks and budgets, where the runs have two to four.

Every safety property that holds in a run is stated by a theorem. Liveness
(`CrashedTaskIsSettledOrOffered`, `StopEndsTheTurn`, `TurnComesToRest`) is only model-checked, as is
anything about `ENABLED`. The library's induction rules take an operator and are out of the provers' reach, and so is every
recursive operator: no module uses one. Where an induction is needed it is over a set, by its
least member (`LeastOfSome`, `GreatestOfSome`).

## Observations without a run

Met while modelling, each by reading the code along a model's behaviour. Where a property is
named, it is stated in the module, marked as refuted, and TLC finds its counterexample on the
small instance (two tasks and jobs, one file or one preparation) when a configuration lists it:
- Log: an event appended after a cut-off
  write runs into the unfinished line and is lost although its append returned `Ok`
  (`session.rs:4826`); specification 17 says at most the event being written is. A
  transaction of two events cut after its first line leaves that event readable,
  against the comment at `session.rs:3182`.
- Recovery: a call's marker closes before its usage is written (`chat.rs:10075`); a crash
  in between leaves a call nothing counts. `resolve_reattached_approval` writes
  `cancelled` without reading the status, over a `complete` the resumed turn may have
  reached (shell `recovery.rs:312`). An approved command whose run is an error ends the request
  after its paused turn was taken (`chat.rs:5185`, `validation.rs:389`): its task goes on
  waiting, on no card until the next launch. A task whose patch's files are all decided
  goes on waiting too and is passed over at every launch (`recovery.rs:585`), although
  specification 17 says of a launch that every incomplete task is detected and classified
  (requirement 4); specification 93 has the status of such tasks as a non-goal. A worker's
  reattached approval continues its turn in the shell, which `app.js:7288` says cannot be. A
  validation check cut off has no marker.
- Registry: a registration that fails leaves its child running and unrecorded
  (`command_runner.rs:332`, `mcp.rs:365`; `hooks.rs:701` and `lsp.rs` kill theirs). The
  shutdown watchdog ends what it listed while other threads go on registering
  (`process_registry.rs:660`). A launch sweep may pass a live worker's child and then end
  the worker. Members of a group that ignore `SIGTERM` outlive a leader that obeys.
- Checkpoints: the store is not locked between processes, so another's retention may
  collect a census's blobs; a torn manifest blocks every patch, record and seal of the
  repository; a crash during a command leaves `commandEffectsCovered` true; a command that
  moves `HEAD` is recorded wrongly; a turn that ends with an error is not sealed and its changes
  then conflict; a patch rolled back conflicts with the rewind of its turn; an apply refused
  as stale has already captured its files.
- Checkpoints: a path that Git reports as deleted when a command begins has no snapshot, and
  the recording takes it for a clean one (`checkpoint.rs:838`; the comment above it: "Not in the
  before census: either committed and clean, or it did not exist at all"): HEAD's content is
  captured, and the rewind writes a file where the user had none (`DeletionsAreRemembered`;
  the user deletes, a command writes, one rewind). A user's edit between two seals of one
  turn is sealed as the turn's and overwritten by its rewind without a conflict
  (`checkpoint.rs:503`, `UserWorkIsKept`; specification 16: "A file the user edited after the
  checkpoint is reported as conflicted and is not overwritten").
- Workers: the escalation of a stop may shut a worker down over a turn it was not asked to
  stop, when the turn ended and another began (`workers.rs:1405-1421`; specification 57:
  "if the turn has not ended within 10 seconds", `EscalationIsAboutItsTurn`). A turn that waits
  for a provider's fallback is no decision of the driver's (`worker.rs:1737`) and is ended by the
  shell's route (`lib.rs:4172`), while only the driver records returns (`worker.rs:1373`): declined,
  the task fails and its parent never hears of it (specification 100, requirement 1;
  `EveryOutcomeReturns`, refuted with one task and one job). Nor does it of a task that ends just
  as its driver is shut down, as nothing looks again, or of one that came back from the shell, is
  restored as the driver's decision and then fails with an error while a newer task exists:
  `record_failed_parent_return` looks at the newest task only (`worker.rs:1414`). A question answered just
  before a crash is neither open nor resumable: the paused turn is taken off the disk first
  (`chat.rs:5869`, `worker.rs:1071`; specification 50: "a crash while a question is open
  resumes with the question pending", `QuestionCanBeResumed`). A pause asked for during a
  round that ends in an approval is gone after it; notes queued in a last round are never
  read; a worker whose own session was deleted makes its log anew.
- Segments: a provider fallback after the pre-plan instruction resumes with the old
  allowance, and the turn is stopped as `preplan_exhausted` with no call, though
  `chat.rs:9095` says it gets one more. The rounds of an open segment are not in the
  totals of a task that carries the plan on. A boundary's append that is cut short leaves
  the old segment's end as the newest event, which is harmless (`session.rs:1448`).
- Git: `inspect` calls a switch landed when the branch is at the expected commit and HEAD is on
  it (`branch.rs:1288`): a switch to the branch HEAD is on already, cut off before Git ran, reads
  as landed, and the comment of `BranchInspection` says that "an interrupted action either landed
  or did not, and this says which" (`branch.rs:361`; `InspectSaysWhich`). The recovery card says a
  commit did not land when the user has switched to another branch at the expected commit (shell `recovery.rs:517`); the branch of `HEAD` is not
  looked at again before `update-ref` (`commit.rs:1102`); a path staged between the reading
  and the writing of the index is overwritten (`commit.rs:2367`). The commits a forced
  deletion loses are listed when it is prepared (`branch.rs:769`) and not looked at again
  (`branch.rs:1063`): if another branch that held some of them moves in between, more is lost
  than was confirmed (specification 36, `proposal.md:269`; it needs a third branch).
- Gate: evidence reaches only a step in progress (`session.rs:3259`). A repair patch applied,
  or a required check that is run again and fails, after all steps are closed leaves the older
  command's verdict in force and the task settles complete (specification 105,
  `proposal.md:172`: "Mutating a validated file makes the required check stale and prevents
  `complete` until it reruns or the user explicitly waives it"). A command or a user's edit
  after a check's command is not seen at all, a later patch of the same step only by the
  order of the evidence.
- Gate: a required check that is not detected, on a step before the last, is never current
  once a later step begins, so its task cannot become complete. A floor check with a stale
  run is not satisfied by the model's own command once a `verify_` step holds its exit
  (comments at `completion.rs:340`). A plan with a required check on a later step is not
  continued after a verification, because `RequiredCheckMissing` stands beside
  `OpenPlanSteps` (`chat.rs:4577`, against `2511`).
- Verification: the attempt is counted over the session and grows with every patch after a
  finished verification, so that `RepairLimitExhausted` may be reported with no repair made
  (specification 23, `context.md:313`). A verification fails on a check selected by an earlier
  one that is stale and not run again. A `Finished` clears a `Due` that another patch
  recorded meanwhile, and a card's checks are recorded with the hashes of before it.
  A repair turn nested in another by the floor records its patch twice and stalls, and the
  outer one overwrites `complete` by `no_repair_applied`. A crash between the files of a patch
  (`edit.rs:1117`) and its decision leaves an applied patch that is not due.

## Not modelled

Most of the 145,000 lines are outside what these models can say anything about: the user
interface, the wire formats of six model providers, HTTP and JSON plumbing, parsing of
configuration, policy patterns, language servers, search and indexing, text rendering and
the tests beside each module. They are sequential conversions whose defects a unit test
reaches; modelled at the level of control they would have one state. The modules map what
carries durable state and interleavings, about a thirtieth of the lines; a definition maps
the lines it translates and nothing around them. Within reach and left out: the process control
of the command runner, hooks and MCP servers, the command line as a further process, remotes of
Git. `PROJECT.json` gives each component its reason.

## Plan

1. Done: `EventLog`, `SessionLog` with its proofs; `ProcessRegistry` with its proofs;
   `TaskRecovery`; `Checkpoint`; `DelegatedWorker`; `GitOperations`;
   `TaskSegments`; `CompletionGate`; the proofs of their safety properties.
2. Models: the command runner's timeout against exit and output; the command line as a
   process of `TaskRecovery`; the baselines that decide a failure's provenance.

A run answers one question; as runs of new modules arrive, runs of one module that share
an instance are merged.
