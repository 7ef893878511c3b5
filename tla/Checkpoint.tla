------------------------------ MODULE Checkpoint ------------------------------
(***************************************************************************)
(* Checkpoints of a turn and the rewind to them (checkpoint.rs), with what *)
(* writes files for a task: applying and rolling back a stored patch       *)
(* (edit.rs, patch_engine.rs) and an approved command (chat.rs).           *)
(*                                                                         *)
(* A turn starts with an empty checkpoint. Files enter it with their       *)
(* content before a patch or a command changes them; it is sealed with     *)
(* what the turn left, and a rewind overwrites only what it was sealed     *)
(* with. The contents live in a Git object store of the repository, kept   *)
(* by one ref per checkpoint and collected by `git gc --prune=now`.        *)
(*                                                                         *)
(* The shell serves one request at a time. A request is a series of steps  *)
(* on the working tree, the store and the manifests, which a crash may cut *)
(* anywhere; the user edits files between requests. A content is a number: *)
(* each edit, patch or command writes one nobody wrote before or deletes   *)
(* the file, and a command may put back the one of HEAD. Commands do not   *)
(* move HEAD. Policy exclusions, file modes and symbolic links are left    *)
(* out.                                                                    *)
(***************************************************************************)
EXTENDS Integers, FiniteSets

CONSTANTS File, Task, Patch,
          NoTask, NoPatch,
          MaxContent,    \* bound: contents ever written
          MaxUserSteps,  \* bound: steps of the user on the tree or on HEAD
          MaxRequests,   \* bound: patches applied or rolled back, commands, rewinds
          MaxFaults      \* bound: deaths of the process, checkpoints not made, failed turns

ASSUME NothingAssumption == NoTask \notin Task /\ NoPatch \notin Patch
ASSUME MaxContentAssumption == MaxContent \in Nat \ {0}
ASSUME MaxUserStepsAssumption == MaxUserSteps \in Nat
ASSUME MaxRequestsAssumption == MaxRequests \in Nat
ASSUME MaxFaultsAssumption == MaxFaults \in Nat

VARIABLES
  disk,      \* the content of each file in the working tree
  head,      \* its content in HEAD
  made,      \* the greatest content ever written
  blobs,     \* contents in the object store
  refs,      \* contents the ref of a task's checkpoint reaches
  manifest,  \* the manifest of each task's checkpoint
  patch,     \* the stored patches
  snap,      \* the rollback snapshots of each patch
  turn,      \* where each task's turn is
  op,        \* the request being served
  (* history *)
  steps,     \* the user's steps
  requests,  \* the requests bounded
  faults,    \* deaths of the process, checkpoints not made, failed turns
  had,       \* contents a file had from the turn's start until the task changed it
  mine,      \* what a task last left in a file, or Foreign
  work,      \* what became of the user's edits of a file the task's checkpoint holds
  cut,       \* tasks a step of which was cut short, and how
  undeleted  \* files a task's commands first changed by writing where Git
             \* reported a deletion

tree == <<disk, head, made>>
store == <<blobs, refs>>
patches == <<patch, snap>>
bounds == <<steps, requests, faults>>
history == <<had, mine, work, cut, undeleted>>
vars == <<tree, store, manifest, patches, turn, op, bounds, history>>

-----------------------------------------------------------------------------
(* Contents, manifests, requests *)

Absent == 0              \* no file at the path
NotHere == -1            \* the path is not in a manifest, a census or a patch
Content == Absent..MaxContent
Entry == Content \cup {NotHere}
Foreign == -2            \* a seal took in what was not the task's own
Nowhere == [f \in File |-> NotHere]
Fresh == made + 1

\* `was` is what the checkpoint captured, `left` what it was sealed with.
Manifest == [state : {"none", "whole", "torn"}, was : [File -> Entry],
             left : [File -> Entry], covered : BOOLEAN]
NoManifest == [state |-> "none", was |-> Nowhere, left |-> Nowhere, covered |-> TRUE]
EmptyManifest == [NoManifest EXCEPT !.state = "whole"]
Torn == [NoManifest EXCEPT !.state = "torn"]

Captured(m) == {f \in File : m.was[f] # NotHere}
Holds_AbsentToo(m) == {m.was[f] : f \in Captured(m)}  \* mutant: a blob for no file
Holds(m) == {m.was[f] : f \in Captured(m)} \ {Absent}

\* list_checkpoints parses every manifest of the repository or fails.
Listable == \A t \in Task : manifest[t].state # "torn"

\* Mutant: a path that is already there is captured again.
WithPaths_Latest(m, S, before) ==
  [m EXCEPT !.was = [f \in File |-> IF f \in S THEN before[f] ELSE @[f]]]

\* Adding paths: a path that is already there keeps its first snapshot.
WithPaths(m, S, before) ==
  [m EXCEPT !.was = [f \in File |-> IF f \in S \ Captured(m) THEN before[f] ELSE @[f]]]

\* What Damaian last left at a path, and whether a rewind must leave it alone.
Expected(m, f) == IF m.left[f] # NotHere THEN m.left[f] ELSE m.was[f]
Conflicts_OnlyOfSealed(m, f) == \* mutant: what was not sealed is overwritten
  m.left[f] # NotHere /\ disk[f] \notin {Absent, m.left[f]}
Conflicts(m, f) == disk[f] # Absent /\ disk[f] # Expected(m, f)

\* git status: what differs from HEAD, with its content.
CensusOf(d, h) == [f \in File |-> IF d[f] # h[f] THEN d[f] ELSE NotHere]
Contents(g, S) == {g[f] : f \in S} \ {Absent, NotHere}

Op == [kind : {"none", "turn", "apply", "command", "seal", "restore", "rollback"},
       at : {"idle", "create", "cleanup", "check", "write", "seal", "back", "record",
             "put", "keep"},
       task : Task \cup {NoTask}, patch : Patch \cup {NoPatch}, todo : SUBSET File,
       bytes : Entry, seen : [File -> Entry],
       blind : BOOLEAN, copy : Manifest]
Idle == [kind |-> "none", at |-> "idle", task |-> NoTask, patch |-> NoPatch, todo |-> {},
         bytes |-> NotHere, seen |-> Nowhere, blind |-> FALSE, copy |-> NoManifest]

Free == op = Idle
Serves ==
  /\ Free /\ requests < MaxRequests
  /\ requests' = requests + 1
  /\ UNCHANGED <<steps, faults>>
Faults ==
  /\ faults < MaxFaults
  /\ faults' = faults + 1
  /\ UNCHANGED <<steps, requests>>
Begins(kind, at, t) == [Idle EXCEPT !.kind = kind, !.at = at, !.task = t]
Goes(at) == op' = [op EXCEPT !.at = at]
Ends == op' = Idle

\* A step of each of these tasks does not come to its end. A command that ran
\* and whose effects were not recorded is the worse case.
Cuts(S) ==
  cut' = [t \in Task |->
            IF t \notin S THEN cut[t]
            ELSE IF op.kind = "command" /\ op.task = t THEN "unrecorded"
            ELSE IF cut[t] = "no" THEN "short" ELSE cut[t]]
PatchFiles(p) == {f \in File : patch[p].base[f] # NotHere}

\* The working tree becomes d by a write of task t, or of nobody's.
Writes(d, t) ==
  LET touched == {f \in File : d[f] # disk[f]}
  IN /\ disk' = d
     /\ mine' = [u \in Task |-> [f \in File |->
                   IF u = t /\ f \in touched THEN d[f] ELSE mine[u][f]]]
     /\ had' = [u \in Task |-> [f \in File |->
                   IF turn[u] # "new" /\ mine'[u][f] = NotHere
                   THEN had[u][f] \cup {d[f]} ELSE had[u][f]]]
     /\ work' = [u \in Task |-> [f \in File |->
                   IF f \in touched
                   THEN IF t = NoTask /\ d[f] = Fresh /\ f \in Captured(manifest[u])
                        THEN "unseen" ELSE "none"
                   ELSE work[u][f]]]

Init ==
  /\ disk \in [File -> {Absent, 1}]
  /\ head = disk
  /\ made = 1
  /\ blobs = {}
  /\ refs = [t \in Task |-> {}]
  /\ manifest = [t \in Task |-> NoManifest]
  /\ patch = [p \in Patch |-> [task |-> NoTask, base |-> Nowhere, deletes |-> {}]]
  /\ snap = [p \in Patch |-> [f \in File |-> [was |-> NotHere, left |-> NotHere]]]
  /\ turn = [t \in Task |-> "new"]
  /\ op = Idle
  /\ steps = 0 /\ requests = 0 /\ faults = 0
  /\ had = [t \in Task |-> [f \in File |-> {}]]
  /\ mine = [t \in Task |-> Nowhere]
  /\ work = [t \in Task |-> [f \in File |-> "none"]]
  /\ cut = [t \in Task |-> "no"]
  /\ undeleted = [t \in Task |-> {}]

-----------------------------------------------------------------------------
(* Manifests *)

Reference_Never(t, m) == UNCHANGED refs  \* mutant: the ref is not rebuilt

\* reference_content: the checkpoint's ref reaches the contents it holds. The
\* manifest is written later: before anything else the request does ...
Reference(t, m) == refs' = [refs EXCEPT ![t] = Holds(m)]

\* ... or as the last thing it does.
Keeps(m) == manifest' = [manifest EXCEPT ![op.task] = m]

Keep ==
  /\ op.at = "keep"
  /\ Keeps(op.copy)
  /\ Ends
  /\ UNCHANGED <<tree, store, patches, turn, bounds, history>>

\* Sealing records what is on disk at every path of the checkpoint, whoever
\* put it there.
Seal ==
  /\ op.at = "seal"
  /\ LET held == Captured(op.copy)
     IN /\ Keeps([op.copy EXCEPT !.left = [f \in File |-> IF f \in held THEN disk[f] ELSE @[f]]])
        /\ work' = [work EXCEPT ![op.task] =
                      [f \in File |-> IF f \in held /\ @[f] = "unseen" THEN "sealed" ELSE @[f]]]
        /\ mine' = [mine EXCEPT ![op.task] =
                      [f \in File |-> IF f \in held /\ @[f] \notin {disk[f], NotHere}
                                      THEN Foreign ELSE @[f]]]
  /\ Ends
  /\ UNCHANGED <<tree, store, patches, turn, bounds, had, cut, undeleted>>

-----------------------------------------------------------------------------
(* A turn: its checkpoint, retention, its end *)

\* A checkpoint that cannot be made is recorded and the turn runs without.
BeginTurn(t) ==
  /\ Free /\ turn[t] = "new"
  /\ turn' = [turn EXCEPT ![t] = "running"]
  /\ had' = [had EXCEPT ![t] = [f \in File |-> {disk[f]}]]
  /\ \/ op' = Begins("turn", "create", t) /\ UNCHANGED bounds
     \/ UNCHANGED op /\ Faults
  /\ UNCHANGED <<tree, store, manifest, patches, mine, work, cut, undeleted>>

CreateCheckpoint ==
  /\ op.at = "create"
  /\ Reference(op.task, EmptyManifest)
  /\ Keeps(EmptyManifest)
  /\ Goes("cleanup")
  /\ UNCHANGED <<tree, blobs, patches, turn, bounds, history>>

\* Retention spares the newest checkpoint of the turn's own session, which is
\* the one just made: any other may be past the window or the size ceiling.
\* Then the store is collected.
Cleanup(D) ==
  /\ op.at = "cleanup"
  /\ D \subseteq {t \in Task \ {op.task} : manifest[t].state = "whole"}
  /\ IF D = {} \/ ~ Listable
     THEN UNCHANGED <<store, manifest>>
     ELSE /\ manifest' = [t \in Task |-> IF t \in D THEN NoManifest ELSE manifest[t]]
          /\ refs' = [t \in Task |-> IF t \in D THEN {} ELSE refs[t]]
          /\ blobs' = blobs \cap UNION {refs'[t] : t \in Task}
  /\ Ends
  /\ UNCHANGED <<tree, patches, turn, bounds, history>>

EndTurn(t) ==
  /\ Free /\ turn[t] = "running"
  /\ turn' = [turn EXCEPT ![t] = "over"]
  /\ IF Listable /\ manifest[t].state = "whole"
     THEN /\ op' = [Begins("seal", "seal", t) EXCEPT !.copy = manifest[t]]
          /\ UNCHANGED cut
     ELSE Cuts({t}) /\ UNCHANGED op
  /\ UNCHANGED <<tree, store, manifest, patches, bounds, had, mine, work, undeleted>>

\* A turn that ends with an error is not sealed.
TurnFails(t) ==
  /\ Free /\ turn[t] = "running" /\ Faults
  /\ turn' = [turn EXCEPT ![t] = "over"]
  /\ Cuts({t})
  /\ UNCHANGED <<tree, store, manifest, patches, op, had, mine, work, undeleted>>

-----------------------------------------------------------------------------
(* A patch: proposed in a turn, applied or rolled back at any later time *)

Propose(t, p, S, D) ==
  /\ Free /\ turn[t] = "running"
  /\ patch[p].task = NoTask
  /\ S # {} /\ D \subseteq {f \in S : disk[f] # Absent}
  /\ patch' = [patch EXCEPT ![p] =
                 [task |-> t, deletes |-> D,
                  base |-> [f \in File |-> IF f \in S THEN disk[f] ELSE NotHere]]]
  /\ UNCHANGED <<tree, store, manifest, snap, turn, op, bounds, history>>

\* The files the user selected are captured before anything is written. The
\* bytes depend on the hunks accepted. A patch whose task has no checkpoint is
\* applied without.
Apply(p, S) ==
  /\ Serves /\ patch[p].task # NoTask /\ Listable
  /\ S # {} /\ S \subseteq PatchFiles(p) /\ Fresh <= MaxContent
  /\ LET t == patch[p].task
         m == WithPaths(manifest[t], S, disk)
         new == S \ Captured(manifest[t])
         begun == [Begins("apply", "check", t) EXCEPT !.patch = p, !.todo = S, !.bytes = Fresh]
     IN IF manifest[t].state = "none" \/ new = {}
        THEN op' = [begun EXCEPT !.copy = manifest[t]] /\ UNCHANGED store
        ELSE /\ op' = [begun EXCEPT !.copy = m]
             /\ blobs' = blobs \cup Contents(disk, new)
             /\ Reference(t, m)
  /\ UNCHANGED <<tree, manifest, patches, turn, history>>

\* The manifest is there before prepare_files looks whether every file still
\* holds what the patch was made from.
CheckBase ==
  /\ op.at = "check"
  /\ Keeps(op.copy)
  /\ IF \A f \in op.todo : disk[f] = patch[op.patch].base[f]
     THEN Goes("write") /\ made' = op.bytes
     ELSE Ends /\ UNCHANGED made
  /\ UNCHANGED <<disk, head, store, patches, turn, bounds, history>>

\* One file: its rollback snapshot, then its new content. With no checkpoint
\* there is nothing to seal in the end.
WriteFile(f) ==
  /\ op.at = "write" /\ f \in op.todo
  /\ LET c == IF f \in patch[op.patch].deletes THEN Absent ELSE op.bytes
     IN /\ snap' = [snap EXCEPT ![op.patch][f] = [was |-> patch[op.patch].base[f], left |-> c]]
        /\ Writes([disk EXCEPT ![f] = c], op.task)
  /\ IF op.todo # {f} THEN op' = [op EXCEPT !.todo = @ \ {f}]
     ELSE IF op.copy.state = "none" THEN Ends
     ELSE op' = [op EXCEPT !.todo = {}, !.at = "seal"]
  /\ UNCHANGED <<head, made, store, manifest, patch, turn, bounds, cut, undeleted>>

\* Rolling back goes file by file and stops at one that was changed since.
Rollback(p, S) ==
  /\ Serves
  /\ S # {} /\ S \subseteq {f \in PatchFiles(p) : snap[p][f].was # NotHere}
  /\ op' = [Begins("rollback", "back", patch[p].task) EXCEPT !.patch = p, !.todo = S]
  /\ UNCHANGED <<tree, store, manifest, patches, turn, history>>

RollBackFile(f) ==
  /\ op.at = "back" /\ f \in op.todo
  /\ LET s == snap[op.patch][f]
     IN IF disk[f] # s.left
        THEN Ends /\ UNCHANGED <<disk, had, mine, work>>
        ELSE /\ Writes([disk EXCEPT ![f] = s.was], NoTask)
             /\ IF op.todo = {f} THEN Ends ELSE op' = [op EXCEPT !.todo = @ \ {f}]
  /\ UNCHANGED <<head, made, store, manifest, patches, turn, bounds, cut, undeleted>>

-----------------------------------------------------------------------------
(* An approved command: a census before it, the command, a census after *)

\* A command that makes the tree d writes these where Git reported a deletion.
Undeletes(d) == {f \in File : disk[f] = Absent /\ head[f] # Absent /\ d[f] # Absent}

\* Before or after the command there may be no census, when Git failed or found
\* more paths than checkpoint_census_max_paths: `blind`. A command that changes nothing is left
\* out.
RunCommand(t, blind) ==
  /\ Serves /\ turn[t] = "running" /\ Fresh <= MaxContent
  /\ \E d \in [File -> Content] :
       /\ \A f \in File : d[f] = disk[f] \/ d[f] \in {Fresh, Absent, head[f]}
       /\ d # disk /\ Writes(d, t)
       /\ made' = IF \E f \in File : d[f] = Fresh THEN Fresh ELSE made
       /\ undeleted' = [undeleted EXCEPT ![t] = @ \cup (Undeletes(d) \ Captured(manifest[t]))]
  /\ LET before == IF blind THEN Nowhere ELSE CensusOf(disk, head)
     IN /\ op' = [Begins("command", "record", t) EXCEPT !.seen = before, !.blind = blind]
        /\ blobs' = blobs \cup Contents(before, File)
  /\ UNCHANGED <<head, refs, manifest, patches, turn, cut>>

\* What a path held before the command: the census's content or, with none (the
\* census gives none for a path it lists as deleted either), what HEAD has now.
BeforeIt == [f \in File |-> IF op.seen[f] \in {NotHere, Absent} THEN head[f] ELSE op.seen[f]]

\* The paths the two censuses disagree about.
Effects_OfTheSecond(after) ==  \* mutant: what became clean is not looked at
  {f \in File : after[f] \notin {op.seen[f], NotHere}}
Effects(after) == {f \in File : op.seen[f] # after[f]}

Record ==
  /\ op.at = "record"
  /\ LET m == manifest[op.task]
         after == CensusOf(disk, head)
         effects == Effects(after)
         with == WithPaths(m, effects, BeforeIt)
     IN IF ~ Listable \/ m.state # "whole"
        THEN Ends /\ Cuts({op.task}) /\ UNCHANGED store
        ELSE /\ UNCHANGED cut
             /\ IF op.blind
                THEN /\ op' = [op EXCEPT !.at = "keep", !.copy = [m EXCEPT !.covered = FALSE]]
                     /\ UNCHANGED store
                ELSE /\ op' = [op EXCEPT !.at = "keep", !.copy = with]
                     /\ blobs' = blobs \cup Contents(after, File)
                                       \cup Contents(BeforeIt, effects \ Captured(m))
                     /\ Reference(op.task, with)
  /\ UNCHANGED <<tree, manifest, patches, turn, bounds, had, mine, work, undeleted>>

-----------------------------------------------------------------------------
(* The rewind of a checkpoint: all its files, or one *)

\* mark_restored takes what was put back for what was last left.
Marked(m, S) == [m EXCEPT !.left = [f \in File |-> IF f \in S THEN m.was[f] ELSE @[f]]]

\* Everything is decided before anything is written, and one conflict refuses
\* the whole.
Restore(t, S) ==
  /\ Serves /\ manifest[t].state = "whole"
  /\ S # {} /\ S \subseteq Captured(manifest[t])
  /\ S = Captured(manifest[t]) \/ Cardinality(S) = 1
  /\ LET m == manifest[t]
         planned == {f \in S : m.was[f] # Absent \/ disk[f] # Absent}
     IN IF \E f \in S : Conflicts(m, f)
        THEN UNCHANGED op
        ELSE op' = [Begins("restore", IF planned = {} THEN "keep" ELSE "put", t)
                      EXCEPT !.todo = planned, !.copy = Marked(m, planned)]
  /\ UNCHANGED <<tree, store, manifest, patches, turn, history>>

\* A content that is gone from the store fails the restore where it stands.
PutBack(f) ==
  /\ op.at = "put" /\ f \in op.todo
  /\ LET c == op.copy.was[f]
     IN IF c \in blobs \cup {Absent}
        THEN /\ Writes([disk EXCEPT ![f] = c], op.task)
             /\ op' = [op EXCEPT !.todo = @ \ {f},
                                 !.at = IF op.todo = {f} THEN "keep" ELSE "put"]
             /\ UNCHANGED cut
        ELSE Ends /\ Cuts({op.task}) /\ UNCHANGED <<disk, had, mine, work>>
  /\ UNCHANGED <<head, made, store, manifest, patches, turn, bounds, undeleted>>

-----------------------------------------------------------------------------
(* The user and the process *)

UserActs ==
  /\ Free /\ steps < MaxUserSteps
  /\ steps' = steps + 1
  /\ UNCHANGED <<store, manifest, patches, turn, op, requests, faults, cut, undeleted>>

\* Edits or deletes a file.
UserEdits(f, c) ==
  /\ UserActs
  /\ c \in {Fresh, Absent} \ {disk[f]}
  /\ Writes([disk EXCEPT ![f] = c], NoTask)
  /\ made' = IF c = Fresh THEN c ELSE made
  /\ UNCHANGED head

UserCommits ==
  /\ UserActs
  /\ head # disk
  /\ head' = disk
  /\ UNCHANGED <<disk, made, had, mine, work>>

\* A manifest is written in place: a death while it is written leaves it torn.
Crash ==
  /\ Faults
  /\ LET hit == {t \in Task : turn[t] = "running" \/ t = op.task}
     IN hit # {} /\ Cuts(hit)
  /\ manifest' \in {manifest} \cup
       (IF op.at = "create" \/ (op.at \in {"check", "seal", "keep"} /\ op.copy.state = "whole")
        THEN {[manifest EXCEPT ![op.task] = Torn]} ELSE {})
  /\ turn' = [t \in Task |-> IF turn[t] = "running" THEN "over" ELSE turn[t]]
  /\ Ends
  /\ UNCHANGED <<tree, store, patches, had, mine, work, undeleted>>

Next ==
  \/ Keep \/ Seal \/ CreateCheckpoint
  \/ \E D \in SUBSET Task : Cleanup(D)
  \/ \E t \in Task : BeginTurn(t) \/ EndTurn(t) \/ TurnFails(t)
  \/ \E t \in Task, p \in Patch, S \in SUBSET File, D \in SUBSET File : Propose(t, p, S, D)
  \/ \E p \in Patch, S \in SUBSET File : Apply(p, S) \/ Rollback(p, S)
  \/ CheckBase
  \/ \E f \in File : WriteFile(f) \/ RollBackFile(f) \/ PutBack(f)
  \/ \E t \in Task, blind \in BOOLEAN : RunCommand(t, blind)
  \/ Record
  \/ \E t \in Task, S \in SUBSET File : Restore(t, S)
  \/ \E f \in File, c \in Content : UserEdits(f, c)
  \/ UserCommits
  \/ Crash

Spec == Init /\ [][Next]_vars

-----------------------------------------------------------------------------
(* Properties *)

\* Every variable keeps its type (checkpoint.rs, patch_engine.rs).
TypeOK ==
  /\ disk \in [File -> Content] /\ head \in [File -> Content] /\ made \in 1..MaxContent
  /\ blobs \subseteq Content \ {Absent}
  /\ refs \in [Task -> SUBSET (Content \ {Absent})]
  /\ manifest \in [Task -> Manifest]
  /\ patch \in [Patch -> [task : Task \cup {NoTask}, base : [File -> Entry],
                         deletes : SUBSET File]]
  /\ snap \in [Patch -> [File -> [was : Entry, left : Entry]]]
  /\ turn \in [Task -> {"new", "running", "over"}]
  /\ op \in Op
  /\ steps \in 0..MaxUserSteps /\ requests \in 0..MaxRequests /\ faults \in 0..MaxFaults
  /\ had \in [Task -> [File -> SUBSET Content]]
  /\ mine \in [Task -> [File -> Entry \cup {Foreign}]]
  /\ work \in [Task -> [File -> {"none", "unseen", "sealed"}]]
  /\ cut \in [Task -> {"no", "short", "unrecorded"}]
  /\ undeleted \in [Task -> SUBSET File]

\* This step of a rewind puts f back.
PutsBack(f) == op.at = "put" /\ disk'[f] # disk[f]

\* A rewind puts back a content the file had between the start of the turn and
\* the first change its task made to it, unless the checkpoint says that the
\* effects of a command are not covered, or that change was a command's, over a
\* deletion Git reported (restore, add_paths, record_command_effects_between).
GoesBack(f) ==
  PutsBack(f) /\ op.copy.covered /\ cut[op.task] # "unrecorded" =>
    disk'[f] \in had[op.task][f]
RewindGoesBack == \A f \in File : GoesBack(f) \/ f \in undeleted[op.task]

\* "Not in the before census: either committed and clean, or it did not exist at
\* all" (checkpoint.rs:836), so that every rewind goes back: refuted by a path
\* the census lists as deleted, which the same branch takes for committed.
DeletionsAreRemembered == [][\A f \in File : GoesBack(f)]_vars

\* A rewind never overwrites content the user wrote after the checkpoint
\* captured the file and which no later seal took in (plan_for, mark_restored).
UnseenWorkIsKept == [][\A f \in File : PutsBack(f) => work[op.task][f] # "unseen"]_vars

\* "A file the user edited after the checkpoint is reported as conflicted and is
\* not overwritten" (docs/specs/16, section 6): refuted where a later seal took
\* the edit for the turn's own (seal_checkpoint).
UserWorkIsKept == [][\A f \in File : PutsBack(f) => work[op.task][f] = "none"]_vars

\* A patch writes a file only once the manifest on disk says what was there and
\* the store has it (apply_stored_patch_with_baseline, checkpoint_for_patch).
CheckpointBeforeWrite ==
  \A f \in File :
    op.at = "write" /\ disk'[f] # disk[f] /\ op.copy.state = "whole" =>
      manifest[op.task].was[f] \in blobs \cup {Absent}

\* What a patch writes can be taken back, and taking it back leads to where the
\* turn began.
TurnCanBeTakenBack == [][CheckpointBeforeWrite /\ RewindGoesBack]_vars

\* Once a turn is over, every file its task ever changed is in its checkpoint,
\* unless that says otherwise, there is none, or a step was cut short
\* (record_command_effects, checkpoint_for_patch).
ChangesAreCovered ==
  \A t \in Task :
    Free /\ turn[t] = "over" /\ cut[t] = "no" /\ manifest[t].state = "whole"
      /\ manifest[t].covered
    => {f \in File : mine[t][f] # NotHere} \subseteq Captured(manifest[t])

\* The rewind of a turn that was not cut short never reports a conflict with
\* what the task itself last left (seal_checkpoint, mark_restored).
OwnChangesDoNotConflict ==
  \A t \in Task :
    Free /\ turn[t] = "over" /\ cut[t] = "no" /\ manifest[t].covered =>
      \A f \in Captured(manifest[t]) : Conflicts(manifest[t], f) => disk[f] # mine[t][f]

\* What a manifest says was there is in the store, out of the collector's reach
\* (create_checkpoint, reference_content, collect_garbage).
ManifestContentIsStored ==
  \A t \in Task : Holds(manifest[t]) \subseteq blobs \cap refs[t]

\* A turn that was not cut short is on record: all its changes, as its own, and
\* the contents to go back to.
TurnIsOnRecord ==
  ChangesAreCovered /\ OwnChangesDoNotConflict /\ ManifestContentIsStored

=============================================================================
