---------------------------- MODULE GitOperations ----------------------------
(***************************************************************************)
(* What the shell does to a repository's refs: the commit of reviewed      *)
(* files (workspace-engine/src/commit.rs) and the creation, the switch and *)
(* the deletion of a branch (branch.rs).                                   *)
(*                                                                         *)
(* Each begins with a preparation, a record on disk of what the user       *)
(* reviewed, and runs when they approve it: after a fresh look at the      *)
(* repository, in several Git processes. The shell serves one request at a *)
(* time, but the repository is not its own: between any two steps the user *)
(* edits, stages, commits, switches, moves branches and installs hooks,    *)
(* and the shell may die.                                                  *)
(*                                                                         *)
(* A content is a number, 0 for no file. Left out: remotes and upstreams,  *)
(* a detached or unborn HEAD, merges and rebases in progress, submodules,  *)
(* symlinks, renames, the secret scan, the rewritten message, what a hook  *)
(* does to the private index, and the policy's refusals. The markers of    *)
(* the tasks these requests create are TaskRecovery's.                     *)
(***************************************************************************)
EXTENDS Integers, FiniteSets

CONSTANTS File, Branch, Prep,
          Main,        \* the default branch
          MaxContent,  \* bound: contents of a file
          MaxCommits,  \* bound: commits ever made
          Grown,       \* bound: commits of the history there is at first
          MaxSteps,    \* bound: steps of the user
          MaxCrashes   \* bound: deaths of the shell and failures of Git

ASSUME MainAssumption == Main \in Branch
ASSUME PrepAssumption == Prep # {}
ASSUME MaxContentAssumption == MaxContent \in Nat \ {0}
ASSUME MaxCommitsAssumption == MaxCommits \in Nat \ {0}
ASSUME GrownAssumption == Grown \in 1..MaxCommits
ASSUME MaxStepsAssumption == MaxSteps \in Nat
ASSUME MaxCrashesAssumption == MaxCrashes \in Nat

VARIABLES
  (* the repository *)
  commit,   \* the commits made: parent, tree and preparation, if any
  ref,      \* the commit of each branch, NoCommit when there is none
  head,     \* the branch checked out
  index,    \* the user's index
  work,     \* the working tree
  hooks,    \* TRUE: commit hooks are installed
  (* the data directory *)
  rec,      \* the records of the preparations
  (* the request *)
  at,       \* where it is
  req,      \* what it holds in memory
  (* history *)
  steps, crashes,
  ran,      \* how often each branch preparation took effect
  quiet,    \* preparations since whose approval nothing else moved HEAD or a ref
  staged    \* the index a commit found when it moved its branch, until the
            \* user moves the index or HEAD: a set of at most one

repository == <<commit, ref, head, index, work, hooks>>
history == <<steps, crashes, ran, quiet, staged>>
vars == <<repository, rec, at, req, history>>

-----------------------------------------------------------------------------
Content == 0..MaxContent
Tree == [File -> Content]
NoTree == [f \in File |-> 0]
Commit == 1..MaxCommits
NoCommit == 0
User == "user"

Made == {c \in Commit : commit[c].parent # c}
Fresh == CHOOSE c \in Commit \ Made : \A d \in Commit \ Made : c <= d
HasFresh == Commit \ Made # {}

\* A commit and its ancestors; every commit is later than its parent.
History == [c \in Commit |->
  LET past[n \in 0..MaxCommits] ==
        IF n = 0 THEN {} ELSE {n} \cup past[commit[n].parent]
  IN IF c \in Made THEN past[c] ELSE {}]
Past(c) == IF c = NoCommit THEN {} ELSE History[c]

Reachable(refs) == UNION {Past(refs[b]) : b \in Branch}

TreeOf(c) == commit[c].tree
HeadCommit == ref[head]
Exists(b) == ref[b] # NoCommit

\* `git status`: what the index or the working tree has unlike HEAD.
Changed == {f \in File : work[f] # TreeOf(HeadCommit)[f]
                         \/ index[f] # TreeOf(HeadCommit)[f]}
Differ(c, d) == {f \in File : TreeOf(c)[f] # TreeOf(d)[f]}

\* The tree of a commit with the contents of some files replaced.
Overlay(t, files, contents) == [f \in File |-> IF f \in files THEN contents[f] ELSE t[f]]

Kind == {"commit", "create", "switch", "delete"}
RecState == {"none", "prepared", "applying", "applied", "created", "failed"}
NoRec == [kind |-> "commit", state |-> "none", branch |-> Main, head |-> NoCommit,
          oid |-> NoCommit, files |-> {}, blobs |-> NoTree,
          hooks |-> FALSE, made |-> NoCommit, lost |-> {}]
Record == [kind : Kind, state : RecState, branch : Branch, head : Commit \cup {NoCommit},
           oid : Commit \cup {NoCommit}, files : SUBSET File, blobs : Tree,
           hooks : BOOLEAN, made : Commit \cup {NoCommit}, lost : SUBSET Commit]

Place == {"idle", "content", "compose", "hooks", "make", "recheck", "ref",
          "sync", "write", "settle", "consume", "git", "applied"}
NoReq == [prep |-> CHOOSE p \in Prep : TRUE, files |-> {}, composed |-> NoTree, picks |-> {}]

\* A linear history, with the branches anywhere on it.
Early(c) == [parent |-> c - 1, by |-> User, files |-> {},
              tree |-> [f \in File |-> IF c % 2 = 1 THEN 1 ELSE MaxContent]]
NotMade(c) == [parent |-> c, by |-> User, files |-> {}, tree |-> NoTree]

Init ==
  /\ commit = [c \in Commit |-> IF c <= Grown THEN Early(c) ELSE NotMade(c)]
  /\ ref \in {r \in [Branch -> 0..Grown] : r[Main] # NoCommit}
  /\ head \in {b \in Branch : Exists(b)}
  /\ index = TreeOf(HeadCommit) /\ work = TreeOf(HeadCommit)
  /\ hooks = FALSE
  /\ rec = [p \in Prep |-> NoRec]
  /\ at = "idle" /\ req = NoReq
  /\ steps = 0 /\ crashes = 0
  /\ ran = [p \in Prep |-> 0]
  /\ quiet = {} /\ staged = {}

Go(place) == at' = place
Mine == rec[req.prep]
SetRec(field, value) == rec' = [rec EXCEPT ![req.prep][field] = value]
Idle == at = "idle"

-----------------------------------------------------------------------------
(* Preparations *)

Prepare(p, r) ==
  /\ Idle
  /\ rec[p].state = "none"
  /\ rec' = [rec EXCEPT ![p] = r]
  /\ UNCHANGED <<repository, at, req, history>>

PrepareCommit(p) ==
  /\ Changed # {}
  /\ Prepare(p, [NoRec EXCEPT !.kind = "commit", !.state = "prepared", !.branch = head,
                              !.head = HeadCommit, !.files = Changed, !.blobs = work,
                              !.hooks = hooks])

PrepareBranch(p, kind, b, oid, lost) ==
  Prepare(p, [NoRec EXCEPT !.kind = kind, !.state = "prepared", !.branch = b,
                           !.head = HeadCommit, !.oid = oid, !.lost = lost])

PrepareCreate(p, b, start) ==
  /\ ~Exists(b) /\ Exists(start)
  /\ PrepareBranch(p, "create", b, ref[start], {})

\* The files a switch would overwrite.
DirtySwitch(c) == Changed \cap Differ(HeadCommit, c)

PrepareSwitch(p, b) ==
  /\ Exists(b) /\ DirtySwitch(ref[b]) = {}
  /\ PrepareBranch(p, "switch", b, ref[b], {})

\* What the branch has beyond the default branch, or without one beyond its
\* merge base with HEAD.
Unmerged(b) ==
  Past(ref[b]) \ (IF Exists(Main) THEN Past(ref[Main]) ELSE Past(HeadCommit))

\* What `git branch -d` would refuse to lose.
PlainDelete(b) == Past(ref[b]) \ Past(HeadCommit)

\* The commits the confirmation names; with none, `git branch -d` must do.
Listed(b) == IF Unmerged(b) # {} THEN Unmerged(b) ELSE PlainDelete(b)

PrepareDelete(p, b) ==
  /\ b # head /\ Exists(b)
  /\ PrepareBranch(p, "delete", b, ref[b], Listed(b))

-----------------------------------------------------------------------------
(* The commit. A refusal leaves the record prepared and everything else as *)
(* it was; a failure of Git before the ref moves retires the record.       *)

Refuse ==
  /\ Go("idle") /\ req' = NoReq

MayCommit(p) ==
  /\ rec[p].kind = "commit" /\ rec[p].state = "prepared"
  /\ HeadCommit = rec[p].head /\ head = rec[p].branch
  /\ hooks = rec[p].hooks

ApproveCommit(p, files) ==
  /\ Idle
  /\ files # {} /\ files \subseteq rec[p].files
  /\ MayCommit(p)
  /\ req' = [NoReq EXCEPT !.prep = p, !.files = files]
  /\ Go("content")
  /\ UNCHANGED <<repository, rec, history>>

Reviewed == \A f \in req.files : work[f] = Mine.blobs[f]

CheckContent ==
  /\ at = "content"
  /\ IF Reviewed THEN Go("compose") /\ UNCHANGED req ELSE Refuse
  /\ UNCHANGED <<repository, rec, history>>

ReviewedTree == Overlay(TreeOf(Mine.head), req.files, Mine.blobs)

\* Mutant: what is written is not compared with what was checked.
ComposedAsReviewed_Unchecked == TRUE

\* The tree of HEAD as it is now, with the files as they are now, against the
\* reviewed HEAD's with the reviewed blobs.
ComposedAsReviewed ==
  /\ Reviewed
  /\ Overlay(TreeOf(HeadCommit), req.files, Mine.blobs) = ReviewedTree

Retire == SetRec("state", "failed") /\ Refuse

Compose ==
  /\ at = "compose"
  /\ IF ComposedAsReviewed
       THEN Go("hooks") /\ req' = [req EXCEPT !.composed =
              Overlay(TreeOf(HeadCommit), req.files, work)] /\ UNCHANGED rec
       ELSE Retire
  /\ UNCHANGED <<repository, history>>

\* The hooks of the record run. One may refuse, which one removed since does
\* too, and may write files; what it writes is not committed.
RunHooks ==
  /\ at = "hooks"
  /\ \/ (Mine.hooks => hooks) /\ Go("make") /\ UNCHANGED <<repository, req>>
     \/ Mine.hooks /\ Refuse /\ UNCHANGED repository
     \/ /\ Mine.hooks /\ hooks
        /\ \E f \in File, c \in Content : work' = [work EXCEPT ![f] = c]
        /\ Go("make") /\ UNCHANGED <<commit, ref, head, index, hooks, req>>
  /\ UNCHANGED <<rec, history>>

MakeCommit ==
  /\ at = "make" /\ HasFresh
  /\ commit' = [commit EXCEPT ![Fresh] = [parent |-> Mine.head, tree |-> req.composed,
                                          by |-> req.prep, files |-> req.files]]
  /\ SetRec("made", Fresh)
  /\ Go("recheck")
  /\ UNCHANGED <<ref, head, index, work, hooks, req, history>>

Recheck ==
  /\ at = "recheck"
  /\ IF HeadCommit = Mine.head THEN Go("ref") /\ UNCHANGED req ELSE Refuse
  /\ UNCHANGED <<repository, rec, history>>

\* Mutant: `git update-ref` without the old value.
RefIsAsReviewed_Any == Exists(Mine.branch)

RefIsAsReviewed == ref[Mine.branch] = Mine.head

\* Another preparation's run is no longer the last thing that moved a ref.
OnlyMineIsQuiet == quiet' = quiet \cap {req.prep}

UpdateRef ==
  /\ at = "ref"
  /\ IF RefIsAsReviewed
       THEN /\ ref' = [ref EXCEPT ![Mine.branch] = Mine.made]
            /\ staged' = {index}
            /\ OnlyMineIsQuiet
            /\ Go("sync") /\ UNCHANGED req
       ELSE Refuse /\ UNCHANGED <<ref, staged, quiet>>
  /\ UNCHANGED <<commit, head, index, work, hooks, rec, steps, crashes, ran>>

\* Mutant: every committed path is written.
Picks_All == req.files

\* The committed paths the user has staged nothing else at.
Picks == {f \in req.files : index[f] = TreeOf(Mine.head)[f]}

ReadIndex ==
  /\ at = "sync"
  /\ req' = [req EXCEPT !.picks = Picks]
  /\ Go("write")
  /\ UNCHANGED <<repository, rec, history>>

WriteIndex ==
  /\ at = "write"
  /\ index' = Overlay(index, req.picks, TreeOf(Mine.made))
  /\ Go("settle")
  /\ UNCHANGED <<commit, ref, head, work, hooks, rec, req, history>>

\* A synchronisation that fails is a warning: the commit is made.
SyncFails ==
  /\ at \in {"sync", "write"} /\ crashes < MaxCrashes
  /\ Go("settle")
  /\ staged' = {} /\ crashes' = crashes + 1
  /\ UNCHANGED <<repository, rec, req, steps, ran, quiet>>

Settle ==
  /\ at = "settle"
  /\ SetRec("state", "created")
  /\ Refuse
  /\ staged' = {}
  /\ UNCHANGED <<repository, steps, crashes, ran, quiet>>

GitFails ==
  /\ at \in {"compose", "hooks", "make", "recheck", "ref"}
  /\ crashes < MaxCrashes
  /\ Retire
  /\ crashes' = crashes + 1
  /\ UNCHANGED <<repository, steps, ran, quiet, staged>>

-----------------------------------------------------------------------------
(* The branch mutations *)

\* A record that is applying, applied or failed is not run again.
Unused(p) == rec[p].kind # "commit" /\ rec[p].state = "prepared"

AsPrepared(p) ==
  /\ HeadCommit = rec[p].head
  /\ ref[rec[p].branch] = IF rec[p].kind = "create" THEN NoCommit ELSE rec[p].oid

\* The user's approval comes with the separate confirmation where the record
\* asks for one.
MayApply(p) ==
  LET r == rec[p] IN
  /\ Unused(p) /\ AsPrepared(p)
  /\ r.kind = "delete" => r.branch # head /\ (r.lost = {} => PlainDelete(r.branch) = {})
  /\ r.kind = "switch" => DirtySwitch(r.oid) = {}

ApproveBranch(p) ==
  /\ Idle
  /\ MayApply(p)
  /\ req' = [NoReq EXCEPT !.prep = p]
  /\ Go("consume")
  /\ quiet' = quiet \cup {p}
  /\ UNCHANGED <<repository, rec, steps, crashes, ran, staged>>

\* Mutant: the preparation is consumed when Git has run.
Consume_Later ==
  /\ at = "consume"
  /\ Go("git")
  /\ UNCHANGED <<repository, rec, req, history>>

Consume ==
  /\ at = "consume"
  /\ SetRec("state", "applying")
  /\ Go("git")
  /\ UNCHANGED <<repository, req, history>>

\* Mutant: the branch that is checked out may be deleted.
GitAccepts_Current ==
  LET b == Mine.branch IN
  CASE Mine.kind = "create" -> ~Exists(b)
    [] Mine.kind = "switch" -> Exists(b) /\ DirtySwitch(ref[b]) = {}
    [] Mine.kind = "delete" -> Exists(b) /\ (Mine.lost = {} => PlainDelete(b) = {})

\* Git's own checks: a new name, no local change overwritten, and for `-d`
\* nothing lost.
GitAccepts ==
  LET b == Mine.branch IN
  CASE Mine.kind = "create" -> ~Exists(b)
    [] Mine.kind = "switch" -> Exists(b) /\ DirtySwitch(ref[b]) = {}
    [] Mine.kind = "delete" -> /\ Exists(b) /\ b # head
                               /\ Mine.lost = {} => PlainDelete(b) = {}

\* A switch moves the files that differ between the two commits.
SwitchTo(b) ==
  LET moved == Differ(HeadCommit, ref[b]) IN
  /\ head' = b
  /\ index' = Overlay(index, moved, TreeOf(ref[b]))
  /\ work' = Overlay(work, moved, TreeOf(ref[b]))

GitEffect ==
  LET b == Mine.branch IN
  CASE Mine.kind = "create" -> /\ ref' = [ref EXCEPT ![b] = Mine.oid]
                               /\ UNCHANGED <<head, index, work>>
    [] Mine.kind = "switch" -> SwitchTo(b) /\ UNCHANGED ref
    [] Mine.kind = "delete" -> /\ ref' = [ref EXCEPT ![b] = NoCommit]
                               /\ UNCHANGED <<head, index, work>>

RunGit ==
  /\ at = "git"
  /\ IF GitAccepts
       THEN /\ GitEffect
            /\ ran' = [ran EXCEPT ![req.prep] = @ + 1]
            /\ OnlyMineIsQuiet
            /\ Go("applied") /\ UNCHANGED <<rec, req>>
       ELSE Retire /\ UNCHANGED <<ref, head, index, work, ran, quiet>>
  /\ UNCHANGED <<commit, hooks, steps, crashes, staged>>

SettleBranch ==
  /\ at = "applied"
  /\ SetRec("state", "applied")
  /\ Refuse
  /\ UNCHANGED <<repository, history>>

\* What the recovery card reads out of the record of an interrupted mutation.
Inspect(p) ==
  LET r == rec[p]  now == ref[r.branch] IN
  CASE r.kind = "delete" /\ now = NoCommit -> "landed"
    [] r.kind = "delete" /\ now = r.oid -> "not_landed"
    [] r.kind # "delete" /\ now = r.oid ->
         IF r.kind = "create" \/ head = r.branch THEN "landed" ELSE "not_landed"
    [] r.kind # "delete" /\ now = NoCommit -> "not_landed"
    [] OTHER -> "other_ref_state"

-----------------------------------------------------------------------------
(* The user, in an editor and a terminal, and the death of the shell *)

UserStep(movesRefs) ==
  /\ steps < MaxSteps /\ steps' = steps + 1
  /\ quiet' = IF movesRefs THEN {} ELSE quiet
  /\ UNCHANGED <<rec, at, req, crashes, ran>>

Edit(f, c) ==
  /\ work[f] # c
  /\ work' = [work EXCEPT ![f] = c]
  /\ UserStep(FALSE)
  /\ UNCHANGED <<commit, ref, head, index, hooks, staged>>

Stage(f) ==
  /\ index[f] # work[f]
  /\ index' = [index EXCEPT ![f] = work[f]]
  /\ staged' = {}
  /\ UserStep(FALSE)
  /\ UNCHANGED <<commit, ref, head, work, hooks>>

UserCommits ==
  /\ HasFresh /\ index # TreeOf(HeadCommit)
  /\ commit' = [commit EXCEPT ![Fresh] = [parent |-> HeadCommit, tree |-> index,
                                          by |-> User, files |-> {}]]
  /\ ref' = [ref EXCEPT ![head] = Fresh]
  /\ staged' = {}
  /\ UserStep(TRUE)
  /\ UNCHANGED <<head, index, work, hooks>>

UserSwitches(b) ==
  /\ b # head /\ Exists(b) /\ DirtySwitch(ref[b]) = {}
  /\ SwitchTo(b)
  /\ staged' = {}
  /\ UserStep(TRUE)
  /\ UNCHANGED <<commit, ref, hooks>>

\* `git branch`, `git branch -f`, `git branch -D`.
MoveBranch(b, c) ==
  /\ b # head /\ ref[b] # c /\ c \in Reachable(ref) \cup {NoCommit}
  /\ ref' = [ref EXCEPT ![b] = c]
  /\ UserStep(TRUE)
  /\ UNCHANGED <<commit, head, index, work, hooks, staged>>

\* `git reset --hard`.
Reset(c) ==
  /\ c \in Made /\ c # HeadCommit
  /\ ref' = [ref EXCEPT ![head] = c]
  /\ index' = TreeOf(c) /\ work' = TreeOf(c)
  /\ staged' = {}
  /\ UserStep(TRUE)
  /\ UNCHANGED <<commit, head, hooks>>

ChangeHooks ==
  /\ hooks' = ~hooks
  /\ UserStep(FALSE)
  /\ UNCHANGED <<commit, ref, head, index, work, staged>>

Crash ==
  /\ ~Idle /\ crashes < MaxCrashes
  /\ crashes' = crashes + 1
  /\ Refuse
  /\ staged' = {}
  /\ UNCHANGED <<repository, rec, steps, ran, quiet>>

-----------------------------------------------------------------------------
Preparing ==
  \E p \in Prep :
    \/ PrepareCommit(p)
    \/ \E b, start \in Branch : PrepareCreate(p, b, start)
    \/ \E b \in Branch : PrepareSwitch(p, b) \/ PrepareDelete(p, b)

Committing ==
  \/ \E p \in Prep : \E files \in SUBSET rec[p].files : ApproveCommit(p, files)
  \/ CheckContent \/ Compose \/ RunHooks \/ MakeCommit \/ Recheck \/ UpdateRef
  \/ ReadIndex \/ WriteIndex \/ SyncFails \/ Settle \/ GitFails

Mutating ==
  \/ \E p \in Prep : ApproveBranch(p)
  \/ Consume \/ RunGit \/ SettleBranch

Working ==
  \/ \E f \in File : Stage(f) \/ \E c \in Content : Edit(f, c)
  \/ UserCommits
  \/ \E b \in Branch : UserSwitches(b)
                       \/ \E c \in Commit \cup {NoCommit} : MoveBranch(b, c)
  \/ \E c \in Commit : Reset(c)
  \/ ChangeHooks

Shell == Preparing \/ Committing \/ Mutating

Next == Shell \/ Working \/ Crash

Spec == Init /\ [][Next]_vars

-----------------------------------------------------------------------------
TypeOK ==
  /\ commit \in [Commit -> [parent : Commit \cup {NoCommit}, tree : Tree,
                            by : Prep \cup {User}, files : SUBSET File]]
  /\ ref \in [Branch -> Made \cup {NoCommit}]
  /\ head \in Branch /\ Exists(head)
  /\ index \in Tree /\ work \in Tree /\ hooks \in BOOLEAN
  /\ rec \in [Prep -> Record]
  /\ at \in Place
  /\ req \in [prep : Prep, files : SUBSET File, composed : Tree, picks : SUBSET File]
  /\ steps \in 0..MaxSteps /\ crashes \in 0..MaxCrashes
  /\ ran \in [Prep -> Nat]
  /\ quiet \subseteq Prep /\ staged \subseteq Tree

\* Every commit a branch got from a preparation has the reviewed HEAD for its
\* parent and the reviewed HEAD's tree with the reviewed contents of the
\* chosen files: whatever the user and the hooks did to the files, the index
\* and HEAD meanwhile, it takes back nothing and brings nothing else.
CommitIsWhatWasReviewed ==
  \A c \in Reachable(ref) :
    LET p == commit[c].by IN
    p # User => /\ commit[c].parent = rec[p].head
                /\ commit[c].files # {} /\ commit[c].files \subseteq rec[p].files
                /\ commit[c].tree = Overlay(TreeOf(rec[p].head), commit[c].files, rec[p].blobs)

\* A request takes no commit out of the branches' histories, however the user
\* moves the branches between its steps, except by a deletion whose
\* confirmation said that it may.
HistoryIsKept ==
  [][Shell /\ ~(Reachable(ref) \subseteq Reachable(ref'))
       => at = "git" /\ Mine.kind = "delete" /\ Mine.lost # {}]_vars

\* Once a commit and its index are written, a plain `git commit` of the user
\* takes back nothing of it and loses nothing they had staged: the index has,
\* unlike HEAD, just what it had unlike the old HEAD.
StagedWorkStays ==
  at = "settle" /\ head = Mine.branch =>
    \A before \in staged :
      LET theirs == {f \in File : before[f] # TreeOf(Mine.head)[f]} IN
      /\ \A f \in theirs : index[f] = before[f]
      /\ \A f \in File \ theirs : index[f] = TreeOf(HeadCommit)[f]

\* A mutation that was cut off while nothing else moved HEAD or a branch.
CutOff(p) == Idle /\ rec[p].state = "applying" /\ p \in quiet

\* A switch to the branch HEAD is on has nothing to do.
NothingToSwitch(p) == rec[p].kind = "switch" /\ head = rec[p].branch

\* A preparation takes effect at most once, whatever was cut off and approved
\* again; and the record of one that was cut off tells whether it did, except
\* of a switch to the branch HEAD was on already, which reads as landed
\* whether Git ran or not.
MutationRunsOnce ==
  \A p \in Prep :
    /\ ran[p] <= 1
    /\ CutOff(p) => Inspect(p) = IF ran[p] = 1 \/ NothingToSwitch(p) THEN "landed"
                                 ELSE "not_landed"

\* Refuted: "It never retries: an interrupted action either landed or did not,
\* and this says which" (branch.rs:361), of the record of any mutation. A
\* switch to the branch HEAD is on, cut off before Git runs, reads as landed.
InspectSaysWhich ==
  \A p \in Prep : CutOff(p) => (ran[p] = 1 <=> Inspect(p) = "landed")
=============================================================================
