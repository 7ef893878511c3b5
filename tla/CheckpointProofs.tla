--------------------------- MODULE CheckpointProofs ---------------------------
(***************************************************************************)
(* What TLAPS proves of Checkpoint, for every number of files, tasks and   *)
(* patches, and every bound: its types, that a turn is on record and can   *)
(* be taken back, and that a rewind spares the work no seal took in.       *)
(***************************************************************************)
EXTENDS Checkpoint, TLAPS

-----------------------------------------------------------------------------
(* The inductive invariant *)

(***************************************************************************)
(* What a request under way is working on.                                 *)
(***************************************************************************)
Copying == op.at \in {"check", "write", "seal", "put", "keep"}

OpFits ==
  /\ op.at \in {"create", "cleanup", "record"} => op.task \in Task /\ turn[op.task] = "running"
  /\ Copying => op.task \in Task /\ turn[op.task] # "new" /\ op.copy.state # "torn"
  /\ op.kind = "command" => op.at \in {"record", "keep"} /\ turn[op.task] = "running"
  /\ op.at = "record" => op.kind = "command"
  /\ op.at \in {"check", "write"} => op.patch \in Patch /\ op.todo \subseteq PatchFiles(op.patch)
  /\ op.at \in {"seal", "put", "keep"} => op.copy.state = "whole"
  /\ op.at = "back" => op.patch \in Patch /\ \A f \in op.todo : snap[op.patch][f].was # NotHere

\* The manifest a request is going to write adds to the one on disk.
CopyFits ==
  /\ Copying =>
       /\ op.copy.state = manifest[op.task].state
       /\ Captured(manifest[op.task]) \subseteq Captured(op.copy)
       /\ op.copy.covered => manifest[op.task].covered
  /\ op.at \in {"write", "seal"} => manifest[op.task] = op.copy
  /\ op.at \in {"check", "write"} /\ op.copy.state = "whole" => op.todo \subseteq Captured(op.copy)
  /\ op.at = "put" => /\ op.todo \subseteq Captured(manifest[op.task])
                      /\ \A f \in op.todo : op.copy.left[f] = op.copy.was[f]

\* Every content anybody knows of was written.
AtMostMade(m) == \A f \in File : m.was[f] <= made /\ m.left[f] <= made

ContentsAreMade ==
  /\ \A f \in File : disk[f] <= made /\ head[f] <= made /\ op.seen[f] <= made
  /\ \A p \in Patch, f \in File :
       patch[p].base[f] <= made /\ snap[p][f].was <= made /\ snap[p][f].left <= made
  /\ \A t \in Task : AtMostMade(manifest[t])
  /\ AtMostMade(op.copy)
  /\ op.at = "check" => op.bytes = Fresh /\ op.bytes <= MaxContent
  /\ op.at = "write" => op.bytes \in 1..made

\* A turn that has not begun, or not made its checkpoint, has left no trace.
Untouched(t) == /\ mine[t] = Nowhere /\ manifest[t] = NoManifest
                /\ \A f \in File : work[t][f] = "none"

TurnsFit ==
  /\ \A t \in Task : turn[t] = "new" => Untouched(t)
  /\ op.at = "create" => Untouched(op.task)
  /\ \A p \in Patch : patch[p].task # NoTask => turn[patch[p].task] # "new"
  /\ \A t \in Task, f \in File : turn[t] # "new" /\ mine[t][f] = NotHere => disk[f] \in had[t][f]

\* The store has what the manifests hold, the one being written included.
StoreFits ==
  /\ ManifestContentIsStored
  /\ Copying => Holds(op.copy) \subseteq blobs \cap refs[op.task]

\* A manifest that says it covers a turn has every file the task changed, with a
\* content from before that change.
Trusted(t, m) == m.state = "whole" /\ m.covered /\ cut[t] # "unrecorded"
Covers(t, m) == \A f \in File : mine[t][f] # NotHere => f \in Captured(m)
Faithful(t, m) == \A f \in Captured(m) : m.was[f] \in had[t][f] \/ f \in undeleted[t]
Recorded == WithPaths(manifest[op.task], Effects(CensusOf(disk, head)), BeforeIt)

ManifestsFit ==
  /\ \A t \in Task : Trusted(t, manifest[t]) =>
       /\ Faithful(t, manifest[t])
       /\ (op.kind # "command" \/ op.task # t) => Covers(t, manifest[t])
  /\ Copying /\ Trusted(op.task, op.copy) => Covers(op.task, op.copy) /\ Faithful(op.task, op.copy)
  /\ op.at = "record" /\ ~ op.blind /\ Trusted(op.task, manifest[op.task]) =>
       Covers(op.task, Recorded) /\ Faithful(op.task, Recorded)

\* Of a turn that is over and was not cut short, what was sealed is what the
\* task last left, unless that is about to be sealed.
Settled(t, m) == turn[t] = "over" /\ cut[t] = "no" /\ m.state = "whole" /\ m.covered
Matches(t, m, S) == \A f \in S : mine[t][f] \in Content => mine[t][f] = m.left[f]

SealsFit ==
  /\ \A t \in Task : Settled(t, manifest[t])
       /\ (op.task # t \/ op.at \notin {"write", "seal", "put", "keep"}) => Matches(t, manifest[t], File)
  /\ op.at \in {"check", "keep"} /\ Settled(op.task, op.copy) => Matches(op.task, op.copy, File)
  /\ op.at = "put" /\ Settled(op.task, op.copy) =>
       Matches(op.task, op.copy, {f \in File : f \notin op.todo \/ disk[f] = op.copy.was[f]})

\* Work the user did on a captured file, and no seal has taken in, conflicts.
Apart(t, m) ==
  \A f \in File : work[t][f] = "unseen" => f \in Captured(m) /\ Conflicts(m, f)

WorkFits ==
  /\ \A t \in Task : manifest[t].state = "whole" => Apart(t, manifest[t])
  /\ Copying /\ op.copy.state = "whole" => Apart(op.task, op.copy)
  /\ op.at = "put" => \A f \in op.todo : work[op.task][f] # "unseen"

IInv ==
  /\ TypeOK /\ OpFits /\ CopyFits /\ ContentsAreMade /\ TurnsFit
  /\ StoreFits /\ ManifestsFit /\ SealsFit /\ WorkFits

-----------------------------------------------------------------------------
(* Lemmas about contents, manifests and writes *)

LEMMA Constants ==
  /\ MaxContent \in Nat /\ MaxContent > 0
  /\ NoTask \notin Task /\ NoPatch \notin Patch
BY NothingAssumption, MaxContentAssumption

LEMMA ManifestTypes ==
  /\ \A m \in Manifest : /\ m.state \in {"none", "whole", "torn"}
                         /\ m.was \in [File -> Entry] /\ m.left \in [File -> Entry]
                         /\ m.covered \in BOOLEAN
  /\ NoManifest \in Manifest /\ EmptyManifest \in Manifest /\ Torn \in Manifest
  /\ Captured(NoManifest) = {} /\ Captured(EmptyManifest) = {} /\ Captured(Torn) = {}
  /\ Nowhere \in [File -> Entry]
<1>1. Nowhere \in [File -> Entry]
  BY DEF Nowhere, Entry
<1>2. NoManifest \in Manifest /\ EmptyManifest \in Manifest /\ Torn \in Manifest
  BY <1>1 DEF NoManifest, EmptyManifest, Torn, Manifest
<1>3. Captured(NoManifest) = {} /\ Captured(EmptyManifest) = {} /\ Captured(Torn) = {}
  BY DEF NoManifest, EmptyManifest, Torn, Captured, Nowhere
<1> QED
  BY <1>1, <1>2, <1>3 DEF Manifest

LEMMA OpTypes ==
  ASSUME TypeOK
  PROVE  /\ op.kind \in {"none", "turn", "apply", "command", "seal", "restore", "rollback"}
         /\ op.at \in {"idle", "create", "cleanup", "check", "write", "seal", "back", "record",
                       "put", "keep"}
         /\ op.task \in Task \cup {NoTask} /\ op.patch \in Patch \cup {NoPatch}
         /\ op.todo \subseteq File /\ op.bytes \in Entry /\ op.seen \in [File -> Entry]
         /\ op.blind \in BOOLEAN /\ op.copy \in Manifest
BY DEF TypeOK, Op

LEMMA IdleIs ==
  /\ Idle \in Op
  /\ Idle.kind = "none" /\ Idle.at = "idle" /\ Idle.task = NoTask /\ Idle.patch = NoPatch
  /\ Idle.todo = {} /\ Idle.seen = Nowhere /\ Idle.copy = NoManifest
  /\ \A f \in File : Idle.seen[f] = NotHere
<1>1. NotHere \in Entry
  BY DEF Entry
<1> QED
  BY <1>1, ManifestTypes DEF Idle, Op, Nowhere

\* A write of t changes the files it touches, and nothing of another task.
LEMMA WritesDoes ==
  ASSUME TypeOK, NEW d \in [File -> Content], NEW t \in Task \cup {NoTask}, Writes(d, t)
  PROVE  /\ disk' = d
         /\ mine' \in [Task -> [File -> Entry \cup {Foreign}]]
         /\ had' \in [Task -> [File -> SUBSET Content]]
         /\ work' \in [Task -> [File -> {"none", "unseen", "sealed"}]]
         /\ \A u \in Task, f \in File :
              /\ mine'[u][f] = IF u = t /\ d[f] # disk[f] THEN d[f] ELSE mine[u][f]
              /\ had[u][f] \subseteq had'[u][f]
              /\ turn[u] # "new" /\ mine'[u][f] = NotHere => d[f] \in had'[u][f]
              /\ d[f] = disk[f] => work'[u][f] = work[u][f]
              /\ d[f] # disk[f] =>
                   work'[u][f] = IF t = NoTask /\ d[f] = Fresh /\ f \in Captured(manifest[u])
                                 THEN "unseen" ELSE "none"
<1>1. disk' = d
  BY DEF Writes
<1>2. mine' = [u \in Task |-> [f \in File |->
                 IF u = t /\ d[f] # disk[f] THEN d[f] ELSE mine[u][f]]]
  BY DEF Writes
<1>3. mine' \in [Task -> [File -> Entry \cup {Foreign}]]
  <2> SUFFICES ASSUME NEW u \in Task, NEW f \in File
               PROVE  (IF u = t /\ d[f] # disk[f] THEN d[f] ELSE mine[u][f])
                        \in Entry \cup {Foreign}
    BY <1>2
  <2>1. d[f] \in Entry /\ mine[u][f] \in Entry \cup {Foreign}
    BY DEF TypeOK, Entry
  <2> QED
    BY <2>1
<1>4. had' = [u \in Task |-> [f \in File |->
                IF turn[u] # "new" /\ mine'[u][f] = NotHere
                THEN had[u][f] \cup {d[f]} ELSE had[u][f]]]
  BY DEF Writes
<1>5. had' \in [Task -> [File -> SUBSET Content]]
  <2> SUFFICES ASSUME NEW u \in Task, NEW f \in File
               PROVE  (IF turn[u] # "new" /\ mine'[u][f] = NotHere
                       THEN had[u][f] \cup {d[f]} ELSE had[u][f]) \in SUBSET Content
    BY <1>4
  <2>1. d[f] \in Content /\ had[u][f] \in SUBSET Content
    BY DEF TypeOK
  <2> QED
    BY <2>1
<1>6. work' = [u \in Task |-> [f \in File |->
                 IF d[f] # disk[f]
                 THEN IF t = NoTask /\ d[f] = Fresh /\ f \in Captured(manifest[u])
                      THEN "unseen" ELSE "none"
                 ELSE work[u][f]]]
  BY DEF Writes
<1>7. work' \in [Task -> [File -> {"none", "unseen", "sealed"}]]
  <2> SUFFICES ASSUME NEW u \in Task, NEW f \in File
               PROVE  work[u][f] \in {"none", "unseen", "sealed"}
    BY <1>6
  <2> QED
    BY DEF TypeOK
<1>8. \A u \in Task, f \in File :
        mine'[u][f] = IF u = t /\ d[f] # disk[f] THEN d[f] ELSE mine[u][f]
  BY <1>2
<1>9. \A u \in Task, f \in File :
        /\ had[u][f] \subseteq had'[u][f]
        /\ turn[u] # "new" /\ mine'[u][f] = NotHere => d[f] \in had'[u][f]
  BY <1>4
<1>10. \A u \in Task, f \in File :
         /\ d[f] = disk[f] => work'[u][f] = work[u][f]
         /\ d[f] # disk[f] =>
              work'[u][f] = IF t = NoTask /\ d[f] = Fresh /\ f \in Captured(manifest[u])
                            THEN "unseen" ELSE "none"
  BY <1>6
<1> QED
  BY <1>1, <1>3, <1>5, <1>7, <1>8, <1>9, <1>10

LEMMA WithPathsAdds ==
  ASSUME NEW m \in Manifest, NEW S \in SUBSET File, NEW before \in [File -> Content],
         NEW c, c = WithPaths(m, S, before)
  PROVE  /\ c \in Manifest
         /\ c.state = m.state /\ c.covered = m.covered /\ c.left = m.left
         /\ \A f \in File : /\ f \in S \ Captured(m) => c.was[f] = before[f]
                            /\ f \notin S \ Captured(m) => c.was[f] = m.was[f]
<1> DEFINE w == [f \in File |-> IF f \in S \ Captured(m) THEN before[f] ELSE m.was[f]]
<1>1. c = [m EXCEPT !.was = w]
  BY DEF WithPaths, Manifest
<1>2. w \in [File -> Entry]
  BY ManifestTypes DEF Entry
<1>3. \A f \in File : w[f] = IF f \in S \ Captured(m) THEN before[f] ELSE m.was[f]
  OBVIOUS
<1> HIDE DEF w
<1>4. /\ c \in Manifest /\ c.was = w
      /\ c.state = m.state /\ c.covered = m.covered /\ c.left = m.left
  BY <1>1, <1>2 DEF Manifest
<1> QED
  BY <1>3, <1>4

LEMMA WithPathsCaptures ==
  ASSUME NEW m \in Manifest, NEW S \in SUBSET File, NEW before \in [File -> Content],
         NEW c, c = WithPaths(m, S, before)
  PROVE  Captured(c) = Captured(m) \cup S
<1>1. \A f \in File : /\ f \in S \ Captured(m) => c.was[f] = before[f]
                      /\ f \notin S \ Captured(m) => c.was[f] = m.was[f]
  BY WithPathsAdds
<1>2. \A f \in File : before[f] # NotHere
  BY Constants DEF Content, Absent, NotHere
<1> QED
  BY <1>1, <1>2 DEF Captured

LEMMA WithPathsHolds ==
  ASSUME NEW m \in Manifest, NEW S \in SUBSET File, NEW before \in [File -> Content],
         NEW c, c = WithPaths(m, S, before)
  PROVE  Holds(c) = Holds(m) \cup Contents(before, S \ Captured(m))
<1>1. \A f \in File : /\ f \in S \ Captured(m) => c.was[f] = before[f]
                      /\ f \notin S \ Captured(m) => c.was[f] = m.was[f]
  BY WithPathsAdds
<1>2. \A f \in File : before[f] # NotHere
  BY Constants DEF Content, Absent, NotHere
<1>3. Captured(c) = Captured(m) \cup S
  BY WithPathsCaptures
<1>4. Holds(c) = {c.was[f] : f \in Captured(m) \cup S} \ {Absent}
  BY <1>3 DEF Holds
<1>5. {c.was[f] : f \in Captured(m) \cup S} =
        {m.was[f] : f \in Captured(m)} \cup {before[f] : f \in S \ Captured(m)}
  BY <1>1 DEF Captured
<1>6. Contents(before, S \ Captured(m)) = {before[f] : f \in S \ Captured(m)} \ {Absent}
  BY <1>2 DEF Contents
<1> QED
  BY <1>4, <1>5, <1>6 DEF Holds

\* A request that ends leaves nothing to be said of it.
LEMMA EndedFits ==
  ASSUME op' = Idle
  PROVE  /\ op' \in Op /\ op'.kind = "none" /\ op'.at = "idle" /\ op'.task = NoTask
         /\ op'.copy = NoManifest /\ \A f \in File : op'.seen[f] = NotHere
         /\ ~ Copying' /\ OpFits' /\ CopyFits'
<1>1. /\ op' \in Op /\ op'.kind = "none" /\ op'.at = "idle" /\ op'.task = NoTask
      /\ op'.copy = NoManifest /\ \A f \in File : op'.seen[f] = NotHere
  BY IdleIs
<1>2. ~ Copying'
  BY <1>1 DEF Copying
<1>3. OpFits'
  BY <1>1, <1>2 DEF OpFits
<1>4. CopyFits'
  BY <1>1, <1>2 DEF CopyFits
<1> QED
  BY <1>1, <1>2, <1>3, <1>4

\* The contents of a manifest are made when everything is.
LEMMA NothingIsMade ==
  ASSUME TypeOK
  PROVE  AtMostMade(NoManifest) /\ AtMostMade(EmptyManifest) /\ AtMostMade(Torn)
<1>1. NotHere <= made
  BY Constants DEF TypeOK, NotHere
<1>2. \A f \in File : Nowhere[f] = NotHere
  BY DEF Nowhere
<1>3. \A m \in {NoManifest, EmptyManifest, Torn} : m.was = Nowhere /\ m.left = Nowhere
  BY DEF NoManifest, EmptyManifest, Torn
<1> QED
  BY <1>1, <1>2, <1>3 DEF AtMostMade

\* What is left of ContentsAreMade once a request has ended.
LEMMA EndedIsMade ==
  ASSUME TypeOK, op' = Idle, made' \in Nat
  PROVE  /\ \A f \in File : op'.seen[f] <= made'
         /\ AtMostMade(op.copy)'
         /\ op'.at # "check" /\ op'.at # "write"
<1>1. NotHere <= made'
  BY DEF NotHere
<1>2. \A f \in File : Nowhere[f] = NotHere
  BY DEF Nowhere
<1>3. NoManifest.was = Nowhere /\ NoManifest.left = Nowhere
  BY DEF NoManifest
<1> QED
  BY <1>1, <1>2, <1>3, EndedFits DEF AtMostMade

\* What was made stays so.
LEMMA MadeGrows ==
  ASSUME TypeOK, ContentsAreMade, NEW k \in Nat, made <= k
  PROVE  /\ \A f \in File : disk[f] <= k /\ head[f] <= k /\ op.seen[f] <= k
         /\ \A p \in Patch, f \in File :
              patch[p].base[f] <= k /\ snap[p][f].was <= k /\ snap[p][f].left <= k
         /\ \A t \in Task, f \in File : manifest[t].was[f] <= k /\ manifest[t].left[f] <= k
         /\ \A f \in File : op.copy.was[f] <= k /\ op.copy.left[f] <= k
         /\ \A f \in File : NoManifest.was[f] <= k /\ NoManifest.left[f] <= k
<1>1. made \in Nat
  BY Constants DEF TypeOK
<1>2. \A c \in Entry : c \in Int
  BY Constants DEF Entry, Content, Absent, NotHere
<1>3. \A f \in File : disk[f] \in Entry /\ head[f] \in Entry /\ op.seen[f] \in Entry
  BY OpTypes DEF TypeOK, Entry
<1>4. \A p \in Patch, f \in File :
        patch[p].base[f] \in Entry /\ snap[p][f].was \in Entry /\ snap[p][f].left \in Entry
  BY DEF TypeOK
<1>5. \A x \in Manifest : \A f \in File : x.was[f] \in Entry /\ x.left[f] \in Entry
  BY ManifestTypes
<1>6. \A f \in File : disk[f] <= made /\ head[f] <= made /\ op.seen[f] <= made
  BY DEF ContentsAreMade
<1>7. \A p \in Patch, f \in File :
        patch[p].base[f] <= made /\ snap[p][f].was <= made /\ snap[p][f].left <= made
  BY DEF ContentsAreMade
<1>8. \A x \in Manifest : AtMostMade(x) =>
        \A f \in File : x.was[f] <= k /\ x.left[f] <= k
  BY <1>1, <1>2, <1>5 DEF AtMostMade
<1>9. \A t \in Task : manifest[t] \in Manifest /\ AtMostMade(manifest[t])
  BY DEF TypeOK, ContentsAreMade
<1>10. op.copy \in Manifest /\ AtMostMade(op.copy)
  BY OpTypes DEF ContentsAreMade
<1>11. NoManifest \in Manifest /\ AtMostMade(NoManifest)
  BY ManifestTypes, NothingIsMade
<1>12. \A f \in File : disk[f] <= k /\ head[f] <= k /\ op.seen[f] <= k
  BY <1>1, <1>2, <1>3, <1>6
<1>13. \A p \in Patch, f \in File :
         patch[p].base[f] <= k /\ snap[p][f].was <= k /\ snap[p][f].left <= k
  BY <1>1, <1>2, <1>4, <1>7
<1> QED
  BY <1>8, <1>9, <1>10, <1>11, <1>12, <1>13

-----------------------------------------------------------------------------
(* The steps: manifests *)

LEMMA KeepStep ==
  ASSUME IInv, Keep
  PROVE  IInv'
<1>1. /\ TypeOK /\ OpFits /\ CopyFits /\ ContentsAreMade /\ TurnsFit
      /\ StoreFits /\ ManifestsFit /\ SealsFit /\ WorkFits
  BY DEF IInv
<1>2. PICK t \in Task : t = op.task
  BY <1>1 DEF OpFits, Copying, Keep
<1>3. PICK m \in Manifest : m = op.copy
  BY <1>1, OpTypes
<1>4. /\ op.at = "keep" /\ op' = Idle /\ manifest' = [manifest EXCEPT ![t] = m]
      /\ UNCHANGED <<disk, head, made, blobs, refs, patch, snap, turn, steps, requests, faults,
                     had, mine, work, cut, undeleted>>
  BY <1>2, <1>3 DEF Keep, Keeps, Ends, tree, store, patches, bounds, history
<1>5. \A u \in Task : manifest'[u] = IF u = t THEN m ELSE manifest[u]
  BY <1>1, <1>4 DEF TypeOK
<1>6. Copying
  BY <1>4 DEF Copying
<1>7. TypeOK'
  <2>1. manifest' \in [Task -> Manifest]
    BY <1>1, <1>4 DEF TypeOK
  <2> QED
    BY <1>1, <1>4, <2>1, EndedFits DEF TypeOK
<1>8. ContentsAreMade'
  <2>1. made \in Nat
    BY <1>1, Constants DEF TypeOK
  <2>2. /\ \A f \in File : disk'[f] <= made' /\ head'[f] <= made'
        /\ \A p \in Patch, f \in File :
             patch'[p].base[f] <= made' /\ snap'[p][f].was <= made' /\ snap'[p][f].left <= made'
    BY <1>1, <1>4 DEF ContentsAreMade
  <2>3. \A u \in Task : AtMostMade(manifest[u])'
    BY <1>1, <1>3, <1>4, <1>5 DEF ContentsAreMade, AtMostMade
  <2> QED
    BY <1>1, <1>4, <2>1, <2>2, <2>3, EndedIsMade DEF ContentsAreMade
<1>9. TurnsFit'
  <2>1. turn[t] # "new"
    BY <1>1, <1>2, <1>6 DEF OpFits
  <2> QED
    BY <1>1, <1>4, <1>5, <2>1, EndedFits DEF TurnsFit, Untouched
<1>10. StoreFits'
  BY <1>1, <1>2, <1>3, <1>4, <1>5, <1>6, EndedFits DEF StoreFits, ManifestContentIsStored, Holds, Captured
<1>11. ManifestsFit'
  BY <1>1, <1>2, <1>3, <1>4, <1>5, <1>6, EndedFits DEF ManifestsFit, Trusted, Covers, Faithful
<1>12. SealsFit'
  BY <1>1, <1>2, <1>3, <1>4, <1>5, <1>6, EndedFits DEF SealsFit, Settled, Matches
<1>13. WorkFits'
  BY <1>1, <1>2, <1>3, <1>4, <1>5, <1>6, EndedFits DEF WorkFits, Apart, Conflicts, Expected
<1> QED
  BY <1>4, <1>7, <1>8, <1>9, <1>10, <1>11, <1>12, <1>13, EndedFits DEF IInv

\* Sealing changes nothing of a manifest but what was left at its paths.
LEMMA SealedIs ==
  ASSUME NEW m \in Manifest, NEW d \in [File -> Content],
         NEW n, n = [m EXCEPT !.left =
                       [f \in File |-> IF f \in Captured(m) THEN d[f] ELSE m.left[f]]]
  PROVE  /\ n \in Manifest
         /\ n.state = m.state /\ n.was = m.was /\ n.covered = m.covered
         /\ \A f \in File : n.left[f] = IF f \in Captured(m) THEN d[f] ELSE m.left[f]
         /\ Captured(n) = Captured(m) /\ Holds(n) = Holds(m)
<1> DEFINE left == [f \in File |-> IF f \in Captured(m) THEN d[f] ELSE m.left[f]]
<1>1. left \in [File -> Entry]
  BY ManifestTypes DEF Entry
<1>2. \A f \in File : left[f] = IF f \in Captured(m) THEN d[f] ELSE m.left[f]
  OBVIOUS
<1>3. n = [m EXCEPT !.left = left]
  OBVIOUS
<1> HIDE DEF left
<1>4. /\ n \in Manifest /\ n.left = left
      /\ n.state = m.state /\ n.was = m.was /\ n.covered = m.covered
  BY <1>1, <1>3 DEF Manifest
<1> QED
  BY <1>2, <1>4 DEF Captured, Holds

LEMMA SealStep ==
  ASSUME IInv, Seal
  PROVE  IInv'
<1>1. /\ TypeOK /\ OpFits /\ CopyFits /\ ContentsAreMade /\ TurnsFit
      /\ StoreFits /\ ManifestsFit /\ SealsFit /\ WorkFits
  BY DEF IInv
<1>2. PICK t \in Task : t = op.task
  BY <1>1 DEF OpFits, Copying, Seal
<1>3. PICK m \in Manifest : m = op.copy
  BY <1>1, OpTypes
<1>4. PICK n : n = [m EXCEPT !.left =
                      [f \in File |-> IF f \in Captured(m) THEN disk[f] ELSE m.left[f]]]
  OBVIOUS
<1>5. /\ op.at = "seal" /\ op' = Idle /\ manifest' = [manifest EXCEPT ![t] = n]
      /\ work' = [work EXCEPT ![t] =
                   [f \in File |-> IF f \in Captured(m) /\ @[f] = "unseen" THEN "sealed" ELSE @[f]]]
      /\ mine' = [mine EXCEPT ![t] =
                   [f \in File |-> IF f \in Captured(m) /\ @[f] \notin {disk[f], NotHere}
                                   THEN Foreign ELSE @[f]]]
      /\ UNCHANGED <<disk, head, made, blobs, refs, patch, snap, turn, steps, requests, faults,
                     had, cut, undeleted>>
  BY <1>2, <1>3, <1>4 DEF Seal, Keeps, Ends, tree, store, patches, bounds
<1>6. /\ n \in Manifest
      /\ n.state = m.state /\ n.was = m.was /\ n.covered = m.covered
      /\ \A f \in File : n.left[f] = IF f \in Captured(m) THEN disk[f] ELSE m.left[f]
      /\ Captured(n) = Captured(m) /\ Holds(n) = Holds(m)
  <2>1. PICK d \in [File -> Content] : d = disk
    BY <1>1 DEF TypeOK
  <2> QED
    BY <1>4, <2>1, SealedIs
<1>7. \A u \in Task : manifest'[u] = IF u = t THEN n ELSE manifest[u]
  BY <1>1, <1>5 DEF TypeOK
<1>8. Copying /\ manifest[t] = m /\ m.state = "whole" /\ turn[t] # "new"
  BY <1>1, <1>2, <1>3, <1>5 DEF Copying, CopyFits, OpFits
<1>9. \A u \in Task, f \in File :
        /\ work'[u][f] = IF u = t /\ f \in Captured(m) /\ work[u][f] = "unseen"
                         THEN "sealed" ELSE work[u][f]
        /\ mine'[u][f] = IF u = t /\ f \in Captured(m) /\ mine[u][f] \notin {disk[f], NotHere}
                         THEN Foreign ELSE mine[u][f]
  BY <1>1, <1>5 DEF TypeOK
<1>10. Foreign # NotHere /\ Foreign \notin Content
  BY Constants DEF Foreign, NotHere, Content, Absent
<1>11. TypeOK'
  <2>1. manifest' \in [Task -> Manifest]
    BY <1>1, <1>5, <1>6 DEF TypeOK
  <2>2. work' \in [Task -> [File -> {"none", "unseen", "sealed"}]]
    BY <1>1, <1>5 DEF TypeOK
  <2>3. mine' \in [Task -> [File -> Entry \cup {Foreign}]]
    BY <1>1, <1>5 DEF TypeOK
  <2> QED
    BY <1>1, <1>5, <2>1, <2>2, <2>3, EndedFits DEF TypeOK
<1>12. ContentsAreMade'
  <2>1. made \in Nat
    BY <1>1, Constants DEF TypeOK
  <2>2. /\ \A f \in File : disk'[f] <= made' /\ head'[f] <= made'
        /\ \A p \in Patch, f \in File :
             patch'[p].base[f] <= made' /\ snap'[p][f].was <= made' /\ snap'[p][f].left <= made'
    BY <1>1, <1>5 DEF ContentsAreMade
  <2>3. AtMostMade(n)
    BY <1>1, <1>3, <1>6 DEF ContentsAreMade, AtMostMade
  <2>4. \A u \in Task : AtMostMade(manifest[u])'
    BY <1>1, <1>5, <1>7, <2>3 DEF ContentsAreMade, AtMostMade
  <2> QED
    BY <1>1, <1>5, <2>1, <2>2, <2>4, EndedIsMade DEF ContentsAreMade
<1>13. TurnsFit'
  <2>1. \A u \in Task : u # t => mine'[u] = mine[u]
    BY <1>1, <1>5 DEF TypeOK
  <2>2. \A u \in Task : turn'[u] = "new" => Untouched(u)'
    BY <1>1, <1>5, <1>7, <1>8, <1>9, <2>1 DEF TurnsFit, Untouched
  <2>3. \A u \in Task, f \in File : turn'[u] # "new" /\ mine'[u][f] = NotHere => disk'[f] \in had'[u][f]
    BY <1>1, <1>5, <1>9, <1>10 DEF TurnsFit
  <2> QED
    BY <1>1, <1>5, <2>2, <2>3, EndedFits DEF TurnsFit
<1>14. StoreFits'
  BY <1>1, <1>5, <1>6, <1>7, <1>8, EndedFits DEF StoreFits, ManifestContentIsStored, Holds, Captured
<1>15. ManifestsFit'
  <2>1. ASSUME NEW u \in Task, Trusted(u, manifest[u])'
        PROVE  Faithful(u, manifest[u])' /\ Covers(u, manifest[u])'
    <3>1. CASE u = t
      <4>1. Trusted(t, m) /\ Trusted(op.task, op.copy)
        BY <1>2, <1>3, <1>5, <1>6, <1>7, <2>1, <3>1 DEF Trusted
      <4>2. Covers(t, m) /\ Faithful(t, m)
        BY <1>1, <1>2, <1>3, <1>8, <4>1 DEF ManifestsFit
      <4> QED
        BY <1>5, <1>6, <1>7, <1>9, <1>10, <3>1, <4>2 DEF Covers, Faithful
    <3>2. CASE u # t
      <4>1. op.task # u /\ Trusted(u, manifest[u])
        BY <1>2, <1>5, <1>7, <2>1, <3>2 DEF Trusted
      <4> QED
        BY <1>1, <1>5, <1>7, <1>9, <3>2, <4>1 DEF ManifestsFit, Covers, Faithful
    <3> QED
      BY <3>1, <3>2
  <2> QED
    BY <1>5, <2>1, EndedFits DEF ManifestsFit, Trusted, Covers, Faithful
<1>16. SealsFit'
  <2>1. ASSUME NEW u \in Task, Settled(u, manifest[u])'
        PROVE  Matches(u, manifest[u], File)'
    <3>1. CASE u = t
      <4>1. Trusted(op.task, op.copy)
        BY <1>2, <1>3, <1>5, <1>6, <1>7, <2>1, <3>1 DEF Trusted, Settled
      <4>2. Covers(t, m)
        BY <1>1, <1>2, <1>3, <1>8, <4>1 DEF ManifestsFit
      <4>3. NotHere \notin Content
        BY Constants DEF NotHere, Content, Absent
      <4> QED
        BY <1>5, <1>6, <1>7, <1>9, <1>10, <3>1, <4>2, <4>3 DEF Covers, Matches
    <3>2. CASE u # t
      BY <1>1, <1>2, <1>5, <1>7, <1>9, <2>1, <3>2 DEF SealsFit, Settled, Matches
    <3> QED
      BY <3>1, <3>2
  <2> QED
    BY <1>5, <2>1, EndedFits DEF SealsFit, Settled, Matches
<1>17. WorkFits'
  <2>1. ASSUME NEW u \in Task, manifest'[u].state = "whole"
        PROVE  Apart(u, manifest[u])'
    BY <1>1, <1>2, <1>3, <1>5, <1>6, <1>7, <1>8, <1>9, <2>1
       DEF WorkFits, Apart, Conflicts, Expected
  <2> QED
    BY <1>5, <2>1, EndedFits DEF WorkFits, Apart, Conflicts, Expected
<1> QED
  BY <1>5, <1>11, <1>12, <1>13, <1>14, <1>15, <1>16, <1>17, EndedFits DEF IInv

-----------------------------------------------------------------------------
(* The steps: a turn *)

LEMMA FreeIs ==
  ASSUME Free
  PROVE  /\ op.kind = "none" /\ op.at = "idle" /\ op.task = NoTask /\ op.copy = NoManifest
         /\ ~ Copying /\ op \in Op /\ \A f \in File : op.seen[f] = NotHere
BY IdleIs DEF Free, Copying

LEMMA BeginsIs ==
  ASSUME NEW kind, NEW at, NEW t, NEW o, o = Begins(kind, at, t)
  PROVE  /\ o.kind = kind /\ o.at = at /\ o.task = t
         /\ o.patch = NoPatch /\ o.todo = {} /\ o.copy = NoManifest /\ o.seen = Nowhere
         /\ \A f \in File : o.seen[f] = NotHere
         /\ /\ kind \in {"none", "turn", "apply", "command", "seal", "restore", "rollback"}
            /\ at \in {"idle", "create", "cleanup", "check", "write", "seal", "back", "record",
                       "put", "keep"}
            /\ t \in Task \cup {NoTask}
            => o \in Op
BY IdleIs DEF Begins, Op

LEMMA BeginTurnStep ==
  ASSUME IInv, NEW t \in Task, BeginTurn(t)
  PROVE  IInv'
<1>1. /\ TypeOK /\ OpFits /\ CopyFits /\ ContentsAreMade /\ TurnsFit
      /\ StoreFits /\ ManifestsFit /\ SealsFit /\ WorkFits
  BY DEF IInv
<1>2. /\ Free /\ turn[t] = "new" /\ turn' = [turn EXCEPT ![t] = "running"]
      /\ had' = [had EXCEPT ![t] = [f \in File |-> {disk[f]}]]
      /\ UNCHANGED <<disk, head, made, blobs, refs, manifest, patch, snap, mine, work, cut, undeleted>>
  BY DEF BeginTurn, tree, store, patches
<1>3. op' = Begins("turn", "create", t) \/ op' = op
  BY DEF BeginTurn
<1>4. steps' \in 0..MaxUserSteps /\ requests' \in 0..MaxRequests /\ faults' \in 0..MaxFaults
  BY <1>1, MaxFaultsAssumption DEF BeginTurn, Faults, bounds, TypeOK
<1>5. /\ op' \in Op /\ op'.kind # "command" /\ op'.copy = NoManifest
      /\ (op'.at = "create" /\ op'.task = t) \/ op'.at = "idle"
      /\ \A f \in File : op'.seen[f] = NotHere
  <2>1. CASE op' = Begins("turn", "create", t)
    BY <2>1, BeginsIs
  <2>2. CASE op' = op
    BY <1>2, <2>2, FreeIs
  <2> QED
    BY <1>3, <2>1, <2>2
<1>6. \A u \in Task : /\ turn'[u] = IF u = t THEN "running" ELSE turn[u]
                      /\ u # t => had'[u] = had[u]
  BY <1>1, <1>2 DEF TypeOK
<1>7. ~ Copying'
  BY <1>5 DEF Copying
<1>8. TypeOK'
  <2>1. had' \in [Task -> [File -> SUBSET Content]]
    BY <1>1, <1>2 DEF TypeOK
  <2> QED
    BY <1>1, <1>2, <1>4, <1>5, <2>1 DEF TypeOK
<1>9. OpFits'
  BY <1>5, <1>6, <1>7 DEF OpFits
<1>10. CopyFits'
  BY <1>5, <1>7 DEF CopyFits
<1>11. ContentsAreMade'
  <2>1. NotHere <= made /\ AtMostMade(NoManifest)
    BY <1>1, NothingIsMade, Constants DEF TypeOK, NotHere
  <2> QED
    BY <1>1, <1>2, <1>5, <2>1 DEF ContentsAreMade, AtMostMade
<1>12. TurnsFit'
  <2>1. Untouched(t)
    BY <1>1, <1>2 DEF TurnsFit
  <2>2. \A f \in File : disk'[f] \in had'[t][f]
    BY <1>1, <1>2 DEF TypeOK
  <2>3. \A u \in Task, f \in File : turn'[u] # "new" /\ mine'[u][f] = NotHere => disk'[f] \in had'[u][f]
    BY <1>1, <1>2, <1>6, <2>2 DEF TurnsFit
  <2>4. \A u \in Task : turn'[u] = "new" \/ u = t => Untouched(u)'
    BY <1>1, <1>2, <1>6, <2>1 DEF TurnsFit, Untouched
  <2>5. \A p \in Patch : patch'[p].task # NoTask => turn'[patch'[p].task] # "new"
    BY <1>1, <1>2, <1>6 DEF TurnsFit, TypeOK
  <2> QED
    BY <1>5, <2>3, <2>4, <2>5 DEF TurnsFit, Untouched
<1>13. StoreFits'
  BY <1>1, <1>2, <1>7 DEF StoreFits, ManifestContentIsStored, Holds, Captured
<1>14. ManifestsFit'
  <2>1. manifest[t].state = "none"
    BY <1>1, <1>2, NothingIsMade DEF TurnsFit, Untouched, NoManifest
  <2> QED
    BY <1>1, <1>2, <1>5, <1>6, <1>7, <2>1, FreeIs DEF ManifestsFit, Trusted, Covers, Faithful
<1>15. SealsFit'
  BY <1>1, <1>2, <1>5, <1>6, FreeIs DEF SealsFit, Settled, Matches
<1>16. WorkFits'
  BY <1>1, <1>2, <1>5, <1>7 DEF WorkFits, Apart, Conflicts, Expected
<1> QED
  BY <1>8, <1>9, <1>10, <1>11, <1>12, <1>13, <1>14, <1>15, <1>16 DEF IInv

LEMMA CreateCheckpointStep ==
  ASSUME IInv, CreateCheckpoint
  PROVE  IInv'
<1>1. /\ TypeOK /\ OpFits /\ CopyFits /\ ContentsAreMade /\ TurnsFit
      /\ StoreFits /\ ManifestsFit /\ SealsFit /\ WorkFits
  BY DEF IInv
<1>2. PICK t \in Task : t = op.task
  BY <1>1 DEF OpFits, CreateCheckpoint
<1>3. /\ op.at = "create" /\ refs' = [refs EXCEPT ![t] = Holds(EmptyManifest)]
      /\ manifest' = [manifest EXCEPT ![t] = EmptyManifest]
      /\ op' = [op EXCEPT !.at = "cleanup"]
      /\ UNCHANGED <<disk, head, made, blobs, patch, snap, turn, steps, requests, faults,
                     had, mine, work, cut, undeleted>>
  BY <1>2 DEF CreateCheckpoint, Reference, Keeps, Goes, tree, patches, bounds, history
<1>4. /\ op' \in Op /\ op'.at = "cleanup" /\ op'.kind = op.kind /\ op'.task = t
      /\ op'.copy = op.copy /\ op'.seen = op.seen /\ op'.todo = op.todo
  BY <1>1, <1>2, <1>3 DEF TypeOK, Op
<1>5. Holds(EmptyManifest) = {} /\ EmptyManifest.state = "whole" /\ EmptyManifest.covered
  BY ManifestTypes DEF Holds, EmptyManifest, NoManifest
<1>6. \A u \in Task : /\ manifest'[u] = IF u = t THEN EmptyManifest ELSE manifest[u]
                      /\ refs'[u] = IF u = t THEN {} ELSE refs[u]
  BY <1>1, <1>3, <1>5 DEF TypeOK
<1>7. ~ Copying' /\ turn[t] = "running" /\ op.kind # "command"
  BY <1>1, <1>2, <1>3, <1>4 DEF Copying, OpFits
<1>8. Untouched(t)
  BY <1>1, <1>2, <1>3 DEF TurnsFit
<1>9. TypeOK'
  BY <1>1, <1>3, <1>4, <1>5, ManifestTypes DEF TypeOK
<1>10. OpFits'
  BY <1>3, <1>4, <1>7 DEF OpFits
<1>11. CopyFits'
  BY <1>4, <1>7 DEF CopyFits
<1>12. ContentsAreMade'
  <2>1. AtMostMade(EmptyManifest)
    BY <1>1, NothingIsMade
  <2> QED
    BY <1>1, <1>3, <1>4, <1>6, <2>1 DEF ContentsAreMade, AtMostMade
<1>13. TurnsFit'
  BY <1>1, <1>3, <1>4, <1>6, <1>7 DEF TurnsFit, Untouched
<1>14. StoreFits'
  <2>1. ASSUME NEW u \in Task PROVE Holds(manifest'[u]) \subseteq blobs' \cap refs'[u]
    <3>1. CASE u = t
      BY <1>5, <1>6, <3>1
    <3>2. CASE u # t
      BY <1>1, <1>3, <1>6, <3>2 DEF StoreFits, ManifestContentIsStored
    <3> QED
      BY <3>1, <3>2
  <2> QED
    BY <1>7, <2>1 DEF StoreFits, ManifestContentIsStored
<1>15. ManifestsFit'
  <2>1. \A f \in File : mine[t][f] = NotHere
    BY <1>8 DEF Untouched, Nowhere
  <2> QED
    BY <1>1, <1>2, <1>3, <1>4, <1>6, <1>7, <2>1, ManifestTypes
       DEF ManifestsFit, Trusted, Covers, Faithful
<1>16. SealsFit'
  BY <1>1, <1>2, <1>3, <1>4, <1>6, <1>7 DEF SealsFit, Settled, Matches
<1>17. WorkFits'
  BY <1>1, <1>3, <1>4, <1>6, <1>7, <1>8 DEF WorkFits, Apart, Conflicts, Expected, Untouched
<1> QED
  BY <1>9, <1>10, <1>11, <1>12, <1>13, <1>14, <1>15, <1>16, <1>17 DEF IInv

LEMMA CutsDoes ==
  ASSUME TypeOK, NEW S \in SUBSET Task, Cuts(S)
  PROVE  /\ cut' \in [Task -> {"no", "short", "unrecorded"}]
         /\ \A t \in Task : /\ t \notin S => cut'[t] = cut[t]
                            /\ t \in S => cut'[t] # "no"
                            /\ cut'[t] # "unrecorded" => cut[t] # "unrecorded"
                            /\ t \in S /\ op.kind = "command" /\ op.task = t =>
                                 cut'[t] = "unrecorded"
<1>1. cut' = [t \in Task |->
                IF t \notin S THEN cut[t]
                ELSE IF op.kind = "command" /\ op.task = t THEN "unrecorded"
                ELSE IF cut[t] = "no" THEN "short" ELSE cut[t]]
  BY DEF Cuts
<1>2. \A t \in Task : cut[t] \in {"no", "short", "unrecorded"}
  BY DEF TypeOK
<1> QED
  BY <1>1, <1>2

LEMMA CleanupStep ==
  ASSUME IInv, NEW D \in SUBSET Task, Cleanup(D)
  PROVE  IInv'
<1>1. /\ TypeOK /\ OpFits /\ CopyFits /\ ContentsAreMade /\ TurnsFit
      /\ StoreFits /\ ManifestsFit /\ SealsFit /\ WorkFits
  BY DEF IInv
<1>2. PICK t \in Task : t = op.task
  BY <1>1 DEF OpFits, Cleanup
<1>3. /\ op.at = "cleanup" /\ op' = Idle
      /\ D \subseteq {u \in Task \ {t} : manifest[u].state = "whole"}
      /\ UNCHANGED <<disk, head, made, patch, snap, turn, steps, requests, faults,
                     had, mine, work, cut, undeleted>>
  BY <1>2 DEF Cleanup, Ends, tree, patches, bounds, history
<1>4. /\ manifest' \in [Task -> Manifest] /\ refs' \in [Task -> SUBSET (Content \ {Absent})]
      /\ \A u \in Task : \/ manifest'[u] = NoManifest
                         \/ manifest'[u] = manifest[u] /\ refs'[u] = refs[u]
      /\ blobs' \subseteq blobs
      /\ \A u \in Task : blobs \cap refs'[u] \subseteq blobs'
  <2>1. CASE UNCHANGED <<store, manifest>>
    BY <1>1, <2>1 DEF store, TypeOK
  <2>2. CASE /\ manifest' = [u \in Task |-> IF u \in D THEN NoManifest ELSE manifest[u]]
             /\ refs' = [u \in Task |-> IF u \in D THEN {} ELSE refs[u]]
             /\ blobs' = blobs \cap UNION {refs'[u] : u \in Task}
    <3>1. manifest' \in [Task -> Manifest]
      BY <1>1, <2>2, ManifestTypes DEF TypeOK
    <3>2. refs' \in [Task -> SUBSET (Content \ {Absent})]
      BY <1>1, <2>2 DEF TypeOK
    <3> QED
      BY <2>2, <3>1, <3>2
  <2> QED
    BY <2>1, <2>2 DEF Cleanup
<1>5. ~ Copying /\ op.kind # "command"
  BY <1>1, <1>3 DEF Copying, OpFits
<1>6. NoManifest.state = "none" /\ Holds(NoManifest) = {}
  BY ManifestTypes DEF NoManifest, Holds
<1>7. TypeOK'
  BY <1>1, <1>3, <1>4, EndedFits DEF TypeOK
<1>8. ContentsAreMade'
  <2>1. made \in Nat
    BY <1>1, Constants DEF TypeOK
  <2>2. AtMostMade(NoManifest)
    BY <1>1, NothingIsMade
  <2>3. \A u \in Task : AtMostMade(manifest[u])'
    BY <1>1, <1>3, <1>4, <2>2 DEF ContentsAreMade, AtMostMade
  <2>4. /\ \A f \in File : disk'[f] <= made' /\ head'[f] <= made'
        /\ \A p \in Patch, f \in File :
             patch'[p].base[f] <= made' /\ snap'[p][f].was <= made' /\ snap'[p][f].left <= made'
    BY <1>1, <1>3 DEF ContentsAreMade
  <2> QED
    BY <1>1, <1>3, <2>1, <2>3, <2>4, EndedIsMade DEF ContentsAreMade
<1>9. TurnsFit'
  BY <1>1, <1>3, <1>4, EndedFits DEF TurnsFit, Untouched
<1>10. StoreFits'
  <2>1. ASSUME NEW u \in Task PROVE Holds(manifest'[u]) \subseteq blobs' \cap refs'[u]
    <3>1. CASE manifest'[u] = NoManifest
      BY <1>6, <3>1
    <3>2. CASE manifest'[u] = manifest[u] /\ refs'[u] = refs[u]
      <4>1. Holds(manifest[u]) \subseteq blobs \cap refs'[u]
        BY <1>1, <3>2 DEF StoreFits, ManifestContentIsStored
      <4> QED
        BY <1>4, <3>2, <4>1
    <3> QED
      BY <1>4, <3>1, <3>2
  <2> QED
    BY <1>3, <2>1, EndedFits DEF StoreFits, ManifestContentIsStored
<1>11. ManifestsFit'
  BY <1>1, <1>3, <1>4, <1>5, <1>6, EndedFits DEF ManifestsFit, Trusted, Covers, Faithful
<1>12. SealsFit'
  BY <1>1, <1>3, <1>4, <1>6, EndedFits DEF SealsFit, Settled, Matches
<1>13. WorkFits'
  BY <1>1, <1>3, <1>4, <1>6, EndedFits DEF WorkFits, Apart, Conflicts, Expected
<1> QED
  BY <1>3, <1>7, <1>8, <1>9, <1>10, <1>11, <1>12, <1>13, EndedFits DEF IInv

LEMMA EndTurnStep ==
  ASSUME IInv, NEW t \in Task, EndTurn(t)
  PROVE  IInv'
<1>1. /\ TypeOK /\ OpFits /\ CopyFits /\ ContentsAreMade /\ TurnsFit
      /\ StoreFits /\ ManifestsFit /\ SealsFit /\ WorkFits
  BY DEF IInv
<1>2. /\ Free /\ turn[t] = "running" /\ turn' = [turn EXCEPT ![t] = "over"]
      /\ UNCHANGED <<disk, head, made, blobs, refs, manifest, patch, snap, steps, requests, faults,
                     had, mine, work, undeleted>>
  BY DEF EndTurn, tree, store, patches, bounds
<1>3. \A u \in Task : turn'[u] = IF u = t THEN "over" ELSE turn[u]
  BY <1>1, <1>2 DEF TypeOK
<1>4. PICK m \in Manifest : m = manifest[t]
  BY <1>1 DEF TypeOK
<1>5. \/ /\ manifest[t].state = "whole" /\ cut' = cut
         /\ op' = [Begins("seal", "seal", t) EXCEPT !.copy = m]
      \/ op' = Idle /\ op' = op /\ Cuts({t})
  BY <1>2, <1>4 DEF EndTurn, Free
<1>6. /\ op' \in Op /\ op'.kind # "command" /\ \A f \in File : op'.seen[f] = NotHere
      /\ \/ op'.at = "idle" /\ op'.copy = NoManifest /\ cut'[t] # "no"
         \/ /\ op'.at = "seal" /\ op'.task = t /\ op'.copy = manifest[t]
            /\ manifest[t].state = "whole"
  <2>1. CASE /\ manifest[t].state = "whole" /\ cut' = cut
             /\ op' = [Begins("seal", "seal", t) EXCEPT !.copy = m]
    <3>1. PICK o \in Op : o = Begins("seal", "seal", t)
      BY BeginsIs
    <3>2. /\ o.kind = "seal" /\ o.at = "seal" /\ o.task = t
          /\ \A f \in File : o.seen[f] = NotHere
      BY <3>1, BeginsIs
    <3>3. op' = [o EXCEPT !.copy = m]
      BY <2>1, <3>1
    <3> QED
      BY <1>4, <2>1, <3>2, <3>3 DEF Op
  <2>2. CASE op' = Idle /\ op' = op /\ Cuts({t})
    BY <1>1, <2>2, EndedFits, CutsDoes
  <2> QED
    BY <1>5, <2>1, <2>2
<1>7. /\ cut' \in [Task -> {"no", "short", "unrecorded"}]
      /\ \A u \in Task : /\ u # t => cut'[u] = cut[u]
                         /\ cut'[u] # "unrecorded" => cut[u] # "unrecorded"
  <2>1. CASE cut' = cut
    BY <1>1, <2>1 DEF TypeOK
  <2>2. CASE Cuts({t})
    BY <1>1, <2>2, CutsDoes
  <2> QED
    BY <1>5, <2>1, <2>2
<1>8. Copying' => op'.at = "seal"
  BY <1>6 DEF Copying
<1>9. TypeOK'
  BY <1>1, <1>2, <1>6, <1>7 DEF TypeOK
<1>10. OpFits'
  BY <1>3, <1>6, <1>8 DEF OpFits
<1>11. CopyFits'
  BY <1>2, <1>6, <1>8 DEF CopyFits
<1>12. ContentsAreMade'
  <2>1. NotHere <= made /\ AtMostMade(NoManifest)
    BY <1>1, NothingIsMade, Constants DEF TypeOK, NotHere
  <2> QED
    BY <1>1, <1>2, <1>6, <2>1 DEF ContentsAreMade, AtMostMade
<1>13. TurnsFit'
  <2>1. \A p \in Patch : patch'[p].task # NoTask => turn'[patch'[p].task] # "new"
    BY <1>1, <1>2, <1>3 DEF TurnsFit, TypeOK
  <2>2. \A u \in Task : turn'[u] = "new" => Untouched(u)'
    BY <1>1, <1>2, <1>3 DEF TurnsFit, Untouched
  <2>3. \A u \in Task, f \in File : turn'[u] # "new" /\ mine'[u][f] = NotHere => disk'[f] \in had'[u][f]
    BY <1>1, <1>2, <1>3 DEF TurnsFit
  <2> QED
    BY <1>6, <2>1, <2>2, <2>3 DEF TurnsFit, Untouched
<1>14. StoreFits'
  BY <1>1, <1>2, <1>6, <1>8 DEF StoreFits, ManifestContentIsStored, Holds, Captured
<1>15. ManifestsFit'
  BY <1>1, <1>2, <1>6, <1>7, <1>8, FreeIs DEF ManifestsFit, Trusted, Covers, Faithful
<1>16. SealsFit'
  BY <1>1, <1>2, <1>3, <1>6, <1>7, FreeIs DEF SealsFit, Settled, Matches
<1>17. WorkFits'
  BY <1>1, <1>2, <1>6, <1>8 DEF WorkFits, Apart, Conflicts, Expected
<1> QED
  BY <1>9, <1>10, <1>11, <1>12, <1>13, <1>14, <1>15, <1>16, <1>17 DEF IInv

LEMMA TurnFailsStep ==
  ASSUME IInv, NEW t \in Task, TurnFails(t)
  PROVE  IInv'
<1>1. /\ TypeOK /\ OpFits /\ CopyFits /\ ContentsAreMade /\ TurnsFit
      /\ StoreFits /\ ManifestsFit /\ SealsFit /\ WorkFits
  BY DEF IInv
<1>2. /\ Free /\ turn[t] = "running" /\ turn' = [turn EXCEPT ![t] = "over"] /\ Cuts({t})
      /\ UNCHANGED <<disk, head, made, blobs, refs, manifest, patch, snap, op, had, mine, work, undeleted>>
      /\ steps' \in 0..MaxUserSteps /\ requests' \in 0..MaxRequests /\ faults' \in 0..MaxFaults
  BY <1>1, MaxFaultsAssumption DEF TurnFails, Faults, tree, store, patches, TypeOK
<1>3. \A u \in Task : turn'[u] = IF u = t THEN "over" ELSE turn[u]
  BY <1>1, <1>2 DEF TypeOK
<1>4. /\ cut' \in [Task -> {"no", "short", "unrecorded"}]
      /\ \A u \in Task : /\ u # t => cut'[u] = cut[u]
                         /\ cut'[u] # "unrecorded" => cut[u] # "unrecorded"
      /\ cut'[t] # "no"
  BY <1>1, <1>2, CutsDoes
<1>5. op' = Idle
  BY <1>2 DEF Free
<1>6. TypeOK'
  BY <1>1, <1>2, <1>4 DEF TypeOK
<1>7. ContentsAreMade'
  BY <1>1, <1>2 DEF ContentsAreMade, AtMostMade, Fresh
<1>8. TurnsFit'
  <2>1. \A p \in Patch : patch'[p].task # NoTask => turn'[patch'[p].task] # "new"
    BY <1>1, <1>2, <1>3 DEF TurnsFit, TypeOK
  <2>2. \A u \in Task : turn'[u] = "new" => Untouched(u)'
    BY <1>1, <1>2, <1>3 DEF TurnsFit, Untouched
  <2>3. \A u \in Task, f \in File : turn'[u] # "new" /\ mine'[u][f] = NotHere => disk'[f] \in had'[u][f]
    BY <1>1, <1>2, <1>3 DEF TurnsFit
  <2> QED
    BY <1>5, <2>1, <2>2, <2>3, EndedFits DEF TurnsFit, Untouched
<1>9. StoreFits'
  BY <1>1, <1>2, <1>5, EndedFits DEF StoreFits, ManifestContentIsStored, Holds, Captured
<1>10. ManifestsFit'
  BY <1>1, <1>2, <1>4, <1>5, FreeIs, EndedFits DEF ManifestsFit, Trusted, Covers, Faithful
<1>11. SealsFit'
  BY <1>1, <1>2, <1>3, <1>4, <1>5, FreeIs, EndedFits DEF SealsFit, Settled, Matches
<1>12. WorkFits'
  BY <1>1, <1>2, <1>5, EndedFits DEF WorkFits, Apart, Conflicts, Expected
<1> QED
  BY <1>5, <1>6, <1>7, <1>8, <1>9, <1>10, <1>11, <1>12, EndedFits DEF IInv

-----------------------------------------------------------------------------
(* The steps: a patch *)

LEMMA ProposeStep ==
  ASSUME IInv, NEW t \in Task, NEW p \in Patch, NEW S \in SUBSET File, NEW D \in SUBSET File,
         Propose(t, p, S, D)
  PROVE  IInv'
<1>1. /\ TypeOK /\ OpFits /\ CopyFits /\ ContentsAreMade /\ TurnsFit
      /\ StoreFits /\ ManifestsFit /\ SealsFit /\ WorkFits
  BY DEF IInv
<1>2. PICK b : b = [f \in File |-> IF f \in S THEN disk[f] ELSE NotHere]
  OBVIOUS
<1>3. /\ Free /\ turn[t] = "running"
      /\ patch' = [patch EXCEPT ![p] = [task |-> t, deletes |-> D, base |-> b]]
      /\ UNCHANGED <<disk, head, made, blobs, refs, manifest, snap, turn, op,
                     steps, requests, faults, had, mine, work, cut, undeleted>>
  BY <1>2 DEF Propose, tree, store, bounds, history
<1>4. op' = Idle
  BY <1>3 DEF Free
<1>5. b \in [File -> Entry] /\ \A f \in File : b[f] <= made
  <2>1. NotHere <= made /\ NotHere \in Entry
    BY <1>1, Constants DEF TypeOK, NotHere, Entry
  <2>2. \A f \in File : disk[f] \in Entry /\ disk[f] <= made
    BY <1>1 DEF TypeOK, Entry, ContentsAreMade
  <2> QED
    BY <1>2, <2>1, <2>2
<1>6. /\ patch' \in [Patch -> [task : Task \cup {NoTask}, base : [File -> Entry],
                               deletes : SUBSET File]]
      /\ \A q \in Patch : /\ q # p => patch'[q] = patch[q]
                          /\ q = p => patch'[q].task = t /\ patch'[q].base = b
  BY <1>1, <1>3, <1>5 DEF TypeOK
<1>7. TypeOK'
  BY <1>1, <1>3, <1>6 DEF TypeOK
<1>8. ContentsAreMade'
  <2>1. \A q \in Patch, f \in File : patch'[q].base[f] <= made
    BY <1>1, <1>5, <1>6 DEF ContentsAreMade
  <2>2. op'.at # "check" /\ op'.at # "write"
    BY <1>4, EndedFits
  <2> QED
    BY <1>1, <1>3, <2>1, <2>2 DEF ContentsAreMade, AtMostMade
<1>9. TurnsFit'
  <2>1. \A q \in Patch : patch'[q].task # NoTask => turn'[patch'[q].task] # "new"
    BY <1>1, <1>3, <1>6 DEF TurnsFit
  <2> QED
    BY <1>1, <1>3, <2>1 DEF TurnsFit, Untouched
<1>10. StoreFits'
  BY <1>1, <1>3, <1>4, EndedFits DEF StoreFits, ManifestContentIsStored, Holds, Captured
<1>11. ManifestsFit'
  BY <1>1, <1>3, <1>4, EndedFits DEF ManifestsFit, Trusted, Covers, Faithful
<1>12. SealsFit'
  BY <1>1, <1>3, <1>4, EndedFits DEF SealsFit, Settled, Matches
<1>13. WorkFits'
  BY <1>1, <1>3, <1>4, EndedFits DEF WorkFits, Apart, Conflicts, Expected
<1> QED
  BY <1>4, <1>7, <1>8, <1>9, <1>10, <1>11, <1>12, <1>13, EndedFits DEF IInv

\* What Apply is going to write: the files to be written are captured, from a
\* content the store has.
LEMMA ApplyCopies ==
  ASSUME IInv, NEW p \in Patch, NEW S \in SUBSET File, Apply(p, S)
  PROVE  \E t \in Task, c \in Manifest :
           /\ t = patch[p].task /\ manifest[t].state # "torn"
           /\ op' \in Op /\ op'.kind = "apply" /\ op'.at = "check" /\ op'.task = t
           /\ op'.patch = p /\ op'.todo = S /\ op'.bytes = Fresh /\ op'.copy = c
           /\ \A f \in File : op'.seen[f] = NotHere
           /\ c.state = manifest[t].state /\ c.covered = manifest[t].covered
           /\ c.left = manifest[t].left
           /\ Captured(manifest[t]) \subseteq Captured(c)
           /\ c.state = "whole" => S \subseteq Captured(c)
           /\ \A f \in File : \/ c.was[f] = manifest[t].was[f]
                              \/ f \notin Captured(manifest[t]) /\ c.was[f] = disk[f]
           /\ blobs \subseteq blobs' /\ blobs' \subseteq Content \ {Absent}
           /\ refs' \in [Task -> SUBSET (Content \ {Absent})]
           /\ \A u \in Task : Holds(manifest[u]) \subseteq blobs' \cap refs'[u]
           /\ Holds(c) \subseteq blobs' \cap refs'[t]
<1>1. TypeOK /\ StoreFits
  BY DEF IInv
<1>2. PICK t \in Task : t = patch[p].task
  BY <1>1 DEF Apply, TypeOK
<1>3. PICK mt \in Manifest : mt = manifest[t]
  BY <1>1 DEF TypeOK
<1>4. PICK d \in [File -> Content] : d = disk
  BY <1>1 DEF TypeOK
<1>5. PICK o \in Op : o = Begins("apply", "check", t)
  BY BeginsIs
<1>6. /\ o.kind = "apply" /\ o.at = "check" /\ o.task = t
      /\ \A f \in File : o.seen[f] = NotHere
  BY <1>5, BeginsIs
<1>7. /\ Listable /\ S \subseteq PatchFiles(p) /\ Fresh <= MaxContent
      /\ \/ /\ mt.state = "none" \/ S \ Captured(mt) = {}
            /\ op' = [[o EXCEPT !.patch = p, !.todo = S, !.bytes = Fresh] EXCEPT !.copy = mt]
            /\ UNCHANGED <<blobs, refs>>
         \/ /\ op' = [[o EXCEPT !.patch = p, !.todo = S, !.bytes = Fresh]
                        EXCEPT !.copy = WithPaths(mt, S, d)]
            /\ blobs' = blobs \cup Contents(d, S \ Captured(mt))
            /\ refs' = [refs EXCEPT ![t] = Holds(WithPaths(mt, S, d))]
  BY <1>2, <1>3, <1>4, <1>5 DEF Apply, Reference, store
<1>8. mt.state # "torn" /\ Fresh \in Entry
  <2>1. Fresh \in Nat
    BY <1>1, Constants DEF TypeOK, Fresh
  <2> QED
    BY <1>3, <1>7, <2>1, Constants DEF Listable, Entry, Content, Absent
<1>9. ASSUME NEW c \in Manifest,
             op' = [[o EXCEPT !.patch = p, !.todo = S, !.bytes = Fresh] EXCEPT !.copy = c]
      PROVE  /\ op' \in Op /\ op'.kind = "apply" /\ op'.at = "check" /\ op'.task = t
             /\ op'.patch = p /\ op'.todo = S /\ op'.bytes = Fresh /\ op'.copy = c
             /\ \A f \in File : op'.seen[f] = NotHere
  <2>1. PICK b \in Entry : b = Fresh
    BY <1>8
  <2>2. op' = [[o EXCEPT !.patch = p, !.todo = S, !.bytes = b] EXCEPT !.copy = c]
    BY <1>9, <2>1
  <2> QED
    BY <1>6, <2>1, <2>2 DEF Op
<1>10. CASE /\ mt.state = "none" \/ S \ Captured(mt) = {}
            /\ op' = [[o EXCEPT !.patch = p, !.todo = S, !.bytes = Fresh] EXCEPT !.copy = mt]
            /\ UNCHANGED <<blobs, refs>>
  <2>1. /\ op' \in Op /\ op'.kind = "apply" /\ op'.at = "check" /\ op'.task = t
        /\ op'.patch = p /\ op'.todo = S /\ op'.bytes = Fresh /\ op'.copy = mt
        /\ \A f \in File : op'.seen[f] = NotHere
    BY <1>9, <1>10
  <2>2. \A u \in Task : Holds(manifest[u]) \subseteq blobs' \cap refs'[u]
    BY <1>1, <1>10 DEF StoreFits, ManifestContentIsStored
  <2>3. mt.state = "whole" => S \subseteq Captured(mt)
    BY <1>10
  <2> QED
    BY <1>1, <1>2, <1>3, <1>8, <1>10, <2>1, <2>2, <2>3 DEF TypeOK
<1>11. CASE /\ op' = [[o EXCEPT !.patch = p, !.todo = S, !.bytes = Fresh]
                        EXCEPT !.copy = WithPaths(mt, S, d)]
            /\ blobs' = blobs \cup Contents(d, S \ Captured(mt))
            /\ refs' = [refs EXCEPT ![t] = Holds(WithPaths(mt, S, d))]
  <2>1. PICK c : c = WithPaths(mt, S, d)
    OBVIOUS
  <2>2. /\ c \in Manifest
        /\ c.state = mt.state /\ c.covered = mt.covered /\ c.left = mt.left
        /\ \A f \in File : /\ f \in S \ Captured(mt) => c.was[f] = d[f]
                           /\ f \notin S \ Captured(mt) => c.was[f] = mt.was[f]
        /\ Captured(c) = Captured(mt) \cup S
        /\ Holds(c) = Holds(mt) \cup Contents(d, S \ Captured(mt))
    <3>1. /\ c \in Manifest
          /\ c.state = mt.state /\ c.covered = mt.covered /\ c.left = mt.left
          /\ \A f \in File : /\ f \in S \ Captured(mt) => c.was[f] = d[f]
                             /\ f \notin S \ Captured(mt) => c.was[f] = mt.was[f]
      BY <2>1, WithPathsAdds
    <3>2. Captured(c) = Captured(mt) \cup S
      BY <2>1, WithPathsCaptures
    <3>3. Holds(c) = Holds(mt) \cup Contents(d, S \ Captured(mt))
      BY <2>1, WithPathsHolds
    <3> QED
      BY <3>1, <3>2, <3>3
  <2>3. /\ op' \in Op /\ op'.kind = "apply" /\ op'.at = "check" /\ op'.task = t
        /\ op'.patch = p /\ op'.todo = S /\ op'.bytes = Fresh /\ op'.copy = c
        /\ \A f \in File : op'.seen[f] = NotHere
    BY <1>9, <1>11, <2>1, <2>2
  <2>4. Contents(d, S \ Captured(mt)) \subseteq Content \ {Absent}
    BY DEF Contents
  <2>5. blobs \subseteq blobs' /\ blobs' \subseteq Content \ {Absent}
    BY <1>1, <1>11, <2>4 DEF TypeOK
  <2>6. \A u \in Task : Holds(manifest[u]) \subseteq blobs \cap refs[u]
    BY <1>1 DEF StoreFits, ManifestContentIsStored
  <2>7. Holds(c) \subseteq blobs'
    BY <1>3, <1>11, <2>2, <2>6
  <2>8. \A u \in Task : refs'[u] = IF u = t THEN Holds(c) ELSE refs[u]
    BY <1>1, <1>11, <2>1 DEF TypeOK
  <2>9. refs' \in [Task -> SUBSET (Content \ {Absent})]
    BY <1>1, <1>11, <2>1, <2>5, <2>7 DEF TypeOK
  <2>10. \A u \in Task : Holds(manifest[u]) \subseteq blobs' \cap refs'[u]
    BY <1>3, <2>2, <2>5, <2>6, <2>8
  <2>11. \A f \in File : \/ c.was[f] = manifest[t].was[f]
                         \/ f \notin Captured(manifest[t]) /\ c.was[f] = disk[f]
    <3> SUFFICES ASSUME NEW f \in File
                 PROVE  \/ c.was[f] = manifest[t].was[f]
                        \/ f \notin Captured(manifest[t]) /\ c.was[f] = disk[f]
      OBVIOUS
    <3>1. CASE f \in S \ Captured(mt)
      BY <1>3, <1>4, <2>2, <3>1
    <3>2. CASE f \notin S \ Captured(mt)
      BY <1>3, <1>4, <2>2, <3>2
    <3> QED
      BY <3>1, <3>2
  <2>12. Holds(c) \subseteq blobs' \cap refs'[t]
    BY <2>7, <2>8
  <2>13. /\ c.state = manifest[t].state /\ c.covered = manifest[t].covered
         /\ c.left = manifest[t].left /\ manifest[t].state # "torn"
         /\ Captured(manifest[t]) \subseteq Captured(c) /\ S \subseteq Captured(c)
    BY <1>3, <1>8, <2>2
  <2> QED
    BY <1>2, <2>2, <2>3, <2>5, <2>9, <2>10, <2>11, <2>12, <2>13
<1> QED
  BY <1>7, <1>10, <1>11

LEMMA ApplyStep ==
  ASSUME IInv, NEW p \in Patch, NEW S \in SUBSET File, Apply(p, S)
  PROVE  IInv'
<1>1. /\ TypeOK /\ OpFits /\ CopyFits /\ ContentsAreMade /\ TurnsFit
      /\ StoreFits /\ ManifestsFit /\ SealsFit /\ WorkFits
  BY DEF IInv
<1>2. /\ Free /\ patch[p].task # NoTask /\ S \subseteq PatchFiles(p) /\ Fresh <= MaxContent
      /\ UNCHANGED <<disk, head, made, manifest, patch, snap, turn, had, mine, work, cut, undeleted>>
      /\ steps' \in 0..MaxUserSteps /\ requests' \in 0..MaxRequests /\ faults' \in 0..MaxFaults
  BY <1>1, MaxRequestsAssumption DEF Apply, Serves, tree, patches, history, TypeOK
<1>3. PICK t \in Task, c \in Manifest :
        /\ t = patch[p].task /\ manifest[t].state # "torn"
        /\ op' \in Op /\ op'.kind = "apply" /\ op'.at = "check" /\ op'.task = t
        /\ op'.patch = p /\ op'.todo = S /\ op'.bytes = Fresh /\ op'.copy = c
        /\ \A f \in File : op'.seen[f] = NotHere
        /\ c.state = manifest[t].state /\ c.covered = manifest[t].covered
        /\ c.left = manifest[t].left
        /\ Captured(manifest[t]) \subseteq Captured(c)
        /\ c.state = "whole" => S \subseteq Captured(c)
        /\ \A f \in File : \/ c.was[f] = manifest[t].was[f]
                           \/ f \notin Captured(manifest[t]) /\ c.was[f] = disk[f]
        /\ blobs \subseteq blobs' /\ blobs' \subseteq Content \ {Absent}
        /\ refs' \in [Task -> SUBSET (Content \ {Absent})]
        /\ \A u \in Task : Holds(manifest[u]) \subseteq blobs' \cap refs'[u]
        /\ Holds(c) \subseteq blobs' \cap refs'[t]
  BY ApplyCopies
<1>4. turn[t] # "new"
  BY <1>1, <1>2, <1>3 DEF TurnsFit
<1>5. Copying' /\ op.kind # "command" /\ op.at = "idle"
  BY <1>2, <1>3, FreeIs DEF Copying
<1>6. TypeOK'
  BY <1>1, <1>2, <1>3 DEF TypeOK
<1>7. OpFits'
  BY <1>2, <1>3, <1>4 DEF OpFits, PatchFiles
<1>8. CopyFits'
  BY <1>2, <1>3 DEF CopyFits
<1>9. ContentsAreMade'
  <2>1. NotHere <= made
    BY <1>1, Constants DEF TypeOK, NotHere
  <2>2. AtMostMade(c)
    BY <1>1, <1>3 DEF ContentsAreMade, AtMostMade
  <2> QED
    BY <1>1, <1>2, <1>3, <2>1, <2>2 DEF ContentsAreMade, AtMostMade, Fresh
<1>10. TurnsFit'
  BY <1>1, <1>2, <1>3 DEF TurnsFit, Untouched
<1>11. StoreFits'
  BY <1>2, <1>3 DEF StoreFits, ManifestContentIsStored
<1>12. ManifestsFit'
  <2>1. ASSUME Trusted(t, c) PROVE Covers(t, c) /\ Faithful(t, c)
    <3>1. Covers(t, manifest[t]) /\ Faithful(t, manifest[t])
      BY <1>1, <1>3, <1>5, <2>1 DEF ManifestsFit, Trusted
    <3>2. \A f \in File : f \notin Captured(manifest[t]) => disk[f] \in had[t][f]
      BY <1>1, <1>4, <3>1 DEF TurnsFit, Covers
    <3> QED
      BY <1>3, <3>1, <3>2 DEF Covers, Faithful, Captured
  <2> QED
    BY <1>1, <1>2, <1>3, <1>5, <2>1 DEF ManifestsFit, Trusted, Covers, Faithful
<1>13. SealsFit'
  BY <1>1, <1>2, <1>3, <1>5 DEF SealsFit, Settled, Matches
<1>14. WorkFits'
  BY <1>1, <1>2, <1>3 DEF WorkFits, Apart, Conflicts, Expected
<1> QED
  BY <1>6, <1>7, <1>8, <1>9, <1>10, <1>11, <1>12, <1>13, <1>14 DEF IInv

LEMMA CheckBaseStep ==
  ASSUME IInv, CheckBase
  PROVE  IInv'
<1>1. /\ TypeOK /\ OpFits /\ CopyFits /\ ContentsAreMade /\ TurnsFit
      /\ StoreFits /\ ManifestsFit /\ SealsFit /\ WorkFits
  BY DEF IInv
<1>2. PICK t \in Task : t = op.task
  BY <1>1 DEF OpFits, Copying, CheckBase
<1>3. PICK m \in Manifest : m = op.copy
  BY <1>1, OpTypes
<1>4. /\ op.at = "check" /\ manifest' = [manifest EXCEPT ![t] = m]
      /\ \/ op' = [op EXCEPT !.at = "write"] /\ made' = op.bytes
         \/ op' = Idle /\ made' = made
      /\ UNCHANGED <<disk, head, blobs, refs, patch, snap, turn, steps, requests, faults,
                     had, mine, work, cut, undeleted>>
  BY <1>2, <1>3 DEF CheckBase, Keeps, Goes, Ends, store, patches, bounds, history
<1>5. \A u \in Task : manifest'[u] = IF u = t THEN m ELSE manifest[u]
  BY <1>1, <1>4 DEF TypeOK
<1>6. Copying /\ op.kind # "command" /\ turn[t] # "new" /\ m.state # "torn"
  BY <1>1, <1>2, <1>3, <1>4 DEF Copying, OpFits
<1>7. /\ m.state = manifest[t].state
      /\ Captured(manifest[t]) \subseteq Captured(m)
      /\ m.covered => manifest[t].covered
      /\ m.state = "whole" => op.todo \subseteq Captured(m)
      /\ op.patch \in Patch /\ op.todo \subseteq PatchFiles(op.patch)
  BY <1>1, <1>2, <1>3, <1>4, <1>6 DEF CopyFits, OpFits
<1>8. /\ op' \in Op /\ op'.kind # "command" /\ \A f \in File : op'.seen[f] <= made
      /\ \/ /\ op'.at = "write" /\ op'.task = t /\ op'.copy = m /\ op'.todo = op.todo
            /\ op'.patch = op.patch /\ op'.bytes = op.bytes
            /\ made' = made + 1 /\ made' = op.bytes /\ made' <= MaxContent
         \/ op'.at = "idle" /\ op'.copy = NoManifest /\ made' = made
  <2>1. CASE op' = [op EXCEPT !.at = "write"] /\ made' = op.bytes
    <3>1. /\ op' \in Op /\ op'.kind = op.kind /\ op'.seen = op.seen
          /\ op'.at = "write" /\ op'.task = t /\ op'.copy = m /\ op'.todo = op.todo
          /\ op'.patch = op.patch /\ op'.bytes = op.bytes
      BY <1>1, <1>2, <1>3, <2>1 DEF TypeOK, Op
    <3>2. op.bytes = made + 1 /\ op.bytes <= MaxContent
      BY <1>1, <1>4 DEF ContentsAreMade, Fresh
    <3> QED
      BY <1>1, <1>6, <2>1, <3>1, <3>2 DEF ContentsAreMade
  <2>2. CASE op' = Idle /\ made' = made
    <3>1. \A f \in File : op'.seen[f] = NotHere
      BY <2>2, EndedFits
    <3>2. NotHere <= made
      BY <1>1, Constants DEF TypeOK, NotHere
    <3> QED
      BY <2>2, <3>1, <3>2, EndedFits
  <2> QED
    BY <1>4, <2>1, <2>2
<1>9. made' \in 1..MaxContent /\ made <= made' /\ made \in Nat /\ made' \in Nat
  BY <1>1, <1>8, Constants DEF TypeOK
<1>10. Copying' => op'.at = "write"
  BY <1>8 DEF Copying
<1>11. TypeOK'
  <2>1. manifest' \in [Task -> Manifest]
    BY <1>1, <1>4 DEF TypeOK
  <2> QED
    BY <1>1, <1>4, <1>8, <1>9, <2>1 DEF TypeOK
<1>12. OpFits'
  BY <1>4, <1>6, <1>7, <1>8, <1>10 DEF OpFits, PatchFiles
<1>13. CopyFits'
  BY <1>5, <1>7, <1>8, <1>10 DEF CopyFits
<1>14. ContentsAreMade'
  <2>1. /\ \A f \in File : disk'[f] <= made' /\ head'[f] <= made' /\ op'.seen[f] <= made'
        /\ \A p \in Patch, f \in File :
             patch'[p].base[f] <= made' /\ snap'[p][f].was <= made' /\ snap'[p][f].left <= made'
    <3>1. \A f \in File : op'.seen[f] \in Int /\ op'.seen[f] <= made
      BY <1>8, Constants DEF Op, Entry, Content, Absent, NotHere
    <3>2. \A f \in File : op'.seen[f] <= made'
      BY <1>9, <3>1
    <3> QED
      BY <1>1, <1>4, <1>9, <3>2, MadeGrows
  <2>2. \A u \in Task, f \in File : manifest'[u].was[f] <= made' /\ manifest'[u].left[f] <= made'
    BY <1>1, <1>3, <1>5, <1>9, MadeGrows
  <2>3. \A f \in File : op'.copy.was[f] <= made' /\ op'.copy.left[f] <= made'
    BY <1>1, <1>3, <1>8, <1>9, MadeGrows
  <2>4. op'.at # "check" /\ (op'.at = "write" => op'.bytes \in 1..made')
    BY <1>8, <1>9
  <2> QED
    BY <2>1, <2>2, <2>3, <2>4 DEF ContentsAreMade, AtMostMade
<1>15. TurnsFit'
  BY <1>1, <1>4, <1>5, <1>6, <1>8 DEF TurnsFit, Untouched
<1>16. StoreFits'
  BY <1>1, <1>2, <1>3, <1>4, <1>5, <1>6, <1>8, <1>10
     DEF StoreFits, ManifestContentIsStored, Holds, Captured
<1>17. ManifestsFit'
  BY <1>1, <1>2, <1>3, <1>4, <1>5, <1>6, <1>8, <1>10 DEF ManifestsFit, Trusted, Covers, Faithful
<1>18. SealsFit'
  BY <1>1, <1>2, <1>3, <1>4, <1>5, <1>8 DEF SealsFit, Settled, Matches
<1>19. WorkFits'
  BY <1>1, <1>2, <1>3, <1>4, <1>5, <1>6, <1>8, <1>10 DEF WorkFits, Apart, Conflicts, Expected
<1> QED
  BY <1>11, <1>12, <1>13, <1>14, <1>15, <1>16, <1>17, <1>18, <1>19 DEF IInv

LEMMA WriteFileStep ==
  ASSUME IInv, NEW f \in File, WriteFile(f)
  PROVE  IInv'
<1>1. /\ TypeOK /\ OpFits /\ CopyFits /\ ContentsAreMade /\ TurnsFit
      /\ StoreFits /\ ManifestsFit /\ SealsFit /\ WorkFits
  BY DEF IInv
<1>2. PICK t \in Task : t = op.task
  BY <1>1 DEF OpFits, Copying, WriteFile
<1>3. PICK m \in Manifest : m = op.copy
  BY <1>1, OpTypes
<1>4. PICK p \in Patch : p = op.patch
  BY <1>1 DEF OpFits, WriteFile
<1>5. /\ op.at = "write" /\ f \in op.todo /\ op.kind # "command" /\ Copying
      /\ op.todo \subseteq PatchFiles(p) /\ turn[t] # "new" /\ m.state # "torn"
      /\ manifest[t] = m
      /\ m.state = "whole" => op.todo \subseteq Captured(m)
      /\ op.bytes \in 1..made
  BY <1>1, <1>2, <1>3, <1>4 DEF OpFits, CopyFits, Copying, WriteFile, ContentsAreMade
<1>6. PICK c : c = IF f \in patch[p].deletes THEN Absent ELSE op.bytes
  OBVIOUS
<1>7. PICK d : d = [disk EXCEPT ![f] = c]
  OBVIOUS
<1>8. /\ snap' = [snap EXCEPT ![p][f] = [was |-> patch[p].base[f], left |-> c]]
      /\ Writes(d, t)
      /\ UNCHANGED <<head, made, blobs, refs, manifest, patch, turn, steps, requests, faults, cut, undeleted>>
  BY <1>2, <1>4, <1>6, <1>7 DEF WriteFile, store, bounds
<1>9. \/ op' = [op EXCEPT !.todo = op.todo \ {f}]
      \/ op' = Idle /\ m.state = "none"
      \/ op' = [op EXCEPT !.todo = {}, !.at = "seal"] /\ m.state # "none"
  BY <1>3 DEF WriteFile, Ends
<1>10. c \in Content /\ c <= made /\ made \in Nat
  BY <1>1, <1>5, <1>6, Constants DEF TypeOK, Content, Absent
<1>11. d \in [File -> Content] /\ d[f] = c /\ \A g \in File : g # f => d[g] = disk[g]
  BY <1>1, <1>7, <1>10 DEF TypeOK
<1>12. /\ disk' = d
       /\ mine' \in [Task -> [File -> Entry \cup {Foreign}]]
       /\ had' \in [Task -> [File -> SUBSET Content]]
       /\ work' \in [Task -> [File -> {"none", "unseen", "sealed"}]]
       /\ \A u \in Task, g \in File :
            /\ mine'[u][g] = IF u = t /\ d[g] # disk[g] THEN d[g] ELSE mine[u][g]
            /\ had[u][g] \subseteq had'[u][g]
            /\ turn[u] # "new" /\ mine'[u][g] = NotHere => d[g] \in had'[u][g]
            /\ d[g] = disk[g] => work'[u][g] = work[u][g]
            /\ d[g] # disk[g] =>
                 work'[u][g] = IF t = NoTask /\ d[g] = Fresh /\ g \in Captured(manifest[u])
                               THEN "unseen" ELSE "none"
  BY <1>1, <1>8, <1>11, WritesDoes
<1>13. \A u \in Task, g \in File : d[g] # disk[g] => work'[u][g] = "none"
  BY <1>12, Constants
<1>14. \A u \in Task : u # t => mine'[u] = mine[u]
  BY <1>1, <1>12 DEF TypeOK
<1>15. /\ op' \in Op /\ op'.kind # "command" /\ \A g \in File : op'.seen[g] <= made
       /\ \/ /\ op'.at \in {"write", "seal"} /\ op'.task = t /\ op'.copy = m
             /\ op'.patch = p /\ op'.bytes = op.bytes /\ op'.todo \subseteq op.todo
             /\ op'.at = "seal" => m.state = "whole"
          \/ op'.at = "idle" /\ op'.copy = NoManifest /\ m.state = "none"
  <2>1. CASE op' = [op EXCEPT !.todo = op.todo \ {f}]
    <3>1. /\ op' \in Op /\ op'.kind = op.kind /\ op'.seen = op.seen
          /\ op'.at = "write" /\ op'.task = t /\ op'.copy = m /\ op'.todo = op.todo \ {f}
          /\ op'.patch = p /\ op'.bytes = op.bytes
      BY <1>1, <1>2, <1>3, <1>4, <1>5, <2>1 DEF TypeOK, Op
    <3> QED
      BY <1>1, <1>5, <3>1 DEF ContentsAreMade
  <2>2. CASE op' = Idle /\ m.state = "none"
    <3>1. NotHere <= made
      BY <1>10 DEF NotHere
    <3> QED
      BY <2>2, <3>1, EndedFits
  <2>3. CASE op' = [op EXCEPT !.todo = {}, !.at = "seal"] /\ m.state # "none"
    <3>1. /\ op' \in Op /\ op'.kind = op.kind /\ op'.seen = op.seen
          /\ op'.at = "seal" /\ op'.task = t /\ op'.copy = m /\ op'.todo = {}
          /\ op'.patch = p /\ op'.bytes = op.bytes
      BY <1>1, <1>2, <1>3, <1>4, <1>5, <2>3 DEF TypeOK, Op
    <3>2. m.state = "whole"
      BY <1>5, <2>3, ManifestTypes
    <3> QED
      BY <1>1, <1>5, <3>1, <3>2 DEF ContentsAreMade
  <2> QED
    BY <1>9, <2>1, <2>2, <2>3
<1>16. Copying' => op'.at \in {"write", "seal"}
  BY <1>15 DEF Copying
<1>17. /\ snap' \in [Patch -> [File -> [was : Entry, left : Entry]]]
       /\ \A q \in Patch, g \in File :
            \/ snap'[q][g] = snap[q][g]
            \/ snap'[q][g].was = patch[p].base[f] /\ snap'[q][g].left = c
  <2>1. PICK r \in [was : Entry, left : Entry] : r = [was |-> patch[p].base[f], left |-> c]
    <3>1. patch[p].base[f] \in Entry /\ c \in Entry
      BY <1>1, <1>10 DEF TypeOK, Entry
    <3> QED
      BY <3>1
  <2>2. snap' = [snap EXCEPT ![p][f] = r]
    BY <1>8, <2>1
  <2>3. snap' \in [Patch -> [File -> [was : Entry, left : Entry]]]
    BY <1>1, <2>2 DEF TypeOK
  <2>4. \A q \in Patch, g \in File : snap'[q][g] = IF q = p /\ g = f THEN r ELSE snap[q][g]
    BY <1>1, <2>2 DEF TypeOK
  <2> QED
    BY <2>1, <2>3, <2>4
<1>18. TypeOK'
  BY <1>1, <1>8, <1>11, <1>12, <1>15, <1>17 DEF TypeOK
<1>19. OpFits'
  BY <1>5, <1>8, <1>15, <1>16 DEF OpFits, PatchFiles
<1>20. CopyFits'
  BY <1>5, <1>8, <1>15, <1>16 DEF CopyFits
<1>21. ContentsAreMade'
  <2>1. \A q \in Patch, g \in File :
          patch'[q].base[g] <= made' /\ snap'[q][g].was <= made' /\ snap'[q][g].left <= made'
    BY <1>1, <1>8, <1>10, <1>17 DEF ContentsAreMade
  <2>2. \A g \in File : disk'[g] <= made' /\ head'[g] <= made' /\ op'.seen[g] <= made'
    BY <1>1, <1>7, <1>8, <1>10, <1>11, <1>12, <1>15 DEF ContentsAreMade, TypeOK
  <2>3. AtMostMade(m) /\ AtMostMade(NoManifest)
    BY <1>1, <1>3, NothingIsMade DEF ContentsAreMade
  <2> QED
    BY <1>1, <1>5, <1>8, <1>15, <2>1, <2>2, <2>3 DEF ContentsAreMade, AtMostMade
<1>22. TurnsFit'
  <2>1. \A u \in Task : turn'[u] = "new" => Untouched(u)'
    <3> SUFFICES ASSUME NEW u \in Task, turn[u] = "new" PROVE Untouched(u)'
      BY <1>8
    <3>1. Untouched(u) /\ u # t
      BY <1>1, <1>5 DEF TurnsFit
    <3>2. \A g \in File : work'[u][g] = "none"
      BY <1>12, <1>13, <3>1 DEF Untouched
    <3> QED
      BY <1>8, <1>14, <3>1, <3>2 DEF Untouched
  <2>2. \A u \in Task, g \in File : turn'[u] # "new" /\ mine'[u][g] = NotHere => disk'[g] \in had'[u][g]
    BY <1>8, <1>12
  <2> QED
    BY <1>1, <1>8, <1>15, <2>1, <2>2 DEF TurnsFit, Untouched
<1>23. StoreFits'
  <2>1. Holds(m) \subseteq blobs \cap refs[t]
    BY <1>1, <1>2, <1>3, <1>5 DEF StoreFits
  <2> QED
    BY <1>1, <1>8, <1>15, <1>16, <2>1 DEF StoreFits, ManifestContentIsStored, Holds, Captured
<1>24. ManifestsFit'
  <2>1. ASSUME NEW u \in Task, Trusted(u, manifest[u])
        PROVE  Faithful(u, manifest[u])' /\ Covers(u, manifest[u])'
    <3>1. Faithful(u, manifest[u]) /\ Covers(u, manifest[u])
      BY <1>1, <1>5, <2>1 DEF ManifestsFit
    <3>2. Faithful(u, manifest[u])'
      BY <1>8, <1>12, <3>1 DEF Faithful, Captured
    <3>3. u = t => f \in Captured(manifest[u])
      BY <1>5, <2>1 DEF Trusted
    <3>4. Covers(u, manifest[u])'
      BY <1>8, <1>11, <1>12, <3>1, <3>3 DEF Covers, Captured
    <3> QED
      BY <3>2, <3>4
  <2>2. \A u \in Task : Trusted(u, manifest[u])' => Trusted(u, manifest[u])
    BY <1>8 DEF Trusted
  <2> QED
    BY <1>5, <1>8, <1>15, <1>16, <2>1, <2>2 DEF ManifestsFit, Trusted, Covers, Faithful
<1>25. SealsFit'
  BY <1>1, <1>2, <1>5, <1>8, <1>14, <1>15 DEF SealsFit, Settled, Matches
<1>26. WorkFits'
  <2>1. ASSUME NEW u \in Task, manifest[u].state = "whole"
        PROVE  Apart(u, manifest[u])'
    <3>1. Apart(u, manifest[u])
      BY <1>1, <2>1 DEF WorkFits
    <3>2. \A g \in File : work'[u][g] = "unseen" => disk'[g] = disk[g] /\ work[u][g] = "unseen"
      BY <1>12, <1>13
    <3> QED
      BY <1>8, <3>1, <3>2 DEF Apart, Conflicts, Expected, Captured
  <2> QED
    BY <1>5, <1>8, <1>15, <1>16, <2>1 DEF WorkFits, Apart, Conflicts, Expected
<1> QED
  BY <1>18, <1>19, <1>20, <1>21, <1>22, <1>23, <1>24, <1>25, <1>26 DEF IInv

LEMMA RollbackStep ==
  ASSUME IInv, NEW p \in Patch, NEW S \in SUBSET File, Rollback(p, S)
  PROVE  IInv'
<1>1. /\ TypeOK /\ OpFits /\ CopyFits /\ ContentsAreMade /\ TurnsFit
      /\ StoreFits /\ ManifestsFit /\ SealsFit /\ WorkFits
  BY DEF IInv
<1>2. /\ Free /\ \A f \in S : snap[p][f].was # NotHere
      /\ UNCHANGED <<disk, head, made, blobs, refs, manifest, patch, snap, turn,
                     had, mine, work, cut, undeleted>>
      /\ steps' \in 0..MaxUserSteps /\ requests' \in 0..MaxRequests /\ faults' \in 0..MaxFaults
  BY <1>1, MaxRequestsAssumption DEF Rollback, Serves, tree, store, patches, history, TypeOK
<1>3. PICK t \in Task \cup {NoTask} : t = patch[p].task
  BY <1>1 DEF TypeOK
<1>4. PICK o \in Op : o = Begins("rollback", "back", t)
  BY BeginsIs
<1>5. /\ o.kind = "rollback" /\ o.at = "back" /\ o.task = t /\ o.copy = NoManifest
      /\ \A f \in File : o.seen[f] = NotHere
  BY <1>4, BeginsIs
<1>6. op' = [o EXCEPT !.patch = p, !.todo = S]
  BY <1>3, <1>4 DEF Rollback
<1>7. /\ op' \in Op /\ op'.kind = "rollback" /\ op'.at = "back" /\ op'.copy = NoManifest
      /\ op'.patch = p /\ op'.todo = S
      /\ \A f \in File : op'.seen[f] = NotHere
  BY <1>5, <1>6 DEF Op
<1>8. ~ Copying'
  BY <1>7 DEF Copying
<1>9. TypeOK'
  BY <1>1, <1>2, <1>7 DEF TypeOK
<1>10. OpFits'
  BY <1>2, <1>7, <1>8 DEF OpFits
<1>11. CopyFits'
  BY <1>7, <1>8 DEF CopyFits
<1>12. ContentsAreMade'
  <2>1. NotHere <= made /\ AtMostMade(NoManifest)
    BY <1>1, NothingIsMade, Constants DEF TypeOK, NotHere
  <2> QED
    BY <1>1, <1>2, <1>7, <2>1 DEF ContentsAreMade, AtMostMade
<1>13. TurnsFit'
  BY <1>1, <1>2, <1>7 DEF TurnsFit, Untouched
<1>14. StoreFits'
  BY <1>1, <1>2, <1>8 DEF StoreFits, ManifestContentIsStored, Holds, Captured
<1>15. ManifestsFit'
  BY <1>1, <1>2, <1>7, <1>8, FreeIs DEF ManifestsFit, Trusted, Covers, Faithful
<1>16. SealsFit'
  BY <1>1, <1>2, <1>7, FreeIs DEF SealsFit, Settled, Matches
<1>17. WorkFits'
  BY <1>1, <1>2, <1>7, <1>8 DEF WorkFits, Apart, Conflicts, Expected
<1> QED
  BY <1>9, <1>10, <1>11, <1>12, <1>13, <1>14, <1>15, <1>16, <1>17 DEF IInv

LEMMA RollBackFileStep ==
  ASSUME IInv, NEW f \in File, RollBackFile(f)
  PROVE  IInv'
<1>1. /\ TypeOK /\ OpFits /\ CopyFits /\ ContentsAreMade /\ TurnsFit
      /\ StoreFits /\ ManifestsFit /\ SealsFit /\ WorkFits
  BY DEF IInv
<1>2. PICK p \in Patch : p = op.patch
  BY <1>1 DEF OpFits, RollBackFile
<1>3. PICK c : c = snap[p][f].was
  OBVIOUS
<1>4. PICK d : d = [disk EXCEPT ![f] = c]
  OBVIOUS
<1>5. /\ op.at = "back" /\ f \in op.todo /\ op.kind # "command" /\ ~ Copying
      /\ \A g \in op.todo : snap[p][g].was # NotHere
  BY <1>1, <1>2 DEF OpFits, RollBackFile, Copying
<1>6. /\ UNCHANGED <<head, made, blobs, refs, manifest, patch, snap, turn,
                     steps, requests, faults, cut, undeleted>>
      /\ \/ op' = Idle /\ UNCHANGED <<disk, had, mine, work>>
         \/ Writes(d, NoTask) /\ (op' = Idle \/ op' = [op EXCEPT !.todo = op.todo \ {f}])
  BY <1>2, <1>3, <1>4 DEF RollBackFile, Ends, store, patches, bounds
<1>7. c \in Content /\ c <= made /\ c # Fresh /\ made \in Nat
  <2>1. c \in Content /\ c <= made /\ made \in Nat
    BY <1>1, <1>3, <1>5, Constants DEF TypeOK, Entry, ContentsAreMade
  <2> QED
    BY <2>1, Constants DEF Content, Absent, Fresh
<1>8. d \in [File -> Content] /\ d[f] = c /\ \A g \in File : g # f => d[g] = disk[g]
  BY <1>1, <1>4, <1>7 DEF TypeOK
<1>9. /\ mine' = mine /\ disk' \in [File -> Content] /\ \A g \in File : disk'[g] <= made
      /\ had' \in [Task -> [File -> SUBSET Content]]
      /\ work' \in [Task -> [File -> {"none", "unseen", "sealed"}]]
      /\ \A u \in Task, g \in File :
           /\ had[u][g] \subseteq had'[u][g]
           /\ turn[u] # "new" /\ mine'[u][g] = NotHere => disk'[g] \in had'[u][g]
           /\ disk'[g] = disk[g] => work'[u][g] = work[u][g]
           /\ disk'[g] # disk[g] => work'[u][g] = "none"
  <2>1. CASE UNCHANGED <<disk, had, mine, work>>
    BY <1>1, <2>1 DEF TypeOK, TurnsFit, ContentsAreMade
  <2>2. CASE Writes(d, NoTask)
    <3>1. /\ disk' = d
          /\ mine' \in [Task -> [File -> Entry \cup {Foreign}]]
          /\ had' \in [Task -> [File -> SUBSET Content]]
          /\ work' \in [Task -> [File -> {"none", "unseen", "sealed"}]]
          /\ \A u \in Task, g \in File :
               /\ mine'[u][g] = IF u = NoTask /\ d[g] # disk[g] THEN d[g] ELSE mine[u][g]
               /\ had[u][g] \subseteq had'[u][g]
               /\ turn[u] # "new" /\ mine'[u][g] = NotHere => d[g] \in had'[u][g]
               /\ d[g] = disk[g] => work'[u][g] = work[u][g]
               /\ d[g] # disk[g] =>
                    work'[u][g] = IF NoTask = NoTask /\ d[g] = Fresh /\ g \in Captured(manifest[u])
                                  THEN "unseen" ELSE "none"
      BY <1>1, <1>8, <2>2, WritesDoes
    <3>2. \A u \in Task, g \in File : mine'[u][g] = mine[u][g]
      BY <3>1, Constants
    <3>3. mine' = mine
      BY <1>1, <3>1, <3>2 DEF TypeOK
    <3>4. \A g \in File : d[g] # disk[g] => d[g] = c /\ d[g] # Fresh
      BY <1>7, <1>8
    <3>5. \A g \in File : disk'[g] <= made
      BY <1>1, <1>7, <1>8, <3>1 DEF ContentsAreMade
    <3> QED
      BY <1>8, <3>1, <3>3, <3>4, <3>5
  <2> QED
    BY <1>6, <2>1, <2>2
<1>10. /\ op' \in Op /\ op'.kind # "command"
       /\ op'.copy = NoManifest \/ op'.copy = op.copy
       /\ \A g \in File : op'.seen[g] <= made
       /\ op'.at = "idle" \/ (op'.at = "back" /\ op'.patch = p /\ op'.todo \subseteq op.todo)
  <2>1. CASE op' = Idle
    <3>1. NotHere <= made
      BY <1>7 DEF NotHere
    <3> QED
      BY <2>1, <3>1, EndedFits
  <2>2. CASE op' = [op EXCEPT !.todo = op.todo \ {f}]
    <3>1. /\ op' \in Op /\ op'.kind = op.kind /\ op'.seen = op.seen /\ op'.copy = op.copy
          /\ op'.at = "back" /\ op'.patch = p /\ op'.todo = op.todo \ {f}
      BY <1>1, <1>2, <1>5, <2>2 DEF TypeOK, Op
    <3> QED
      BY <1>1, <1>5, <3>1 DEF ContentsAreMade
  <2> QED
    BY <1>6, <2>1, <2>2
<1>11. ~ Copying'
  BY <1>10 DEF Copying
<1>12. TypeOK'
  BY <1>1, <1>6, <1>9, <1>10 DEF TypeOK
<1>13. OpFits'
  BY <1>5, <1>6, <1>10, <1>11 DEF OpFits
<1>14. CopyFits'
  BY <1>10, <1>11 DEF CopyFits
<1>15. ContentsAreMade'
  <2>1. AtMostMade(NoManifest)
    BY <1>1, NothingIsMade
  <2> QED
    BY <1>1, <1>6, <1>9, <1>10, <2>1 DEF ContentsAreMade, AtMostMade
<1>16. TurnsFit'
  <2>1. \A u \in Task : turn'[u] = "new" => Untouched(u)'
    BY <1>1, <1>6, <1>9 DEF TurnsFit, Untouched
  <2> QED
    BY <1>1, <1>6, <1>9, <1>10, <2>1 DEF TurnsFit, Untouched
<1>17. StoreFits'
  BY <1>1, <1>6, <1>11 DEF StoreFits, ManifestContentIsStored, Holds, Captured
<1>18. ManifestsFit'
  BY <1>1, <1>5, <1>6, <1>9, <1>10, <1>11 DEF ManifestsFit, Trusted, Covers, Faithful, Captured
<1>19. SealsFit'
  BY <1>1, <1>5, <1>6, <1>9, <1>10 DEF SealsFit, Settled, Matches
<1>20. WorkFits'
  <2>1. ASSUME NEW u \in Task, manifest[u].state = "whole"
        PROVE  Apart(u, manifest[u])'
    <3>1. Apart(u, manifest[u])
      BY <1>1, <2>1 DEF WorkFits
    <3>2. \A g \in File : work'[u][g] = "unseen" => disk'[g] = disk[g] /\ work[u][g] = "unseen"
      BY <1>9
    <3> QED
      BY <1>6, <3>1, <3>2 DEF Apart, Conflicts, Expected, Captured
  <2> QED
    BY <1>6, <1>10, <1>11, <2>1 DEF WorkFits, Apart, Conflicts, Expected
<1> QED
  BY <1>12, <1>13, <1>14, <1>15, <1>16, <1>17, <1>18, <1>19, <1>20 DEF IInv

-----------------------------------------------------------------------------
(* The steps: a command *)

LEMMA CensusIs ==
  ASSUME NEW d \in [File -> Content], NEW h \in [File -> Content], NEW g, g = CensusOf(d, h)
  PROVE  /\ g \in [File -> Entry]
         /\ \A f \in File : g[f] = IF d[f] # h[f] THEN d[f] ELSE NotHere
<1>1. g = [f \in File |-> IF d[f] # h[f] THEN d[f] ELSE NotHere]
  BY DEF CensusOf
<1>2. \A f \in File : d[f] \in Entry /\ NotHere \in Entry
  BY DEF Entry
<1> QED
  BY <1>1, <1>2

\* What a path held before a command: the census's content or what HEAD has.
LEMMA BeforeIs ==
  ASSUME NEW s \in [File -> Entry], NEW h \in [File -> Content],
         NEW b, b = [f \in File |-> IF s[f] \in {NotHere, Absent} THEN h[f] ELSE s[f]]
  PROVE  b \in [File -> Content]
<1>1. \A f \in File : s[f] \notin {NotHere, Absent} => s[f] \in Content
  BY DEF Entry
<1> QED
  BY <1>1

LEMMA RunCommandStep ==
  ASSUME IInv, NEW t \in Task, NEW blind \in BOOLEAN, RunCommand(t, blind)
  PROVE  IInv'
<1>1. /\ TypeOK /\ OpFits /\ CopyFits /\ ContentsAreMade /\ TurnsFit
      /\ StoreFits /\ ManifestsFit /\ SealsFit /\ WorkFits
  BY DEF IInv
<1>2. PICK x \in [File -> Content], h \in [File -> Content] : x = disk /\ h = head
  BY <1>1 DEF TypeOK
<1>3. PICK b : b = CensusOf(x, h)
  OBVIOUS
<1>4. PICK s \in [File -> Entry] : s = IF blind THEN Nowhere ELSE b
  BY <1>2, <1>3, CensusIs, ManifestTypes
<1>5. PICK d \in [File -> Content] :
        /\ \A f \in File : d[f] = x[f] \/ d[f] \in {Fresh, Absent, h[f]}
        /\ Writes(d, t)
        /\ made' = IF \E f \in File : d[f] = Fresh THEN Fresh ELSE made
        /\ undeleted' = [undeleted EXCEPT ![t] = @ \cup (Undeletes(d) \ Captured(manifest[t]))]
  BY <1>2 DEF RunCommand
<1>6. /\ Free /\ turn[t] = "running" /\ Fresh <= MaxContent
      /\ op' = [Begins("command", "record", t) EXCEPT !.seen = s, !.blind = blind]
      /\ blobs' = blobs \cup Contents(s, File)
      /\ UNCHANGED <<head, refs, manifest, patch, snap, turn, cut>>
      /\ steps' \in 0..MaxUserSteps /\ requests' \in 0..MaxRequests /\ faults' \in 0..MaxFaults
  BY <1>1, <1>2, <1>3, <1>4, MaxRequestsAssumption DEF RunCommand, Serves, patches, TypeOK
<1>7. /\ op' \in Op /\ op'.kind = "command" /\ op'.at = "record" /\ op'.task = t
      /\ op'.copy = NoManifest /\ op'.seen = s /\ op'.blind = blind
  <2>1. PICK o \in Op : o = Begins("command", "record", t)
    BY BeginsIs
  <2>2. o.kind = "command" /\ o.at = "record" /\ o.task = t /\ o.copy = NoManifest
    BY <2>1, BeginsIs
  <2> QED
    BY <1>6, <2>1, <2>2 DEF Op
<1>8. ~ Copying' /\ op.kind # "command" /\ op.at = "idle"
  BY <1>6, <1>7, FreeIs DEF Copying
<1>9. /\ made \in Nat /\ made' \in 1..MaxContent /\ made' \in Nat /\ made <= made'
      /\ \A f \in File : d[f] <= made' /\ s[f] <= made'
  <2>1. made \in Nat /\ made \in 1..MaxContent /\ Fresh = made + 1
    BY <1>1, Constants DEF TypeOK, Fresh
  <2>2. made' \in 1..MaxContent /\ made' \in Nat /\ made <= made'
    BY <1>5, <1>6, <2>1, Constants
  <2>3. \A f \in File : x[f] <= made' /\ h[f] <= made'
    BY <1>1, <1>2, <2>2, MadeGrows
  <2>4. \A f \in File : d[f] <= made'
    <3> SUFFICES ASSUME NEW f \in File PROVE d[f] <= made'
      OBVIOUS
    <3>1. CASE d[f] = Fresh
      BY <1>5, <2>1, <3>1
    <3>2. CASE d[f] = Absent
      BY <2>2, <3>2 DEF Absent
    <3>3. CASE d[f] = x[f] \/ d[f] = h[f]
      BY <2>3, <3>3
    <3> QED
      BY <1>5, <3>1, <3>2, <3>3
  <2>5. NotHere <= made'
    BY <2>2 DEF NotHere
  <2>6. \A f \in File : s[f] = NotHere \/ s[f] = x[f]
    BY <1>2, <1>3, <1>4, CensusIs DEF Nowhere
  <2> QED
    BY <2>1, <2>2, <2>3, <2>4, <2>5, <2>6
<1>10. /\ disk' = d
       /\ mine' \in [Task -> [File -> Entry \cup {Foreign}]]
       /\ had' \in [Task -> [File -> SUBSET Content]]
       /\ work' \in [Task -> [File -> {"none", "unseen", "sealed"}]]
       /\ \A u \in Task, f \in File :
            /\ mine'[u][f] = IF u = t /\ d[f] # disk[f] THEN d[f] ELSE mine[u][f]
            /\ had[u][f] \subseteq had'[u][f]
            /\ turn[u] # "new" /\ mine'[u][f] = NotHere => d[f] \in had'[u][f]
            /\ d[f] = disk[f] => work'[u][f] = work[u][f]
            /\ d[f] # disk[f] =>
                 work'[u][f] = IF t = NoTask /\ d[f] = Fresh /\ f \in Captured(manifest[u])
                               THEN "unseen" ELSE "none"
  BY <1>1, <1>5, WritesDoes
<1>11. \A u \in Task, f \in File : d[f] # disk[f] => work'[u][f] = "none"
  BY <1>10, Constants
<1>12. \A u \in Task : u # t => mine'[u] = mine[u]
  BY <1>1, <1>10 DEF TypeOK
<1>12a. /\ undeleted' \in [Task -> SUBSET File]
        /\ \A u \in Task : undeleted[u] \subseteq undeleted'[u]
        /\ Undeletes(d) \ Captured(manifest[t]) \subseteq undeleted'[t]
  <2>1. PICK e : e = Undeletes(d) \ Captured(manifest[t])
    OBVIOUS
  <2>2. e \subseteq File /\ undeleted \in [Task -> SUBSET File]
    BY <1>1, <2>1 DEF Undeletes, TypeOK
  <2>3. undeleted' = [undeleted EXCEPT ![t] = undeleted[t] \cup e]
    BY <1>5, <2>1
  <2>4. /\ undeleted' \in [Task -> SUBSET File]
        /\ \A u \in Task : undeleted'[u] = IF u = t THEN undeleted[u] \cup e ELSE undeleted[u]
    BY <2>2, <2>3
  <2> QED
    BY <2>1, <2>4
<1>13. TypeOK'
  <2>1. Contents(s, File) \subseteq Content \ {Absent}
    BY DEF Contents, Entry
  <2>2. blobs' \subseteq Content \ {Absent}
    BY <1>1, <1>6, <2>1 DEF TypeOK
  <2> QED
    BY <1>1, <1>6, <1>7, <1>9, <1>10, <1>12a, <2>2 DEF TypeOK
<1>14. OpFits'
  BY <1>6, <1>7, <1>8 DEF OpFits
<1>15. CopyFits'
  BY <1>7, <1>8 DEF CopyFits
<1>16. ContentsAreMade'
  <2>1. /\ \A f \in File : disk'[f] <= made' /\ head'[f] <= made' /\ op'.seen[f] <= made'
        /\ \A p \in Patch, f \in File :
             patch'[p].base[f] <= made' /\ snap'[p][f].was <= made' /\ snap'[p][f].left <= made'
    BY <1>1, <1>6, <1>7, <1>9, <1>10, MadeGrows
  <2>2. \A u \in Task, f \in File : manifest'[u].was[f] <= made' /\ manifest'[u].left[f] <= made'
    BY <1>1, <1>6, <1>9, MadeGrows
  <2>3. \A f \in File : op'.copy.was[f] <= made' /\ op'.copy.left[f] <= made'
    BY <1>1, <1>7, <1>9, MadeGrows
  <2> QED
    BY <1>7, <2>1, <2>2, <2>3 DEF ContentsAreMade, AtMostMade
<1>17. TurnsFit'
  <2>1. \A u \in Task : turn'[u] = "new" => Untouched(u)'
    <3> SUFFICES ASSUME NEW u \in Task, turn[u] = "new" PROVE Untouched(u)'
      BY <1>6
    <3>1. Untouched(u) /\ u # t
      BY <1>1, <1>6 DEF TurnsFit
    <3>2. \A f \in File : work'[u][f] = "none"
      BY <1>10, <1>11, <3>1 DEF Untouched
    <3> QED
      BY <1>6, <1>12, <3>1, <3>2 DEF Untouched
  <2>2. \A u \in Task, f \in File : turn'[u] # "new" /\ mine'[u][f] = NotHere => disk'[f] \in had'[u][f]
    BY <1>6, <1>10
  <2> QED
    BY <1>1, <1>6, <1>7, <2>1, <2>2 DEF TurnsFit, Untouched
<1>18. StoreFits'
  BY <1>1, <1>6, <1>8 DEF StoreFits, ManifestContentIsStored, Holds, Captured
<1>19. ManifestsFit'
  <2>1. ASSUME NEW u \in Task, Trusted(u, manifest[u])
        PROVE  /\ Faithful(u, manifest[u])'
               /\ u # t => Covers(u, manifest[u])'
    <3>1. Faithful(u, manifest[u]) /\ Covers(u, manifest[u])
      BY <1>1, <1>8, <2>1 DEF ManifestsFit
    <3>2. Faithful(u, manifest[u])'
      BY <1>6, <1>10, <1>12a, <3>1 DEF Faithful, Captured
    <3>3. u # t => Covers(u, manifest[u])'
      BY <1>6, <1>12, <3>1 DEF Covers, Captured
    <3> QED
      BY <3>2, <3>3
  <2>2. ASSUME ~ blind, Trusted(t, manifest[t])
        PROVE  Covers(t, Recorded)' /\ Faithful(t, Recorded)'
    <3>1. PICK m \in Manifest : m = manifest[t]
      BY <1>1 DEF TypeOK
    <3>2. PICK a : a = CensusOf(d, h)
      OBVIOUS
    <3>3. /\ \A f \in File : a[f] = IF d[f] # h[f] THEN d[f] ELSE NotHere
          /\ \A f \in File : s[f] = IF x[f] # h[f] THEN x[f] ELSE NotHere
      BY <1>3, <1>4, <2>2, <3>2, CensusIs
    <3>4. PICK e \in SUBSET File : e = {f \in File : s[f] # a[f]}
      OBVIOUS
    <3>5. PICK w \in [File -> Content] :
            w = [f \in File |-> IF s[f] \in {NotHere, Absent} THEN h[f] ELSE s[f]]
      BY BeforeIs
    <3>6. PICK r : r = WithPaths(m, e, w)
      OBVIOUS
    <3>7. Recorded' = r
      BY <1>2, <1>6, <1>7, <1>10, <3>1, <3>2, <3>4, <3>5, <3>6 DEF Recorded, Effects, BeforeIt
    <3>8. \A f \in File : /\ f \in e \ Captured(m) => r.was[f] = w[f]
                          /\ f \notin e \ Captured(m) => r.was[f] = m.was[f]
      BY <3>6, WithPathsAdds
    <3>9. Captured(r) = Captured(m) \cup e
      BY <3>6, WithPathsCaptures
    <3>10. Covers(t, m) /\ Faithful(t, m)
      BY <1>1, <1>8, <2>2, <3>1 DEF ManifestsFit
    <3>11. \A f \in File : x[f] # NotHere /\ d[f] # NotHere
      BY Constants DEF Content, Absent, NotHere
    <3>12. \A f \in File : d[f] # x[f] => f \in e
      BY <3>3, <3>4, <3>11
    <3>13. \A f \in File : mine'[t][f] # NotHere => f \in Captured(r)
      BY <1>2, <1>10, <3>9, <3>10, <3>12 DEF Covers
    <3>14. ASSUME NEW f \in Captured(r), f \notin undeleted'[t] PROVE r.was[f] \in had'[t][f]
      <4>1. f \in File
        BY <3>14 DEF Captured
      <4>2. CASE f \in Captured(m)
        <5>1. r.was[f] = m.was[f] /\ m.was[f] \in had[t][f]
          BY <1>12a, <3>8, <3>10, <3>14, <4>1, <4>2 DEF Faithful
        <5> QED
          BY <1>10, <4>1, <5>1
      <4>3. CASE f \notin Captured(m)
        <5>1. f \in e /\ r.was[f] = w[f]
          BY <3>8, <3>9, <3>14, <4>1, <4>3
        <5>2. x[f] \in had[t][f]
          BY <1>1, <1>2, <1>6, <3>10, <4>1, <4>3 DEF TurnsFit, Covers
        <5>3. d[f] # x[f]
          BY <3>3, <3>4, <5>1
        <5>4. x[f] # Absent \/ h[f] = Absent
          BY <1>2, <1>12a, <3>1, <3>14, <4>1, <4>3, <5>3 DEF Undeletes
        <5>5. w[f] = x[f]
          <6>1. CASE x[f] # h[f]
            <7>1. s[f] = x[f]
              BY <3>3, <4>1, <6>1
            <7>2. s[f] # NotHere
              BY <3>11, <4>1, <7>1
            <7> QED
              BY <3>5, <4>1, <5>4, <6>1, <7>1, <7>2
          <6>2. CASE x[f] = h[f]
            BY <3>3, <3>5, <4>1, <6>2
          <6> QED
            BY <6>1, <6>2
        <5> QED
          BY <1>10, <4>1, <5>1, <5>2, <5>5
      <4> QED
        BY <4>2, <4>3
    <3>15. Covers(t, Recorded)'
      BY <3>7, <3>13 DEF Covers
    <3>16. Faithful(t, Recorded)'
      BY <3>7, <3>14 DEF Faithful
    <3> QED
      BY <3>15, <3>16
  <2>3. \A u \in Task : Trusted(u, manifest[u])' => Trusted(u, manifest[u])
    BY <1>6 DEF Trusted
  <2>4. \A u \in Task : Trusted(u, manifest[u])' =>
          Faithful(u, manifest[u])' /\ (u # t => Covers(u, manifest[u])')
    BY <2>1, <2>3
  <2>5. ~ blind /\ Trusted(t, manifest[t])' => Covers(t, Recorded)' /\ Faithful(t, Recorded)'
    BY <2>2, <2>3
  <2> QED
    BY <1>7, <1>8, <2>4, <2>5 DEF ManifestsFit, Trusted, Covers, Faithful
<1>20. SealsFit'
  BY <1>1, <1>6, <1>7, <1>8, <1>12 DEF SealsFit, Settled, Matches
<1>21. WorkFits'
  <2>1. ASSUME NEW u \in Task, manifest[u].state = "whole"
        PROVE  Apart(u, manifest[u])'
    <3>1. Apart(u, manifest[u])
      BY <1>1, <2>1 DEF WorkFits
    <3>2. \A f \in File : work'[u][f] = "unseen" => disk'[f] = disk[f] /\ work[u][f] = "unseen"
      BY <1>10, <1>11
    <3> QED
      BY <1>6, <3>1, <3>2 DEF Apart, Conflicts, Expected, Captured
  <2> QED
    BY <1>6, <1>7, <1>8, <2>1 DEF WorkFits, Apart, Conflicts, Expected
<1> QED
  BY <1>13, <1>14, <1>15, <1>16, <1>17, <1>18, <1>19, <1>20, <1>21 DEF IInv

\* How recording the effects of a command goes: not at all, as not covered, or
\* with the paths added to the manifest.
LEMMA RecordGoes ==
  ASSUME IInv, NEW t \in Task, t = op.task, Record
  PROVE  /\ op.at = "record" /\ op.kind = "command" /\ turn[t] = "running"
         /\ UNCHANGED <<disk, head, made, manifest, patch, snap, turn, steps, requests, faults,
                        had, mine, work, undeleted>>
         /\ \/ op' = Idle /\ Cuts({t}) /\ UNCHANGED <<blobs, refs>>
            \/ /\ UNCHANGED <<cut, blobs, refs>> /\ manifest[t].state = "whole" /\ op.blind
               /\ op' = [op EXCEPT !.at = "keep", !.copy = [manifest[t] EXCEPT !.covered = FALSE]]
            \/ /\ UNCHANGED cut /\ manifest[t].state = "whole" /\ ~ op.blind
               /\ op' = [op EXCEPT !.at = "keep", !.copy = Recorded]
               /\ blobs' = blobs \cup Contents(CensusOf(disk, head), File)
                                 \cup Contents(BeforeIt, Effects(CensusOf(disk, head))
                                                           \ Captured(manifest[t]))
               /\ refs' = [refs EXCEPT ![t] = Holds(Recorded)]
<1>1. op.at = "record" /\ op.kind = "command" /\ turn[t] = "running"
  BY DEF IInv, OpFits, Record
<1>2. UNCHANGED <<disk, head, made, manifest, patch, snap, turn, steps, requests, faults,
                  had, mine, work, undeleted>>
  BY DEF Record, tree, patches, bounds
<1> QED
  BY <1>1, <1>2 DEF Record, Recorded, Reference, Ends, store

LEMMA RecordStep ==
  ASSUME IInv, Record
  PROVE  IInv'
<1>1. /\ TypeOK /\ OpFits /\ CopyFits /\ ContentsAreMade /\ TurnsFit
      /\ StoreFits /\ ManifestsFit /\ SealsFit /\ WorkFits
  BY DEF IInv
<1>2. PICK t \in Task : t = op.task
  BY <1>1 DEF OpFits, Record
<1>3. PICK m \in Manifest : m = manifest[t]
  BY <1>1 DEF TypeOK
<1>4. /\ op.at = "record" /\ op.kind = "command" /\ turn[t] = "running"
      /\ UNCHANGED <<disk, head, made, manifest, patch, snap, turn, steps, requests, faults,
                     had, mine, work, undeleted>>
  BY <1>2, RecordGoes
<1>5. CASE op' = Idle /\ Cuts({t}) /\ UNCHANGED <<blobs, refs>>
  <2>1. /\ cut' \in [Task -> {"no", "short", "unrecorded"}] /\ cut'[t] = "unrecorded"
        /\ \A u \in Task : u # t => cut'[u] = cut[u]
    BY <1>1, <1>2, <1>4, <1>5, CutsDoes
  <2>2. TypeOK'
    BY <1>1, <1>4, <1>5, <2>1, EndedFits DEF TypeOK
  <2>3. ContentsAreMade'
    <3>1. made \in Nat /\ AtMostMade(NoManifest)
      BY <1>1, NothingIsMade, Constants DEF TypeOK
    <3> QED
      BY <1>1, <1>4, <1>5, <3>1, EndedIsMade DEF ContentsAreMade, AtMostMade
  <2>4. TurnsFit'
    BY <1>1, <1>4, <1>5, EndedFits DEF TurnsFit, Untouched
  <2>5. StoreFits'
    BY <1>1, <1>4, <1>5, EndedFits DEF StoreFits, ManifestContentIsStored, Holds, Captured
  <2>6. ManifestsFit'
    BY <1>1, <1>2, <1>4, <1>5, <2>1, EndedFits DEF ManifestsFit, Trusted, Covers, Faithful
  <2>7. SealsFit'
    BY <1>1, <1>4, <1>5, <2>1, EndedFits DEF SealsFit, Settled, Matches
  <2>8. WorkFits'
    BY <1>1, <1>4, <1>5, EndedFits DEF WorkFits, Apart, Conflicts, Expected
  <2> QED
    BY <1>5, <2>2, <2>3, <2>4, <2>5, <2>6, <2>7, <2>8, EndedFits DEF IInv
<1>6. ASSUME NEW c \in Manifest, op' = [op EXCEPT !.at = "keep", !.copy = c],
             UNCHANGED cut, m.state = "whole", c.state = "whole", c.left = m.left,
             c.covered => m.covered,
             AtMostMade(c),
             Captured(m) \subseteq Captured(c),
             \A f \in Captured(m) : c.was[f] = m.was[f],
             Trusted(t, c) => Covers(t, c) /\ Faithful(t, c),
             blobs' \subseteq Content \ {Absent},
             refs' \in [Task -> SUBSET (Content \ {Absent})],
             \A u \in Task : Holds(manifest[u]) \subseteq blobs' \cap refs'[u],
             Holds(c) \subseteq blobs' \cap refs'[t]
      PROVE  IInv'
  <2>1. /\ op' \in Op /\ op'.kind = "command" /\ op'.at = "keep" /\ op'.task = t
        /\ op'.copy = c /\ op'.seen = op.seen
    BY <1>1, <1>2, <1>4, <1>6 DEF TypeOK, Op
  <2>2. Copying'
    BY <2>1 DEF Copying
  <2>3. TypeOK'
    BY <1>1, <1>4, <1>6, <2>1 DEF TypeOK
  <2>4. OpFits'
    BY <1>4, <1>6, <2>1 DEF OpFits
  <2>5. CopyFits'
    BY <1>3, <1>4, <1>6, <2>1 DEF CopyFits
  <2>6. ContentsAreMade'
    BY <1>1, <1>4, <1>6, <2>1 DEF ContentsAreMade, AtMostMade
  <2>7. TurnsFit'
    BY <1>1, <1>4, <2>1 DEF TurnsFit, Untouched
  <2>8. StoreFits'
    BY <1>4, <1>6, <2>1 DEF StoreFits, ManifestContentIsStored
  <2>9. ManifestsFit'
    <3>1. \A u \in Task : Trusted(u, manifest[u]) =>
            /\ Faithful(u, manifest[u])
            /\ u # t => Covers(u, manifest[u])
      BY <1>1, <1>2 DEF ManifestsFit
    <3> QED
      BY <1>4, <1>6, <2>1, <3>1 DEF ManifestsFit, Trusted, Covers, Faithful
  <2>10. SealsFit'
    BY <1>1, <1>2, <1>4, <1>6, <2>1 DEF SealsFit, Settled, Matches
  <2>11. WorkFits'
    <3>1. Apart(t, m)
      BY <1>1, <1>3, <1>6 DEF WorkFits
    <3>2. Apart(t, c)
      BY <1>6, <3>1 DEF Apart, Conflicts, Expected
    <3> QED
      BY <1>1, <1>4, <2>1, <3>2 DEF WorkFits, Apart, Conflicts, Expected
  <2> QED
    BY <2>3, <2>4, <2>5, <2>6, <2>7, <2>8, <2>9, <2>10, <2>11 DEF IInv
<1>7. CASE /\ UNCHANGED <<cut, blobs, refs>> /\ manifest[t].state = "whole" /\ op.blind
           /\ op' = [op EXCEPT !.at = "keep", !.copy = [manifest[t] EXCEPT !.covered = FALSE]]
  <2>1. PICK c : c = [m EXCEPT !.covered = FALSE]
    OBVIOUS
  <2>2. /\ c \in Manifest /\ c.state = m.state /\ c.was = m.was /\ c.left = m.left
        /\ c.covered = FALSE
    BY <2>1 DEF Manifest
  <2>3. Captured(c) = Captured(m) /\ Holds(c) = Holds(m)
    BY <2>2 DEF Captured, Holds
  <2>4. AtMostMade(c)
    BY <1>1, <1>3, <2>2 DEF ContentsAreMade, AtMostMade
  <2>5. \A u \in Task : Holds(manifest[u]) \subseteq blobs' \cap refs'[u]
    BY <1>1, <1>7 DEF StoreFits, ManifestContentIsStored
  <2>6. ~ Trusted(t, c)
    BY <2>2 DEF Trusted
  <2>7. blobs' \subseteq Content \ {Absent} /\ refs' \in [Task -> SUBSET (Content \ {Absent})]
    BY <1>1, <1>7 DEF TypeOK
  <2>8. Holds(c) \subseteq blobs' \cap refs'[t]
    BY <1>3, <2>3, <2>5
  <2> QED
    BY <1>3, <1>6, <1>7, <2>1, <2>2, <2>3, <2>4, <2>5, <2>6, <2>7, <2>8
<1>8. CASE /\ UNCHANGED cut /\ manifest[t].state = "whole" /\ ~ op.blind
           /\ op' = [op EXCEPT !.at = "keep", !.copy = Recorded]
           /\ blobs' = blobs \cup Contents(CensusOf(disk, head), File)
                             \cup Contents(BeforeIt, Effects(CensusOf(disk, head))
                                                       \ Captured(manifest[t]))
           /\ refs' = [refs EXCEPT ![t] = Holds(Recorded)]
  <2>1. PICK x \in [File -> Content], h \in [File -> Content] : x = disk /\ h = head
    BY <1>1 DEF TypeOK
  <2>2. PICK a : a = CensusOf(x, h)
    OBVIOUS
  <2>3. PICK e \in SUBSET File : e = Effects(a)
    BY DEF Effects
  <2>4. PICK s \in [File -> Entry] : s = op.seen
    BY <1>1, OpTypes
  <2>5. PICK w \in [File -> Content] :
          w = [f \in File |-> IF s[f] \in {NotHere, Absent} THEN h[f] ELSE s[f]]
    BY BeforeIs
  <2>6. BeforeIt = w
    BY <2>1, <2>4, <2>5 DEF BeforeIt
  <2>7. PICK c : c = WithPaths(m, e, w)
    OBVIOUS
  <2>8. Recorded = c
    BY <1>2, <1>3, <2>1, <2>2, <2>3, <2>6, <2>7 DEF Recorded
  <2>9. /\ c \in Manifest
        /\ c.state = m.state /\ c.covered = m.covered /\ c.left = m.left
        /\ \A f \in File : /\ f \in e \ Captured(m) => c.was[f] = w[f]
                           /\ f \notin e \ Captured(m) => c.was[f] = m.was[f]
    <3>1. PICK v : v = [f \in File |-> IF f \in e \ Captured(m) THEN w[f] ELSE m.was[f]]
      OBVIOUS
    <3>2. c = [m EXCEPT !.was = v]
      BY <2>7, <3>1 DEF WithPaths, Manifest
    <3>3. v \in [File -> Entry]
      BY <3>1, ManifestTypes DEF Entry
    <3>4. /\ c \in Manifest /\ c.was = v
          /\ c.state = m.state /\ c.covered = m.covered /\ c.left = m.left
      BY <3>2, <3>3 DEF Manifest
    <3> QED
      BY <3>1, <3>4
  <2>10. Captured(c) = Captured(m) \cup e
    BY <2>7, WithPathsCaptures
  <2>11. Holds(c) = Holds(m) \cup Contents(w, e \ Captured(m))
    BY <2>7, WithPathsHolds
  <2>12. /\ blobs' = blobs \cup Contents(a, File) \cup Contents(w, e \ Captured(m))
         /\ refs' = [refs EXCEPT ![t] = Holds(c)]
         /\ op' = [op EXCEPT !.at = "keep", !.copy = c]
    BY <1>3, <1>8, <2>1, <2>2, <2>3, <2>6, <2>8
  <2>13. AtMostMade(c)
    <3>1. \A f \in File : m.was[f] <= made /\ m.left[f] <= made /\ h[f] <= made /\ s[f] <= made
      BY <1>1, <1>3, <2>1, <2>4 DEF ContentsAreMade, AtMostMade
    <3>2. \A f \in File : w[f] <= made
      BY <2>5, <3>1
    <3> QED
      BY <2>9, <3>1, <3>2 DEF AtMostMade
  <2>14. blobs' \subseteq Content \ {Absent}
    <3>1. a \in [File -> Entry]
      BY <2>2, CensusIs
    <3>2. Contents(a, File) \subseteq Content \ {Absent}
      BY <3>1 DEF Contents, Entry
    <3>3. Contents(w, e \ Captured(m)) \subseteq Content \ {Absent}
      BY <2>6 DEF Contents
    <3> QED
      BY <1>1, <2>12, <3>2, <3>3 DEF TypeOK
  <2>15. \A u \in Task : Holds(manifest[u]) \subseteq blobs \cap refs[u]
    BY <1>1 DEF StoreFits, ManifestContentIsStored
  <2>16. Holds(c) \subseteq blobs'
    BY <1>3, <2>11, <2>12, <2>15
  <2>17. refs' \in [Task -> SUBSET (Content \ {Absent})]
    BY <1>1, <2>12, <2>14, <2>16 DEF TypeOK
  <2>18. \A u \in Task : refs'[u] = IF u = t THEN Holds(c) ELSE refs[u]
    BY <1>1, <2>12 DEF TypeOK
  <2>19. /\ \A u \in Task : Holds(manifest[u]) \subseteq blobs' \cap refs'[u]
         /\ Holds(c) \subseteq blobs' \cap refs'[t]
    BY <1>3, <2>11, <2>12, <2>15, <2>16, <2>18
  <2>20. Trusted(t, c) => Covers(t, c) /\ Faithful(t, c)
    <3>1. Trusted(t, c) => Trusted(op.task, manifest[op.task])
      BY <1>2, <1>3, <2>9 DEF Trusted
    <3>2. Trusted(t, c) => Covers(op.task, Recorded) /\ Faithful(op.task, Recorded)
      BY <1>1, <1>4, <1>8, <3>1 DEF ManifestsFit
    <3> QED
      BY <1>2, <2>8, <3>2
  <2>21. \A f \in Captured(m) : c.was[f] = m.was[f]
    BY <2>9 DEF Captured
  <2>22. UNCHANGED cut /\ m.state = "whole" /\ c.state = "whole" /\ Captured(m) \subseteq Captured(c)
    BY <1>3, <1>8, <2>9, <2>10
  <2> QED
    BY <1>6, <2>9, <2>12, <2>13, <2>14, <2>17, <2>19, <2>20, <2>21, <2>22
<1> QED
  BY <1>2, <1>5, <1>7, <1>8, RecordGoes

-----------------------------------------------------------------------------
(* The steps: a rewind *)

LEMMA MarkedIs ==
  ASSUME NEW m \in Manifest, NEW S \in SUBSET File, NEW c, c = Marked(m, S)
  PROVE  /\ c \in Manifest
         /\ c.state = m.state /\ c.covered = m.covered /\ c.was = m.was
         /\ \A f \in File : /\ f \in S => c.left[f] = m.was[f]
                            /\ f \notin S => c.left[f] = m.left[f]
         /\ Captured(c) = Captured(m) /\ Holds(c) = Holds(m)
<1>1. PICK v : v = [f \in File |-> IF f \in S THEN m.was[f] ELSE m.left[f]]
  OBVIOUS
<1>2. c = [m EXCEPT !.left = v]
  BY <1>1 DEF Marked, Manifest
<1>3. v \in [File -> Entry]
  BY <1>1, ManifestTypes
<1>4. /\ c \in Manifest /\ c.left = v
      /\ c.state = m.state /\ c.covered = m.covered /\ c.was = m.was
  BY <1>2, <1>3 DEF Manifest
<1> QED
  BY <1>1, <1>4 DEF Captured, Holds

\* A rewind with a conflict does nothing.
LEMMA RefusedRestore ==
  ASSUME IInv,
         UNCHANGED <<disk, head, made, blobs, refs, manifest, patch, snap, turn, op,
                     had, mine, work, cut, undeleted>>,
         steps' \in 0..MaxUserSteps, requests' \in 0..MaxRequests, faults' \in 0..MaxFaults
  PROVE  IInv'
<1>1. /\ TypeOK /\ OpFits /\ CopyFits /\ ContentsAreMade /\ TurnsFit
      /\ StoreFits /\ ManifestsFit /\ SealsFit /\ WorkFits
  BY DEF IInv
<1>2. TypeOK'
  BY <1>1 DEF TypeOK
<1>3. OpFits' /\ CopyFits'
  BY <1>1 DEF OpFits, CopyFits, Copying, PatchFiles, Captured
<1>4. ContentsAreMade' /\ TurnsFit'
  BY <1>1 DEF ContentsAreMade, AtMostMade, Fresh, TurnsFit, Untouched
<1>5. StoreFits'
  BY <1>1 DEF StoreFits, ManifestContentIsStored, Holds, Captured, Copying
<1>6. ManifestsFit'
  <2>1. Recorded' = Recorded
    BY DEF Recorded, WithPaths, Captured, Effects, CensusOf, BeforeIt
  <2> QED
    BY <1>1, <2>1 DEF ManifestsFit, Trusted, Covers, Faithful, Captured, Copying
<1>7. SealsFit'
  BY <1>1 DEF SealsFit, Settled, Matches
<1>8. WorkFits'
  BY <1>1 DEF WorkFits, Apart, Conflicts, Expected, Captured, Copying
<1> QED
  BY <1>2, <1>3, <1>4, <1>5, <1>6, <1>7, <1>8 DEF IInv

LEMMA RestoreStep ==
  ASSUME IInv, NEW t \in Task, NEW S \in SUBSET File, Restore(t, S)
  PROVE  IInv'
<1>1. /\ TypeOK /\ OpFits /\ CopyFits /\ ContentsAreMade /\ TurnsFit
      /\ StoreFits /\ ManifestsFit /\ SealsFit /\ WorkFits
  BY DEF IInv
<1>2. PICK m \in Manifest : m = manifest[t]
  BY <1>1 DEF TypeOK
<1>3. PICK e \in SUBSET File : e = {f \in S : m.was[f] # Absent \/ disk[f] # Absent}
  OBVIOUS
<1>4. /\ Free /\ m.state = "whole" /\ S \subseteq Captured(m)
      /\ UNCHANGED <<disk, head, made, blobs, refs, manifest, patch, snap, turn,
                     had, mine, work, cut, undeleted>>
      /\ steps' \in 0..MaxUserSteps /\ requests' \in 0..MaxRequests /\ faults' \in 0..MaxFaults
  BY <1>1, <1>2, MaxRequestsAssumption
     DEF Restore, Serves, tree, store, patches, history, TypeOK
<1>5. \/ UNCHANGED op
      \/ /\ \A f \in S : ~ Conflicts(m, f)
         /\ op' = [Begins("restore", IF e = {} THEN "keep" ELSE "put", t)
                     EXCEPT !.todo = e, !.copy = Marked(m, e)]
  BY <1>2, <1>3 DEF Restore
<1>6. CASE UNCHANGED op
  BY <1>4, <1>6, RefusedRestore
<1>7. CASE /\ \A f \in S : ~ Conflicts(m, f)
           /\ op' = [Begins("restore", IF e = {} THEN "keep" ELSE "put", t)
                       EXCEPT !.todo = e, !.copy = Marked(m, e)]
  <2>1. PICK c : c = Marked(m, e)
    OBVIOUS
  <2>2. /\ c \in Manifest
        /\ c.state = m.state /\ c.covered = m.covered /\ c.was = m.was
        /\ \A f \in File : /\ f \in e => c.left[f] = m.was[f]
                           /\ f \notin e => c.left[f] = m.left[f]
        /\ Captured(c) = Captured(m) /\ Holds(c) = Holds(m)
    BY <2>1, MarkedIs
  <2>3. PICK at : at = IF e = {} THEN "keep" ELSE "put"
    OBVIOUS
  <2>4. PICK o \in Op : o = Begins("restore", at, t)
    BY <2>3, BeginsIs
  <2>5. /\ o.kind = "restore" /\ o.at = at /\ o.task = t
        /\ \A f \in File : o.seen[f] = NotHere
    BY <2>4, BeginsIs
  <2>6. op' = [o EXCEPT !.todo = e, !.copy = c]
    BY <1>7, <2>1, <2>3, <2>4
  <2>7. /\ op' \in Op /\ op'.kind = "restore" /\ op'.at = at /\ op'.task = t
        /\ op'.todo = e /\ op'.copy = c
        /\ \A f \in File : op'.seen[f] = NotHere
    BY <2>2, <2>5, <2>6 DEF Op
  <2>8. /\ at \in {"keep", "put"} /\ (at = "keep" => e = {}) /\ turn[t] # "new"
        /\ op.at = "idle" /\ op.kind # "command"
    <3>1. NoManifest.state # "whole"
      BY NothingIsMade DEF NoManifest
    <3> QED
      BY <1>1, <1>2, <1>4, <2>3, <3>1, FreeIs DEF TurnsFit, Untouched
  <2>9. TypeOK'
    BY <1>1, <1>4, <2>7 DEF TypeOK
  <2>10. OpFits'
    BY <1>4, <2>2, <2>7, <2>8 DEF OpFits, Copying
  <2>11. CopyFits'
    BY <1>2, <1>3, <1>4, <2>2, <2>7, <2>8 DEF CopyFits, Copying
  <2>12. ContentsAreMade'
    <3>1. NotHere <= made
      BY <1>1, Constants DEF TypeOK, NotHere
    <3>2. AtMostMade(c)
      BY <1>1, <1>2, <2>2 DEF ContentsAreMade, AtMostMade
    <3> QED
      BY <1>1, <1>4, <2>7, <2>8, <3>1, <3>2 DEF ContentsAreMade, AtMostMade
  <2>13. TurnsFit'
    BY <1>1, <1>4, <2>7, <2>8 DEF TurnsFit, Untouched
  <2>14. StoreFits'
    <3>1. \A u \in Task : Holds(manifest[u]) \subseteq blobs \cap refs[u]
      BY <1>1 DEF StoreFits, ManifestContentIsStored
    <3>2. Holds(c) \subseteq blobs \cap refs[t]
      BY <1>2, <2>2, <3>1
    <3> QED
      BY <1>4, <2>7, <3>1, <3>2 DEF StoreFits, ManifestContentIsStored
  <2>15. ManifestsFit'
    <3>1. \A u \in Task : Trusted(u, manifest[u]) =>
            Faithful(u, manifest[u]) /\ Covers(u, manifest[u])
      BY <1>1, <2>8 DEF ManifestsFit
    <3>2. Trusted(t, c) => Faithful(t, c) /\ Covers(t, c)
      BY <1>2, <2>2, <3>1 DEF Trusted, Faithful, Covers
    <3> QED
      BY <1>4, <2>7, <2>8, <3>1, <3>2 DEF ManifestsFit, Trusted, Covers, Faithful
  <2>16. SealsFit'
    <3>1. \A u \in Task : Settled(u, manifest[u]) => Matches(u, manifest[u], File)
      BY <1>1, <2>8 DEF SealsFit
    <3>2. ASSUME Settled(t, c), NEW f \in File, mine[t][f] \in Content,
                 f \notin e \/ disk[f] = c.was[f]
          PROVE  mine[t][f] = c.left[f]
      <4>1. mine[t][f] = m.left[f]
        BY <1>2, <2>2, <3>1, <3>2 DEF Settled, Matches
      <4>2. CASE f \notin e
        BY <2>2, <4>1, <4>2
      <4>3. CASE f \in e
        <5>1. disk[f] = m.was[f] /\ disk[f] # Absent /\ ~ Conflicts(m, f)
          BY <1>3, <1>7, <2>2, <3>2, <4>3
        <5>2. m.left[f] # NotHere
          BY <3>2, <4>1, Constants DEF Content, Absent, NotHere
        <5>3. disk[f] = m.left[f]
          BY <5>1, <5>2 DEF Conflicts, Expected
        <5> QED
          BY <2>2, <4>1, <4>3, <5>1, <5>3
      <4> QED
        BY <4>2, <4>3
    <3>3. Settled(t, c) => Matches(t, c, {f \in File : f \notin e \/ disk[f] = c.was[f]})
      BY <3>2 DEF Matches
    <3>4. at = "keep" /\ Settled(t, c) => Matches(t, c, File)
      BY <2>8, <3>2 DEF Matches
    <3> QED
      BY <1>4, <2>7, <2>8, <3>1, <3>3, <3>4 DEF SealsFit, Settled, Matches
  <2>17. WorkFits'
    <3>1. Apart(t, m)
      BY <1>1, <1>2, <1>4 DEF WorkFits
    <3>2. \A f \in e : work[t][f] # "unseen"
      BY <1>3, <1>7, <3>1 DEF Apart
    <3>3. Apart(t, c)
      BY <2>2, <3>1, <3>2 DEF Apart, Conflicts, Expected
    <3> QED
      BY <1>1, <1>4, <2>7, <3>2, <3>3 DEF WorkFits, Apart, Conflicts, Expected
  <2> QED
    BY <2>9, <2>10, <2>11, <2>12, <2>13, <2>14, <2>15, <2>16, <2>17 DEF IInv
<1> QED
  BY <1>5, <1>6, <1>7

LEMMA PutBackStep ==
  ASSUME IInv, NEW f \in File, PutBack(f)
  PROVE  IInv'
<1>1. /\ TypeOK /\ OpFits /\ CopyFits /\ ContentsAreMade /\ TurnsFit
      /\ StoreFits /\ ManifestsFit /\ SealsFit /\ WorkFits
  BY DEF IInv
<1>2. PICK t \in Task : t = op.task
  BY <1>1 DEF OpFits, Copying, PutBack
<1>3. PICK m \in Manifest : m = op.copy
  BY <1>1, OpTypes
<1>4. PICK c : c = m.was[f]
  OBVIOUS
<1>5. PICK d : d = [disk EXCEPT ![f] = c]
  OBVIOUS
<1>6. /\ op.at = "put" /\ f \in op.todo /\ Copying /\ op.kind # "command"
      /\ turn[t] # "new" /\ m.state = "whole"
      /\ op.todo \subseteq Captured(manifest[t])
      /\ Captured(manifest[t]) \subseteq Captured(m)
      /\ m.left[f] = m.was[f]
  BY <1>1, <1>2, <1>3 DEF OpFits, CopyFits, Copying, PutBack
<1>7. /\ UNCHANGED <<head, made, blobs, refs, manifest, patch, snap, turn,
                     steps, requests, faults, undeleted>>
      /\ \/ /\ c \in blobs \cup {Absent} /\ Writes(d, t) /\ UNCHANGED cut
            /\ op' = [op EXCEPT !.todo = op.todo \ {f},
                                !.at = IF op.todo = {f} THEN "keep" ELSE "put"]
         \/ op' = Idle /\ Cuts({t}) /\ UNCHANGED <<disk, had, mine, work>>
  BY <1>2, <1>3, <1>4, <1>5 DEF PutBack, Ends, store, patches, bounds
<1>8. CASE op' = Idle /\ Cuts({t}) /\ UNCHANGED <<disk, had, mine, work>>
  <2>1. /\ cut' \in [Task -> {"no", "short", "unrecorded"}] /\ cut'[t] # "no"
        /\ \A u \in Task : /\ u # t => cut'[u] = cut[u]
                           /\ cut'[u] # "unrecorded" => cut[u] # "unrecorded"
    BY <1>1, <1>8, CutsDoes
  <2>2. TypeOK'
    BY <1>1, <1>7, <1>8, <2>1, EndedFits DEF TypeOK
  <2>3. ContentsAreMade'
    <3>1. made \in Nat
      BY <1>1, Constants DEF TypeOK
    <3> QED
      BY <1>1, <1>7, <1>8, <3>1, EndedIsMade DEF ContentsAreMade, AtMostMade
  <2>4. TurnsFit'
    BY <1>1, <1>7, <1>8, EndedFits DEF TurnsFit, Untouched
  <2>5. StoreFits'
    BY <1>1, <1>7, <1>8, EndedFits DEF StoreFits, ManifestContentIsStored, Holds, Captured
  <2>6. ManifestsFit'
    BY <1>1, <1>6, <1>7, <1>8, <2>1, EndedFits DEF ManifestsFit, Trusted, Covers, Faithful
  <2>7. SealsFit'
    BY <1>1, <1>2, <1>7, <1>8, <2>1, EndedFits DEF SealsFit, Settled, Matches
  <2>8. WorkFits'
    BY <1>1, <1>7, <1>8, EndedFits DEF WorkFits, Apart, Conflicts, Expected
  <2> QED
    BY <1>8, <2>2, <2>3, <2>4, <2>5, <2>6, <2>7, <2>8, EndedFits DEF IInv
<1>9. CASE /\ c \in blobs \cup {Absent} /\ Writes(d, t) /\ UNCHANGED cut
           /\ op' = [op EXCEPT !.todo = op.todo \ {f},
                               !.at = IF op.todo = {f} THEN "keep" ELSE "put"]
  <2>1. c \in Content /\ c <= made /\ made \in Nat
    <3>1. c \in Content /\ made \in Nat
      BY <1>1, <1>9, Constants DEF TypeOK, Content, Absent
    <3> QED
      BY <1>1, <1>3, <1>4, <3>1 DEF ContentsAreMade, AtMostMade
  <2>2. d \in [File -> Content] /\ d[f] = c /\ \A g \in File : g # f => d[g] = disk[g]
    BY <1>1, <1>5, <2>1 DEF TypeOK
  <2>3. /\ disk' = d
        /\ mine' \in [Task -> [File -> Entry \cup {Foreign}]]
        /\ had' \in [Task -> [File -> SUBSET Content]]
        /\ work' \in [Task -> [File -> {"none", "unseen", "sealed"}]]
        /\ \A u \in Task, g \in File :
             /\ mine'[u][g] = IF u = t /\ d[g] # disk[g] THEN d[g] ELSE mine[u][g]
             /\ had[u][g] \subseteq had'[u][g]
             /\ turn[u] # "new" /\ mine'[u][g] = NotHere => d[g] \in had'[u][g]
             /\ d[g] = disk[g] => work'[u][g] = work[u][g]
             /\ d[g] # disk[g] =>
                  work'[u][g] = IF t = NoTask /\ d[g] = Fresh /\ g \in Captured(manifest[u])
                                THEN "unseen" ELSE "none"
    BY <1>1, <1>9, <2>2, WritesDoes
  <2>4. \A u \in Task, g \in File : d[g] # disk[g] => work'[u][g] = "none"
    BY <2>3, Constants
  <2>5. \A u \in Task : u # t => mine'[u] = mine[u]
    BY <1>1, <2>3 DEF TypeOK
  <2>6. /\ op' \in Op /\ op'.kind = op.kind /\ op'.seen = op.seen /\ op'.task = t
        /\ op'.copy = m /\ op'.todo = op.todo \ {f} /\ op'.at \in {"put", "keep"}
        /\ op'.at = "keep" => op'.todo = {}
    <3>1. PICK at \in {"put", "keep"} : at = IF op.todo = {f} THEN "keep" ELSE "put"
      OBVIOUS
    <3>2. op' = [op EXCEPT !.todo = op.todo \ {f}, !.at = at]
      BY <1>9, <3>1
    <3>3. /\ op' \in Op /\ op'.kind = op.kind /\ op'.seen = op.seen /\ op'.task = t
          /\ op'.copy = m /\ op'.todo = op.todo \ {f} /\ op'.at = at
      BY <1>1, <1>2, <1>3, <3>1, <3>2 DEF TypeOK, Op
    <3> QED
      BY <3>1, <3>3
  <2>7. Copying'
    BY <2>6 DEF Copying
  <2>8. TypeOK'
    BY <1>1, <1>7, <1>9, <2>2, <2>3, <2>6 DEF TypeOK
  <2>9. OpFits'
    BY <1>6, <1>7, <2>6 DEF OpFits
  <2>10. CopyFits'
    BY <1>1, <1>2, <1>3, <1>6, <1>7, <2>6 DEF CopyFits
  <2>11. ContentsAreMade'
    <3>1. \A g \in File : disk'[g] <= made' /\ head'[g] <= made' /\ op'.seen[g] <= made'
      BY <1>1, <1>7, <2>1, <2>2, <2>3, <2>6 DEF ContentsAreMade
    <3> QED
      BY <1>1, <1>3, <1>7, <2>6, <3>1 DEF ContentsAreMade, AtMostMade
  <2>12. TurnsFit'
    <3>1. \A u \in Task : turn'[u] = "new" => Untouched(u)'
      <4> SUFFICES ASSUME NEW u \in Task, turn[u] = "new" PROVE Untouched(u)'
        BY <1>7
      <4>1. Untouched(u) /\ u # t
        BY <1>1, <1>6 DEF TurnsFit
      <4>2. \A g \in File : work'[u][g] = "none"
        BY <2>3, <2>4, <4>1 DEF Untouched
      <4> QED
        BY <1>7, <2>5, <4>1, <4>2 DEF Untouched
    <3>2. \A u \in Task, g \in File : turn'[u] # "new" /\ mine'[u][g] = NotHere => disk'[g] \in had'[u][g]
      BY <1>7, <2>3
    <3> QED
      BY <1>1, <1>7, <2>6, <3>1, <3>2 DEF TurnsFit, Untouched
  <2>13. StoreFits'
    <3>1. Holds(m) \subseteq blobs \cap refs[t]
      BY <1>1, <1>2, <1>3, <1>6 DEF StoreFits
    <3> QED
      BY <1>1, <1>7, <2>6, <3>1 DEF StoreFits, ManifestContentIsStored, Holds, Captured
  <2>14. ManifestsFit'
    <3>1. ASSUME NEW u \in Task, Trusted(u, manifest[u])
          PROVE  Faithful(u, manifest[u])' /\ Covers(u, manifest[u])'
      <4>1. Faithful(u, manifest[u]) /\ Covers(u, manifest[u])
        BY <1>1, <1>6, <3>1 DEF ManifestsFit
      <4>2. Faithful(u, manifest[u])'
        BY <1>7, <2>3, <4>1 DEF Faithful, Captured
      <4>3. u = t => f \in Captured(manifest[u])
        BY <1>6
      <4>4. Covers(u, manifest[u])'
        BY <1>7, <2>2, <2>3, <4>1, <4>3 DEF Covers, Captured
      <4> QED
        BY <4>2, <4>4
    <3>2. ASSUME Trusted(t, m) PROVE Faithful(t, m)' /\ Covers(t, m)'
      <4>1. Faithful(t, m) /\ Covers(t, m)
        BY <1>1, <1>2, <1>3, <1>6, <3>2 DEF ManifestsFit
      <4>2. Faithful(t, m)'
        BY <1>7, <2>3, <4>1 DEF Faithful, Captured
      <4>3. f \in Captured(m)
        BY <1>6
      <4>4. Covers(t, m)'
        BY <2>2, <2>3, <4>1, <4>3 DEF Covers
      <4> QED
        BY <4>2, <4>4
    <3>3. \A u \in Task : Trusted(u, manifest[u])' => Trusted(u, manifest[u])
      BY <1>7, <1>9 DEF Trusted
    <3>4. Trusted(t, m)' => Trusted(t, m)
      BY <1>9 DEF Trusted
    <3> QED
      BY <1>6, <1>7, <2>6, <3>1, <3>2, <3>3, <3>4 DEF ManifestsFit, Trusted, Covers, Faithful
  <2>15. SealsFit'
    <3>1. ASSUME Settled(t, m), NEW g \in File, mine'[t][g] \in Content,
                 g \notin op.todo \ {f} \/ d[g] = m.was[g]
          PROVE  mine'[t][g] = m.left[g]
      <4>1. Matches(t, m, {h \in File : h \notin op.todo \/ disk[h] = m.was[h]})
        BY <1>1, <1>2, <1>3, <1>6, <3>1 DEF SealsFit
      <4>2. CASE d[g] # disk[g]
        BY <1>4, <1>6, <2>2, <2>3, <4>2
      <4>3. CASE d[g] = disk[g]
        <5>1. mine'[t][g] = mine[t][g]
          BY <2>3, <4>3
        <5>2. g \notin op.todo \/ disk[g] = m.was[g]
          BY <1>4, <2>2, <3>1, <4>3
        <5> QED
          BY <3>1, <4>1, <5>1, <5>2 DEF Matches
      <4> QED
        BY <4>2, <4>3
    <3>2. \A u \in Task : u # t /\ Settled(u, manifest[u]) => Matches(u, manifest[u], File)
      BY <1>1, <1>2 DEF SealsFit
    <3> QED
      BY <1>7, <1>9, <2>3, <2>5, <2>6, <3>1, <3>2 DEF SealsFit, Settled, Matches
  <2>16. WorkFits'
    <3>1. \A u \in Task, g \in File :
            work'[u][g] = "unseen" => disk'[g] = disk[g] /\ work[u][g] = "unseen"
      BY <2>3, <2>4
    <3>2. ASSUME NEW u \in Task, manifest[u].state = "whole"
          PROVE  Apart(u, manifest[u])'
      <4>1. Apart(u, manifest[u])
        BY <1>1, <3>2 DEF WorkFits
      <4> QED
        BY <1>7, <3>1, <4>1 DEF Apart, Conflicts, Expected, Captured
    <3>3. Apart(t, m)'
      <4>1. Apart(t, m)
        BY <1>1, <1>2, <1>3, <1>6 DEF WorkFits
      <4> QED
        BY <3>1, <4>1 DEF Apart, Conflicts, Expected, Captured
    <3>4. \A g \in op.todo : g \in File /\ work[t][g] # "unseen"
      BY <1>1, <1>2, <1>6, OpTypes DEF WorkFits
    <3>5. \A g \in op'.todo : work'[t][g] # "unseen"
      BY <2>6, <3>1, <3>4
    <3> QED
      BY <1>7, <2>6, <3>2, <3>3, <3>5 DEF WorkFits, Apart, Conflicts, Expected
  <2> QED
    BY <2>8, <2>9, <2>10, <2>11, <2>12, <2>13, <2>14, <2>15, <2>16 DEF IInv
<1> QED
  BY <1>7, <1>8, <1>9

-----------------------------------------------------------------------------
(* The steps: the user and the process *)

LEMMA UserEditsStep ==
  ASSUME IInv, NEW f \in File, NEW c \in Content, UserEdits(f, c)
  PROVE  IInv'
<1>1. /\ TypeOK /\ OpFits /\ CopyFits /\ ContentsAreMade /\ TurnsFit
      /\ StoreFits /\ ManifestsFit /\ SealsFit /\ WorkFits
  BY DEF IInv
<1>2. PICK d : d = [disk EXCEPT ![f] = c]
  OBVIOUS
<1>3. /\ Free /\ Writes(d, NoTask) /\ c \in {Fresh, Absent} \ {disk[f]}
      /\ made' = (IF c = Fresh THEN c ELSE made)
      /\ UNCHANGED <<head, blobs, refs, manifest, patch, snap, turn, op, cut, undeleted>>
      /\ steps' \in 0..MaxUserSteps /\ requests' \in 0..MaxRequests /\ faults' \in 0..MaxFaults
  BY <1>1, <1>2, MaxUserStepsAssumption DEF UserEdits, UserActs, store, patches, TypeOK
<1>4. op' = Idle /\ op.kind # "command" /\ op.at = "idle"
  BY <1>3, FreeIs DEF Free
<1>5. d \in [File -> Content] /\ d[f] = c /\ \A g \in File : g # f => d[g] = disk[g]
  BY <1>1, <1>2 DEF TypeOK
<1>6. /\ disk' = d
      /\ mine' \in [Task -> [File -> Entry \cup {Foreign}]]
      /\ had' \in [Task -> [File -> SUBSET Content]]
      /\ work' \in [Task -> [File -> {"none", "unseen", "sealed"}]]
      /\ \A u \in Task, g \in File :
           /\ mine'[u][g] = IF u = NoTask /\ d[g] # disk[g] THEN d[g] ELSE mine[u][g]
           /\ had[u][g] \subseteq had'[u][g]
           /\ turn[u] # "new" /\ mine'[u][g] = NotHere => d[g] \in had'[u][g]
           /\ d[g] = disk[g] => work'[u][g] = work[u][g]
           /\ d[g] # disk[g] =>
                work'[u][g] = IF NoTask = NoTask /\ d[g] = Fresh /\ g \in Captured(manifest[u])
                              THEN "unseen" ELSE "none"
  BY <1>1, <1>3, <1>5, WritesDoes
<1>7. mine' = mine
  <2>1. \A u \in Task, g \in File : mine'[u][g] = mine[u][g]
    BY <1>6, Constants
  <2> QED
    BY <1>1, <1>6, <2>1 DEF TypeOK
<1>8. /\ made \in 1..MaxContent /\ made' \in 1..MaxContent /\ made <= made' /\ c <= made'
      /\ Fresh \in Nat /\ made < Fresh
  BY <1>1, <1>3, Constants DEF TypeOK, Fresh, Content, Absent
<1>9. \A u \in Task : manifest[u] \in Manifest
  BY <1>1 DEF TypeOK
<1>10. TypeOK'
  BY <1>1, <1>3, <1>4, <1>5, <1>6, <1>8, EndedFits DEF TypeOK
<1>11. ContentsAreMade'
  <2>1. PICK k \in Nat : k = made'
    BY <1>8
  <2>2. /\ \A g \in File : disk[g] <= k /\ head[g] <= k
        /\ \A p \in Patch, g \in File :
             patch[p].base[g] <= k /\ snap[p][g].was <= k /\ snap[p][g].left <= k
        /\ \A u \in Task, g \in File : manifest[u].was[g] <= k /\ manifest[u].left[g] <= k
    BY <1>1, <1>8, <2>1, MadeGrows
  <2>3. \A g \in File : disk'[g] <= made'
    BY <1>5, <1>6, <1>8, <2>1, <2>2
  <2>4. \A u \in Task : AtMostMade(manifest[u])'
    BY <1>3, <2>1, <2>2 DEF AtMostMade
  <2>5. /\ \A g \in File : op'.seen[g] <= made'
        /\ AtMostMade(op.copy)'
        /\ op'.at # "check" /\ op'.at # "write"
    BY <1>1, <1>4, <2>1, EndedIsMade
  <2>6. \A g \in File : head'[g] <= made'
    BY <1>3, <2>1, <2>2
  <2>7. \A p \in Patch, g \in File :
          patch'[p].base[g] <= made' /\ snap'[p][g].was <= made' /\ snap'[p][g].left <= made'
    BY <1>3, <2>1, <2>2
  <2> QED
    BY <2>3, <2>4, <2>5, <2>6, <2>7 DEF ContentsAreMade
<1>12. TurnsFit'
  <2>1. \A u \in Task : turn'[u] = "new" => Untouched(u)'
    <3>1. ASSUME NEW u \in Task, turn[u] = "new", NEW g \in File PROVE work'[u][g] = "none"
      <4>1. manifest[u] = NoManifest /\ work[u][g] = "none"
        BY <1>1, <3>1 DEF TurnsFit, Untouched
      <4>2. g \notin Captured(manifest[u])
        BY <4>1, ManifestTypes
      <4> QED
        BY <1>6, <4>1, <4>2
    <3> QED
      BY <1>1, <1>3, <1>7, <3>1 DEF TurnsFit, Untouched
  <2>2. \A p \in Patch : patch'[p].task # NoTask => turn'[patch'[p].task] # "new"
    BY <1>1, <1>3 DEF TurnsFit
  <2>3. \A u \in Task, g \in File : turn'[u] # "new" /\ mine'[u][g] = NotHere => disk'[g] \in had'[u][g]
    BY <1>3, <1>6
  <2> QED
    BY <1>4, <2>1, <2>2, <2>3, EndedFits DEF TurnsFit
<1>13. StoreFits'
  BY <1>1, <1>3, <1>4, EndedFits DEF StoreFits, ManifestContentIsStored, Holds, Captured
<1>14. ManifestsFit'
  <2>1. ASSUME NEW u \in Task, Trusted(u, manifest[u])
        PROVE  Faithful(u, manifest[u])' /\ Covers(u, manifest[u])'
    <3>1. Faithful(u, manifest[u]) /\ Covers(u, manifest[u])
      BY <1>1, <1>4, <2>1 DEF ManifestsFit
    <3>2. Faithful(u, manifest[u])'
      BY <1>3, <1>6, <3>1 DEF Faithful, Captured
    <3>3. Covers(u, manifest[u])'
      BY <1>3, <1>7, <3>1 DEF Covers, Captured
    <3> QED
      BY <3>2, <3>3
  <2>2. \A u \in Task : Trusted(u, manifest[u])' => Trusted(u, manifest[u])
    BY <1>3 DEF Trusted
  <2>3. \A u \in Task : Trusted(u, manifest[u])' =>
          Faithful(u, manifest[u])' /\ Covers(u, manifest[u])'
    BY <2>1, <2>2
  <2> QED
    BY <1>4, <2>3, EndedFits DEF ManifestsFit, Trusted, Covers, Faithful
<1>15. SealsFit'
  BY <1>1, <1>3, <1>4, <1>7, EndedFits DEF SealsFit, Settled, Matches
<1>16. WorkFits'
  <2>1. ASSUME NEW u \in Task, manifest[u].state = "whole", NEW g \in File,
               work'[u][g] = "unseen"
        PROVE  g \in Captured(manifest[u]) /\ disk'[g] # Absent /\ disk'[g] # Expected(manifest[u], g)
    <3>1. CASE d[g] = disk[g]
      <4>1. work[u][g] = "unseen"
        BY <1>6, <2>1, <3>1
      <4> QED
        BY <1>1, <1>6, <2>1, <3>1, <4>1 DEF WorkFits, Apart, Conflicts
    <3>2. CASE d[g] # disk[g]
      <4>1. d[g] = Fresh /\ g \in Captured(manifest[u])
        BY <1>6, <2>1, <3>2
      <4>2. manifest[u].was[g] \in Entry /\ manifest[u].left[g] \in Entry
        BY <1>9, ManifestTypes
      <4>3. manifest[u].was[g] <= made /\ manifest[u].left[g] <= made
        BY <1>1 DEF ContentsAreMade, AtMostMade
      <4>4. Expected(manifest[u], g) \in Entry /\ Expected(manifest[u], g) <= made
        BY <4>2, <4>3 DEF Expected
      <4>5. Expected(manifest[u], g) \in Int
        BY <4>4, Constants DEF Entry, Content, Absent, NotHere
      <4>6. Fresh # Expected(manifest[u], g) /\ Fresh # Absent
        BY <1>8, <4>4, <4>5 DEF Absent
      <4> QED
        BY <1>6, <4>1, <4>6
    <3> QED
      BY <3>1, <3>2
  <2>2. ASSUME NEW u \in Task, manifest'[u].state = "whole" PROVE Apart(u, manifest[u])'
    BY <1>3, <2>1, <2>2 DEF Apart, Conflicts, Expected, Captured
  <2> QED
    BY <1>4, <2>2, EndedFits DEF WorkFits
<1> QED
  BY <1>4, <1>10, <1>11, <1>12, <1>13, <1>14, <1>15, <1>16, EndedFits DEF IInv

LEMMA UserCommitsStep ==
  ASSUME IInv, UserCommits
  PROVE  IInv'
<1>1. /\ TypeOK /\ OpFits /\ CopyFits /\ ContentsAreMade /\ TurnsFit
      /\ StoreFits /\ ManifestsFit /\ SealsFit /\ WorkFits
  BY DEF IInv
<1>2. /\ Free /\ head' = disk
      /\ UNCHANGED <<disk, made, blobs, refs, manifest, patch, snap, turn, op, had, mine, work, cut, undeleted>>
      /\ steps' \in 0..MaxUserSteps /\ requests' \in 0..MaxRequests /\ faults' \in 0..MaxFaults
  BY <1>1, MaxUserStepsAssumption DEF UserCommits, UserActs, store, patches, TypeOK
<1>3. op' = Idle /\ op.kind # "command" /\ op.at = "idle"
  BY <1>2, FreeIs DEF Free
<1>4. TypeOK'
  BY <1>1, <1>2 DEF TypeOK
<1>5. ContentsAreMade'
  <2>1. /\ \A f \in File : op'.seen[f] <= made'
        /\ AtMostMade(op.copy)'
        /\ op'.at # "check" /\ op'.at # "write"
    BY <1>1, <1>2, <1>3, EndedIsMade, Constants DEF TypeOK
  <2>2. \A u \in Task : AtMostMade(manifest[u])'
    BY <1>1, <1>2 DEF ContentsAreMade, AtMostMade
  <2> QED
    BY <1>1, <1>2, <2>1, <2>2 DEF ContentsAreMade
<1>6. TurnsFit'
  BY <1>1, <1>2, <1>3, EndedFits DEF TurnsFit, Untouched
<1>7. StoreFits'
  BY <1>1, <1>2, <1>3, EndedFits DEF StoreFits, ManifestContentIsStored, Holds, Captured
<1>8. ManifestsFit'
  BY <1>1, <1>2, <1>3, EndedFits DEF ManifestsFit, Trusted, Covers, Faithful, Captured
<1>9. SealsFit'
  BY <1>1, <1>2, <1>3, EndedFits DEF SealsFit, Settled, Matches
<1>10. WorkFits'
  BY <1>1, <1>2, <1>3, EndedFits DEF WorkFits, Apart, Conflicts, Expected, Captured
<1> QED
  BY <1>3, <1>4, <1>5, <1>6, <1>7, <1>8, <1>9, <1>10, EndedFits DEF IInv

\* A death leaves at most one manifest torn, and cuts the turns that ran short.
LEMMA CrashStep ==
  ASSUME IInv, Crash
  PROVE  IInv'
<1>1. /\ TypeOK /\ OpFits /\ CopyFits /\ ContentsAreMade /\ TurnsFit
      /\ StoreFits /\ ManifestsFit /\ SealsFit /\ WorkFits
  BY DEF IInv
<1>2. PICK S \in SUBSET Task : S = {t \in Task : turn[t] = "running" \/ t = op.task}
  OBVIOUS
<1>3. /\ Cuts(S) /\ op' = Idle
      /\ turn' = [t \in Task |-> IF turn[t] = "running" THEN "over" ELSE turn[t]]
      /\ UNCHANGED <<disk, head, made, blobs, refs, patch, snap, had, mine, work, undeleted>>
      /\ steps' \in 0..MaxUserSteps /\ requests' \in 0..MaxRequests /\ faults' \in 0..MaxFaults
  BY <1>1, <1>2, MaxFaultsAssumption DEF Crash, Faults, Ends, tree, store, patches, TypeOK
<1>4. \A u \in Task : /\ turn'[u] = IF turn[u] = "running" THEN "over" ELSE turn[u]
                      /\ turn'[u] = "new" <=> turn[u] = "new"
  BY <1>1, <1>3 DEF TypeOK
<1>5. /\ cut' \in [Task -> {"no", "short", "unrecorded"}]
      /\ \A u \in Task : /\ u \notin S => cut'[u] = cut[u]
                         /\ u \in S => cut'[u] # "no"
                         /\ cut'[u] # "unrecorded" => cut[u] # "unrecorded"
                         /\ u \in S /\ op.kind = "command" /\ op.task = u =>
                              cut'[u] = "unrecorded"
  BY <1>1, <1>2, <1>3, CutsDoes
<1>6. /\ manifest' \in [Task -> Manifest]
      /\ \A u \in Task : manifest'[u] = manifest[u] \/ (manifest'[u] = Torn /\ u = op.task)
  <2>1. CASE manifest' = manifest
    BY <1>1, <2>1 DEF TypeOK
  <2>2. CASE manifest' = [manifest EXCEPT ![op.task] = Torn]
    BY <1>1, <2>2, ManifestTypes DEF TypeOK
  <2>3. manifest' = manifest \/ manifest' = [manifest EXCEPT ![op.task] = Torn]
    BY DEF Crash
  <2> QED
    BY <2>1, <2>2, <2>3
<1>7. Torn.state = "torn" /\ Holds(Torn) = {}
  BY ManifestTypes DEF Torn, Holds
<1>8. \A u \in Task : u = op.task => u \in S
  BY <1>2
<1>9. \A u \in Task : turn[u] = "running" => u \in S
  BY <1>2
<1>10. TypeOK'
  BY <1>1, <1>3, <1>5, <1>6, EndedFits DEF TypeOK
<1>11. ContentsAreMade'
  <2>1. /\ \A f \in File : op'.seen[f] <= made'
        /\ AtMostMade(op.copy)'
        /\ op'.at # "check" /\ op'.at # "write"
    BY <1>1, <1>3, EndedIsMade, Constants DEF TypeOK
  <2>2. AtMostMade(Torn)
    BY <1>1, NothingIsMade
  <2>3. \A u \in Task : AtMostMade(manifest[u])'
    BY <1>1, <1>3, <1>6, <2>2 DEF ContentsAreMade, AtMostMade
  <2> QED
    BY <1>1, <1>3, <2>1, <2>3 DEF ContentsAreMade
<1>12. TurnsFit'
  <2>1. \A u \in Task : turn[u] = "new" => manifest'[u] = manifest[u]
    <3>1. ASSUME NEW u \in Task, turn[u] = "new", manifest' # manifest PROVE u # op.task
      <4>1. op.at = "create" \/ Copying
        BY <3>1 DEF Crash, Copying
      <4> QED
        BY <1>1, <3>1, <4>1 DEF OpFits
    <3> QED
      BY <1>6, <3>1
  <2>2. \A u \in Task : turn'[u] = "new" => Untouched(u)'
    BY <1>1, <1>3, <1>4, <2>1 DEF TurnsFit, Untouched
  <2>3. \A p \in Patch : patch'[p].task # NoTask => turn'[patch'[p].task] # "new"
    BY <1>1, <1>3, <1>4 DEF TurnsFit, TypeOK
  <2>4. \A u \in Task, f \in File : turn'[u] # "new" /\ mine'[u][f] = NotHere => disk'[f] \in had'[u][f]
    BY <1>1, <1>3, <1>4 DEF TurnsFit
  <2> QED
    BY <1>3, <2>2, <2>3, <2>4, EndedFits DEF TurnsFit
<1>13. StoreFits'
  <2>1. ASSUME NEW u \in Task PROVE Holds(manifest'[u]) \subseteq blobs' \cap refs'[u]
    BY <1>1, <1>3, <1>6, <1>7 DEF StoreFits, ManifestContentIsStored
  <2> QED
    BY <1>3, <2>1, EndedFits DEF StoreFits, ManifestContentIsStored
<1>14. ManifestsFit'
  <2>1. ASSUME NEW u \in Task, Trusted(u, manifest[u])'
        PROVE  Faithful(u, manifest[u])' /\ Covers(u, manifest[u])'
    <3>1. manifest'[u] = manifest[u]
      BY <1>6, <1>7, <2>1 DEF Trusted
    <3>2. Trusted(u, manifest[u])
      BY <1>5, <2>1, <3>1 DEF Trusted
    <3>3. op.kind # "command" \/ op.task # u
      BY <1>5, <1>8, <2>1 DEF Trusted
    <3>4. Faithful(u, manifest[u]) /\ Covers(u, manifest[u])
      BY <1>1, <3>2, <3>3 DEF ManifestsFit
    <3> QED
      BY <1>3, <3>1, <3>4 DEF Faithful, Covers, Captured
  <2> QED
    BY <1>3, <2>1, EndedFits DEF ManifestsFit
<1>15. SealsFit'
  <2>1. ASSUME NEW u \in Task, Settled(u, manifest[u])' PROVE Matches(u, manifest[u], File)'
    <3>1. u \notin S
      BY <1>5, <2>1 DEF Settled
    <3>2. u # op.task /\ turn[u] # "running" /\ cut'[u] = cut[u]
      BY <1>5, <1>8, <1>9, <3>1
    <3>3. manifest'[u] = manifest[u] /\ turn'[u] = turn[u]
      BY <1>4, <1>6, <3>2
    <3>4. Matches(u, manifest[u], File)
      BY <1>1, <2>1, <3>2, <3>3 DEF SealsFit, Settled
    <3> QED
      BY <1>3, <3>3, <3>4 DEF Matches
  <2> QED
    BY <1>3, <2>1, EndedFits DEF SealsFit
<1>16. WorkFits'
  <2>1. ASSUME NEW u \in Task, manifest'[u].state = "whole" PROVE Apart(u, manifest[u])'
    <3>1. manifest'[u] = manifest[u]
      BY <1>6, <1>7, <2>1
    <3>2. Apart(u, manifest[u])
      BY <1>1, <2>1, <3>1 DEF WorkFits
    <3> QED
      BY <1>3, <3>1, <3>2 DEF Apart, Conflicts, Expected, Captured
  <2> QED
    BY <1>3, <2>1, EndedFits DEF WorkFits
<1> QED
  BY <1>3, <1>10, <1>11, <1>12, <1>13, <1>14, <1>15, <1>16, EndedFits DEF IInv

-----------------------------------------------------------------------------
(* The induction *)

LEMMA InitFits == Init => IInv
<1> SUFFICES ASSUME Init PROVE IInv
  OBVIOUS
<1>1. /\ disk \in [File -> {Absent, 1}] /\ head = disk /\ made = 1 /\ blobs = {}
      /\ refs = [t \in Task |-> {}]
      /\ manifest = [t \in Task |-> NoManifest]
      /\ patch = [p \in Patch |-> [task |-> NoTask, base |-> Nowhere, deletes |-> {}]]
      /\ snap = [p \in Patch |-> [f \in File |-> [was |-> NotHere, left |-> NotHere]]]
      /\ turn = [t \in Task |-> "new"] /\ op = Idle
      /\ steps = 0 /\ requests = 0 /\ faults = 0
      /\ had = [t \in Task |-> [f \in File |-> {}]]
      /\ mine = [t \in Task |-> Nowhere]
      /\ work = [t \in Task |-> [f \in File |-> "none"]]
      /\ cut = [t \in Task |-> "no"] /\ undeleted = [t \in Task |-> {}]
  BY DEF Init
<1>2. {Absent, 1} \subseteq Content /\ Absent <= 1 /\ NotHere <= 1 /\ NotHere \in Entry
  BY Constants DEF Content, Entry, Absent, NotHere
<1>3. ~ Copying /\ op.kind = "none" /\ op.at = "idle" /\ op.task = NoTask /\ op.copy = NoManifest
  BY <1>1, IdleIs DEF Copying
<1>4. NoManifest.state = "none" /\ Holds(NoManifest) = {}
  BY ManifestTypes DEF NoManifest, Holds
<1>5. TypeOK
  <2>1. disk \in [File -> Content] /\ head \in [File -> Content]
    BY <1>1, <1>2
  <2>2. Nowhere \in [File -> Entry] /\ NoManifest \in Manifest /\ Idle \in Op
    BY ManifestTypes, IdleIs
  <2>3. /\ steps \in 0..MaxUserSteps /\ requests \in 0..MaxRequests /\ faults \in 0..MaxFaults
    BY <1>1, MaxUserStepsAssumption, MaxRequestsAssumption, MaxFaultsAssumption
  <2>4. mine \in [Task -> [File -> Entry \cup {Foreign}]]
    <3>1. Nowhere \in [File -> Entry \cup {Foreign}]
      BY <1>2 DEF Nowhere
    <3> QED
      BY <1>1, <3>1
  <2>5. /\ patch \in [Patch -> [task : Task \cup {NoTask}, base : [File -> Entry],
                                deletes : SUBSET File]]
        /\ snap \in [Patch -> [File -> [was : Entry, left : Entry]]]
    BY <1>1, <1>2, <2>2
  <2>6. made \in 1..MaxContent
    BY <1>1, Constants
  <2> QED
    BY <1>1, <2>1, <2>2, <2>3, <2>4, <2>5, <2>6 DEF TypeOK
<1>6. OpFits /\ CopyFits
  BY <1>3 DEF OpFits, CopyFits
<1>7. ContentsAreMade
  <2>1. \A f \in File : disk[f] <= made /\ head[f] <= made /\ op.seen[f] <= made
    BY <1>1, <1>2, IdleIs
  <2>2. \A p \in Patch, f \in File :
          patch[p].base[f] <= made /\ snap[p][f].was <= made /\ snap[p][f].left <= made
    BY <1>1, <1>2 DEF Nowhere
  <2>3. AtMostMade(NoManifest)
    BY <1>5, NothingIsMade
  <2> QED
    BY <1>1, <1>3, <2>1, <2>2, <2>3 DEF ContentsAreMade
<1>8. TurnsFit
  BY <1>1, <1>3 DEF TurnsFit, Untouched
<1>9. StoreFits
  BY <1>1, <1>3, <1>4 DEF StoreFits, ManifestContentIsStored
<1>10. ManifestsFit
  BY <1>1, <1>3, <1>4 DEF ManifestsFit, Trusted
<1>11. SealsFit
  BY <1>1, <1>3, <1>4 DEF SealsFit, Settled
<1>12. WorkFits
  BY <1>1, <1>3, <1>4 DEF WorkFits
<1> QED
  BY <1>5, <1>6, <1>7, <1>8, <1>9, <1>10, <1>11, <1>12 DEF IInv

LEMMA StepKeeps == IInv /\ [Next]_vars => IInv'
<1> SUFFICES ASSUME IInv, [Next]_vars PROVE IInv'
  OBVIOUS
<1>1. CASE Keep
  BY <1>1, KeepStep
<1>2. CASE Seal
  BY <1>2, SealStep
<1>3. CASE CreateCheckpoint
  BY <1>3, CreateCheckpointStep
<1>4. ASSUME NEW D \in SUBSET Task, Cleanup(D) PROVE IInv'
  BY <1>4, CleanupStep
<1>5. ASSUME NEW t \in Task, BeginTurn(t) PROVE IInv'
  BY <1>5, BeginTurnStep
<1>6. ASSUME NEW t \in Task, EndTurn(t) PROVE IInv'
  BY <1>6, EndTurnStep
<1>7. ASSUME NEW t \in Task, TurnFails(t) PROVE IInv'
  BY <1>7, TurnFailsStep
<1>8. ASSUME NEW t \in Task, NEW p \in Patch, NEW S \in SUBSET File, NEW D \in SUBSET File,
             Propose(t, p, S, D)
      PROVE  IInv'
  BY <1>8, ProposeStep
<1>9. ASSUME NEW p \in Patch, NEW S \in SUBSET File, Apply(p, S) PROVE IInv'
  BY <1>9, ApplyStep
<1>10. ASSUME NEW p \in Patch, NEW S \in SUBSET File, Rollback(p, S) PROVE IInv'
  BY <1>10, RollbackStep
<1>11. CASE CheckBase
  BY <1>11, CheckBaseStep
<1>12. ASSUME NEW f \in File, WriteFile(f) PROVE IInv'
  BY <1>12, WriteFileStep
<1>13. ASSUME NEW f \in File, RollBackFile(f) PROVE IInv'
  BY <1>13, RollBackFileStep
<1>14. ASSUME NEW f \in File, PutBack(f) PROVE IInv'
  BY <1>14, PutBackStep
<1>15. ASSUME NEW t \in Task, NEW blind \in BOOLEAN, RunCommand(t, blind) PROVE IInv'
  BY <1>15, RunCommandStep
<1>16. CASE Record
  BY <1>16, RecordStep
<1>17. ASSUME NEW t \in Task, NEW S \in SUBSET File, Restore(t, S) PROVE IInv'
  BY <1>17, RestoreStep
<1>18. ASSUME NEW f \in File, NEW c \in Content, UserEdits(f, c) PROVE IInv'
  BY <1>18, UserEditsStep
<1>19. CASE UserCommits
  BY <1>19, UserCommitsStep
<1>20. CASE Crash
  BY <1>20, CrashStep
<1>21. CASE UNCHANGED vars
  <2>1. UNCHANGED <<disk, head, made, blobs, refs, manifest, patch, snap, turn, op,
                    had, mine, work, cut, undeleted, steps, requests, faults>>
    BY <1>21 DEF vars, tree, store, patches, bounds, history
  <2>2. steps' \in 0..MaxUserSteps /\ requests' \in 0..MaxRequests /\ faults' \in 0..MaxFaults
    BY <2>1 DEF IInv, TypeOK
  <2> QED
    BY <2>1, <2>2, RefusedRestore
<1> QED
  BY <1>1, <1>2, <1>3, <1>4, <1>5, <1>6, <1>7, <1>8, <1>9, <1>10, <1>11, <1>12, <1>13, <1>14,
     <1>15, <1>16, <1>17, <1>18, <1>19, <1>20, <1>21 DEF Next

LEMMA Invariance == Spec => []IInv
BY InitFits, StepKeeps, PTL DEF Spec

\* A manifest that is not there, or torn, captures nothing.
BlankFits ==
  /\ \A t \in Task : manifest[t].state # "whole" => Captured(manifest[t]) = {}
  /\ op.copy.state # "whole" => Captured(op.copy) = {}

LEMMA BlanksStay == IInv /\ BlankFits /\ [Next]_vars => BlankFits'
<1> SUFFICES ASSUME IInv, BlankFits, [Next]_vars PROVE BlankFits'
  OBVIOUS
<1>1. TypeOK /\ OpFits
  BY DEF IInv
<1>2. Idle.copy = NoManifest /\ Captured(NoManifest) = {} /\ Captured(Torn) = {}
  BY IdleIs, ManifestTypes
<1>3. ASSUME NEW u \in Task
      PROVE  \/ manifest'[u] \in {manifest[u], op.copy, NoManifest, Torn}
             \/ manifest'[u].state = "whole"
  <2>1. ASSUME Seal PROVE manifest'[u] = manifest[u] \/ manifest'[u].state = "whole"
    <3>1. PICK c \in Manifest : c = op.copy
      BY <1>1, OpTypes
    <3>2. PICK x : x = [f \in File |-> IF f \in Captured(op.copy) THEN disk[f] ELSE op.copy.left[f]]
      OBVIOUS
    <3>3. c.state = "whole"
      BY <1>1, <2>1, <3>1 DEF Seal, OpFits
    <3>4. manifest' = [manifest EXCEPT ![op.task] = [c EXCEPT !.left = x]]
      BY <2>1, <3>1, <3>2 DEF Seal, Keeps, Manifest
    <3>5. [c EXCEPT !.left = x].state = "whole"
      BY <3>3 DEF Manifest
    <3> QED
      BY <1>1, <3>4, <3>5 DEF TypeOK
  <2>2. EmptyManifest.state = "whole"
    BY DEF EmptyManifest, NoManifest
  <2>3. ASSUME NEW D \in SUBSET Task, Cleanup(D) PROVE manifest'[u] \in {manifest[u], NoManifest}
    BY <2>3 DEF Cleanup
  <2>4. ASSUME Crash PROVE manifest'[u] \in {manifest[u], Torn}
    BY <1>1, <2>4 DEF Crash, TypeOK
  <2>5. ASSUME Keep \/ CheckBase PROVE manifest'[u] \in {manifest[u], op.copy}
    BY <1>1, <2>5 DEF Keep, CheckBase, Keeps, TypeOK
  <2>6. ASSUME CreateCheckpoint PROVE manifest'[u] \in {manifest[u], EmptyManifest}
    BY <1>1, <2>6 DEF CreateCheckpoint, Keeps, TypeOK
  <2> QED
    BY <2>1, <2>2, <2>3, <2>4, <2>5, <2>6
       DEF Next, vars, BeginTurn, EndTurn, TurnFails, Propose, Apply, Rollback, WriteFile,
           RollBackFile, PutBack, RunCommand, Record, Restore, UserEdits, UserCommits, UserActs
<1>4. \/ op'.copy \in {op.copy, NoManifest} \/ op'.copy.state = "whole"
      \/ \E t \in Task : op'.copy = manifest[t]
  <2>1. op \in Op
    BY <1>1 DEF TypeOK
  <2>2. ASSUME op' = op \/ op' = Idle PROVE op'.copy \in {op.copy, NoManifest}
    BY <1>2, <2>2
  <2>3. ASSUME \/ \E at : op' = [op EXCEPT !.at = at]
               \/ \E S : op' = [op EXCEPT !.todo = S]
               \/ \E S, at : op' = [op EXCEPT !.todo = S, !.at = at]
        PROVE  op'.copy = op.copy
    BY <2>1, <2>3 DEF Op
  <2>4. ASSUME NEW t \in Task, BeginTurn(t) PROVE op'.copy \in {op.copy, NoManifest}
    BY <1>2, <2>4, BeginsIs DEF BeginTurn
  <2>5. ASSUME NEW t \in Task, EndTurn(t) PROVE op'.copy \in {op.copy, manifest[t]}
    <3>1. PICK o \in Op : o = Begins("seal", "seal", t)
      BY BeginsIs
    <3>2. op' = [o EXCEPT !.copy = manifest[t]] \/ op' = op
      BY <2>5, <3>1 DEF EndTurn
    <3> QED
      BY <3>1, <3>2 DEF Op
  <2>6. ASSUME NEW p \in Patch, NEW S \in SUBSET File, Apply(p, S)
        PROVE  op'.copy.state = "whole" \/ \E t \in Task : op'.copy = manifest[t]
    <3>1. PICK t \in Task :
            /\ t = patch[p].task /\ manifest[t].state # "torn"
            /\ op'.copy.state = manifest[t].state
      BY <2>6, ApplyCopies
    <3>2. CASE manifest[t].state = "none"
      <4>1. PICK o \in Op : o = Begins("apply", "check", t)
        BY BeginsIs
      <4>2. op' = [[o EXCEPT !.patch = p, !.todo = S, !.bytes = Fresh] EXCEPT !.copy = manifest[t]]
        BY <2>6, <3>1, <3>2, <4>1 DEF Apply
      <4>3. op'.copy = manifest[t]
        BY <4>1, <4>2 DEF Op
      <4> QED
        BY <4>3
    <3> QED
      BY <1>1, <3>1, <3>2, ManifestTypes DEF TypeOK
  <2>7. ASSUME NEW p \in Patch, NEW S \in SUBSET File, Rollback(p, S)
        PROVE  op'.copy = NoManifest
    <3>1. PICK t \in Task \cup {NoTask} : t = patch[p].task
      BY <1>1 DEF TypeOK
    <3>2. PICK o \in Op : o = Begins("rollback", "back", t)
      BY BeginsIs
    <3>3. op' = [o EXCEPT !.patch = p, !.todo = S] /\ o.copy = NoManifest
      BY <2>7, <3>1, <3>2, BeginsIs DEF Rollback
    <3> QED
      BY <3>2, <3>3 DEF Op
  <2>8. ASSUME NEW t \in Task, NEW blind \in BOOLEAN, RunCommand(t, blind)
        PROVE  op'.copy = NoManifest
    <3>1. PICK o \in Op : o = Begins("command", "record", t)
      BY BeginsIs
    <3>2. PICK s : s = IF blind THEN Nowhere ELSE CensusOf(disk, head)
      OBVIOUS
    <3>3. op' = [o EXCEPT !.seen = s, !.blind = blind] /\ o.copy = NoManifest
      BY <2>8, <3>1, <3>2, BeginsIs DEF RunCommand
    <3> QED
      BY <3>1, <3>3 DEF Op
  <2>9. ASSUME Record PROVE op'.copy \in {op.copy, NoManifest} \/ op'.copy.state = "whole"
    <3>1. PICK t \in Task : t = op.task
      BY <1>1, <2>9 DEF OpFits, Record
    <3>2. PICK m \in Manifest : m = manifest[t]
      BY <1>1 DEF TypeOK
    <3>3. \/ op' = Idle
          \/ m.state = "whole" /\ op' = [op EXCEPT !.at = "keep", !.copy = [m EXCEPT !.covered = FALSE]]
          \/ m.state = "whole" /\ op' = [op EXCEPT !.at = "keep", !.copy = Recorded]
      BY <2>9, <3>1, <3>2, RecordGoes
    <3>4. [m EXCEPT !.covered = FALSE].state = m.state
      BY DEF Manifest
    <3>5. Recorded.state = m.state
      BY <3>1, <3>2 DEF Recorded, WithPaths, Manifest
    <3> QED
      BY <1>2, <2>1, <3>3, <3>4, <3>5 DEF Op
  <2>10. ASSUME NEW t \in Task, NEW S \in SUBSET File, Restore(t, S)
         PROVE  op'.copy = op.copy \/ op'.copy.state = "whole"
    <3>1. PICK m \in Manifest : m = manifest[t]
      BY <1>1 DEF TypeOK
    <3>2. PICK e : e = {f \in S : m.was[f] # Absent \/ disk[f] # Absent}
      OBVIOUS
    <3>3. PICK at : at = IF e = {} THEN "keep" ELSE "put"
      OBVIOUS
    <3>4. PICK o \in Op : o = Begins("restore", at, t)
      BY <3>3, BeginsIs
    <3>5. PICK c : c = Marked(m, e)
      OBVIOUS
    <3>6. m.state = "whole" /\ (op' = op \/ op' = [o EXCEPT !.todo = e, !.copy = c])
      BY <2>10, <3>1, <3>2, <3>3, <3>4, <3>5 DEF Restore
    <3>7. c.state = m.state
      BY <3>2, <3>5, MarkedIs
    <3> QED
      BY <3>4, <3>6, <3>7 DEF Op
  <2>11. ASSUME NEW f \in File, WriteFile(f) PROVE op'.copy \in {op.copy, NoManifest}
    BY <2>2, <2>3, <2>11 DEF WriteFile, Ends
  <2>12. ASSUME NEW f \in File, RollBackFile(f) \/ PutBack(f) PROVE op'.copy \in {op.copy, NoManifest}
    BY <2>2, <2>3, <2>12 DEF RollBackFile, PutBack, Ends
  <2>13. ASSUME Keep \/ Seal \/ Crash \/ CreateCheckpoint \/ CheckBase \/ UNCHANGED op
         PROVE  op'.copy \in {op.copy, NoManifest}
    BY <2>2, <2>3, <2>13 DEF Keep, Seal, Crash, CreateCheckpoint, CheckBase, Ends, Goes
  <2>14. ASSUME NEW D \in SUBSET Task, Cleanup(D) PROVE op'.copy \in {op.copy, NoManifest}
    BY <2>2, <2>14 DEF Cleanup, Ends
  <2>15. ASSUME \/ \E t \in Task : TurnFails(t)
                \/ \E t \in Task, p \in Patch, S \in SUBSET File, D \in SUBSET File : Propose(t, p, S, D)
                \/ \E f \in File, c \in Content : UserEdits(f, c)
                \/ UserCommits \/ UNCHANGED vars
         PROVE  UNCHANGED op
    BY <2>15 DEF TurnFails, Propose, UserEdits, UserCommits, UserActs, vars
  <2> QED
    BY <2>4, <2>5, <2>6, <2>7, <2>8, <2>9, <2>10, <2>11, <2>12, <2>13, <2>14, <2>15 DEF Next
<1> QED
  BY <1>2, <1>3, <1>4 DEF BlankFits

LEMMA BlankInvariance == Spec => []BlankFits
<1>1. Init => BlankFits
  BY IdleIs, ManifestTypes DEF Init, BlankFits
<1> QED
  BY <1>1, BlanksStay, Invariance, PTL DEF Spec

\* While a patch is being written, or a rewind puts files back, nothing else
\* changes the working tree.
LEMMA WhoWrites ==
  ASSUME IInv, Next, NEW f \in File, disk'[f] # disk[f], op.at \in {"write", "put"}
  PROVE  /\ f \in op.todo
         /\ op.at = "put" => disk'[f] = op.copy.was[f]
<1>1. TypeOK /\ OpFits
  BY DEF IInv
<1>2. ~ Free
  BY FreeIs
<1>3. ASSUME NEW g \in File, WriteFile(g) \/ PutBack(g)
      PROVE  /\ f \in op.todo
             /\ op.at = "put" => disk'[f] = op.copy.was[f]
  <2>1. disk' = disk \/ \E c : disk' = [disk EXCEPT ![g] = c] /\ (op.at = "put" => c = op.copy.was[g])
    BY <1>3 DEF WriteFile, PutBack, Writes
  <2>2. f = g
    BY <1>1, <2>1 DEF TypeOK
  <2>3. g \in op.todo
    BY <1>3 DEF WriteFile, PutBack
  <2> QED
    BY <1>1, <2>1, <2>2, <2>3 DEF TypeOK
<1>4. ASSUME NEW g \in File PROVE ~ RollBackFile(g)
  BY DEF RollBackFile
<1>5. \A g \in File : ~ \E c \in Content : UserEdits(g, c)
  BY <1>2 DEF UserEdits, UserActs
<1>6. \A t \in Task, blind \in BOOLEAN : ~ RunCommand(t, blind)
  BY <1>2 DEF RunCommand, Serves
<1>7. \/ Keep \/ Seal \/ CreateCheckpoint
      \/ \E D \in SUBSET Task : Cleanup(D)
      \/ \E t \in Task : BeginTurn(t) \/ EndTurn(t) \/ TurnFails(t)
      \/ \E t \in Task, p \in Patch, S \in SUBSET File, D \in SUBSET File : Propose(t, p, S, D)
      \/ \E p \in Patch, S \in SUBSET File : Apply(p, S) \/ Rollback(p, S)
      \/ CheckBase \/ Record
      \/ \E t \in Task, S \in SUBSET File : Restore(t, S)
      \/ UserCommits \/ Crash
      => disk' = disk
  BY DEF Keep, Seal, CreateCheckpoint, Cleanup, BeginTurn, EndTurn, TurnFails, Propose, Apply,
         Rollback, CheckBase, Record, Restore, UserCommits, Crash, tree
<1> QED
  BY <1>3, <1>4, <1>5, <1>6, <1>7 DEF Next

-----------------------------------------------------------------------------
(* The theorems *)

\* Every variable keeps its type: no manifest, stored patch or request under way
\* leaves what its parts may hold, in any interleaving of requests, edits of the
\* user and deaths (checkpoint.rs, patch_engine.rs).
THEOREM TypeCorrect == Spec => []TypeOK
<1>1. IInv => TypeOK
  BY DEF IInv
<1> QED
  BY <1>1, Invariance, PTL

\* A turn that was not cut short is on record: every file its task changed is in
\* the checkpoint, what it last left there is what a rewind expects, and the
\* store has every content to go back to, collected or not
\* (record_command_effects, checkpoint_for_patch, seal_checkpoint, mark_restored,
\* reference_content, collect_garbage).
THEOREM TurnsAreOnRecord == Spec => []TurnIsOnRecord
<1>1. ASSUME IInv, BlankFits PROVE TurnIsOnRecord
  <2>1. TypeOK /\ ManifestsFit /\ SealsFit /\ StoreFits
    BY <1>1 DEF IInv
  <2>2. ChangesAreCovered
    <3> SUFFICES ASSUME NEW t \in Task, Free, turn[t] = "over", cut[t] = "no",
                        manifest[t].state = "whole", manifest[t].covered,
                        NEW f \in File, mine[t][f] # NotHere
                 PROVE  f \in Captured(manifest[t])
      BY DEF ChangesAreCovered
    <3>1. Trusted(t, manifest[t])
      BY DEF Trusted
    <3>2. Covers(t, manifest[t])
      BY <2>1, <3>1, FreeIs DEF ManifestsFit
    <3> QED
      BY <3>2 DEF Covers
  <2>3. OwnChangesDoNotConflict
    <3> SUFFICES ASSUME NEW t \in Task, Free, turn[t] = "over", cut[t] = "no",
                        manifest[t].covered, NEW f \in Captured(manifest[t]),
                        Conflicts(manifest[t], f), disk[f] = mine[t][f]
                 PROVE  FALSE
      BY DEF OwnChangesDoNotConflict
    <3>1. f \in File
      BY DEF Captured
    <3>2. manifest[t].state = "whole"
      BY <1>1 DEF BlankFits
    <3>3. Matches(t, manifest[t], File)
      BY <2>1, <3>2, FreeIs DEF SealsFit, Settled
    <3>4. mine[t][f] \in Content
      BY <2>1, <3>1 DEF TypeOK
    <3>5. mine[t][f] = manifest[t].left[f]
      BY <3>1, <3>3, <3>4 DEF Matches
    <3>6. manifest[t].left[f] # NotHere
      BY <3>4, <3>5, Constants DEF Content, Absent, NotHere
    <3> QED
      BY <3>5, <3>6 DEF Conflicts, Expected
  <2> QED
    BY <2>1, <2>2, <2>3 DEF TurnIsOnRecord, StoreFits
<1> QED
  BY <1>1, Invariance, BlankInvariance, PTL

\* A rewind never overwrites what the user wrote after the checkpoint captured
\* the file and which no later seal took in, whatever was edited, committed,
\* applied or cut short before (plan_for, mark_restored).
THEOREM UnseenWorkSurvives == Spec => UnseenWorkIsKept
<1>1. ASSUME IInv, Next, NEW f \in File, PutsBack(f) PROVE work[op.task][f] # "unseen"
  <2>1. op.at = "put" /\ f \in op.todo
    BY <1>1, WhoWrites DEF PutsBack
  <2> QED
    BY <1>1, <2>1 DEF IInv, WorkFits
<1>2. ASSUME IInv, [Next]_vars
      PROVE  [\A f \in File : PutsBack(f) => work[op.task][f] # "unseen"]_vars
  BY <1>1, <1>2
<1> QED
  BY <1>2, Invariance, PTL DEF Spec, UnseenWorkIsKept

\* A patch writes a file only once the manifest on disk says what was there and
\* the store has it, whatever the commands do (apply_stored_patch_with_baseline,
\* checkpoint_for_patch).
THEOREM CheckpointComesFirst == Spec => [][CheckpointBeforeWrite]_vars
<1>1. ASSUME IInv, Next PROVE CheckpointBeforeWrite
  <2> SUFFICES ASSUME NEW f \in File, op.at = "write", disk'[f] # disk[f],
                      op.copy.state = "whole"
               PROVE  manifest[op.task].was[f] \in blobs \cup {Absent}
    BY DEF CheckpointBeforeWrite
  <2>1. f \in op.todo
    BY <1>1, WhoWrites
  <2>2. OpFits /\ CopyFits /\ StoreFits
    BY <1>1 DEF IInv
  <2>3. PICK t \in Task : t = op.task
    BY <2>2 DEF OpFits, Copying
  <2>4. manifest[t] = op.copy /\ f \in Captured(op.copy)
    BY <2>1, <2>2, <2>3 DEF CopyFits
  <2>5. Holds(manifest[t]) \subseteq blobs
    BY <2>2 DEF StoreFits, ManifestContentIsStored
  <2>6. manifest[t].was[f] = Absent \/ manifest[t].was[f] \in Holds(manifest[t])
    BY <2>4 DEF Holds
  <2> QED
    BY <2>3, <2>5, <2>6
<1>2. ASSUME IInv, [Next]_vars PROVE [CheckpointBeforeWrite]_vars
  BY <1>1, <1>2
<1> QED
  BY <1>2, Invariance, PTL DEF Spec

\* What a patch writes can be taken back, and taking it back leads to a content the
\* file had before its task first changed it, in any order of patches, commands,
\* edits, rewinds and deaths: except a file that a command first changed by writing
\* where Git reported a deletion (apply_stored_patch_with_baseline,
\* checkpoint_for_patch, restore, add_paths, record_command_effects_between).
THEOREM TurnsCanBeTakenBack == Spec => TurnCanBeTakenBack
<1>1. ASSUME IInv, Next PROVE RewindGoesBack
  <2> SUFFICES ASSUME NEW f \in File, PutsBack(f), op.copy.covered, cut[op.task] # "unrecorded",
                      f \notin undeleted[op.task]
               PROVE  disk'[f] \in had[op.task][f]
    BY DEF RewindGoesBack, GoesBack
  <2>1. op.at = "put" /\ f \in op.todo /\ disk'[f] = op.copy.was[f]
    BY <1>1, WhoWrites DEF PutsBack
  <2>2. TypeOK /\ OpFits /\ CopyFits /\ ManifestsFit
    BY <1>1 DEF IInv
  <2>3. PICK t \in Task : t = op.task
    BY <2>1, <2>2 DEF OpFits, Copying
  <2>4. Copying /\ op.copy.state = "whole"
    BY <2>1, <2>2 DEF Copying, OpFits
  <2>5. f \in Captured(op.copy)
    BY <2>1, <2>2, <2>3, <2>4 DEF CopyFits
  <2>6. Faithful(t, op.copy)
    BY <2>2, <2>3, <2>4 DEF ManifestsFit, Trusted
  <2> QED
    BY <2>1, <2>3, <2>5, <2>6 DEF Faithful
<1>2. ASSUME IInv, [Next]_vars PROVE [RewindGoesBack]_vars
  BY <1>1, <1>2
<1>3. Spec => [][RewindGoesBack]_vars
  BY <1>2, Invariance, PTL DEF Spec
<1> QED
  BY <1>3, CheckpointComesFirst, PTL DEF TurnCanBeTakenBack
=============================================================================
