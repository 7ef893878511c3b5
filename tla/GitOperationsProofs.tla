------------------------- MODULE GitOperationsProofs -------------------------
(* What the shell does to a repository, for any files, branches, contents and *)
(* steps of the user between its Git processes.                               *)
EXTENDS GitOperations, TLAPS, WellFoundedInduction

-----------------------------------------------------------------------------
(* The invariant *)

\* A commit is made after its parent, and commits are made in order.
CommitsFit ==
  /\ \A c \in Made : commit[c].parent \in Made \cup {NoCommit} /\ commit[c].parent < c
  /\ \A c \in Made, d \in Commit \ Made : c < d

\* What a preparation reviewed was there.
RecsFit ==
  \A p \in Prep : rec[p].state # "none" =>
    rec[p].head \in Made /\ (rec[p].kind # "commit" => rec[p].oid \in Made)

CommitAt == {"content", "compose", "hooks", "make", "recheck", "ref", "sync", "write", "settle"}
MadeAt == {"recheck", "ref", "sync", "write", "settle"}
BranchAt == {"consume", "git", "applied"}

\* What a request holds is of the preparation it runs, and a commit it has made is
\* the reviewed one.
ReqFits ==
  /\ at \in CommitAt => /\ Mine.kind = "commit" /\ Mine.state = "prepared"
                        /\ req.files # {} /\ req.files \subseteq Mine.files
  /\ at \in {"hooks", "make"} => req.composed = ReviewedTree
  /\ at \in MadeAt => /\ Mine.made \in Made
                      /\ commit[Mine.made] = [parent |-> Mine.head, tree |-> ReviewedTree,
                                              by |-> req.prep, files |-> req.files]
  /\ at \in BranchAt => Mine.kind # "commit"
  /\ at = "consume" => Mine.state = "prepared"
  /\ at \in {"git", "applied"} => Mine.state = "applying"

\* What was made for a preparation is what it reviewed, in a branch or not.
MadeAsReviewed ==
  \A c \in Made :
    LET p == commit[c].by IN
    p # User => /\ rec[p].state # "none" /\ commit[c].parent = rec[p].head
                /\ commit[c].files # {} /\ commit[c].files \subseteq rec[p].files
                /\ commit[c].tree = Overlay(TreeOf(rec[p].head), commit[c].files, rec[p].blobs)

\* What is not consumed has not run.
RunsFit ==
  /\ \A p \in Prep : /\ ran[p] \in {0, 1}
                     /\ rec[p].state \in {"none", "prepared"} => ran[p] = 0
  /\ at = "git" => ran[req.prep] = 0

\* While nothing else moved HEAD or a branch, the branch is as prepared, or as
\* the mutation left it.
Prepared(r) == ref[r.branch] = IF r.kind = "create" THEN NoCommit ELSE r.oid
Landed(r) == /\ ref[r.branch] = IF r.kind = "delete" THEN NoCommit ELSE r.oid
             /\ r.kind = "switch" => head = r.branch
QuietFits ==
  \A p \in quiet : /\ rec[p].kind # "commit" /\ rec[p].state # "none"
                   /\ IF ran[p] = 0 THEN Prepared(rec[p]) ELSE Landed(rec[p])

\* While the index a commit found is known, only the commit's own step moves it.
Free(before) == {f \in req.files : before[f] = TreeOf(Mine.head)[f]}
StagedFits ==
  /\ staged # {} => at \in {"sync", "write", "settle"}
  /\ \A before \in staged :
       /\ head = Mine.branch => HeadCommit = Mine.made
       /\ at \in {"sync", "write"} => index = before
       /\ at = "write" => req.picks = Free(before)
       /\ at = "settle" => index = Overlay(before, Free(before), TreeOf(Mine.made))

IInv == /\ TypeOK /\ CommitsFit /\ RecsFit /\ ReqFits /\ MadeAsReviewed
        /\ RunsFit /\ QuietFits /\ StagedFits

-----------------------------------------------------------------------------
(* Histories *)

LEMMA LeastOfSome ==
  ASSUME NEW T \in SUBSET Nat, T # {}
  PROVE  \E x \in T : \A y \in T : x <= y
<1> DEFINE R == OpToRel(<, Nat)
<1>1. IsWellFoundedOn(R, Nat)
  BY NatLessThanWellFounded
<1>2. R = {ss \in Nat \X Nat : ss[1] < ss[2]}
  BY DEF OpToRel
<1> HIDE DEF R
<1>3. PICK x \in T : \A y \in T : <<y, x>> \notin R
  BY <1>1, WFMin
<1>4. \A y \in T : ~(y < x)
  BY <1>2, <1>3
<1>5. \A y \in T : x <= y
  <2> TAKE y \in T
  <2>1. x \in Nat /\ y \in Nat /\ ~(y < x)
    BY <1>4
  <2> QED BY <2>1
<1> QED BY <1>5

LEMMA Numbers == /\ MaxCommits \in Nat \ {0} /\ MaxContent \in Nat \ {0} /\ MaxSteps \in Nat
                 /\ MaxCrashes \in Nat /\ Grown \in 1..MaxCommits /\ Main \in Branch
                 /\ NoCommit = 0 /\ NoCommit \notin Commit /\ Commit \subseteq Nat
  BY MaxCommitsAssumption, MaxContentAssumption, MaxStepsAssumption, MaxCrashesAssumption,
     GrownAssumption, MainAssumption DEF NoCommit, Commit

\* The recursion of `History`, as an equation.
Ancestors(p, n) == IF n = 0 THEN {} ELSE {n} \cup p[commit[n].parent]
IsLineage(p) == p = [n \in 0..MaxCommits |-> Ancestors(p, n)]
Lineage == CHOOSE p : IsLineage(p)

\* A parent is before its commit; what is not made is its own parent.
ParentsFit ==
  \A c \in Commit : commit[c].parent \in 0..c /\ (commit[c].parent # c => commit[c].parent \in Made \cup {NoCommit})

LEMMA LineageExists ==
  ASSUME ParentsFit PROVE \E p : IsLineage(p)
<1> DEFINE N == 0..MaxCommits
           Fits(p, k) == /\ p \in [N -> SUBSET N]
                         /\ \A n \in 0..k : p[n] = Ancestors(p, n)
           Bad == {k \in N : ~ \E p : Fits(p, k)}
<1>a. \A n \in N \ {0} : n \in Commit /\ commit[n].parent \in 0..n
  BY Numbers DEF ParentsFit, Commit
<1>1. Bad = {}
  <2> SUFFICES ASSUME Bad # {} PROVE FALSE
    OBVIOUS
  <2>1. Bad \in SUBSET Nat
    BY Numbers
  <2>2. PICK k \in Bad : \A j \in Bad : k <= j
    BY <2>1, LeastOfSome
  <2>3. k \in N
    OBVIOUS
  <2>4. CASE k = 0
    <3> DEFINE p == [n \in N |-> {}]
    <3>1. Fits(p, 0)
      BY Numbers DEF Ancestors
    <3> QED BY <2>4, <3>1
  <2>5. CASE k # 0
    <3>1. k - 1 \in N /\ k - 1 \notin Bad
      BY <2>2, <2>3, <2>5, Numbers
    <3>2. PICK p : Fits(p, k - 1)
      BY <3>1
    <3>3. commit[k].parent \in 0..k
      BY <1>a, <2>3, <2>5
    <3> DEFINE of == IF commit[k].parent = k THEN {} ELSE p[commit[k].parent]
               q == [p EXCEPT ![k] = {k} \cup of]
    <3>4. of \in SUBSET N
      BY <2>3, <3>2, <3>3, Numbers
    <3>5. q \in [N -> SUBSET N] /\ q[k] = {k} \cup of /\ \A n \in N \ {k} : q[n] = p[n]
      BY <2>3, <3>2, <3>4
    <3>6. q[k] = Ancestors(q, k)
      <4>1. commit[k].parent = k => q[k] = {k} \cup q[k]
        BY <3>5
      <4>2. commit[k].parent # k => q[commit[k].parent] = of
        BY <3>3, <3>5, <2>3, Numbers
      <4> QED BY <4>1, <4>2, <3>5, <2>5 DEF Ancestors
    <3>7. \A n \in 0..(k - 1) : q[n] = Ancestors(q, n)
      <4> TAKE n \in 0..(k - 1)
      <4>1. n \in N /\ n # k /\ q[n] = p[n] /\ p[n] = Ancestors(p, n)
        BY <2>3, <3>2, <3>5, Numbers
      <4>2. CASE n = 0
        BY <4>1, <4>2 DEF Ancestors
      <4>3. CASE n # 0
        <5>1. commit[n].parent \in 0..n
          BY <1>a, <4>1, <4>3
        <5>2. commit[n].parent \in N \ {k}
          BY <5>1, <2>3, Numbers
        <5>3. q[commit[n].parent] = p[commit[n].parent]
          BY <5>2, <3>5
        <5> QED BY <4>1, <4>3, <5>3 DEF Ancestors
      <4> QED BY <4>2, <4>3
    <3>8. \A n \in 0..k : n = k \/ n \in 0..(k - 1)
      BY <2>3, Numbers
    <3>9. Fits(q, k)
      BY <3>5, <3>6, <3>7, <3>8
    <3> QED BY <3>9, <2>2
  <2> QED BY <2>4, <2>5
<1>2. MaxCommits \in N /\ MaxCommits \notin Bad
  BY <1>1, Numbers
<1>3. PICK p : Fits(p, MaxCommits)
  BY <1>2
<1>4. p = [n \in N |-> p[n]]
  BY <1>3
<1>5. p = [n \in N |-> Ancestors(p, n)]
  BY <1>3, <1>4
<1> QED BY <1>5 DEF IsLineage

\* A made commit's history is itself and its parent's.
LEMMA PastStep ==
  ASSUME ParentsFit, NEW c \in Made
  PROVE  Past(c) = {c} \cup Past(commit[c].parent)
<1>1. IsLineage(CHOOSE p : IsLineage(p))
  BY LineageExists
<1>2. IsLineage(Lineage)
  BY <1>1 DEF Lineage
<1>3. \A d \in Made : History[d] = Lineage[d]
  <2> SUFFICES ASSUME NEW d \in Made PROVE History[d] = Lineage[d]
    OBVIOUS
  <2>1. d \in Commit
    BY DEF Made
  <2> QED BY <2>1 DEF History, Lineage, IsLineage, Ancestors
<1>4. \A n \in 0..MaxCommits : Lineage[n] = Ancestors(Lineage, n)
  BY <1>2 DEF IsLineage
<1>5. \A d \in Made \cup {NoCommit} : Past(d) = Lineage[d]
  <2>1. Lineage[0] = {}
    <3>1. 0 \in 0..MaxCommits
      BY Numbers
    <3> QED BY <1>4, <3>1 DEF Ancestors
  <2>2. \A d \in Made : d # NoCommit
    BY Numbers DEF Made
  <2> QED BY <1>3, <2>1, <2>2, Numbers DEF Past
<1>6. c \in 0..MaxCommits /\ c # 0 /\ c \in Commit
  BY Numbers DEF Made, Commit
<1>7. commit[c].parent \in Made \cup {NoCommit}
  BY <1>6 DEF ParentsFit, Made
<1> QED BY <1>4, <1>5, <1>6, <1>7 DEF Ancestors

LEMMA MadeAreNumbers == Made \subseteq Nat /\ NoCommit \in Nat
  BY Numbers DEF Made

LEMMA PastOfNone == Past(NoCommit) = {}
  BY DEF Past

LEMMA PastIsMade ==
  ASSUME ParentsFit, NEW c \in Made \cup {NoCommit}
  PROVE  Past(c) \subseteq Made
<1> DEFINE Bad == {d \in Made : ~(Past(d) \subseteq Made)}
<1>1. Bad = {}
  <2> SUFFICES ASSUME Bad # {} PROVE FALSE
    OBVIOUS
  <2>1. Bad \in SUBSET Nat
    BY Numbers DEF Made
  <2>2. PICK d \in Bad : \A e \in Bad : d <= e
    BY <2>1, LeastOfSome
  <2>3. d \in Commit /\ d \in Made /\ commit[d].parent \in Made \cup {NoCommit}
        /\ commit[d].parent < d /\ d \in Nat
    BY Numbers DEF Made, ParentsFit
  <2>a. commit[d].parent \in Nat
    BY <2>3, MadeAreNumbers
  <2>4. commit[d].parent \notin Bad
    BY <2>2, <2>3, <2>a
  <2>5. Past(commit[d].parent) \subseteq Made
    BY <2>3, <2>4, PastOfNone
  <2> QED BY <2>3, <2>5, PastStep
<1> QED BY <1>1, PastOfNone

-----------------------------------------------------------------------------
(* What steps do to commits and records *)

CommitRecord == [parent : Commit \cup {NoCommit}, tree : Tree, by : Prep \cup {User},
                 files : SUBSET File]

LEMMA FreshIs ==
  ASSUME HasFresh
  PROVE  Fresh \in Commit \ Made /\ \A d \in Commit \ Made : Fresh <= d
<1>1. Commit \ Made \in SUBSET Nat /\ Commit \ Made # {}
  BY Numbers DEF HasFresh
<1>2. \E c \in Commit \ Made : \A d \in Commit \ Made : c <= d
  BY <1>1, LeastOfSome
<1> QED BY <1>2 DEF Fresh

\* A step makes no commit, or one whose parent is made.
Makes(r) == /\ HasFresh /\ r \in CommitRecord /\ r.parent \in Made
            /\ commit' = [commit EXCEPT ![Fresh] = r]
CommitsGrow == commit' = commit \/ \E r : Makes(r)

LEMMA ParentsAre == ASSUME TypeOK, CommitsFit PROVE ParentsFit
<1> SUFFICES ASSUME NEW c \in Commit
             PROVE  /\ commit[c].parent \in 0..c
                    /\ commit[c].parent # c => commit[c].parent \in Made \cup {NoCommit}
  BY DEF ParentsFit
<1>0. commit[c].parent \in Commit \cup {NoCommit}
  BY DEF TypeOK
<1>1. c \in Nat /\ commit[c].parent \in Nat
  <2>1. Commit \subseteq Nat /\ NoCommit \in Nat
    BY Numbers, MadeAreNumbers
  <2> QED BY <1>0, <2>1
<1>2. CASE c \in Made
  BY <1>1, <1>2 DEF CommitsFit
<1>3. CASE c \notin Made
  BY <1>1, <1>3 DEF Made
<1> QED BY <1>2, <1>3

LEMMA MadeOnce ==
  ASSUME TypeOK, CommitsFit, NEW r, Makes(r)
  PROVE  /\ commit' \in [Commit -> CommitRecord] /\ Made' = Made \cup {Fresh}
         /\ Fresh \in Commit \ Made /\ commit'[Fresh] = r
         /\ \A c \in Made : commit'[c] = commit[c]
         /\ CommitsFit'
<1>1. /\ commit \in [Commit -> CommitRecord] /\ Fresh \in Commit /\ Fresh \notin Made
      /\ \A d \in Commit \ Made : Fresh <= d
  BY FreshIs DEF Makes, TypeOK, CommitRecord
<1>2. /\ commit' \in [Commit -> CommitRecord] /\ commit'[Fresh] = r
      /\ \A c \in Commit \ {Fresh} : commit'[c] = commit[c]
  BY <1>1 DEF Makes
<1>3. r.parent \in Made /\ r.parent # Fresh
  BY <1>1 DEF Makes
<1>4. Made' = Made \cup {Fresh}
  BY <1>1, <1>2, <1>3 DEF Made
<1>5. \A c \in Made : c < Fresh
  BY <1>1 DEF CommitsFit
<1>6. \A c \in Made' : commit'[c].parent \in Made' \cup {NoCommit} /\ commit'[c].parent < c
  <2> SUFFICES ASSUME NEW c \in Made'
               PROVE  commit'[c].parent \in Made' \cup {NoCommit} /\ commit'[c].parent < c
    OBVIOUS
  <2>1. CASE c = Fresh
    BY <2>1, <1>2, <1>3, <1>4, <1>5
  <2>2. CASE c \in Made
    <3>1. commit'[c] = commit[c]
      BY <2>2, <1>1, <1>2 DEF Made
    <3> QED BY <2>2, <3>1, <1>4 DEF CommitsFit
  <2> QED BY <2>1, <2>2, <1>4
<1>7. \A c \in Made', d \in Commit \ Made' : c < d
  <2> SUFFICES ASSUME NEW c \in Made', NEW d \in Commit \ Made' PROVE c < d
    OBVIOUS
  <2>1. d \in Commit \ Made /\ d # Fresh /\ d \in Nat /\ Fresh \in Nat
    BY <1>1, <1>4, Numbers
  <2>2. Fresh < d
    BY <2>1, <1>1
  <2> QED BY <2>1, <2>2, <1>4 DEF CommitsFit
<1>8. CommitsFit'
  BY <1>6, <1>7 DEF CommitsFit, Commit
<1>9. \A c \in Made : commit'[c] = commit[c]
  BY <1>1, <1>2 DEF Made
<1> QED BY <1>1, <1>2, <1>4, <1>8, <1>9

LEMMA CommitsStay ==
  ASSUME TypeOK, CommitsFit, CommitsGrow
  PROVE  /\ commit' \in [Commit -> CommitRecord] /\ CommitsFit' /\ Made \subseteq Made'
         /\ \A c \in Made : commit'[c] = commit[c]
<1>1. CASE commit' = commit
  BY <1>1 DEF TypeOK, CommitRecord, CommitsFit, Made, TreeOf
<1>2. CASE \E r : Makes(r)
  BY <1>2, MadeOnce
<1> QED BY <1>1, <1>2 DEF CommitsGrow

\* What of a record never changes once it is prepared.
RecSame(p) ==
  /\ rec'[p].kind = rec[p].kind /\ rec'[p].branch = rec[p].branch
  /\ rec'[p].head = rec[p].head /\ rec'[p].oid = rec[p].oid /\ rec'[p].lost = rec[p].lost
  /\ rec'[p].files = rec[p].files /\ rec'[p].blobs = rec[p].blobs
  /\ rec'[p].hooks = rec[p].hooks

LEMMA StateSet ==
  ASSUME rec \in [Prep -> Record], req.prep \in Prep, NEW s \in RecState, SetRec("state", s)
  PROVE  /\ rec' \in [Prep -> Record] /\ rec'[req.prep].state = s
         /\ \A p \in Prep : /\ RecSame(p) /\ rec'[p].made = rec[p].made
                            /\ p # req.prep => rec'[p] = rec[p]
  BY DEF SetRec, Record, RecSame

LEMMA MadeSet ==
  ASSUME rec \in [Prep -> Record], req.prep \in Prep, NEW c \in Commit, SetRec("made", c)
  PROVE  /\ rec' \in [Prep -> Record] /\ rec'[req.prep].made = c
         /\ \A p \in Prep : /\ RecSame(p) /\ rec'[p].state = rec[p].state
                            /\ p # req.prep => rec'[p] = rec[p]
  BY DEF SetRec, Record, RecSame

-----------------------------------------------------------------------------
(* Types *)

RepoTypes ==
  /\ commit \in [Commit -> CommitRecord] /\ ref \in [Branch -> Made \cup {NoCommit}]
  /\ head \in Branch /\ ref[head] # NoCommit
TreeTypes == index \in Tree /\ work \in Tree /\ hooks \in BOOLEAN
RecTypes == rec \in [Prep -> Record]
ReqTypes ==
  /\ at \in Place
  /\ req \in [prep : Prep, files : SUBSET File, composed : Tree, picks : SUBSET File]
HistoryTypes ==
  /\ steps \in 0..MaxSteps /\ crashes \in 0..MaxCrashes
  /\ ran \in [Prep -> Nat] /\ quiet \subseteq Prep /\ staged \subseteq Tree

LEMMA TypesSplit ==
  /\ TypeOK <=> RepoTypes /\ TreeTypes /\ RecTypes /\ ReqTypes /\ HistoryTypes
  /\ TypeOK' <=> RepoTypes' /\ TreeTypes' /\ RecTypes' /\ ReqTypes' /\ HistoryTypes'
  BY DEF TypeOK, RepoTypes, TreeTypes, RecTypes, ReqTypes, HistoryTypes, CommitRecord, Exists

LEMMA Trees ==
  ASSUME TypeOK
  PROVE  /\ \A c \in Commit : TreeOf(c) \in Tree
         /\ \A t, u \in Tree : \A fs : Overlay(t, fs, u) \in Tree
         /\ NoTree \in Tree /\ Made \subseteq Commit
         /\ HeadCommit \in Made /\ NoReq \in [prep : Prep, files : SUBSET File, composed : Tree,
                                              picks : SUBSET File]
         /\ req.prep \in Prep /\ Mine \in Record
         /\ \A b \in Branch : Exists(b) => ref[b] \in Made
<1>1. \A c \in Commit : TreeOf(c) \in Tree
  BY DEF TypeOK, TreeOf
<1>2. \A t, u \in Tree : \A fs : Overlay(t, fs, u) \in Tree
  BY DEF Overlay, Tree
<1>3. NoTree \in Tree
  BY Numbers DEF NoTree, Tree, Content
<1>4. (CHOOSE p \in Prep : TRUE) \in Prep
  BY PrepAssumption
<1>5. NoReq \in [prep : Prep, files : SUBSET File, composed : Tree, picks : SUBSET File]
  BY <1>3, <1>4 DEF NoReq
<1>6. req.prep \in Prep /\ Mine \in Record
  BY DEF TypeOK, Mine
<1>7. HeadCommit \in Made /\ \A b \in Branch : Exists(b) => ref[b] \in Made
  BY DEF TypeOK, HeadCommit, Exists
<1> QED BY <1>1, <1>2, <1>3, <1>5, <1>6, <1>7 DEF Made

LEMMA InitTypes == Init => TypeOK /\ CommitsFit
<1> SUFFICES ASSUME Init PROVE TypeOK /\ CommitsFit
  OBVIOUS
<1>1. \A c \in Commit : c <= Grown => Early(c) \in CommitRecord
  <2> SUFFICES ASSUME NEW c \in Commit, c <= Grown PROVE Early(c) \in CommitRecord
    OBVIOUS
  <2>1. c - 1 \in Commit \cup {NoCommit}
    BY Numbers DEF Commit
  <2>2. [f \in File |-> IF c % 2 = 1 THEN 1 ELSE MaxContent] \in Tree
    BY Numbers DEF Tree, Content
  <2> QED BY <2>1, <2>2 DEF Early, CommitRecord
<1>2. \A c \in Commit : NotMade(c) \in CommitRecord
  <2>1. NoTree \in Tree
    BY Numbers DEF NoTree, Tree, Content
  <2> QED BY <2>1 DEF NotMade, CommitRecord
<1>3. commit \in [Commit -> CommitRecord]
  BY <1>1, <1>2 DEF Init
<1>4. \A c \in Commit : commit[c].parent = IF c <= Grown THEN c - 1 ELSE c
  BY DEF Init, Early, NotMade
<1>5. Made = 1..Grown
  BY <1>4, Numbers DEF Made, Commit
<1>6. ref \in [Branch -> Made \cup {NoCommit}] /\ head \in Branch /\ ref[head] # NoCommit
  <2>1. 0..Grown = Made \cup {NoCommit}
    BY <1>5, Numbers
  <2> QED BY <2>1 DEF Init, Exists
<1>7. RepoTypes
  BY <1>3, <1>6 DEF RepoTypes
<1>8. HeadCommit \in Commit
  BY <1>6 DEF HeadCommit, Made
<1>9. TreeTypes
  BY <1>3, <1>8 DEF Init, TreeTypes, TreeOf, CommitRecord
<1>10. RecTypes
  <2>1. NoTree \in Tree
    BY Numbers DEF NoTree, Tree, Content
  <2>2. NoRec \in Record
    BY <2>1, Numbers DEF NoRec, Record, Kind, RecState
  <2> QED BY <2>2 DEF Init, RecTypes
<1>11. ReqTypes
  <2>1. NoTree \in Tree
    BY Numbers DEF NoTree, Tree, Content
  <2>2. (CHOOSE p \in Prep : TRUE) \in Prep
    BY PrepAssumption
  <2> QED BY <2>1, <2>2 DEF Init, ReqTypes, NoReq, Place
<1>12. HistoryTypes
  BY Numbers DEF Init, HistoryTypes
<1>13. CommitsFit
  BY <1>4, <1>5, Numbers DEF CommitsFit, Commit
<1> QED BY <1>7, <1>9, <1>10, <1>11, <1>12, <1>13, TypesSplit

\* A preparation writes one record of what it found, and nothing else.
Prepares(p, r) ==
  /\ at = "idle" /\ rec[p].state = "none" /\ rec' = [rec EXCEPT ![p] = r]
  /\ r.state = "prepared" /\ r.head \in Made /\ (r.kind # "commit" => r.oid \in Made)
  /\ UNCHANGED <<repository, at, req, history>>

LEMMA PreparingKinds ==
  ASSUME TypeOK, CommitsFit, Preparing
  PROVE  \E p \in Prep, r \in Record : Prepares(p, r)
<1>a. HeadCommit \in Made /\ Made \subseteq Commit /\ NoTree \in Tree /\ head \in Branch
  BY Trees DEF TypeOK
<1>b. \A b \in Branch : Past(ref[b]) \subseteq Commit /\ (Exists(b) => ref[b] \in Made)
  <2> TAKE b \in Branch
  <2>1. ref[b] \in Made \cup {NoCommit}
    BY DEF TypeOK
  <2> QED BY <2>1, <1>a, PastIsMade, ParentsAre, Trees
<1>1. PICK p \in Prep : \/ PrepareCommit(p)
                        \/ \E b, start \in Branch : PrepareCreate(p, b, start)
                        \/ \E b \in Branch : PrepareSwitch(p, b) \/ PrepareDelete(p, b)
  BY DEF Preparing
<1>2. CASE PrepareCommit(p)
  <2> DEFINE r == [NoRec EXCEPT !.kind = "commit", !.state = "prepared", !.branch = head,
                                !.head = HeadCommit, !.files = Changed, !.blobs = work,
                                !.hooks = hooks]
  <2>1. Prepare(p, r)
    BY <1>2 DEF PrepareCommit
  <2>2. Changed \subseteq File /\ work \in Tree /\ hooks \in BOOLEAN
    BY DEF Changed, TypeOK
  <2>3. r \in Record /\ r.state = "prepared" /\ r.head \in Made /\ r.kind = "commit"
    BY <1>a, <2>2, Numbers DEF NoRec, Record, Kind, RecState
  <2> HIDE DEF r
  <2>4. Prepares(p, r)
    BY <2>1, <2>3 DEF Prepare, Prepares, Idle
  <2> QED BY <2>3, <2>4
<1>3. ASSUME NEW kind \in {"create", "switch", "delete"}, NEW b \in Branch, NEW oid \in Made,
             NEW l \in SUBSET Commit, PrepareBranch(p, kind, b, oid, l)
      PROVE  \E r \in Record : Prepares(p, r)
  <2> DEFINE r == [NoRec EXCEPT !.kind = kind, !.state = "prepared", !.branch = b,
                                !.head = HeadCommit, !.oid = oid, !.lost = l]
  <2>1. Prepare(p, r)
    BY <1>3 DEF PrepareBranch
  <2>2. r \in Record /\ r.state = "prepared" /\ r.head \in Made /\ r.oid \in Made
    BY <1>a, Numbers DEF NoRec, Record, Kind, RecState
  <2> HIDE DEF r
  <2>3. Prepares(p, r)
    BY <2>1, <2>2 DEF Prepare, Prepares, Idle
  <2> QED BY <2>2, <2>3
<1>4. CASE \E b, start \in Branch : PrepareCreate(p, b, start)
  BY <1>3, <1>4, <1>b DEF PrepareCreate
<1>5. CASE \E b \in Branch : PrepareSwitch(p, b)
  BY <1>3, <1>5, <1>b DEF PrepareSwitch
<1>6. CASE \E b \in Branch : PrepareDelete(p, b)
  <2>1. PICK b \in Branch : PrepareDelete(p, b)
    BY <1>6
  <2>2. Listed(b) \in SUBSET Commit
    BY <1>b DEF Listed, Unmerged, PlainDelete
  <2> QED BY <1>3, <2>1, <2>2, <1>b DEF PrepareDelete
<1> QED BY <1>1, <1>2, <1>4, <1>5, <1>6

\* The steps that leave every ref, HEAD and the commits alone, but for the commit made.
Beside == \/ Preparing \/ (\E p \in Prep : \E files \in SUBSET rec[p].files : ApproveCommit(p, files))
          \/ CheckContent \/ Compose \/ RunHooks \/ Recheck \/ ReadIndex \/ WriteIndex
          \/ SyncFails \/ Settle \/ GitFails \/ (\E p \in Prep : ApproveBranch(p))
          \/ Consume \/ SettleBranch
          \/ (\E f \in File : Stage(f) \/ \E c \in Content : Edit(f, c))
          \/ ChangeHooks \/ Crash

LEMMA Steps ==
  ASSUME Next
  PROVE  \/ Beside \/ MakeCommit \/ UpdateRef \/ RunGit \/ UserCommits
         \/ \E b \in Branch : UserSwitches(b)
         \/ \E b \in Branch, c \in Commit \cup {NoCommit} : MoveBranch(b, c)
         \/ \E c \in Commit : Reset(c)
  BY DEF Next, Shell, Committing, Mutating, Working, Beside

LEMMA BesideFrame ==
  ASSUME TypeOK, CommitsFit, Beside PROVE UNCHANGED <<commit, ref, head>>
<1> USE DEF repository
<1>1. CASE Preparing
  BY <1>1, PreparingKinds DEF Prepares
<1>2. CASE \E p \in Prep : \E files \in SUBSET rec[p].files : ApproveCommit(p, files)
  BY <1>2 DEF ApproveCommit
<1>3. CASE CheckContent \/ Compose \/ Recheck \/ ReadIndex \/ SyncFails \/ Settle \/ GitFails
  BY <1>3 DEF CheckContent, Compose, Recheck, ReadIndex, SyncFails, Settle, GitFails
<1>4. CASE RunHooks \/ WriteIndex
  BY <1>4 DEF RunHooks, WriteIndex
<1>5. CASE (\E p \in Prep : ApproveBranch(p)) \/ Consume \/ SettleBranch \/ Crash
  BY <1>5 DEF ApproveBranch, Consume, SettleBranch, Crash
<1>6. CASE (\E f \in File : Stage(f) \/ \E c \in Content : Edit(f, c)) \/ ChangeHooks
  BY <1>6 DEF Stage, Edit, ChangeHooks
<1> QED BY <1>1, <1>2, <1>3, <1>4, <1>5, <1>6 DEF Beside

LEMMA MakeCommitIs ==
  ASSUME TypeOK, CommitsFit, RecsFit, ReqFits, MakeCommit
  PROVE  Makes([parent |-> Mine.head, tree |-> ReviewedTree, by |-> req.prep,
                files |-> req.files])
<1>1. Mine.kind = "commit" /\ Mine.state = "prepared" /\ req.composed = ReviewedTree
  BY DEF ReqFits, CommitAt, MakeCommit
<1>2. Mine.head \in Made /\ req.prep \in Prep
  BY <1>1, Trees DEF RecsFit, Mine
<1>3. req.composed \in Tree /\ req.files \in SUBSET File
  BY DEF TypeOK
<1>4. [parent |-> Mine.head, tree |-> ReviewedTree, by |-> req.prep, files |-> req.files]
        \in CommitRecord
  BY <1>1, <1>2, <1>3, Trees DEF CommitRecord
<1> QED BY <1>1, <1>2, <1>4 DEF MakeCommit, Makes

LEMMA UserCommitsIs ==
  ASSUME TypeOK, UserCommits
  PROVE  Makes([parent |-> HeadCommit, tree |-> index, by |-> User, files |-> {}])
<1>1. [parent |-> HeadCommit, tree |-> index, by |-> User, files |-> {}] \in CommitRecord
  BY Trees DEF CommitRecord, TypeOK
<1> QED BY <1>1, Trees DEF UserCommits, Makes

LEMMA CommitsGrowing == ASSUME IInv, Next PROVE CommitsGrow
<1>a. TypeOK /\ CommitsFit /\ RecsFit /\ ReqFits
  BY DEF IInv
<1>1. CASE Beside \/ UpdateRef \/ RunGit
  BY <1>1, <1>a, BesideFrame DEF CommitsGrow, UpdateRef, RunGit
<1>2. CASE MakeCommit \/ UserCommits
  BY <1>2, <1>a, MakeCommitIs, UserCommitsIs DEF CommitsGrow
<1>3. CASE \/ \E b \in Branch : UserSwitches(b)
           \/ \E b \in Branch, c \in Commit \cup {NoCommit} : MoveBranch(b, c)
           \/ \E c \in Commit : Reset(c)
  BY <1>3 DEF UserSwitches, MoveBranch, Reset, CommitsGrow
<1> QED BY <1>1, <1>2, <1>3, Steps

LEMMA ReachableIsMade ==
  ASSUME TypeOK, CommitsFit PROVE Reachable(ref) \subseteq Made
<1> SUFFICES ASSUME NEW b \in Branch PROVE Past(ref[b]) \subseteq Made
  BY DEF Reachable
<1>1. ref[b] \in Made \cup {NoCommit}
  BY DEF TypeOK
<1> QED BY <1>1, ParentsAre, PastIsMade

LEMMA RepoStay == ASSUME IInv, Next PROVE RepoTypes'
<1>a. TypeOK /\ CommitsFit /\ RecsFit /\ ReqFits /\ RepoTypes
  BY TypesSplit DEF IInv
<1>b. /\ commit' \in [Commit -> CommitRecord] /\ Made \subseteq Made'
  BY <1>a, CommitsGrowing, CommitsStay
<1>c. ref \in [Branch -> Made \cup {NoCommit}] /\ head \in Branch /\ ref[head] # NoCommit
      /\ NoCommit \notin Made /\ Made \subseteq Commit
  BY <1>a, Numbers DEF RepoTypes, Made
<1> SUFFICES /\ ref' \in [Branch -> Made' \cup {NoCommit}]
             /\ head' \in Branch /\ ref'[head'] # NoCommit
  BY <1>b DEF RepoTypes
<1>1. CASE Beside
  BY <1>1, <1>a, <1>b, <1>c, BesideFrame
<1>2. CASE MakeCommit
  BY <1>2, <1>b, <1>c DEF MakeCommit
<1>3. CASE UpdateRef
  <2>1. Mine.made \in Made
    BY <1>3, <1>a DEF UpdateRef, ReqFits, MadeAt
  <2>2. ref' = ref \/ ref' = [ref EXCEPT ![Mine.branch] = Mine.made]
    BY <1>3 DEF UpdateRef
  <2> QED BY <2>1, <2>2, <1>3, <1>b, <1>c DEF UpdateRef
<1>4. CASE RunGit
  <2>1. Mine.oid \in Made /\ Mine.branch \in Branch
    BY <1>4, <1>a, Trees DEF RunGit, ReqFits, BranchAt, RecsFit, Mine, Record
  <2>2. CASE GitAccepts /\ Mine.kind = "create"
    BY <2>1, <2>2, <1>4, <1>b, <1>c DEF RunGit, GitEffect
  <2>3. CASE GitAccepts /\ Mine.kind = "switch"
    BY <2>1, <2>3, <1>4, <1>b, <1>c DEF RunGit, GitEffect, GitAccepts, SwitchTo, Exists
  <2>4. CASE GitAccepts /\ Mine.kind = "delete"
    BY <2>1, <2>4, <1>4, <1>b, <1>c DEF RunGit, GitEffect, GitAccepts
  <2>5. CASE ~GitAccepts
    BY <2>5, <1>4, <1>b, <1>c DEF RunGit
  <2>6. Mine.kind \in {"create", "switch", "delete"}
    BY <1>4, <1>a, Trees DEF RunGit, ReqFits, BranchAt, Record, Kind
  <2> QED BY <2>2, <2>3, <2>4, <2>5, <2>6
<1>5. CASE UserCommits
  <2>1. Fresh \in Made' /\ Fresh # NoCommit
    BY <1>5, <1>a, UserCommitsIs, MadeOnce, Numbers
  <2> QED BY <2>1, <1>5, <1>b, <1>c DEF UserCommits
<1>6. CASE \E b \in Branch : UserSwitches(b)
  BY <1>6, <1>b, <1>c DEF UserSwitches, SwitchTo, Exists
<1>7. CASE \E b \in Branch, c \in Commit \cup {NoCommit} : MoveBranch(b, c)
  BY <1>7, <1>a, <1>b, <1>c, ReachableIsMade DEF MoveBranch
<1>8. CASE \E c \in Commit : Reset(c)
  BY <1>8, <1>b, <1>c DEF Reset
<1> QED BY <1>1, <1>2, <1>3, <1>4, <1>5, <1>6, <1>7, <1>8, Steps

LEMMA TreesStay == ASSUME IInv, Next PROVE TreeTypes'
<1>a. /\ TypeOK /\ CommitsFit /\ ReqFits /\ index \in Tree /\ work \in Tree /\ hooks \in BOOLEAN
      /\ ref \in [Branch -> Made \cup {NoCommit}] /\ Made \subseteq Commit
  BY Trees DEF IInv, TypeOK
<1>b. \A w \in Tree, f \in File, c \in Content : [w EXCEPT ![f] = c] \in Tree
  BY DEF Tree
<1>c. \A b \in Branch : Exists(b) =>
        \A w \in Tree : \A fs : Overlay(w, fs, TreeOf(ref[b])) \in Tree
  BY <1>a, Trees
<1> USE DEF TreeTypes, repository
<1>1. CASE Preparing
  BY <1>1, <1>a, PreparingKinds DEF Prepares
<1>2. CASE \/ (\E p \in Prep : \E files \in SUBSET rec[p].files : ApproveCommit(p, files))
           \/ CheckContent \/ Compose \/ Recheck \/ ReadIndex \/ SyncFails \/ Settle \/ GitFails
  BY <1>2, <1>a DEF ApproveCommit, CheckContent, Compose, Recheck, ReadIndex, SyncFails, Settle,
                    GitFails
<1>3. CASE RunHooks
  BY <1>3, <1>a, <1>b DEF RunHooks
<1>4. CASE MakeCommit \/ UpdateRef
  BY <1>4, <1>a DEF MakeCommit, UpdateRef
<1>5. CASE WriteIndex
  <2>1. TreeOf(Mine.made) \in Tree
    BY <1>5, <1>a, Trees DEF WriteIndex, ReqFits, MadeAt
  <2> QED BY <2>1, <1>5, <1>a, Trees DEF WriteIndex
<1>6. CASE (\E p \in Prep : ApproveBranch(p)) \/ Consume \/ SettleBranch \/ Crash
  BY <1>6, <1>a DEF ApproveBranch, Consume, SettleBranch, Crash
<1>7. CASE RunGit
  <2>1. Mine.branch \in Branch /\ Mine.kind \in {"create", "switch", "delete"}
    BY <1>7, <1>a, Trees DEF RunGit, ReqFits, BranchAt, Record, Kind
  <2>2. CASE GitAccepts /\ Mine.kind = "switch"
    BY <2>1, <2>2, <1>7, <1>a, <1>c DEF RunGit, GitEffect, GitAccepts, SwitchTo
  <2>3. CASE GitAccepts /\ Mine.kind # "switch"
    BY <2>1, <2>3, <1>7, <1>a DEF RunGit, GitEffect
  <2>4. CASE ~GitAccepts
    BY <2>4, <1>7, <1>a DEF RunGit
  <2> QED BY <2>2, <2>3, <2>4
<1>8. CASE \E f \in File : Stage(f) \/ \E c \in Content : Edit(f, c)
  <2>1. \A f \in File : work[f] \in Content
    BY <1>a DEF Tree
  <2>2. PICK f \in File : Stage(f) \/ \E c \in Content : Edit(f, c)
    BY <1>8
  <2>3. CASE Stage(f)
    <3>1. index' = [index EXCEPT ![f] = work[f]] /\ UNCHANGED <<work, hooks>>
      BY <2>3 DEF Stage
    <3>2. index' \in Tree
      BY <3>1, <2>1, <1>a, <1>b
    <3> QED BY <3>1, <3>2, <1>a
  <2>4. CASE \E c \in Content : Edit(f, c)
    <3>1. PICK c \in Content : work' = [work EXCEPT ![f] = c] /\ UNCHANGED <<index, hooks>>
      BY <2>4 DEF Edit
    <3>2. work' \in Tree
      BY <3>1, <1>a, <1>b
    <3> QED BY <3>1, <3>2, <1>a
  <2> QED BY <2>2, <2>3, <2>4
<1>9. CASE UserCommits \/ (\E b \in Branch, c \in Commit \cup {NoCommit} : MoveBranch(b, c))
           \/ ChangeHooks
  BY <1>9, <1>a DEF UserCommits, MoveBranch, ChangeHooks
<1>10. CASE \E b \in Branch : UserSwitches(b)
  BY <1>10, <1>a, <1>c DEF UserSwitches, SwitchTo
<1>11. CASE \E c \in Commit : Reset(c)
  BY <1>11, <1>a, Trees DEF Reset
<1> QED BY <1>1, <1>2, <1>3, <1>4, <1>5, <1>6, <1>7, <1>8, <1>9, <1>10, <1>11, Steps DEF Beside

\* What a step does to the records: one is prepared, or the running one's state or
\* commit is set.
RecMoves ==
  \/ rec' = rec
  \/ \E p \in Prep, r \in Record : Prepares(p, r)
  \/ /\ at \in CommitAt \cup BranchAt
     /\ \/ \E s \in RecState \ {"none", "prepared"} : SetRec("state", s)
        \/ at = "make" /\ MakeCommit /\ SetRec("made", Fresh)

LEMMA RecStep ==
  ASSUME TypeOK, CommitsFit, Next PROVE RecMoves
<1> USE DEF RecMoves, history, CommitAt, BranchAt, Retire, RecState
<1>1. CASE Preparing
  BY <1>1, PreparingKinds
<1>2. CASE \/ (\E p \in Prep : \E files \in SUBSET rec[p].files : ApproveCommit(p, files))
           \/ CheckContent \/ Recheck \/ ReadIndex \/ WriteIndex \/ SyncFails \/ RunHooks
           \/ UpdateRef
  BY <1>2 DEF ApproveCommit, CheckContent, Recheck, ReadIndex, WriteIndex, SyncFails, RunHooks,
              UpdateRef
<1>3. CASE Compose
  BY <1>3 DEF Compose
<1>4. CASE Settle
  BY <1>4 DEF Settle
<1>5. CASE GitFails
  BY <1>5 DEF GitFails
<1>6. CASE MakeCommit
  BY <1>6 DEF MakeCommit
<1>7. CASE (\E p \in Prep : ApproveBranch(p)) \/ Crash
  BY <1>7 DEF ApproveBranch, Crash
<1>8. CASE Consume
  BY <1>8 DEF Consume
<1>9. CASE RunGit
  BY <1>9 DEF RunGit
<1>10. CASE SettleBranch
  BY <1>10 DEF SettleBranch
<1>11. CASE Working
  BY <1>11 DEF Working, Stage, Edit, UserCommits, UserSwitches, MoveBranch, Reset, ChangeHooks,
               UserStep
<1> QED BY <1>1, <1>2, <1>3, <1>4, <1>5, <1>6, <1>7, <1>8, <1>9, <1>10, <1>11
        DEF Next, Shell, Committing, Mutating

LEMMA RecsStay ==
  ASSUME TypeOK, CommitsFit, Next
  PROVE  /\ rec' \in [Prep -> Record]
         /\ \A p \in Prep : rec[p].state # "none" => RecSame(p) /\ rec'[p].state # "none"
<1>a. rec \in [Prep -> Record] /\ req.prep \in Prep
  BY DEF TypeOK
<1>1. CASE rec' = rec
  BY <1>1, <1>a DEF RecSame
<1>2. CASE \E p \in Prep, r \in Record : Prepares(p, r)
  BY <1>2, <1>a DEF Prepares, RecSame
<1>3. CASE \E s \in RecState \ {"none", "prepared"} : SetRec("state", s)
  <2>1. PICK s \in RecState \ {"none", "prepared"} : SetRec("state", s)
    BY <1>3
  <2> QED BY <2>1, <1>a, StateSet
<1>4. CASE MakeCommit /\ SetRec("made", Fresh)
  <2>1. Fresh \in Commit
    BY <1>4, FreshIs DEF MakeCommit
  <2> QED BY <2>1, <1>4, <1>a, MadeSet
<1> QED BY <1>1, <1>2, <1>3, <1>4, RecStep DEF RecMoves

LEMMA ReqStay == ASSUME IInv, Next PROVE ReqTypes'
<1>a. /\ TypeOK /\ CommitsFit /\ at \in Place
      /\ req \in [prep : Prep, files : SUBSET File, composed : Tree, picks : SUBSET File]
      /\ NoReq \in [prep : Prep, files : SUBSET File, composed : Tree, picks : SUBSET File]
      /\ rec \in [Prep -> Record]
  BY Trees DEF IInv, TypeOK
<1>b. Refuse => ReqTypes'
  BY <1>a DEF Refuse, ReqTypes, Place, Go
<1> USE DEF ReqTypes, Go, Place
<1>1. CASE Preparing \/ Working
  BY <1>1, <1>a, PreparingKinds
     DEF Prepares, Working, Stage, Edit, UserCommits, UserSwitches, MoveBranch, Reset, ChangeHooks,
         UserStep
<1>2. CASE \E p \in Prep : \E files \in SUBSET rec[p].files : ApproveCommit(p, files)
  <2>0. PICK p \in Prep : \E files \in SUBSET rec[p].files : ApproveCommit(p, files)
    BY <1>2
  <2>1. PICK files \in SUBSET rec[p].files : ApproveCommit(p, files)
    BY <2>0
  <2>2. files \in SUBSET File
    BY <1>a DEF Record
  <2>3. req' = [NoReq EXCEPT !.prep = p, !.files = files] /\ at' = "content"
    BY <2>1 DEF ApproveCommit
  <2> QED BY <2>2, <2>3, <1>a
<1>3. CASE CheckContent
  BY <1>3, <1>a, <1>b DEF CheckContent
<1>4. CASE Compose
  <2>1. CASE ComposedAsReviewed
    <3>1. Overlay(TreeOf(HeadCommit), req.files, work) \in Tree
      BY <1>a, Trees DEF TypeOK
    <3>2. req' = [req EXCEPT !.composed = Overlay(TreeOf(HeadCommit), req.files, work)]
          /\ at' = "hooks"
      BY <1>4, <2>1 DEF Compose
    <3> QED BY <3>1, <3>2, <1>a
  <2>2. CASE ~ComposedAsReviewed
    BY <2>2, <1>4, <1>b DEF Compose, Retire
  <2> QED BY <2>1, <2>2
<1>5. CASE RunHooks
  BY <1>5, <1>a, <1>b DEF RunHooks
<1>6. CASE MakeCommit \/ Recheck
  BY <1>6, <1>a, <1>b DEF MakeCommit, Recheck
<1>7. CASE UpdateRef
  BY <1>7, <1>a, <1>b DEF UpdateRef
<1>8. CASE ReadIndex
  BY <1>8, <1>a DEF ReadIndex, Picks
<1>9. CASE WriteIndex \/ SyncFails
  BY <1>9, <1>a DEF WriteIndex, SyncFails
<1>10. CASE Settle \/ GitFails \/ SettleBranch \/ Crash
  BY <1>10, <1>b DEF Settle, GitFails, Retire, SettleBranch, Crash
<1>11. CASE \E p \in Prep : ApproveBranch(p)
  BY <1>11, <1>a DEF ApproveBranch
<1>12. CASE Consume \/ RunGit
  BY <1>12, <1>a, <1>b DEF Consume, RunGit, Retire
<1> QED BY <1>1, <1>2, <1>3, <1>4, <1>5, <1>6, <1>7, <1>8, <1>9, <1>10, <1>11, <1>12
        DEF Next, Shell, Committing, Mutating

LEMMA HistoryStay == ASSUME IInv, Next PROVE HistoryTypes'
<1>a. /\ TypeOK /\ CommitsFit /\ req.prep \in Prep
      /\ steps \in 0..MaxSteps /\ crashes \in 0..MaxCrashes
      /\ ran \in [Prep -> Nat] /\ quiet \subseteq Prep /\ staged \subseteq Tree /\ index \in Tree
      /\ MaxSteps \in Nat /\ MaxCrashes \in Nat
  BY Numbers DEF IInv, TypeOK
<1>b. /\ steps < MaxSteps => steps + 1 \in 0..MaxSteps
      /\ crashes < MaxCrashes => crashes + 1 \in 0..MaxCrashes
  BY <1>a
<1> USE DEF HistoryTypes, history
<1>1. CASE Preparing
  BY <1>1, <1>a, PreparingKinds DEF Prepares
<1>2. CASE \/ (\E p \in Prep : \E files \in SUBSET rec[p].files : ApproveCommit(p, files))
           \/ CheckContent \/ Compose \/ RunHooks \/ MakeCommit \/ Recheck \/ ReadIndex
           \/ WriteIndex \/ Consume \/ SettleBranch
  BY <1>2, <1>a DEF ApproveCommit, CheckContent, Compose, RunHooks, MakeCommit, Recheck, ReadIndex,
                    WriteIndex, Consume, SettleBranch
<1>3. CASE UpdateRef
  BY <1>3, <1>a DEF UpdateRef, OnlyMineIsQuiet
<1>4. CASE SyncFails \/ Settle \/ GitFails \/ Crash
  BY <1>4, <1>a, <1>b DEF SyncFails, Settle, GitFails, Crash
<1>5. CASE \E p \in Prep : ApproveBranch(p)
  BY <1>5, <1>a DEF ApproveBranch
<1>6. CASE RunGit
  <2>1. [ran EXCEPT ![req.prep] = @ + 1] \in [Prep -> Nat]
    BY <1>a
  <2> QED BY <2>1, <1>6, <1>a DEF RunGit, OnlyMineIsQuiet
<1>7. CASE Working
  <2>1. /\ steps' \in 0..MaxSteps /\ UNCHANGED <<crashes, ran>>
        /\ quiet' \subseteq quiet /\ staged' \subseteq staged
    BY <1>7, <1>b DEF Working, Stage, Edit, UserCommits, UserSwitches, MoveBranch, Reset,
                      ChangeHooks, UserStep
  <2> QED BY <2>1, <1>a
<1> QED BY <1>1, <1>2, <1>3, <1>4, <1>5, <1>6, <1>7 DEF Next, Shell, Committing, Mutating

LEMMA TypesStay == ASSUME IInv, Next PROVE TypeOK'
<1>1. RecTypes'
  BY RecsStay DEF IInv, RecTypes
<1> QED BY <1>1, RepoStay, TreesStay, ReqStay, HistoryStay, TypesSplit

-----------------------------------------------------------------------------
(* What a request holds *)

LEMMA RecsFitStay == ASSUME IInv, Next PROVE RecsFit'
<1>a. TypeOK /\ CommitsFit /\ RecsFit /\ rec \in [Prep -> Record] /\ req.prep \in Prep
  BY DEF IInv, TypeOK
<1>b. Made \subseteq Made'
  BY <1>a, CommitsGrowing, CommitsStay
<1> SUFFICES ASSUME NEW p \in Prep, rec'[p].state # "none"
             PROVE  rec'[p].head \in Made /\ (rec'[p].kind # "commit" => rec'[p].oid \in Made)
  BY <1>b DEF RecsFit
<1>1. CASE rec[p].state # "none"
  BY <1>1, <1>a, RecsStay DEF RecSame, RecsFit
<1>2. CASE rec[p].state = "none" /\ \E q \in Prep, r \in Record : Prepares(q, r)
  BY <1>2, <1>a DEF Prepares
<1>3. CASE rec[p].state = "none" /\ (\E s \in RecState : SetRec("state", s)) /\ at \in CommitAt \cup BranchAt
  <2>1. rec[req.prep].state # "none"
    BY <1>3, <1>a DEF IInv, ReqFits, CommitAt, BranchAt, Mine
  <2> QED BY <2>1, <1>3, <1>a, StateSet
<1>4. CASE rec[p].state = "none" /\ MakeCommit /\ SetRec("made", Fresh)
  <2>1. Fresh \in Commit
    BY <1>4, FreshIs DEF MakeCommit
  <2> QED BY <2>1, <1>4, <1>a, MadeSet
<1> QED BY <1>1, <1>2, <1>3, <1>4, <1>a, RecStep DEF RecMoves

LEMMA MineStays ==
  ASSUME IInv, Next, at # "idle", req'.prep = req.prep
  PROVE  /\ Mine'.kind = Mine.kind /\ Mine'.branch = Mine.branch /\ Mine'.head = Mine.head
         /\ Mine'.oid = Mine.oid /\ Mine'.files = Mine.files /\ Mine'.lost = Mine.lost
         /\ Mine'.hooks = Mine.hooks /\ Mine.state # "none"
         /\ Mine.head \in Made /\ TreeOf(Mine.head)' = TreeOf(Mine.head)
         /\ req'.files = req.files => ReviewedTree' = ReviewedTree
<1>a. TypeOK /\ CommitsFit /\ RecsFit /\ ReqFits /\ req.prep \in Prep /\ at \in Place
  BY DEF IInv, TypeOK
<1>1. Mine.state # "none"
  BY <1>a DEF ReqFits, CommitAt, BranchAt, Place
<1>2. RecSame(req.prep)
  BY <1>1, <1>a, RecsStay DEF Mine
<1>3. Mine.head \in Made
  BY <1>1, <1>a DEF RecsFit, Mine
<1>4. commit'[Mine.head] = commit[Mine.head]
  BY <1>3, <1>a, CommitsGrowing, CommitsStay
<1>5. TreeOf(Mine.head)' = TreeOf(Mine.head)
  BY <1>2, <1>4 DEF TreeOf, Mine, RecSame
<1>6. req'.files = req.files => ReviewedTree' = ReviewedTree
  BY <1>2, <1>5 DEF ReviewedTree, Overlay, Mine, RecSame
<1> QED BY <1>1, <1>2, <1>3, <1>5, <1>6 DEF Mine, RecSame

LEMMA MadeStays ==
  ASSUME IInv, Next, at \in MadeAt, req'.prep = req.prep, req'.files = req.files,
         Mine'.made = Mine.made
  PROVE  /\ Mine'.made \in Made'
         /\ commit'[Mine'.made] = [parent |-> Mine'.head, tree |-> ReviewedTree',
                                   by |-> req'.prep, files |-> req'.files]
<1>1. /\ Mine.made \in Made
      /\ commit[Mine.made] = [parent |-> Mine.head, tree |-> ReviewedTree,
                              by |-> req.prep, files |-> req.files]
  BY DEF IInv, ReqFits
<1>2. Made \subseteq Made' /\ commit'[Mine.made] = commit[Mine.made]
  BY <1>1, CommitsGrowing, CommitsStay DEF IInv
<1>3. Mine'.head = Mine.head /\ ReviewedTree' = ReviewedTree
  BY MineStays DEF MadeAt
<1> QED BY <1>1, <1>2, <1>3

LEMMA ReqFitsStay == ASSUME IInv, Next PROVE ReqFits'
<1>a. TypeOK /\ CommitsFit /\ RecsFit /\ ReqFits /\ req.prep \in Prep /\ rec \in [Prep -> Record]
      /\ at \in Place
      /\ req \in [prep : Prep, files : SUBSET File, composed : Tree, picks : SUBSET File]
  BY DEF IInv, TypeOK
<1>b. at' = "idle" => ReqFits'
  BY DEF ReqFits, CommitAt, MadeAt, BranchAt
<1>c. ASSUME at \in CommitAt, at' \in CommitAt, UNCHANGED rec, req'.prep = req.prep,
             req'.files = req.files
      PROVE  /\ Mine'.kind = "commit" /\ Mine'.state = "prepared"
             /\ req'.files # {} /\ req'.files \subseteq Mine'.files
             /\ Mine'.made = Mine.made /\ ReviewedTree' = ReviewedTree
  BY <1>a, <1>c, MineStays DEF ReqFits, Mine, CommitAt
<1> USE DEF Go
<1>1. CASE Preparing \/ Settle \/ GitFails \/ SettleBranch \/ Crash
  BY <1>1, <1>a, <1>b, PreparingKinds DEF Prepares, Settle, GitFails, Retire, Refuse, SettleBranch,
                                          Crash
<1>2. CASE \E p \in Prep : \E files \in SUBSET rec[p].files : ApproveCommit(p, files)
  <2>0. PICK p \in Prep : \E files \in SUBSET rec[p].files : ApproveCommit(p, files)
    BY <1>2
  <2>1. PICK files \in SUBSET rec[p].files : ApproveCommit(p, files)
    BY <2>0
  <2>2. /\ req'.prep = p /\ req'.files = files /\ at' = "content" /\ rec' = rec
        /\ files # {} /\ files \subseteq rec[p].files
        /\ rec[p].kind = "commit" /\ rec[p].state = "prepared"
    BY <2>1 DEF ApproveCommit, MayCommit, NoReq
  <2> QED BY <2>2 DEF ReqFits, Mine, CommitAt, MadeAt, BranchAt
<1>3. CASE CheckContent
  <2>1. at' = "idle" \/ (at = "content" /\ at' = "compose" /\ UNCHANGED <<rec, req>>)
    BY <1>3 DEF CheckContent, Refuse
  <2>2. at = "content" /\ at' = "compose" /\ UNCHANGED <<rec, req>> => ReqFits'
    BY <1>c DEF ReqFits, CommitAt, MadeAt, BranchAt
  <2> QED BY <2>1, <2>2, <1>b
<1>4. CASE Compose
  <2>1. CASE ~ComposedAsReviewed
    BY <2>1, <1>4, <1>b DEF Compose, Retire, Refuse
  <2>2. CASE ComposedAsReviewed
    <3>1. /\ at = "compose" /\ at' = "hooks" /\ rec' = rec
          /\ req' = [req EXCEPT !.composed = Overlay(TreeOf(HeadCommit), req.files, work)]
      BY <2>2, <1>4 DEF Compose
    <3>2. req'.prep = req.prep /\ req'.files = req.files
          /\ req'.composed = Overlay(TreeOf(HeadCommit), req.files, work)
      BY <3>1, <1>a
    <3>3. Overlay(TreeOf(HeadCommit), req.files, work) = ReviewedTree
      BY <2>2 DEF ComposedAsReviewed, Reviewed, Overlay
    <3> QED BY <3>1, <3>2, <3>3, <1>c DEF ReqFits, CommitAt, MadeAt, BranchAt
  <2> QED BY <2>1, <2>2
<1>5. CASE RunHooks
  <2>1. at' = "idle" \/ (at = "hooks" /\ at' = "make" /\ UNCHANGED <<rec, req>>)
    BY <1>5 DEF RunHooks, Refuse
  <2>2. CASE at = "hooks" /\ at' = "make" /\ UNCHANGED <<rec, req>>
    <3>1. req.composed = ReviewedTree
      BY <2>2, <1>a DEF ReqFits
    <3> QED BY <2>2, <3>1, <1>c DEF ReqFits, CommitAt, MadeAt, BranchAt
  <2> QED BY <2>1, <2>2, <1>b
<1>6. CASE MakeCommit
  <2>1. at = "make" /\ at' = "recheck" /\ req' = req /\ SetRec("made", Fresh)
    BY <1>6 DEF MakeCommit
  <2>2. /\ Makes([parent |-> Mine.head, tree |-> ReviewedTree, by |-> req.prep,
                  files |-> req.files])
    BY <1>6, <1>a, MakeCommitIs
  <2>3. /\ Fresh \in Made' /\ Fresh \in Commit
        /\ commit'[Fresh] = [parent |-> Mine.head, tree |-> ReviewedTree, by |-> req.prep,
                             files |-> req.files]
    BY <2>2, <1>a, MadeOnce
  <2>4. Mine'.made = Fresh /\ Mine'.state = Mine.state
    BY <2>1, <2>3, <1>a, MadeSet DEF Mine
  <2>5. Mine'.kind = Mine.kind /\ Mine'.files = Mine.files /\ Mine'.head = Mine.head
        /\ ReviewedTree' = ReviewedTree
    BY <2>1, MineStays
  <2> QED BY <2>1, <2>3, <2>4, <2>5, <1>a DEF ReqFits, CommitAt, MadeAt, BranchAt
<1>7. ASSUME at \in MadeAt, at' \in MadeAt, rec' = rec, req'.prep = req.prep,
             req'.files = req.files
      PROVE  ReqFits'
  <2>1. /\ Mine'.made \in Made'
        /\ commit'[Mine'.made] = [parent |-> Mine'.head, tree |-> ReviewedTree',
                                   by |-> req'.prep, files |-> req'.files]
    BY <1>7, MadeStays DEF Mine
  <2>2. /\ Mine'.kind = "commit" /\ Mine'.state = "prepared"
        /\ req'.files # {} /\ req'.files \subseteq Mine'.files
    BY <1>7, <1>c DEF MadeAt, CommitAt
  <2> QED BY <1>7, <2>1, <2>2 DEF ReqFits, CommitAt, MadeAt, BranchAt
<1>8. CASE Recheck \/ UpdateRef
  <2>1. at' = "idle" \/ (at \in MadeAt /\ at' \in MadeAt /\ UNCHANGED <<rec, req>>)
    BY <1>8 DEF Recheck, UpdateRef, Refuse, MadeAt
  <2> QED BY <2>1, <1>7, <1>b
<1>9. CASE ReadIndex \/ WriteIndex \/ SyncFails
  <2>1. /\ at \in MadeAt /\ at' \in MadeAt /\ rec' = rec
        /\ req' = req \/ req' = [req EXCEPT !.picks = Picks]
    BY <1>9 DEF ReadIndex, WriteIndex, SyncFails, MadeAt
  <2>2. req'.prep = req.prep /\ req'.files = req.files
    BY <2>1, <1>a
  <2> QED BY <2>1, <2>2, <1>7
<1>10. CASE \E p \in Prep : ApproveBranch(p)
  <2>1. PICK p \in Prep : ApproveBranch(p)
    BY <1>10
  <2>2. /\ at' = "consume" /\ req'.prep = p /\ rec' = rec
        /\ rec[p].kind # "commit" /\ rec[p].state = "prepared"
    BY <2>1 DEF ApproveBranch, MayApply, Unused, NoReq
  <2> QED BY <2>2 DEF ReqFits, Mine, CommitAt, MadeAt, BranchAt
<1>11. CASE Consume
  <2>1. at = "consume" /\ at' = "git" /\ req' = req /\ SetRec("state", "applying")
    BY <1>11 DEF Consume
  <2>2. Mine'.state = "applying" /\ Mine'.kind = Mine.kind
    BY <2>1, <1>a, StateSet, MineStays DEF Mine, RecState
  <2> QED BY <2>1, <2>2, <1>a DEF ReqFits, CommitAt, MadeAt, BranchAt
<1>12. CASE RunGit
  <2>1. at' = "idle" \/ (at = "git" /\ at' = "applied" /\ UNCHANGED <<rec, req>>)
    BY <1>12 DEF RunGit, Retire, Refuse
  <2>2. at = "git" /\ at' = "applied" /\ UNCHANGED <<rec, req>> => ReqFits'
    BY <1>a DEF ReqFits, Mine, CommitAt, MadeAt, BranchAt
  <2> QED BY <2>1, <2>2, <1>b
<1>13. CASE Working
  <2>1. UNCHANGED <<at, req, rec>>
    BY <1>13 DEF Working, Stage, Edit, UserCommits, UserSwitches, MoveBranch, Reset, ChangeHooks,
                 UserStep
  <2>2. CASE at \in MadeAt
    BY <2>1, <2>2, <1>7
  <2>3. CASE at \in CommitAt \ MadeAt
    <3>1. ReviewedTree' = ReviewedTree
      BY <2>1, <2>3, MineStays DEF CommitAt
    <3> QED BY <2>1, <2>3, <3>1, <1>a DEF ReqFits, Mine, CommitAt, MadeAt, BranchAt
  <2>4. CASE at \notin CommitAt
    BY <2>1, <2>4, <1>a DEF ReqFits, Mine, CommitAt, MadeAt, BranchAt
  <2> QED BY <2>2, <2>3, <2>4
<1> QED BY <1>1, <1>2, <1>3, <1>4, <1>5, <1>6, <1>8, <1>9, <1>10, <1>11, <1>12, <1>13
        DEF Next, Shell, Committing, Mutating

-----------------------------------------------------------------------------
(* What was made, what has run, what is staged *)

LEMMA MadeBy ==
  ASSUME IInv, Next
  PROVE  \/ commit' = commit
         \/ Makes([parent |-> HeadCommit, tree |-> index, by |-> User, files |-> {}])
         \/ /\ MakeCommit
            /\ Makes([parent |-> Mine.head, tree |-> ReviewedTree, by |-> req.prep,
                      files |-> req.files])
<1>a. TypeOK /\ CommitsFit /\ RecsFit /\ ReqFits
  BY DEF IInv
<1>1. CASE Beside \/ UpdateRef \/ RunGit
  BY <1>1, <1>a, BesideFrame DEF UpdateRef, RunGit
<1>2. CASE MakeCommit \/ UserCommits
  BY <1>2, <1>a, MakeCommitIs, UserCommitsIs
<1>3. CASE \/ \E b \in Branch : UserSwitches(b)
           \/ \E b \in Branch, c \in Commit \cup {NoCommit} : MoveBranch(b, c)
           \/ \E c \in Commit : Reset(c)
  BY <1>3 DEF UserSwitches, MoveBranch, Reset
<1> QED BY <1>1, <1>2, <1>3, Steps

LEMMA MadeAsReviewedStay == ASSUME IInv, Next PROVE MadeAsReviewed'
<1>a. TypeOK /\ CommitsFit /\ RecsFit /\ ReqFits /\ MadeAsReviewed
      /\ commit \in [Commit -> CommitRecord] /\ Made \subseteq Commit
  BY Trees DEF IInv, TypeOK, CommitRecord
<1>b. \A c \in Made : commit'[c] = commit[c]
  BY <1>a, CommitsGrowing, CommitsStay
<1> SUFFICES ASSUME NEW c \in Made', NEW p, p = commit'[c].by, p # User
             PROVE  /\ rec'[p].state # "none" /\ commit'[c].parent = rec'[p].head
                    /\ commit'[c].files # {} /\ commit'[c].files \subseteq rec'[p].files
                    /\ commit'[c].tree =
                         Overlay(commit'[rec'[p].head].tree, commit'[c].files, rec'[p].blobs)
  BY DEF MadeAsReviewed, TreeOf
<1>1. CASE c \in Made
  <2>1. p \in Prep /\ p = commit[c].by
    BY <1>1, <1>a, <1>b DEF CommitRecord
  <2>2. /\ rec[p].state # "none" /\ commit[c].parent = rec[p].head
        /\ commit[c].files # {} /\ commit[c].files \subseteq rec[p].files
        /\ commit[c].tree = Overlay(commit[rec[p].head].tree, commit[c].files, rec[p].blobs)
    BY <1>1, <1>a, <2>1 DEF MadeAsReviewed, TreeOf
  <2>3. RecSame(p) /\ rec'[p].state # "none" /\ commit'[rec[p].head] = commit[rec[p].head]
    BY <2>1, <2>2, <1>a, <1>b, RecsStay DEF RecsFit
  <2>4. commit'[c] = commit[c]
    BY <1>1, <1>b
  <2> QED BY <2>2, <2>3, <2>4 DEF RecSame
<1>2. CASE c \notin Made
  <2>1. commit' # commit
    BY <1>2 DEF Made
  <2>2. CASE Makes([parent |-> HeadCommit, tree |-> index, by |-> User, files |-> {}])
    BY <2>2, <1>2, <1>a, MadeOnce
  <2>3. CASE /\ MakeCommit
             /\ Makes([parent |-> Mine.head, tree |-> ReviewedTree, by |-> req.prep,
                       files |-> req.files])
    <3>1. commit'[c] = [parent |-> Mine.head, tree |-> ReviewedTree, by |-> req.prep,
                        files |-> req.files]
      BY <2>3, <1>2, <1>a, MadeOnce
    <3>2. p = req.prep /\ req.prep \in Prep /\ at = "make" /\ req' = req
      BY <2>3, <3>1, <1>a DEF MakeCommit, TypeOK
    <3>3. /\ req.files # {} /\ req.files \subseteq Mine.files /\ Mine.state = "prepared"
          /\ Mine.head \in Made
      BY <3>2, <1>a DEF ReqFits, CommitAt, RecsFit, Mine
    <3>4. RecSame(p) /\ rec'[p].state # "none"
      BY <3>2, <3>3, <1>a, RecsStay DEF Mine
    <3>5. commit'[Mine.head] = commit[Mine.head]
      BY <3>3, <1>b
    <3> QED BY <3>1, <3>2, <3>3, <3>4, <3>5 DEF ReviewedTree, TreeOf, Mine, RecSame
  <2> QED BY <2>1, <2>2, <2>3, MadeBy
<1> QED BY <1>1, <1>2

\* Only RunGit counts, and what it counts is consumed.
LEMMA RanStep ==
  ASSUME TypeOK, CommitsFit, Next
  PROVE  \/ ran' = ran
         \/ /\ RunGit /\ GitAccepts /\ at = "git" /\ at' = "applied"
            /\ UNCHANGED <<rec, req>> /\ ran' = [ran EXCEPT ![req.prep] = @ + 1]
<1> USE DEF history
<1>1. CASE Preparing
  BY <1>1, PreparingKinds DEF Prepares
<1>2. CASE Committing
  BY <1>2 DEF Committing, ApproveCommit, CheckContent, Compose, RunHooks, MakeCommit, Recheck,
     UpdateRef, ReadIndex, WriteIndex, SyncFails, Settle, GitFails
<1>3. CASE (\E p \in Prep : ApproveBranch(p)) \/ Consume \/ SettleBranch \/ Crash
  BY <1>3 DEF ApproveBranch, Consume, SettleBranch, Crash
<1>4. CASE RunGit
  BY <1>4 DEF RunGit, Go
<1>5. CASE Working
  BY <1>5 DEF Working, Stage, Edit, UserCommits, UserSwitches, MoveBranch, Reset, ChangeHooks,
              UserStep
<1> QED BY <1>1, <1>2, <1>3, <1>4, <1>5 DEF Next, Shell, Mutating

LEMMA RunsFitStay == ASSUME IInv, Next PROVE RunsFit'
<1>a. /\ TypeOK /\ CommitsFit /\ ReqFits /\ RunsFit /\ req.prep \in Prep
      /\ rec \in [Prep -> Record] /\ ran \in [Prep -> Nat]
  BY DEF IInv, TypeOK
<1>1. CASE ran' # ran
  <2>1. /\ at = "git" /\ at' = "applied" /\ UNCHANGED <<rec, req>>
        /\ ran' = [ran EXCEPT ![req.prep] = @ + 1]
    BY <1>1, <1>a, RanStep
  <2>2. ran[req.prep] = 0 /\ rec[req.prep].state = "applying"
    BY <2>1, <1>a DEF RunsFit, ReqFits, Mine
  <2> QED BY <2>1, <2>2, <1>a DEF RunsFit
<1>2. CASE ran' = ran
  <2>1. ASSUME NEW p \in Prep, rec'[p].state \in {"none", "prepared"}
        PROVE  rec[p].state \in {"none", "prepared"}
    <3>1. CASE \E q \in Prep, r \in Record : Prepares(q, r)
      BY <3>1, <2>1, <1>a DEF Prepares
    <3>2. CASE \E s \in RecState \ {"none", "prepared"} : SetRec("state", s)
      <4>1. PICK s \in RecState \ {"none", "prepared"} : SetRec("state", s)
        BY <3>2
      <4> QED BY <4>1, <2>1, <1>a, StateSet
    <3>3. CASE MakeCommit /\ SetRec("made", Fresh)
      <4>1. Fresh \in Commit
        BY <3>3, FreshIs DEF MakeCommit
      <4> QED BY <4>1, <3>3, <2>1, <1>a, MadeSet
    <3> QED BY <3>1, <3>2, <3>3, <2>1, <1>a, RecStep DEF RecMoves
  <2>2. ASSUME at' = "git" PROVE ran[req'.prep] = 0
    <3>1. CASE Preparing \/ (\E p \in Prep : ApproveBranch(p)) \/ SettleBranch \/ Crash
      BY <3>1, <2>2, <1>a, PreparingKinds DEF Prepares, ApproveBranch, SettleBranch, Crash, Refuse, Go
    <3>2. CASE Committing
      BY <3>2, <2>2 DEF Committing, ApproveCommit, CheckContent, Compose, RunHooks, MakeCommit,
         Recheck, UpdateRef, ReadIndex, WriteIndex, SyncFails, Settle, GitFails, Retire, Refuse, Go
    <3>3. CASE Consume
      <4>1. rec[req.prep].state = "prepared" /\ req' = req
        BY <3>3, <1>a DEF Consume, ReqFits, Mine
      <4> QED BY <4>1, <1>a DEF RunsFit
    <3>4. CASE RunGit
      BY <3>4, <2>2 DEF RunGit, Retire, Refuse, Go
    <3>5. CASE Working
      <4>1. UNCHANGED <<at, req>>
        BY <3>5 DEF Working, Stage, Edit, UserCommits, UserSwitches, MoveBranch, Reset, ChangeHooks,
                    UserStep
      <4> QED BY <4>1, <2>2, <1>a DEF RunsFit
    <3> QED BY <3>1, <3>2, <3>3, <3>4, <3>5 DEF Next, Shell, Mutating
  <2> QED BY <1>2, <2>1, <2>2, <1>a DEF RunsFit
<1> QED BY <1>1, <1>2

LEMMA QuietFitsStay == ASSUME IInv, Next PROVE QuietFits'
<1>a. /\ TypeOK /\ CommitsFit /\ ReqFits /\ RunsFit /\ QuietFits /\ req.prep \in Prep
      /\ rec \in [Prep -> Record] /\ ran \in [Prep -> Nat] /\ quiet \subseteq Prep
  BY DEF IInv, TypeOK
<1>b. \A p \in quiet : RecSame(p) /\ rec'[p].state # "none"
  BY <1>a, RecsStay DEF QuietFits
<1>c. ASSUME UNCHANGED <<ref, head, ran>>, quiet' \subseteq quiet PROVE QuietFits'
  BY <1>a, <1>b, <1>c DEF QuietFits, RecSame, Prepared, Landed
<1> USE DEF history
<1>1. CASE Beside /\ ~(\E p \in Prep : ApproveBranch(p))
  <2>1. UNCHANGED <<ref, head>>
    BY <1>1, <1>a, BesideFrame
  <2>2. ran' = ran
    BY <1>1, <1>a, RanStep DEF RunGit, Beside, Preparing, Consume, Go, RunGit, CheckContent, Compose,
       RunHooks, Recheck, ReadIndex, WriteIndex, SyncFails, Settle, GitFails, SettleBranch,
       ApproveCommit, Stage, Edit, UserStep, ChangeHooks, Crash, PrepareCommit, PrepareCreate,
       PrepareSwitch, PrepareDelete, PrepareBranch, Prepare
  <2>3. quiet' = quiet
    BY <1>1, <1>a, PreparingKinds DEF Beside, Prepares, Consume, CheckContent, Compose,
       RunHooks, Recheck, ReadIndex, WriteIndex, SyncFails, Settle, GitFails, SettleBranch,
       ApproveCommit, Stage, Edit, UserStep, ChangeHooks, Crash
  <2> QED BY <2>1, <2>2, <2>3, <1>c
<1>2. CASE \E p \in Prep : ApproveBranch(p)
  <2>1. PICK q \in Prep : ApproveBranch(q)
    BY <1>2
  <2>2. /\ UNCHANGED <<ref, head, ran, rec>> /\ quiet' = quiet \cup {q}
        /\ rec[q].kind # "commit" /\ rec[q].state = "prepared"
        /\ ref[rec[q].branch] = IF rec[q].kind = "create" THEN NoCommit ELSE rec[q].oid
    BY <2>1 DEF ApproveBranch, repository, MayApply, Unused, AsPrepared
  <2>3. ran[q] = 0
    BY <2>2, <1>a DEF RunsFit
  <2> QED BY <2>2, <2>3, <1>a DEF QuietFits, Prepared, Landed
<1>3. CASE MakeCommit
  BY <1>3, <1>c DEF MakeCommit
<1>4. CASE UpdateRef
  <2>1. CASE RefIsAsReviewed
    <3>1. quiet' = quiet \cap {req.prep} /\ Mine.kind = "commit"
      BY <2>1, <1>4, <1>a DEF UpdateRef, OnlyMineIsQuiet, ReqFits, CommitAt
    <3>2. quiet' = {}
      BY <3>1, <1>a DEF QuietFits, Mine
    <3> QED BY <3>2 DEF QuietFits
  <2>2. CASE ~RefIsAsReviewed
    BY <2>2, <1>4, <1>c DEF UpdateRef
  <2> QED BY <2>1, <2>2
<1>5. CASE RunGit
  <2>1. CASE ~GitAccepts
    BY <2>1, <1>5, <1>c DEF RunGit
  <2>2. CASE GitAccepts
    <3>1. /\ GitEffect /\ UNCHANGED <<rec, req>> /\ at = "git"
          /\ ran' = [ran EXCEPT ![req.prep] = @ + 1] /\ quiet' = quiet \cap {req.prep}
      BY <2>2, <1>5 DEF RunGit, OnlyMineIsQuiet
    <3>2. Mine.kind \in {"create", "switch", "delete"} /\ Mine.branch \in Branch
      BY <3>1, <1>a, Trees DEF ReqFits, BranchAt, Record, Kind
    <3>3. ASSUME req.prep \in quiet PROVE Landed(Mine)'
      <4>1. ran[req.prep] = 0
        BY <3>1, <1>a DEF RunsFit
      <4>2. Prepared(Mine)
        BY <3>3, <4>1, <1>a DEF QuietFits, Mine
      <4>3. Mine' = Mine /\ ref \in [Branch -> Made \cup {NoCommit}]
        BY <3>1, <1>a DEF Mine, TypeOK
      <4>4. CASE Mine.kind = "create"
        BY <4>3, <4>4, <3>1, <3>2 DEF GitEffect, Landed
      <4>5. CASE Mine.kind = "switch"
        BY <4>2, <4>3, <4>5, <3>1, <3>2 DEF GitEffect, SwitchTo, Prepared, Landed
      <4>6. CASE Mine.kind = "delete"
        BY <4>3, <4>6, <3>1, <3>2 DEF GitEffect, Landed
      <4> QED BY <3>2, <4>4, <4>5, <4>6
    <3>4. ran[req.prep] = 0 /\ ran'[req.prep] = 1
      BY <3>1, <1>a DEF RunsFit
    <3> QED BY <3>1, <3>3, <3>4, <1>a DEF QuietFits, Mine
  <2> QED BY <2>1, <2>2
<1>6. CASE \/ UserCommits \/ (\E b \in Branch : UserSwitches(b))
           \/ (\E b \in Branch, c \in Commit \cup {NoCommit} : MoveBranch(b, c))
           \/ \E c \in Commit : Reset(c)
  <2>1. quiet' = {}
    BY <1>6 DEF UserCommits, UserSwitches, MoveBranch, Reset, UserStep
  <2> QED BY <2>1 DEF QuietFits
<1> QED BY <1>1, <1>2, <1>3, <1>4, <1>5, <1>6, Steps

\* A step that leaves HEAD, the index and the request where they are keeps what is
\* known of the index the commit found.
LEMMA StagedKept ==
  ASSUME IInv, Next, staged' \subseteq staged, index' = index, head' = head, HeadCommit' = HeadCommit,
         rec' = rec, req' = req, at' = at
  PROVE  StagedFits'
<1>a. StagedFits
  BY DEF IInv
<1> SUFFICES ASSUME NEW before \in staged'
             PROVE  /\ at \in {"sync", "write", "settle"}
                    /\ (head' = Mine'.branch => HeadCommit' = Mine'.made)
                    /\ (at' \in {"sync", "write"} => index' = before)
                    /\ (at' = "write" => req'.picks = Free(before)')
                    /\ (at' = "settle" => index' = Overlay(before, Free(before)', TreeOf(Mine.made)'))
  BY DEF StagedFits, Overlay
<1>1. before \in staged /\ at \in {"sync", "write", "settle"} /\ at # "idle"
  BY <1>a DEF StagedFits
<1>2. Mine' = Mine
  BY DEF Mine
<1>3. TreeOf(Mine.head)' = TreeOf(Mine.head)
  BY <1>1, MineStays
<1>4. Free(before)' = Free(before)
  BY <1>3 DEF Free
<1>5. Mine.made \in Made
  BY <1>1 DEF IInv, ReqFits, MadeAt
<1>6. commit'[Mine.made] = commit[Mine.made]
  BY <1>5, CommitsGrowing, CommitsStay DEF IInv
<1>7. TreeOf(Mine.made)' = TreeOf(Mine.made)
  BY <1>2, <1>6 DEF TreeOf
<1>8. /\ head = Mine.branch => HeadCommit = Mine.made
      /\ at \in {"sync", "write"} => index = before
      /\ at = "write" => req.picks = Free(before)
      /\ at = "settle" => index = Overlay(before, Free(before), TreeOf(Mine.made))
  BY <1>1, <1>a DEF StagedFits
<1> QED BY <1>1, <1>2, <1>4, <1>7, <1>8

LEMMA StagedFitsStay == ASSUME IInv, Next PROVE StagedFits'
<1>a. /\ TypeOK /\ CommitsFit /\ ReqFits /\ StagedFits /\ index \in Tree
      /\ ref \in [Branch -> Made \cup {NoCommit}]
      /\ req \in [prep : Prep, files : SUBSET File, composed : Tree, picks : SUBSET File]
  BY DEF IInv, TypeOK
<1>b. staged' = {} => StagedFits'
  BY DEF StagedFits
<1>c. staged # {} => at \in {"sync", "write", "settle"}
  BY <1>a DEF StagedFits
<1> USE DEF history, repository, Go
<1>1. CASE \/ Preparing \/ (\E p \in Prep : \E files \in SUBSET rec[p].files : ApproveCommit(p, files))
           \/ CheckContent \/ Compose \/ RunHooks \/ MakeCommit \/ Recheck \/ GitFails \/ Mutating
  <2>1. staged' = staged /\ at \notin {"sync", "write", "settle"}
    BY <1>1, <1>a, PreparingKinds DEF Prepares, ApproveCommit, CheckContent, Compose, RunHooks,
       MakeCommit, Recheck, GitFails, Mutating, ApproveBranch, Consume, RunGit, SettleBranch, Idle
  <2> QED BY <2>1, <1>b, <1>c
<1>2. CASE Settle \/ SyncFails \/ Crash
  BY <1>2, <1>b DEF Settle, SyncFails, Crash
<1>3. CASE UpdateRef
  <2>1. CASE ~RefIsAsReviewed
    BY <2>1, <1>3, <1>b, <1>c DEF UpdateRef
  <2>2. CASE RefIsAsReviewed
    <3>1. /\ ref' = [ref EXCEPT ![Mine.branch] = Mine.made] /\ staged' = {index}
          /\ at' = "sync" /\ UNCHANGED <<index, head, rec, req>>
      BY <2>2, <1>3 DEF UpdateRef
    <3>2. head' = Mine'.branch => HeadCommit' = Mine'.made
      BY <3>1, <1>a DEF HeadCommit, Mine, TypeOK
    <3> QED BY <3>1, <3>2 DEF StagedFits
  <2> QED BY <2>1, <2>2
<1>4. CASE ReadIndex
  <2>1. /\ at = "sync" /\ at' = "write" /\ req' = [req EXCEPT !.picks = Picks]
        /\ UNCHANGED <<commit, ref, head, index, rec, staged>>
    BY <1>4 DEF ReadIndex
  <2>2. req'.picks = Picks /\ req'.prep = req.prep /\ req'.files = req.files
    BY <2>1, <1>a
  <2>3. Mine' = Mine /\ HeadCommit' = HeadCommit /\ TreeOf(Mine.head)' = TreeOf(Mine.head)
    BY <2>1, <2>2 DEF Mine, HeadCommit, TreeOf
  <2>4. ASSUME NEW before \in staged
        PROVE  /\ head = Mine.branch => HeadCommit = Mine.made
               /\ index = before /\ Picks = Free(before)'
    <3>1. (head = Mine.branch => HeadCommit = Mine.made) /\ index = before
      BY <2>1, <2>4, <1>a DEF StagedFits
    <3> QED BY <3>1, <2>2, <2>3 DEF Picks, Free
  <2> QED BY <2>1, <2>2, <2>3, <2>4 DEF StagedFits
<1>5. CASE WriteIndex
  <2>1. /\ at = "write" /\ at' = "settle" /\ index' = Overlay(index, req.picks, TreeOf(Mine.made))
        /\ UNCHANGED <<commit, ref, head, rec, req, staged>>
    BY <1>5 DEF WriteIndex
  <2>2. Mine' = Mine /\ HeadCommit' = HeadCommit /\ TreeOf(Mine.made)' = TreeOf(Mine.made)
        /\ TreeOf(Mine.head)' = TreeOf(Mine.head)
    BY <2>1 DEF Mine, HeadCommit, TreeOf
  <2>3. ASSUME NEW before \in staged
        PROVE  /\ head = Mine.branch => HeadCommit = Mine.made
               /\ index' = Overlay(before, Free(before)', TreeOf(Mine.made)')
    <3>1. /\ head = Mine.branch => HeadCommit = Mine.made
          /\ index = before /\ req.picks = Free(before)
      BY <2>1, <2>3, <1>a DEF StagedFits
    <3>2. Free(before)' = Free(before)
      BY <2>1, <2>2 DEF Free
    <3> QED BY <3>1, <3>2, <2>1, <2>2
  <2>4. ASSUME NEW before \in staged
        PROVE  /\ head' = Mine'.branch => HeadCommit' = Mine'.made
               /\ index' = Overlay(before, Free(before), TreeOf(Mine.made))'
    BY <2>1, <2>2, <2>3, <2>4 DEF Overlay
  <2> QED BY <2>1, <2>4 DEF StagedFits
<1>6. CASE Working
  <2>1. CASE \/ UserCommits \/ (\E f \in File : Stage(f)) \/ (\E b \in Branch : UserSwitches(b))
             \/ \E c \in Commit : Reset(c)
    BY <2>1, <1>b DEF Stage, UserCommits, UserSwitches, Reset
  <2>2. CASE \/ \E f \in File : \E c \in Content : Edit(f, c)
             \/ \E b \in Branch, c \in Commit \cup {NoCommit} : MoveBranch(b, c)
             \/ ChangeHooks
    <3>1. /\ UNCHANGED <<staged, index, head, rec, req, at>>
      BY <2>2 DEF Edit, MoveBranch, ChangeHooks, UserStep
    <3>2. HeadCommit' = HeadCommit
      BY <2>2, <1>a DEF Edit, MoveBranch, ChangeHooks, HeadCommit, TypeOK
    <3> QED BY <3>1, <3>2, StagedKept
  <2> QED BY <2>1, <2>2, <1>6 DEF Working
<1> QED BY <1>1, <1>2, <1>3, <1>4, <1>5, <1>6 DEF Next, Shell, Committing

-----------------------------------------------------------------------------
(* The theorems *)

LEMMA InitInv == Init => IInv
<1> SUFFICES ASSUME Init PROVE IInv
  OBVIOUS
<1>1. TypeOK /\ CommitsFit
  BY InitTypes
<1>2. /\ \A p \in Prep : rec[p].state = "none"
      /\ at = "idle" /\ quiet = {} /\ staged = {} /\ \A p \in Prep : ran[p] = 0
  BY DEF Init, NoRec
<1>3. \A c \in Made : commit[c].by = User
  BY DEF Init, Made, Early, NotMade
<1>4. RecsFit /\ ReqFits /\ RunsFit /\ QuietFits /\ StagedFits
  BY <1>2 DEF RecsFit, ReqFits, RunsFit, QuietFits, StagedFits, CommitAt, MadeAt, BranchAt
<1>5. MadeAsReviewed
  BY <1>3 DEF MadeAsReviewed
<1> QED BY <1>1, <1>4, <1>5 DEF IInv

LEMMA StutterInv == IInv /\ UNCHANGED vars => IInv'
<1> SUFFICES ASSUME IInv, UNCHANGED vars PROVE IInv'
  OBVIOUS
<1>a. UNCHANGED <<commit, ref, head, index, work, hooks, rec, at, req, steps, crashes, ran, quiet, staged>>
  BY DEF vars, repository, history
<1>1. TypeOK' /\ CommitsFit'
  BY <1>a DEF IInv, TypeOK, CommitsFit, Made, Exists
<1>2. RecsFit' /\ MadeAsReviewed'
  BY <1>a DEF IInv, RecsFit, MadeAsReviewed, Made, Overlay, TreeOf
<1>3. ReqFits'
  BY <1>a DEF IInv, ReqFits, Mine, Made, ReviewedTree, Overlay, TreeOf
<1>4. RunsFit' /\ QuietFits'
  BY <1>a DEF IInv, RunsFit, QuietFits, Prepared, Landed
<1>5. StagedFits'
  BY <1>a DEF IInv, StagedFits, HeadCommit, Mine, Free, Overlay, TreeOf
<1> QED BY <1>1, <1>2, <1>3, <1>4, <1>5 DEF IInv

LEMMA NextInv == IInv /\ [Next]_vars => IInv'
<1>1. IInv /\ Next => CommitsFit'
  BY CommitsGrowing, CommitsStay DEF IInv
<1>2. IInv /\ Next => IInv'
  BY <1>1, TypesStay, RecsFitStay, ReqFitsStay, MadeAsReviewedStay, RunsFitStay, QuietFitsStay,
     StagedFitsStay DEF IInv
<1> QED BY <1>2, StutterInv

LEMMA Invariance == Spec => []IInv
  BY InitInv, NextInv, PTL DEF Spec

\* The types of what the requests of commit.rs and branch.rs read and write: HEAD is
\* always on a branch that exists, and a branch is at a commit that was made.
THEOREM TypeCorrect == Spec => []TypeOK
<1>1. IInv => TypeOK
  BY DEF IInv
<1> QED BY <1>1, Invariance, PTL

\* What `commit_reviewed_files` puts in a branch is the reviewed HEAD with the
\* reviewed contents of the chosen files, whatever the user, their hooks and other
\* Git processes do between its steps.
THEOREM CommitsAreReviewed == Spec => []CommitIsWhatWasReviewed
<1>1. IInv => CommitIsWhatWasReviewed
  BY ReachableIsMade DEF IInv, MadeAsReviewed, CommitIsWhatWasReviewed
<1> QED BY <1>1, Invariance, PTL

\* The index a commit found, with the commit's paths the user had staged nothing else
\* at, is the index it leaves: sync_committed_index in commit.rs.
THEOREM StagedWorkIsKept == Spec => []StagedWorkStays
<1>1. IInv => StagedWorkStays
  <2> SUFFICES ASSUME IInv, at = "settle", head = Mine.branch, NEW before \in staged, NEW f \in File
               PROVE  /\ before[f] # TreeOf(Mine.head)[f] => index[f] = before[f]
                      /\ before[f] = TreeOf(Mine.head)[f] => index[f] = TreeOf(HeadCommit)[f]
    BY DEF StagedWorkStays
  <2>1. /\ HeadCommit = Mine.made
        /\ index = Overlay(before, Free(before), TreeOf(Mine.made))
    BY DEF IInv, StagedFits
  <2>2. commit[Mine.made].tree = ReviewedTree
    BY DEF IInv, ReqFits, MadeAt
  <2>3. TreeOf(Mine.made)[f] =
          IF f \in req.files THEN Mine.blobs[f] ELSE TreeOf(Mine.head)[f]
    BY <2>2 DEF TreeOf, ReviewedTree, Overlay
  <2>4. index[f] = IF f \in Free(before) THEN TreeOf(Mine.made)[f] ELSE before[f]
    BY <2>1 DEF Overlay
  <2> QED BY <2>1, <2>3, <2>4 DEF Free
<1> QED BY <1>1, Invariance, PTL

\* The record of a branch mutation is consumed before Git runs, so approving it again
\* does not repeat it, and the recovery card of branch.rs reads out of it whether it
\* took effect: of every creation and deletion, and of a switch from another branch.
THEOREM MutationsRunOnce == Spec => []MutationRunsOnce
<1>1. IInv => MutationRunsOnce
  <2> SUFFICES ASSUME IInv, NEW p \in Prep
               PROVE  /\ ran[p] <= 1
                      /\ CutOff(p) =>
                           Inspect(p) = IF ran[p] = 1 \/ NothingToSwitch(p) THEN "landed"
                                        ELSE "not_landed"
    BY DEF MutationRunsOnce
  <2>1. ran[p] \in {0, 1}
    BY DEF IInv, RunsFit
  <2>2. rec[p] \in Record
    BY DEF IInv, TypeOK
  <2>3. ASSUME p \in quiet
        PROVE  /\ rec[p].kind \in {"create", "switch", "delete"} /\ rec[p].oid # NoCommit
               /\ IF ran[p] = 0 THEN Prepared(rec[p]) ELSE Landed(rec[p])
    <3>1. rec[p].kind # "commit" /\ rec[p].state # "none"
          /\ IF ran[p] = 0 THEN Prepared(rec[p]) ELSE Landed(rec[p])
      BY <2>3 DEF IInv, QuietFits
    <3>2. rec[p].oid \in Made /\ NoCommit \notin Made
      BY <3>1, Numbers DEF IInv, RecsFit, Made
    <3> QED BY <3>1, <3>2, <2>2 DEF Record, Kind
  <2>4. CASE p \in quiet /\ ran[p] = 1
    BY <2>3, <2>4 DEF Inspect, Landed
  <2>5. CASE p \in quiet /\ ran[p] = 0
    BY <2>3, <2>5 DEF Inspect, Prepared, NothingToSwitch
  <2> QED BY <2>1, <2>4, <2>5 DEF CutOff
<1> QED BY <1>1, Invariance, PTL

\* A branch moved to a commit whose past holds what the branch's held loses nothing.
LEMMA ReachesMore ==
  ASSUME NEW refs \in [Branch -> Made \cup {NoCommit}], NEW b \in Branch,
         NEW c \in Made \cup {NoCommit}, Past(refs[b]) \subseteq Past(c)
  PROVE  Reachable(refs) \subseteq Reachable([refs EXCEPT ![b] = c])
<1> DEFINE after == [refs EXCEPT ![b] = c]
<1>1. \A d \in Branch : Past(refs[d]) \subseteq Past(after[d])
  OBVIOUS
<1> HIDE DEF after
<1>2. Reachable(refs) \subseteq Reachable(after)
  BY <1>1 DEF Reachable
<1> QED BY <1>2 DEF after

\* Whatever the user does to the branches between the steps of a request, the request
\* moves a branch to a child of where it was (`git update-ref` with the old value),
\* makes one, or deletes one whose commits HEAD has or the confirmation named.
THEOREM HistoriesAreKept == Spec => HistoryIsKept
<1>1. IInv /\ Next /\ Shell /\ ~(Reachable(ref) \subseteq Reachable(ref'))
        => at = "git" /\ Mine.kind = "delete" /\ Mine.lost # {}
  <2> SUFFICES ASSUME IInv, Next, Shell, ~(Reachable(ref) \subseteq Reachable(ref'))
               PROVE  at = "git" /\ Mine.kind = "delete" /\ Mine.lost # {}
    OBVIOUS
  <2>a. /\ TypeOK /\ CommitsFit /\ RecsFit /\ ReqFits /\ ParentsFit
        /\ ref \in [Branch -> Made \cup {NoCommit}] /\ req.prep \in Prep
    BY ParentsAre DEF IInv, TypeOK
  <2>b. ref' # ref
    OBVIOUS
  <2>1. UpdateRef \/ RunGit
    <3>1. CASE Beside \/ MakeCommit
      BY <3>1, <2>a, <2>b, BesideFrame DEF MakeCommit
    <3> QED BY <3>1 DEF Shell, Committing, Mutating, Beside
  <2>2. CASE UpdateRef
    <3>1. /\ ref[Mine.branch] = Mine.head /\ ref' = [ref EXCEPT ![Mine.branch] = Mine.made]
          /\ at = "ref"
      BY <2>2, <2>b DEF UpdateRef, RefIsAsReviewed
    <3>2. Mine.made \in Made /\ commit[Mine.made].parent = Mine.head /\ Mine.branch \in Branch
      BY <3>1, <2>a, Trees DEF ReqFits, MadeAt, Record
    <3>3. Past(Mine.made) = {Mine.made} \cup Past(Mine.head)
      BY <3>2, <2>a, PastStep
    <3> QED BY <3>1, <3>2, <3>3, <2>a, ReachesMore
  <2>3. CASE RunGit
    <3>1. /\ GitAccepts /\ GitEffect /\ at = "git"
      BY <2>3, <2>b DEF RunGit
    <3>2. /\ Mine.kind \in {"create", "switch", "delete"} /\ Mine.branch \in Branch
          /\ Mine.oid \in Made
      BY <3>1, <2>a, Trees DEF ReqFits, BranchAt, RecsFit, Mine, Record, Kind
    <3>3. CASE Mine.kind = "create"
      <4>1. ref[Mine.branch] = NoCommit /\ ref' = [ref EXCEPT ![Mine.branch] = Mine.oid]
        BY <3>1, <3>3 DEF GitAccepts, GitEffect, Exists
      <4> QED BY <4>1, <3>2, <2>a, PastOfNone, ReachesMore
    <3>4. CASE Mine.kind = "switch"
      BY <3>1, <3>4, <2>b DEF GitEffect
    <3>5. CASE Mine.kind = "delete"
      <4>1. /\ Mine.branch # head /\ ref' = [ref EXCEPT ![Mine.branch] = NoCommit]
            /\ Mine.lost = {} => PlainDelete(Mine.branch) = {}
        BY <3>1, <3>5 DEF GitAccepts, GitEffect
      <4>2. ASSUME Mine.lost = {}, NEW b \in Branch
            PROVE  \E d \in Branch : Past(ref[b]) \subseteq Past(ref'[d])
        <5>1. CASE b = Mine.branch
          <6>1. Past(ref[b]) \subseteq Past(HeadCommit)
            BY <4>1, <4>2, <5>1 DEF PlainDelete
          <6>2. head \in Branch /\ ref'[head] = HeadCommit
            BY <4>1, <2>a DEF TypeOK, HeadCommit
          <6> QED BY <6>1, <6>2
        <5>2. CASE b # Mine.branch
          BY <4>1, <5>2, <2>a
        <5> QED BY <5>1, <5>2
      <4>3. PICK refs : refs = ref'
        OBVIOUS
      <4>4. Mine.lost = {} => Reachable(ref) \subseteq Reachable(refs)
        BY <4>2, <4>3 DEF Reachable
      <4> QED BY <3>1, <3>5, <4>3, <4>4
    <3> QED BY <3>2, <3>3, <3>4, <3>5
  <2> QED BY <2>1, <2>2, <2>3
<1>2. IInv /\ [Next]_vars => [Shell /\ ~(Reachable(ref) \subseteq Reachable(ref'))
        => at = "git" /\ Mine.kind = "delete" /\ Mine.lost # {}]_vars
  BY <1>1
<1> QED BY <1>2, Invariance, PTL DEF Spec, HistoryIsKept
=============================================================================
