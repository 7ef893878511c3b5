----------------------- MODULE ProcessRegistryProofs -----------------------
(* Theorems about `ProcessRegistry`, for any pids and bounds. *)
EXTENDS ProcessRegistry, TLAPS

(***************************************************************************)
(* The strengthening. Pids are unique among the processes that hold one;   *)
(* what is not born yet has no history, and no file or sweep names it; a   *)
(* reaped child is dead.                                                   *)
(***************************************************************************)
UniquePids == \A m, n \in Proc :
                /\ life[m] \in {"running", "zombie"}
                /\ life[n] \in {"running", "zombie"}
                /\ pid[m] = pid[n]
                => m = n

Unborn == \A n \in Proc : n > born =>
            /\ life[n] = "unborn" /\ reg[n] = "no"
            /\ n \notin entries
            /\ \A c \in SweepScope :
                 /\ pc[c][n] = "off"
                 /\ \A s \in Proc : n \notin todo[c][s] /\ n # target[c][s]

Parents == \A n \in Proc : parent[n] <= born

ReapedIsDead == \A n \in Proc : reg[n] = "reaped" => life[n] # "running"

IInv == /\ TypeOK
        /\ UniquePids
        /\ Unborn
        /\ Parents
        /\ ReapedIsDead
        /\ RegisteredStaysRecorded
        /\ LiveOwnersAreLeftAlone

-----------------------------------------------------------------------------
(* Steps several actions share *)

\* A process starts: born, kind, parent, pid and life keep their types.
LEMMA StartsType ==
  ASSUME TypeOK, NEW o \in Proc \union {0}, NEW k \in Kind, Starts(o, k)
  PROVE  /\ born + 1 \in Proc
         /\ born' = born + 1
         /\ born' \in 0..MaxProcs
         /\ kind' \in [Proc -> Kind]
         /\ parent' \in [Proc -> Proc \union {0}]
         /\ pid' \in [Proc -> Pid \union {0}]
         /\ life' \in [Proc -> {"unborn", "running", "zombie", "gone"}]
         /\ \A n \in Proc : n # born + 1 =>
              /\ life'[n] = life[n] /\ pid'[n] = pid[n] /\ parent'[n] = parent[n]
         /\ life'[born + 1] = "running"
         /\ parent'[born + 1] = o
         /\ ~ Held(pid'[born + 1])
         /\ ReuseInGrace \/ ~ Aimed(pid'[born + 1])
  BY BoundsAssumption DEF TypeOK, Starts, Proc

\* A process dies: nobody else starts, ends or changes its registration.
LEMMA LifeWithoutType ==
  ASSUME TypeOK, NEW d \in Proc
  PROVE  /\ LifeWithout(d) \in [Proc -> {"unborn", "running", "zombie", "gone"}]
         /\ LifeWithout(d)[d] # "running"
         /\ \A n \in Proc : n # d =>
              \/ LifeWithout(d)[n] = life[n]
              \/ life[n] = "zombie" /\ LifeWithout(d)[n] = "gone"
         /\ LifeWithout(d)[d] \in {"zombie", "gone"}
  BY DEF TypeOK, LifeWithout

LEMMA RegWithoutType ==
  ASSUME TypeOK, NEW d \in Proc
  PROVE  /\ RegWithout(d) \in [Proc -> {"no", "spawned", "written", "linked", "held",
                                        "failed", "reaped", "dropped"}]
         /\ \A n \in Proc :
              /\ RegWithout(d)[n] \in {"linked", "held"} <=> Registered(n)
              /\ RegWithout(d)[n] = "reaped" <=> reg[n] = "reaped"
              /\ reg[n] = "no" => RegWithout(d)[n] = "no"
  BY DEF TypeOK, RegWithout, Registered

\* What a dead sweeper was doing is forgotten, the other sweeps go on.
LEMMA ForgetAt ==
  ASSUME NEW T, NEW f \in [SweepScope -> [Proc -> T]], NEW d \in Proc, NEW v \in T
  PROVE  /\ Forget(f, d, v) \in [SweepScope -> [Proc -> T]]
         /\ \A c \in SweepScope, s \in Proc :
              Forget(f, d, v)[c][s] = IF s = d THEN v ELSE f[c][s]
  BY DEF Forget

\* Changing one sweep's place in a table of sweeps.
LEMMA SweepExcept ==
  ASSUME NEW T, NEW f \in [SweepScope -> [Proc -> T]],
         NEW c \in SweepScope, NEW s \in Proc, NEW v \in T
  PROVE  /\ [f EXCEPT ![c][s] = v] \in [SweepScope -> [Proc -> T]]
         /\ \A b \in SweepScope, r \in Proc :
              [f EXCEPT ![c][s] = v][b][r] =
                IF b = c /\ r = s THEN v ELSE f[b][r]
  OBVIOUS

-----------------------------------------------------------------------------
(* Types *)

\* The tables of the sweeps.
LEMMA SweepTypes ==
  ASSUME TypeOK
  PROVE  /\ pc \in [SweepScope -> [Proc -> {"off", "next", "matched", "termed",
                                            "done", "failed"}]]
         /\ todo \in [SweepScope -> [Proc -> SUBSET Proc]]
         /\ target \in [SweepScope -> [Proc -> Proc \union {0}]]
         /\ due \in [SweepScope -> [Proc -> SUBSET Proc]]
         /\ \A c \in SweepScope, s \in Proc :
              target[c][s] # 0 <=> pc[c][s] \in {"matched", "termed"}
  BY DEF TypeOK

\* The death of a process keeps every type.
LEMMA DiesType ==
  ASSUME TypeOK, NEW d \in Proc, Dies(d),
         UNCHANGED <<born, kind, parent, pid, files, struck>>
  PROVE  TypeOK'
<1>1. LifeWithout(d) \in [Proc -> {"unborn", "running", "zombie", "gone"}]
  BY LifeWithoutType
<1>2. RegWithout(d) \in [Proc -> {"no", "spawned", "written", "linked", "held",
                                  "failed", "reaped", "dropped"}]
  BY RegWithoutType
<1>3. /\ pc' \in [SweepScope -> [Proc -> {"off", "next", "matched", "termed",
                                          "done", "failed"}]]
      /\ \A c \in SweepScope, s \in Proc :
           pc'[c][s] = IF s = d THEN "off" ELSE pc[c][s]
  BY SweepTypes DEF Dies, Forget
<1>4. /\ target' \in [SweepScope -> [Proc -> Proc \union {0}]]
      /\ \A c \in SweepScope, s \in Proc :
           target'[c][s] = IF s = d THEN 0 ELSE target[c][s]
  BY SweepTypes DEF Dies, Forget
<1>5. /\ todo' \in [SweepScope -> [Proc -> SUBSET Proc]]
      /\ due' \in [SweepScope -> [Proc -> SUBSET Proc]]
  BY SweepTypes DEF Dies, Forget
<1>6. \A c \in SweepScope, s \in Proc :
        target'[c][s] # 0 <=> pc'[c][s] \in {"matched", "termed"}
  BY <1>3, <1>4, SweepTypes
<1> QED
  BY <1>1, <1>2, <1>3, <1>4, <1>5, <1>6 DEF TypeOK, Dies, files

\* A sweep that begins keeps the types.
LEMMA ListType ==
  ASSUME TypeOK, NEW c \in SweepScope, NEW s \in Proc,
         pc[c][s] = "off", List(c, s), UNCHANGED target
  PROVE  /\ pc' \in [SweepScope -> [Proc -> {"off", "next", "matched", "termed",
                                             "done", "failed"}]]
         /\ todo' \in [SweepScope -> [Proc -> SUBSET Proc]]
         /\ due' \in [SweepScope -> [Proc -> SUBSET Proc]]
         /\ temps' \subseteq temps
         /\ \A b \in SweepScope, r \in Proc :
              /\ pc'[b][r] = IF b = c /\ r = s THEN "next" ELSE pc[b][r]
              /\ todo'[b][r] \subseteq todo[b][r] \union entries
         /\ \A b \in SweepScope, r \in Proc :
              target'[b][r] # 0 <=> pc'[b][r] \in {"matched", "termed"}
<1> DEFINE D == {n \in entries : InScope(c, s, n)}
           L == IF c = "CrashedOwners" THEN entries ELSE D
<1>1. entries \in SUBSET Proc /\ D \in SUBSET Proc /\ D \subseteq entries
  BY DEF TypeOK
<1>2. due' = [due EXCEPT ![c][s] = D]
  BY DEF List
<1>3. due' \in [SweepScope -> [Proc -> SUBSET Proc]] /\ due'[c][s] = D
  BY <1>1, <1>2, SweepTypes, SweepExcept
<1>4. L \in SUBSET Proc /\ L \subseteq entries /\ todo' = [todo EXCEPT ![c][s] = L]
  BY <1>1, <1>3 DEF List
<1>5. /\ todo' \in [SweepScope -> [Proc -> SUBSET Proc]]
      /\ \A b \in SweepScope, r \in Proc :
           todo'[b][r] = IF b = c /\ r = s THEN L ELSE todo[b][r]
  BY <1>4, SweepTypes, SweepExcept
<1>6. /\ pc' \in [SweepScope -> [Proc -> {"off", "next", "matched", "termed",
                                          "done", "failed"}]]
      /\ \A b \in SweepScope, r \in Proc :
           pc'[b][r] = IF b = c /\ r = s THEN "next" ELSE pc[b][r]
  BY SweepTypes, SweepExcept DEF List
<1>7. temps' \subseteq temps
  BY DEF List
<1>8. \A b \in SweepScope, r \in Proc :
        target'[b][r] # 0 <=> pc'[b][r] \in {"matched", "termed"}
  BY <1>6, SweepTypes
<1> QED
  BY <1>3, <1>4, <1>5, <1>6, <1>7, <1>8

LEMMA TypeStep ==
  ASSUME TypeOK, Unborn, [Next]_vars
  PROVE  TypeOK'
<1>1. CASE Launch
  <2>1. /\ born + 1 \in Proc
        /\ born' \in 0..MaxProcs
        /\ kind' \in [Proc -> Kind]
        /\ parent' \in [Proc -> Proc \union {0}]
        /\ pid' \in [Proc -> Pid \union {0}]
        /\ life' \in [Proc -> {"unborn", "running", "zombie", "gone"}]
    BY <1>1, StartsType DEF Launch, Kind
  <2>2. "CrashedOwners" \in SweepScope /\ pc["CrashedOwners"][born + 1] = "off"
    BY <2>1 DEF Unborn, SweepScope, TypeOK
  <2>3. List("CrashedOwners", born + 1) /\ UNCHANGED <<entries, reg, target, struck>>
    BY <1>1 DEF Launch
  <2>4. /\ pc' \in [SweepScope -> [Proc -> {"off", "next", "matched", "termed",
                                            "done", "failed"}]]
        /\ todo' \in [SweepScope -> [Proc -> SUBSET Proc]]
        /\ due' \in [SweepScope -> [Proc -> SUBSET Proc]]
        /\ temps' \subseteq temps
        /\ \A b \in SweepScope, r \in Proc :
             target'[b][r] # 0 <=> pc'[b][r] \in {"matched", "termed"}
    BY <2>1, <2>2, <2>3, ListType
  <2> QED
    BY <2>1, <2>3, <2>4 DEF TypeOK
<1>2. CASE StrangerStarts
  <2>1. Starts(0, "stranger") /\ UNCHANGED <<files, reg, sweeps, struck>>
    BY <1>2 DEF StrangerStarts
  <2> QED
    BY <2>1, StartsType DEF TypeOK, files, sweeps, Kind
<1>3. ASSUME NEW n \in Proc, Ends(n)
      PROVE  TypeOK'
  BY <1>3, DiesType DEF Ends, files
<1>4. ASSUME NEW o \in Proc, Spawn(o)
      PROVE  TypeOK'
  <2>1. /\ \E k \in {"worker", "child"} : Starts(o, k)
        /\ reg' = [reg EXCEPT ![born + 1] = "spawned"]
        /\ UNCHANGED <<files, sweeps, struck>>
    BY <1>4 DEF Spawn
  <2> QED
    BY <2>1, StartsType DEF TypeOK, files, sweeps, Kind
<1>5. ASSUME NEW n \in Proc,
             Register(n) \/ Link(n) \/ RemoveTemp(n) \/ RegisterFails(n) \/ DropHandle(n)
      PROVE  TypeOK'
  <2>1. CASE Register(n)
    <3>1. temps' \subseteq Proc
      BY <2>1 DEF TypeOK, Register
    <3>2. reg' = [reg EXCEPT ![n] = "written"] \/ reg' = [reg EXCEPT ![n] = "held"]
      BY <2>1 DEF Register
    <3>4. reg' \in [Proc -> {"no", "spawned", "written", "linked", "held",
                             "failed", "reaped", "dropped"}]
      BY <3>2 DEF TypeOK
    <3>3. UNCHANGED <<os, entries, sweeps, struck>>
      BY <2>1 DEF Register
    <3> QED
      BY <3>1, <3>4, <3>3 DEF TypeOK, os, sweeps
  <2>2. CASE Link(n)
    BY <2>2 DEF TypeOK, Link, os, sweeps
  <2>3. CASE RemoveTemp(n)
    BY <2>3 DEF TypeOK, RemoveTemp, os, sweeps
  <2>4. CASE RegisterFails(n)
    BY <2>4 DEF TypeOK, RegisterFails, os, sweeps
  <2>5. CASE DropHandle(n)
    BY <2>5 DEF TypeOK, DropHandle, os, sweeps
  <2> QED
    BY <1>5, <2>1, <2>2, <2>3, <2>4, <2>5
<1>6. ASSUME NEW n \in Proc, Reap(n)
      PROVE  TypeOK'
  BY <1>6 DEF TypeOK, Reap, files, sweeps
<1>7. ASSUME NEW n \in Proc, BeginShutdown(n)
      PROVE  TypeOK'
  <2>1. "OwnProcess" \in SweepScope
    BY DEF SweepScope
  <2>2. /\ pc["OwnProcess"][n] = "off"
        /\ List("OwnProcess", n)
        /\ UNCHANGED <<os, entries, reg, target, struck>>
    BY <1>7 DEF BeginShutdown
  <2>3. /\ pc' \in [SweepScope -> [Proc -> {"off", "next", "matched", "termed",
                                            "done", "failed"}]]
        /\ todo' \in [SweepScope -> [Proc -> SUBSET Proc]]
        /\ due' \in [SweepScope -> [Proc -> SUBSET Proc]]
        /\ temps' \subseteq temps
        /\ \A b \in SweepScope, r \in Proc :
             target'[b][r] # 0 <=> pc'[b][r] \in {"matched", "termed"}
    BY <2>1, <2>2, ListType
  <2> QED
    BY <2>2, <2>3 DEF TypeOK, os
<1>8. ASSUME NEW n \in Proc, Raise(n)
      PROVE  TypeOK'
  BY <1>8, DiesType DEF Raise, files
<1>9. ASSUME NEW c \in SweepScope, NEW s \in Proc, NEW n \in Proc, Check(c, s, n)
      PROVE  TypeOK'
  <2>1. /\ pc[c][s] = "next"
        /\ todo' = [todo EXCEPT ![c][s] = @ \ {n}]
        /\ entries' \subseteq entries
        /\ UNCHANGED <<os, temps, reg, due, struck>>
        /\ \/ UNCHANGED <<pc, target>>
           \/ /\ pc' = [pc EXCEPT ![c][s] = "matched"]
              /\ target' = [target EXCEPT ![c][s] = n]
    BY <1>9 DEF Check
  <2>2. todo' \in [SweepScope -> [Proc -> SUBSET Proc]]
    BY <2>1, SweepTypes
  <2>3. /\ pc' \in [SweepScope -> [Proc -> {"off", "next", "matched", "termed",
                                            "done", "failed"}]]
        /\ target' \in [SweepScope -> [Proc -> Proc \union {0}]]
    <3>1. CASE UNCHANGED <<pc, target>>
      BY <3>1, SweepTypes
    <3>2. CASE /\ pc' = [pc EXCEPT ![c][s] = "matched"]
               /\ target' = [target EXCEPT ![c][s] = n]
      BY <3>2, SweepTypes
    <3> QED
      BY <2>1, <3>1, <3>2
  <2>4. n # 0
    BY DEF Proc
  <2>5. \A b \in SweepScope, r \in Proc :
          target'[b][r] # 0 <=> pc'[b][r] \in {"matched", "termed"}
    BY <2>1, <2>4, SweepTypes
  <2> QED
    BY <2>1, <2>2, <2>3, <2>5 DEF TypeOK, os
<1>10. ASSUME NEW c \in SweepScope, NEW s \in Proc, Terminate(c, s)
       PROVE  TypeOK'
  <2>1. struck' \subseteq Proc
    BY <1>10 DEF Terminate, Strikes, Of, TypeOK
  <2> QED
    BY <1>10, <2>1 DEF Terminate, TypeOK, os, files
<1>11. ASSUME NEW c \in SweepScope, NEW s \in Proc, Exited(c, s)
       PROVE  TypeOK'
  BY <1>11 DEF Exited, Settles, TypeOK, os
<1>12. ASSUME NEW c \in SweepScope, NEW s \in Proc, Kill(c, s)
       PROVE  TypeOK'
  <2>1. struck' \subseteq Proc /\ entries' \subseteq Proc /\ temps' = temps
    BY <1>12 DEF Kill, Strikes, Settles, Of, TypeOK
  <2>2. CASE Of(pid[target[c][s]]) = {}
    <3>1. /\ pc' = [pc EXCEPT ![c][s] = "next"]
          /\ target' = [target EXCEPT ![c][s] = 0]
          /\ UNCHANGED <<os, reg, todo, due>>
      BY <1>12, <2>2 DEF Kill
    <3>2. /\ pc' \in [SweepScope -> [Proc -> {"off", "next", "matched", "termed",
                                              "done", "failed"}]]
          /\ target' \in [SweepScope -> [Proc -> Proc \union {0}]]
          /\ \A b \in SweepScope, r \in Proc :
               target'[b][r] # 0 <=> pc'[b][r] \in {"matched", "termed"}
      BY <3>1, SweepTypes
    <3> QED
      BY <2>1, <3>1, <3>2 DEF TypeOK, os
  <2>3. CASE Of(pid[target[c][s]]) # {}
    <3>1. PICK v \in Of(pid[target[c][s]]) :
            /\ life' = LifeWithout(v)
            /\ reg' = RegWithout(v)
            /\ pc' = [Forget(pc, v, "off") EXCEPT ![c][s] = "next"]
            /\ todo' = Forget(todo, v, {})
            /\ target' = [Forget(target, v, 0) EXCEPT ![c][s] = 0]
            /\ due' = Forget(due, v, {})
            /\ UNCHANGED <<born, kind, parent, pid>>
      BY <1>12, <2>3 DEF Kill
    <3>2. v \in Proc
      BY DEF Of
    <3>3. life' \in [Proc -> {"unborn", "running", "zombie", "gone"}]
      BY <3>1, <3>2, LifeWithoutType
    <3>4. reg' \in [Proc -> {"no", "spawned", "written", "linked", "held",
                             "failed", "reaped", "dropped"}]
      BY <3>1, <3>2, RegWithoutType
    <3>5. /\ todo' \in [SweepScope -> [Proc -> SUBSET Proc]]
          /\ due' \in [SweepScope -> [Proc -> SUBSET Proc]]
      BY <3>1, <3>2, SweepTypes DEF Forget
    <3>6. /\ pc' \in [SweepScope -> [Proc -> {"off", "next", "matched", "termed",
                                              "done", "failed"}]]
          /\ \A b \in SweepScope, r \in Proc :
               pc'[b][r] = IF b = c /\ r = s THEN "next"
                           ELSE IF r = v THEN "off" ELSE pc[b][r]
      BY <3>1, <3>2, SweepTypes DEF Forget
    <3>7. /\ target' \in [SweepScope -> [Proc -> Proc \union {0}]]
          /\ \A b \in SweepScope, r \in Proc :
               target'[b][r] = IF (b = c /\ r = s) \/ r = v THEN 0 ELSE target[b][r]
      BY <3>1, <3>2, SweepTypes DEF Forget
    <3>8. \A b \in SweepScope, r \in Proc :
            target'[b][r] # 0 <=> pc'[b][r] \in {"matched", "termed"}
      BY <3>6, <3>7, SweepTypes
    <3> QED
      BY <2>1, <3>1, <3>3, <3>4, <3>5, <3>6, <3>7, <3>8 DEF TypeOK
  <2> QED
    BY <2>2, <2>3
<1>13. ASSUME NEW c \in SweepScope, NEW s \in Proc, FinishSweep(c, s)
       PROVE  TypeOK'
  BY <1>13 DEF FinishSweep, TypeOK, os, files
<1>14. ASSUME NEW c \in SweepScope, NEW s \in Proc, SweepFails(c, s)
       PROVE  TypeOK'
  <2>1. CASE c = "CrashedOwners"
    BY <1>14, <2>1, DiesType DEF SweepFails, files
  <2>2. CASE c # "CrashedOwners"
    <3>1. /\ pc[c][s] = "next"
          /\ pc' = [pc EXCEPT ![c][s] = "failed"]
          /\ todo' = [todo EXCEPT ![c][s] = {}]
          /\ due' = [due EXCEPT ![c][s] = {}]
          /\ UNCHANGED <<os, reg, target, files, struck>>
      BY <1>14, <2>2 DEF SweepFails
    <3>2. /\ pc' \in [SweepScope -> [Proc -> {"off", "next", "matched", "termed",
                                              "done", "failed"}]]
          /\ todo' \in [SweepScope -> [Proc -> SUBSET Proc]]
          /\ due' \in [SweepScope -> [Proc -> SUBSET Proc]]
      BY <3>1, SweepTypes
    <3>3. \A b \in SweepScope, r \in Proc :
            target'[b][r] # 0 <=> pc'[b][r] \in {"matched", "termed"}
      BY <3>1, SweepTypes
    <3> QED
      BY <3>1, <3>2, <3>3 DEF TypeOK, os, files
  <2> QED
    BY <2>1, <2>2
<1>15. CASE UNCHANGED vars
  BY <1>15 DEF vars, os, files, sweeps, TypeOK
<1> QED
  BY <1>1, <1>2, <1>3, <1>4, <1>5, <1>6, <1>7, <1>8, <1>9, <1>10, <1>11, <1>12,
     <1>13, <1>14, <1>15 DEF Next, OwnerStep, SweepStep

-----------------------------------------------------------------------------
(* What one step can do *)

\* To the processes: one more is started, by nobody or by a running owner, or
\* some end. The dead stay dead.
LifeMoves ==
  \/ /\ UNCHANGED <<born, kind, parent, pid>>
     /\ \A n \in Proc : \/ life'[n] = life[n]
                        \/ /\ life[n] \in {"running", "zombie"}
                           /\ life'[n] \in {"zombie", "gone"}
  \/ \E o \in Proc \union {0}, k \in Kind : Starts(o, k) /\ (o = 0 \/ Running(o))

LEMMA DeathMoves ==
  ASSUME TypeOK, NEW d \in Proc, Running(d), life' = LifeWithout(d),
         UNCHANGED <<born, kind, parent, pid>>
  PROVE  LifeMoves
<1>1. \A n \in Proc : \/ life'[n] = life[n]
                      \/ /\ life[n] \in {"running", "zombie"}
                         /\ life'[n] \in {"zombie", "gone"}
  BY LifeWithoutType DEF Running
<1> QED
  BY <1>1 DEF LifeMoves

LEMMA LifeStep ==
  ASSUME TypeOK, [Next]_vars
  PROVE  LifeMoves
<1>1. CASE Launch
  <2>1. Starts(0, "instance")
    BY <1>1 DEF Launch
  <2> QED
    BY <2>1 DEF LifeMoves, Kind
<1>2. CASE StrangerStarts
  <2>1. Starts(0, "stranger")
    BY <1>2 DEF StrangerStarts
  <2> QED
    BY <2>1 DEF LifeMoves, Kind
<1>3. ASSUME NEW n \in Proc, Ends(n)
      PROVE  LifeMoves
  BY <1>3, DeathMoves DEF Ends, Dies
<1>4. ASSUME NEW o \in Proc, Spawn(o)
      PROVE  LifeMoves
  <2>1. Running(o) /\ \E k \in {"worker", "child"} : Starts(o, k)
    BY <1>4 DEF Spawn
  <2> QED
    BY <2>1 DEF LifeMoves, Kind
<1>5. ASSUME NEW n \in Proc, Reap(n)
      PROVE  LifeMoves
  BY <1>5 DEF Reap, LifeMoves, TypeOK
<1>6. ASSUME NEW n \in Proc, Raise(n)
      PROVE  LifeMoves
  BY <1>6, DeathMoves DEF Raise, Dies
<1>7. ASSUME NEW c \in SweepScope, NEW s \in Proc, Kill(c, s)
      PROVE  LifeMoves
  <2>1. CASE UNCHANGED os
    BY <2>1 DEF os, LifeMoves
  <2>2. CASE \E v \in Of(pid[target[c][s]]) :
               life' = LifeWithout(v) /\ UNCHANGED <<born, kind, parent, pid>>
    <3>1. PICK v \in Of(pid[target[c][s]]) :
            life' = LifeWithout(v) /\ UNCHANGED <<born, kind, parent, pid>>
      BY <2>2
    <3>2. v \in Proc /\ Running(v)
      BY DEF Of, Running
    <3> QED
      BY <3>1, <3>2, DeathMoves
  <2> QED
    BY <1>7, <2>1, <2>2 DEF Kill
<1>8. ASSUME NEW c \in SweepScope, NEW s \in Proc, SweepFails(c, s)
      PROVE  LifeMoves
  <2>1. CASE UNCHANGED os
    BY <2>1 DEF os, LifeMoves
  <2>2. CASE Dies(s) /\ UNCHANGED <<born, kind, parent, pid>>
    BY <1>8, <2>2, DeathMoves DEF Dies, SweepFails
  <2> QED
    BY <1>8, <2>1, <2>2 DEF SweepFails
<1>9. CASE UNCHANGED os
  BY <1>9 DEF os, LifeMoves
<1>10. ASSUME NEW n \in Proc, \/ Register(n) \/ Link(n) \/ RemoveTemp(n)
                              \/ RegisterFails(n) \/ DropHandle(n) \/ BeginShutdown(n)
       PROVE  UNCHANGED os
  BY <1>10 DEF Register, Link, RemoveTemp, RegisterFails, DropHandle, BeginShutdown
<1>11. ASSUME NEW c \in SweepScope, NEW s \in Proc,
              \/ Terminate(c, s) \/ Exited(c, s) \/ FinishSweep(c, s)
              \/ \E n \in Proc : Check(c, s, n)
       PROVE  UNCHANGED os
  BY <1>11 DEF Terminate, Exited, FinishSweep, Check
<1>12. CASE UNCHANGED vars
  BY <1>9, <1>12 DEF vars
<1> QED
  BY <1>1, <1>2, <1>3, <1>4, <1>5, <1>6, <1>7, <1>8, <1>9, <1>10, <1>11, <1>12
     DEF Next, OwnerStep, SweepStep

\* To the registrations and the entry files. The last conjunct is the heart of
\* the matter: nothing takes the entry of a process that runs.
RegMoves(n) ==
  /\ reg[n] = "no" => \/ reg'[n] = "no"
                      \/ n = born + 1 /\ born' = born + 1 /\ reg'[n] = "spawned"
  /\ reg'[n] \in {"linked", "held"}
       => \/ Registered(n) \/ n \in entries' \/ life[n] # "running"
  /\ reg'[n] = "reaped" => reg[n] = "reaped" \/ life'[n] # "running"
  /\ n \in entries' => n \in entries \/ reg[n] = "written"
  /\ n \in entries /\ n \notin entries' => life'[n] # "running"

\* The registrations of a dead owner's children, the files as they were.
LEMMA DeathRegs ==
  ASSUME TypeOK, Unborn, NEW d \in Proc, reg' = RegWithout(d), UNCHANGED entries,
         NEW n \in Proc
  PROVE  RegMoves(n)
<1>1. /\ RegWithout(d)[n] \in {"linked", "held"} <=> Registered(n)
      /\ RegWithout(d)[n] = "reaped" <=> reg[n] = "reaped"
      /\ reg[n] = "no" => RegWithout(d)[n] = "no"
  BY RegWithoutType
<1> QED
  BY <1>1 DEF RegMoves

\* The registrations and the files as they were.
LEMMA SameRegs ==
  ASSUME UNCHANGED <<reg, entries>>, NEW n \in Proc
  PROVE  RegMoves(n)
BY DEF RegMoves, Registered

\* A sweep removes the entry of its target, which does not run any more.
LEMMA SettledIsDead ==
  ASSUME NEW c \in SweepScope, NEW s \in Proc, Settles(c, s),
         NEW n \in Proc, n \in entries, n \notin entries'
  PROVE  n = target[c][s]
BY DEF Settles

\* Whoever the target's pid names is the target, if the target runs.
LEMMA TargetIsVictim ==
  ASSUME TypeOK, UniquePids, NEW t \in Proc, life[t] = "running",
         NEW v \in Of(pid[t])
  PROVE  v = t
BY DEF UniquePids, Of

LEMMA RegStep ==
  ASSUME TypeOK, Unborn, UniquePids, ReapedIsDead, [Next]_vars, NEW n \in Proc
  PROVE  RegMoves(n)
<1> USE DEF Registered
<1>0. n = born + 1 => reg[n] = "no" /\ n \notin entries
  BY DEF Unborn, TypeOK, Proc
<1>1. CASE Launch \/ StrangerStarts
  BY <1>1, SameRegs DEF Launch, StrangerStarts, files
<1>2. ASSUME NEW o \in Proc, Spawn(o)
      PROVE  RegMoves(n)
  <2>1. /\ born + 1 \in Proc /\ born' = born + 1
        /\ reg' = [reg EXCEPT ![born + 1] = "spawned"]
    BY <1>2, StartsType DEF Spawn, Kind
  <2>2. UNCHANGED entries
    BY <1>2 DEF Spawn, files
  <2> QED
    BY <1>0, <2>1, <2>2 DEF RegMoves, TypeOK
<1>3. ASSUME NEW d \in Proc, Ends(d) \/ Raise(d)
      PROVE  RegMoves(n)
  BY <1>3, DeathRegs DEF Ends, Raise, Dies, files
<1>4. ASSUME NEW m \in Proc, Register(m)
      PROVE  RegMoves(n)
  <2>1. /\ reg[m] = "spawned" /\ UNCHANGED <<entries, life>>
        /\ \/ reg' = [reg EXCEPT ![m] = "written"]
           \/ reg' = [reg EXCEPT ![m] = "held"] /\ m \notin Of(pid[m])
    BY <1>4 DEF Register, os
  <2>2. m \notin Of(pid[m]) => life[m] # "running"
    BY DEF Of
  <2> QED
    BY <1>0, <2>1, <2>2 DEF RegMoves, TypeOK
<1>5. ASSUME NEW m \in Proc, Link(m)
      PROVE  RegMoves(n)
  BY <1>0, <1>5 DEF Link, RegMoves, TypeOK
<1>6. ASSUME NEW m \in Proc, RemoveTemp(m)
      PROVE  RegMoves(n)
  BY <1>0, <1>6 DEF RemoveTemp, RegMoves, TypeOK
<1>7. ASSUME NEW m \in Proc, RegisterFails(m)
      PROVE  RegMoves(n)
  BY <1>0, <1>7 DEF RegisterFails, RegMoves, TypeOK
<1>8. ASSUME NEW m \in Proc, Reap(m)
      PROVE  RegMoves(n)
  BY <1>0, <1>8 DEF Reap, RegMoves, TypeOK, files
<1>9. ASSUME NEW m \in Proc, DropHandle(m)
      PROVE  RegMoves(n)
  <2>1. /\ reg[m] = "reaped" /\ life[m] # "running" /\ UNCHANGED life
        /\ entries' = entries \ {m} /\ reg' = [reg EXCEPT ![m] = "dropped"]
    BY <1>9 DEF DropHandle, ReapedIsDead, os
  <2> QED
    BY <1>0, <2>1 DEF RegMoves, TypeOK
<1>10. ASSUME NEW c \in SweepScope, NEW s \in Proc, NEW m \in Proc, Check(c, s, m)
       PROVE  RegMoves(n)
  <2>1. /\ UNCHANGED <<reg, life>>
        /\ entries' = entries \/ (entries' = entries \ {m} /\ m \notin Of(pid[m]))
    BY <1>10 DEF Check, os
  <2> QED
    BY <1>0, <2>1 DEF RegMoves, Of
<1>11. ASSUME NEW c \in SweepScope, NEW s \in Proc, Exited(c, s)
       PROVE  RegMoves(n)
  <2>1. Of(pid[target[c][s]]) = {} /\ Settles(c, s) /\ UNCHANGED <<reg, life>>
    BY <1>11 DEF Exited, os
  <2>2. n \in entries /\ n \notin entries' => life'[n] # "running"
    BY <2>1, SettledIsDead DEF Of
  <2>3. entries' \subseteq entries
    BY <2>1 DEF Settles
  <2> QED
    BY <1>0, <2>1, <2>2, <2>3 DEF RegMoves
<1>12. ASSUME NEW c \in SweepScope, NEW s \in Proc, Kill(c, s)
       PROVE  RegMoves(n)
  <2>1. Settles(c, s) /\ entries' \subseteq entries
    BY <1>12 DEF Kill, Settles
  <2>2. CASE Of(pid[target[c][s]]) = {}
    <3>1. UNCHANGED <<reg, life>>
      BY <1>12, <2>2 DEF Kill, os
    <3>2. n \in entries /\ n \notin entries' => life'[n] # "running"
      BY <2>1, <2>2, <3>1, SettledIsDead DEF Of
    <3> QED
      BY <1>0, <2>1, <3>1, <3>2 DEF RegMoves
  <2>3. CASE Of(pid[target[c][s]]) # {}
    <3>1. PICK v \in Of(pid[target[c][s]]) :
            life' = LifeWithout(v) /\ reg' = RegWithout(v)
      BY <1>12, <2>3 DEF Kill
    <3>2. v \in Proc
      BY DEF Of
    <3>3. /\ reg'[n] \in {"linked", "held"} <=> Registered(n)
          /\ reg'[n] = "reaped" <=> reg[n] = "reaped"
          /\ reg[n] = "no" => reg'[n] = "no"
      BY <3>1, <3>2, RegWithoutType
    <3>4. life'[v] # "running" /\ (life'[n] = "running" => life[n] = "running")
      BY <3>1, <3>2, LifeWithoutType
    <3>5. ASSUME n \in entries, n \notin entries', life'[n] = "running"
          PROVE  FALSE
      <4>1. n = target[c][s]
        BY <2>1, <3>5, SettledIsDead
      <4>2. v = n
        BY <3>4, <3>5, <4>1, TargetIsVictim
      <4> QED
        BY <3>4, <3>5, <4>2
    <3> QED
      BY <1>0, <2>1, <3>3, <3>5 DEF RegMoves
  <2> QED
    BY <2>2, <2>3
<1>13. ASSUME NEW c \in SweepScope, NEW s \in Proc, SweepFails(c, s)
       PROVE  RegMoves(n)
  <2>1. CASE c = "CrashedOwners"
    BY <1>13, <2>1, DeathRegs DEF SweepFails, Dies, files
  <2>2. CASE c # "CrashedOwners"
    BY <1>13, <2>2, SameRegs DEF SweepFails, files
  <2> QED
    BY <2>1, <2>2
<1>14. ASSUME NEW c \in SweepScope, NEW s \in Proc,
              Terminate(c, s) \/ FinishSweep(c, s) \/ BeginShutdown(s)
       PROVE  RegMoves(n)
  BY <1>14, SameRegs DEF Terminate, FinishSweep, BeginShutdown, files
<1>15. CASE UNCHANGED vars
  BY <1>15, SameRegs DEF vars, files
<1>16. \E c \in SweepScope : TRUE
  BY DEF SweepScope
<1> QED
  BY <1>1, <1>2, <1>3, <1>4, <1>5, <1>6, <1>7, <1>8, <1>9, <1>10, <1>11, <1>12,
     <1>13, <1>14, <1>15, <1>16 DEF Next, OwnerStep, SweepStep

\* To the sweeps: an entry is listed, then picked from the list; only a running
\* process, or the one just launched, sweeps; and a sweep aims only at what
\* runs, a launch sweep only at what has lost its owner.
SweepMoves(c, s) ==
  /\ todo'[c][s] \subseteq todo[c][s] \union entries
  /\ target'[c][s] \in {0, target[c][s]} \union todo[c][s]
  /\ pc'[c][s] # "off" => pc[c][s] # "off" \/ Running(s) \/ (s = born + 1 /\ born' = s)
  /\ pc'[c][s] \in {"matched", "termed"}
       => \/ pc[c][s] \in {"matched", "termed"} /\ target'[c][s] = target[c][s]
          \/ /\ target'[c][s] \in todo[c][s]
             /\ life[target'[c][s]] = "running"
             /\ c = "CrashedOwners" => ~ Running(parent[target'[c][s]])

\* Somebody dies: the sweeps go on, or are forgotten.
LEMMA DeathSweeps ==
  ASSUME TypeOK, NEW d \in Proc, Dies(d), NEW c \in SweepScope, NEW s \in Proc
  PROVE  SweepMoves(c, s)
<1>1. /\ pc'[c][s] = IF s = d THEN "off" ELSE pc[c][s]
      /\ todo'[c][s] = IF s = d THEN {} ELSE todo[c][s]
      /\ target'[c][s] = IF s = d THEN 0 ELSE target[c][s]
  BY SweepTypes DEF Dies, Forget
<1> QED
  BY <1>1 DEF SweepMoves

LEMMA SameSweeps ==
  ASSUME UNCHANGED sweeps, NEW c \in SweepScope, NEW s \in Proc
  PROVE  SweepMoves(c, s)
BY DEF SweepMoves, sweeps

\* A sweep begins.
LEMMA ListMoves ==
  ASSUME TypeOK, NEW b \in SweepScope, NEW r \in Proc, pc[b][r] = "off", List(b, r),
         UNCHANGED target, Running(r) \/ (r = born + 1 /\ born' = r),
         NEW c \in SweepScope, NEW s \in Proc
  PROVE  SweepMoves(c, s)
<1>1. /\ pc'[c][s] = IF c = b /\ s = r THEN "next" ELSE pc[c][s]
      /\ todo'[c][s] \subseteq todo[c][s] \union entries
  BY ListType
<1> QED
  BY <1>1 DEF SweepMoves

LEMMA SweepsStep ==
  ASSUME TypeOK, Unborn, [Next]_vars, NEW c \in SweepScope, NEW s \in Proc
  PROVE  SweepMoves(c, s)
<1>1. CASE Launch
  <2>1. born + 1 \in Proc /\ born' = born + 1
    BY <1>1, StartsType DEF Launch, Kind
  <2>2. "CrashedOwners" \in SweepScope /\ pc["CrashedOwners"][born + 1] = "off"
    BY <2>1 DEF Unborn, SweepScope, TypeOK
  <2> QED
    BY <1>1, <2>1, <2>2, ListMoves DEF Launch
<1>2. ASSUME NEW n \in Proc, BeginShutdown(n)
      PROVE  SweepMoves(c, s)
  <2>1. "OwnProcess" \in SweepScope
    BY DEF SweepScope
  <2> QED
    BY <1>2, <2>1, ListMoves DEF BeginShutdown
<1>3. ASSUME NEW n \in Proc, Ends(n) \/ Raise(n)
      PROVE  SweepMoves(c, s)
  BY <1>3, DeathSweeps DEF Ends, Raise
<1>4. ASSUME NEW b \in SweepScope, NEW r \in Proc, NEW n \in Proc, Check(b, r, n)
      PROVE  SweepMoves(c, s)
  <2>1. /\ pc[b][r] = "next" /\ n \in todo[b][r]
        /\ todo' = [todo EXCEPT ![b][r] = @ \ {n}]
    BY <1>4 DEF Check
  <2>2. todo'[c][s] \subseteq todo[c][s]
    BY <2>1, SweepTypes
  <2>3. CASE UNCHANGED <<pc, target>>
    BY <2>2, <2>3 DEF SweepMoves
  <2>4. CASE /\ pc' = [pc EXCEPT ![b][r] = "matched"]
             /\ target' = [target EXCEPT ![b][r] = n]
             /\ InScope(b, r, n) /\ n \in Of(pid[n])
    <3>1. /\ pc'[c][s] = IF c = b /\ s = r THEN "matched" ELSE pc[c][s]
          /\ target'[c][s] = IF c = b /\ s = r THEN n ELSE target[c][s]
      BY <2>4, SweepTypes
    <3>2. life[n] = "running" /\ (b = "CrashedOwners" => ~ Running(parent[n]))
      BY <2>4 DEF InScope, OwnerAlive, Of, Running
    <3> QED
      BY <2>1, <2>2, <3>1, <3>2 DEF SweepMoves
  <2> QED
    BY <1>4, <2>3, <2>4 DEF Check
<1>5. ASSUME NEW b \in SweepScope, NEW r \in Proc, Terminate(b, r)
      PROVE  SweepMoves(c, s)
  <2>1. pc[b][r] = "matched" /\ pc' = [pc EXCEPT ![b][r] = "termed"]
        /\ UNCHANGED <<todo, target>>
    BY <1>5 DEF Terminate
  <2>2. pc'[c][s] = IF c = b /\ s = r THEN "termed" ELSE pc[c][s]
    BY <2>1, SweepTypes
  <2> QED
    BY <2>1, <2>2 DEF SweepMoves
<1>6. ASSUME NEW b \in SweepScope, NEW r \in Proc, Exited(b, r)
      PROVE  SweepMoves(c, s)
  <2>1. /\ pc[b][r] = "termed" /\ pc' = [pc EXCEPT ![b][r] = "next"]
        /\ target' = [target EXCEPT ![b][r] = 0] /\ UNCHANGED todo
    BY <1>6 DEF Exited
  <2>2. /\ pc'[c][s] = IF c = b /\ s = r THEN "next" ELSE pc[c][s]
        /\ target'[c][s] = IF c = b /\ s = r THEN 0 ELSE target[c][s]
    BY <2>1, SweepTypes
  <2> QED
    BY <2>1, <2>2 DEF SweepMoves
<1>7. ASSUME NEW b \in SweepScope, NEW r \in Proc, Kill(b, r)
      PROVE  SweepMoves(c, s)
  <2>1. Running(r) /\ pc[b][r] = "termed"
    BY <1>7 DEF Kill
  <2>2. CASE Of(pid[target[b][r]]) = {}
    <3>1. /\ pc' = [pc EXCEPT ![b][r] = "next"]
          /\ target' = [target EXCEPT ![b][r] = 0] /\ UNCHANGED todo
      BY <1>7, <2>2 DEF Kill
    <3>2. /\ pc'[c][s] = IF c = b /\ s = r THEN "next" ELSE pc[c][s]
          /\ target'[c][s] = IF c = b /\ s = r THEN 0 ELSE target[c][s]
      BY <3>1, SweepTypes
    <3> QED
      BY <2>1, <3>1, <3>2 DEF SweepMoves
  <2>3. CASE Of(pid[target[b][r]]) # {}
    <3>1. PICK v \in Of(pid[target[b][r]]) :
            /\ pc' = [Forget(pc, v, "off") EXCEPT ![b][r] = "next"]
            /\ todo' = Forget(todo, v, {})
            /\ target' = [Forget(target, v, 0) EXCEPT ![b][r] = 0]
      BY <1>7, <2>3 DEF Kill
    <3>2. v \in Proc
      BY DEF Of
    <3>3. /\ pc'[c][s] = IF c = b /\ s = r THEN "next"
                         ELSE IF s = v THEN "off" ELSE pc[c][s]
          /\ target'[c][s] = IF (c = b /\ s = r) \/ s = v THEN 0 ELSE target[c][s]
          /\ todo'[c][s] \subseteq todo[c][s]
      BY <3>1, <3>2, SweepTypes DEF Forget
    <3> QED
      BY <2>1, <3>3 DEF SweepMoves
  <2> QED
    BY <2>2, <2>3
<1>8. ASSUME NEW b \in SweepScope, NEW r \in Proc, FinishSweep(b, r)
      PROVE  SweepMoves(c, s)
  <2>1. /\ pc[b][r] = "next" /\ pc' = [pc EXCEPT ![b][r] = "done"]
        /\ UNCHANGED <<todo, target>>
    BY <1>8 DEF FinishSweep
  <2>2. pc'[c][s] = IF c = b /\ s = r THEN "done" ELSE pc[c][s]
    BY <2>1, SweepTypes
  <2> QED
    BY <2>1, <2>2 DEF SweepMoves
<1>9. ASSUME NEW b \in SweepScope, NEW r \in Proc, SweepFails(b, r)
      PROVE  SweepMoves(c, s)
  <2>1. CASE b = "CrashedOwners"
    BY <1>9, <2>1, DeathSweeps DEF SweepFails
  <2>2. CASE b # "CrashedOwners"
    <3>1. /\ pc[b][r] = "next" /\ pc' = [pc EXCEPT ![b][r] = "failed"]
          /\ todo' = [todo EXCEPT ![b][r] = {}] /\ UNCHANGED target
      BY <1>9, <2>2 DEF SweepFails
    <3>2. /\ pc'[c][s] = IF c = b /\ s = r THEN "failed" ELSE pc[c][s]
          /\ todo'[c][s] \subseteq todo[c][s]
      BY <3>1, SweepTypes
    <3> QED
      BY <3>1, <3>2 DEF SweepMoves
  <2> QED
    BY <2>1, <2>2
<1>10. ASSUME NEW n \in Proc,
              \/ Spawn(n) \/ Register(n) \/ Link(n) \/ RemoveTemp(n)
              \/ RegisterFails(n) \/ Reap(n) \/ DropHandle(n)
       PROVE  SweepMoves(c, s)
  BY <1>10, SameSweeps
     DEF Spawn, Register, Link, RemoveTemp, RegisterFails, Reap, DropHandle
<1>11. CASE StrangerStarts \/ UNCHANGED vars
  BY <1>11, SameSweeps DEF StrangerStarts, vars
<1> QED
  BY <1>1, <1>2, <1>3, <1>4, <1>5, <1>6, <1>7, <1>8, <1>9, <1>10, <1>11
     DEF Next, OwnerStep, SweepStep

-----------------------------------------------------------------------------
(* The invariant *)

LEMMA InvInit == Init => IInv
<1> SUFFICES ASSUME Init PROVE IInv
  OBVIOUS
<1>1. TypeOK
  BY BoundsAssumption DEF Init, TypeOK, Kind, Proc
<1>2. UniquePids /\ ReapedIsDead /\ RegisteredStaysRecorded
  BY DEF Init, UniquePids, ReapedIsDead, RegisteredStaysRecorded, Registered
<1>3. Unborn /\ Parents
  BY DEF Init, Unborn, Parents, Proc
<1>4. LiveOwnersAreLeftAlone
  BY DEF Init, LiveOwnersAreLeftAlone, SweepScope
<1> QED
  BY <1>1, <1>2, <1>3, <1>4 DEF IInv

LEMMA InvStep ==
  ASSUME IInv, [Next]_vars
  PROVE  IInv'
<1> USE DEF IInv
<1>1. TypeOK'
  BY TypeStep
<1>2. LifeMoves
  BY LifeStep
<1>3. \A n \in Proc : RegMoves(n)
  BY RegStep
<1>4. \A c \in SweepScope, s \in Proc : SweepMoves(c, s)
  BY SweepsStep
<1>5. \/ /\ UNCHANGED <<born, kind, parent, pid>>
         /\ \A n \in Proc : \/ life'[n] = life[n]
                            \/ /\ life[n] \in {"running", "zombie"}
                               /\ life'[n] \in {"zombie", "gone"}
      \/ /\ born + 1 \in Proc /\ born' = born + 1
         /\ \A n \in Proc : n # born + 1 =>
              /\ life'[n] = life[n] /\ pid'[n] = pid[n] /\ parent'[n] = parent[n]
         /\ parent'[born + 1] = 0 \/ Running(parent'[born + 1])
         /\ ~ Held(pid'[born + 1])
  BY <1>2, StartsType DEF LifeMoves
<1>6. born \in Nat /\ born' \in Nat /\ born <= born' /\ \A n \in Proc : n \in Nat
  BY <1>1, <1>5 DEF TypeOK, Proc
<1>7. \A n \in Proc : life'[n] = "running" => life[n] = "running" \/ n = born + 1
  BY <1>5
<1>8. UniquePids'
  BY <1>5 DEF UniquePids, Held
<1>9. Unborn'
  <2> SUFFICES ASSUME NEW n \in Proc, n > born'
               PROVE  /\ life'[n] = "unborn" /\ reg'[n] = "no"
                      /\ n \notin entries'
                      /\ \A c \in SweepScope :
                           /\ pc'[c][n] = "off"
                           /\ \A s \in Proc : n \notin todo'[c][s] /\ n # target'[c][s]
    BY DEF Unborn
  <2>1. /\ n > born /\ (n = born + 1 => born' = born)
        /\ life[n] = "unborn" /\ reg[n] = "no" /\ n \notin entries
    BY <1>5, <1>6 DEF Unborn
  <2>2. life'[n] = "unborn"
    BY <1>5, <1>6, <2>1
  <2>3. reg'[n] = "no" /\ n \notin entries'
    BY <1>3, <1>6, <2>1 DEF RegMoves
  <2>4. ASSUME NEW c \in SweepScope
        PROVE  pc'[c][n] = "off"
    BY <1>4, <1>6, <2>1 DEF SweepMoves, Unborn, Running
  <2>5. ASSUME NEW c \in SweepScope, NEW s \in Proc
        PROVE  n \notin todo'[c][s] /\ n # target'[c][s]
    BY <1>4, <1>6, <2>1 DEF SweepMoves, Unborn
  <2> QED
    BY <2>2, <2>3, <2>4, <2>5
<1>10. Parents'
  <2>1. \A m \in Proc : Running(m) => m <= born
    BY <1>6 DEF Unborn, Running
  <2>2. \A n \in Proc : parent[n] <= born /\ parent[n] \in Nat /\ parent'[n] \in Nat
    BY <1>1, <1>6 DEF Parents, TypeOK
  <2>3. ASSUME NEW n \in Proc
        PROVE  parent'[n] <= born
    <3>1. CASE parent'[n] = parent[n]
      BY <2>2, <3>1
    <3>2. CASE parent'[n] = 0 \/ Running(parent'[n])
      BY <1>6, <2>1, <3>2 DEF Running
    <3> QED
      BY <1>5, <3>1, <3>2
  <2> QED
    BY <1>6, <2>2, <2>3 DEF Parents
<1>11. ReapedIsDead'
  BY <1>3, <1>5, <1>6 DEF ReapedIsDead, RegMoves, Unborn
<1>12. RegisteredStaysRecorded'
  <2> SUFFICES ASSUME NEW n \in Proc, life'[n] = "running", Registered(n)',
                      n \notin entries'
               PROVE  FALSE
    BY DEF RegisteredStaysRecorded
  <2>1. reg'[n] \in {"linked", "held"} /\ n # born + 1
    BY <1>3, <1>6 DEF Registered, RegMoves, Unborn
  <2>2. life[n] = "running"
    BY <1>7, <2>1
  <2>3. n \in entries
    BY <1>3, <2>1, <2>2 DEF RegMoves, RegisteredStaysRecorded
  <2> QED
    BY <1>3, <2>3 DEF RegMoves
<1>13. LiveOwnersAreLeftAlone'
  <2> DEFINE C == "CrashedOwners"
  <2> SUFFICES ASSUME NEW s \in Proc, pc'[C][s] \in {"matched", "termed"}
               PROVE  ~ Running(parent[target[C][s]])'
    BY DEF LiveOwnersAreLeftAlone
  <2> DEFINE t == target'[C][s]
  <2>1. C \in SweepScope
    BY DEF SweepScope
  <2>2. t \in Proc /\ t <= born
    <3>1. t # 0
      BY <1>1, <2>1 DEF TypeOK
    <3>2. t \in {target[C][s]} \union todo[C][s]
      BY <1>4, <2>1, <3>1 DEF SweepMoves
    <3>3. t \in Proc
      BY <2>1, <3>1, <3>2, SweepTypes
    <3>4. ~ (t > born)
      BY <2>1, <3>2, <3>3 DEF Unborn
    <3> QED
      BY <1>6, <3>3, <3>4
  <2>3. ~ Running(parent[t])
    BY <1>4, <2>1 DEF SweepMoves, LiveOwnersAreLeftAlone
  <2>4. parent'[t] = parent[t] /\ parent[t] <= born
    BY <1>5, <1>6, <2>2 DEF Parents
  <2>5. parent[t] \in Proc => parent[t] # born + 1 /\ life[parent[t]] # "running"
    BY <1>6, <2>3, <2>4 DEF Running
  <2>6. parent'[t] \in Proc => life'[parent'[t]] # "running"
    BY <1>7, <2>4, <2>5
  <2> QED
    BY <2>6 DEF Running
<1> QED
  BY <1>1, <1>8, <1>9, <1>10, <1>11, <1>12, <1>13

-----------------------------------------------------------------------------
(* Signals *)

\* The pid of a sweep's target names the target or nobody.
Sighted == \A c \in SweepScope, s \in Proc :
             pc[c][s] \in {"matched", "termed"} => Of(pid[target[c][s]]) \subseteq {target[c][s]}

SInv == IInv /\ Sighted /\ OnlyTheRecordedIsSignalled

\* A signal reaches nobody else, as long as the aim is right.
LEMMA StruckStep ==
  ASSUME TypeOK, Sighted, OnlyTheRecordedIsSignalled, [Next]_vars
  PROVE  OnlyTheRecordedIsSignalled'
<1> USE DEF OnlyTheRecordedIsSignalled
<1>1. ASSUME NEW c \in SweepScope, NEW s \in Proc, Terminate(c, s) \/ Kill(c, s)
      PROVE  struck' = {}
  <2>1. pc[c][s] \in {"matched", "termed"} /\ Strikes(c, s)
    BY <1>1 DEF Terminate, Kill
  <2> QED
    BY <2>1 DEF Strikes, Sighted
<1>2. CASE UNCHANGED struck
  BY <1>2
<1>3. ASSUME NEW n \in Proc, \/ Ends(n) \/ OwnerStep(n) \/ BeginShutdown(n) \/ Raise(n)
      PROVE  UNCHANGED struck
  BY <1>3 DEF Ends, OwnerStep, Spawn, Register, Link, RemoveTemp, RegisterFails, Reap,
              DropHandle, BeginShutdown, Raise
<1>4. ASSUME NEW c \in SweepScope, NEW s \in Proc,
             \/ Exited(c, s) \/ FinishSweep(c, s) \/ SweepFails(c, s)
             \/ \E n \in Proc : Check(c, s, n)
      PROVE  UNCHANGED struck
  BY <1>4 DEF Exited, FinishSweep, SweepFails, Check
<1>5. CASE Launch \/ StrangerStarts \/ UNCHANGED vars
  BY <1>5 DEF Launch, StrangerStarts, vars
<1> QED
  BY <1>1, <1>2, <1>3, <1>4, <1>5 DEF Next, SweepStep

LEMMA SightedStep ==
  ASSUME ~ ReuseInGrace, IInv, Sighted, [Next]_vars
  PROVE  Sighted'
<1> USE DEF IInv
<1>1. LifeMoves
  BY LifeStep
<1>2. \/ /\ UNCHANGED <<born, pid>>
         /\ \A n \in Proc : life'[n] = "running" => life[n] = "running"
      \/ /\ born + 1 \in Proc /\ born' = born + 1
         /\ \A n \in Proc : n # born + 1 => life'[n] = life[n] /\ pid'[n] = pid[n]
         /\ ~ Aimed(pid'[born + 1]) /\ ~ Held(pid'[born + 1])
  BY <1>1, StartsType DEF LifeMoves
<1> SUFFICES ASSUME NEW c \in SweepScope, NEW s \in Proc,
                    pc'[c][s] \in {"matched", "termed"},
                    NEW m \in Proc, life'[m] = "running",
                    pid'[m] = pid'[target'[c][s]]
             PROVE  m = target'[c][s]
  BY DEF Sighted, Of
<1> DEFINE t == target'[c][s]
<1>3. SweepMoves(c, s) /\ TypeOK'
  BY SweepsStep, TypeStep
<1>4. t \in Proc /\ t # 0
  <2>1. t # 0
    BY <1>3 DEF TypeOK
  <2> QED
    BY <1>3, <2>1 DEF TypeOK
<1>5. born \in Nat /\ \A n \in Proc : n \in Nat
  BY DEF TypeOK, Proc
<1>6. t <= born
  <2>1. t \in {target[c][s]} \union todo[c][s]
    BY <1>3, <1>4 DEF SweepMoves
  <2> QED
    BY <1>4, <1>5, <2>1 DEF Unborn
<1>7. \/ pc[c][s] \in {"matched", "termed"} /\ t = target[c][s]
      \/ life[t] = "running"
  BY <1>3 DEF SweepMoves
<1>8. pid'[t] = pid[t]
  BY <1>2, <1>4, <1>5, <1>6
<1>9. CASE life[m] = "running" /\ pid'[m] = pid[m]
  BY <1>4, <1>7, <1>8, <1>9 DEF Sighted, Of, UniquePids
<1>10. CASE m = born + 1 /\ ~ Aimed(pid'[m]) /\ ~ Held(pid'[m])
  BY <1>4, <1>7, <1>8, <1>10 DEF Aimed, Held
<1> QED
  BY <1>2, <1>9, <1>10

-----------------------------------------------------------------------------
(* The end of a sweep *)

\* The process of the entry is still to be looked at, or being ended.
OnTheList(c, s, n) == \/ n \in todo[c][s]
                      \/ pc[c][s] \in {"matched", "termed"} /\ n = target[c][s]

\* Of what was due, a sweep has lost sight of nothing that runs.
DueFits == \A c \in SweepScope, s \in Proc : \A n \in due[c][s] :
             /\ n <= born
             /\ life[n] = "running" => InScope(c, s, n) /\ OnTheList(c, s, n)

\* What a step does to a sweep's debts: they are settled or forgotten, they are
\* what was just listed, or they stay, and what runs stays on the list.
DueMoves(c, s) ==
  \/ due'[c][s] = {}
  \/ /\ due'[c][s] = {n \in entries : InScope(c, s, n)}
     /\ due'[c][s] \subseteq todo'[c][s]
  \/ /\ due'[c][s] = due[c][s]
     /\ \A n \in Proc :
          life'[n] = "running" /\ InScope(c, s, n) /\ OnTheList(c, s, n)
            => OnTheList(c, s, n)'

LEMMA DueStaysBeside ==
  ASSUME NEW c \in SweepScope, NEW s \in Proc,
         due'[c][s] = due[c][s], todo'[c][s] = todo[c][s], pc'[c][s] = pc[c][s],
         target'[c][s] = target[c][s]
  PROVE  DueMoves(c, s)
BY DEF DueMoves, OnTheList

LEMMA DeathDues ==
  ASSUME TypeOK, NEW d \in Proc, Dies(d), NEW c \in SweepScope, NEW s \in Proc
  PROVE  DueMoves(c, s)
<1>1. /\ pc'[c][s] = IF s = d THEN "off" ELSE pc[c][s]
      /\ todo'[c][s] = IF s = d THEN {} ELSE todo[c][s]
      /\ target'[c][s] = IF s = d THEN 0 ELSE target[c][s]
      /\ due'[c][s] = IF s = d THEN {} ELSE due[c][s]
  BY SweepTypes DEF Dies, Forget
<1> QED
  BY <1>1, DueStaysBeside DEF DueMoves

LEMMA ListDues ==
  ASSUME TypeOK, NEW b \in SweepScope, NEW r \in Proc, List(b, r), UNCHANGED target,
         NEW c \in SweepScope, NEW s \in Proc
  PROVE  DueMoves(c, s)
<1> DEFINE D == {n \in entries : InScope(b, r, n)}
           L == IF b = "CrashedOwners" THEN entries ELSE D
<1>1. entries \in SUBSET Proc /\ D \in SUBSET Proc
  BY DEF TypeOK
<1>2. due' = [due EXCEPT ![b][r] = D] /\ pc' = [pc EXCEPT ![b][r] = "next"]
  BY DEF List
<1>3. due'[c][s] = IF c = b /\ s = r THEN D ELSE due[c][s]
  BY <1>1, <1>2, SweepTypes, SweepExcept
<1>4. due'[b][r] = D
  BY <1>1, <1>2, SweepTypes, SweepExcept
<1>5. todo' = [todo EXCEPT ![b][r] = L] /\ L \in SUBSET Proc
  BY <1>1, <1>4 DEF List
<1>6. /\ todo'[c][s] = IF c = b /\ s = r THEN L ELSE todo[c][s]
      /\ pc'[c][s] = IF c = b /\ s = r THEN "next" ELSE pc[c][s]
  BY <1>2, <1>5, SweepTypes, SweepExcept
<1>7. CASE c = b /\ s = r
  BY <1>3, <1>6, <1>7 DEF DueMoves
<1>8. CASE ~ (c = b /\ s = r)
  BY <1>3, <1>6, <1>8, DueStaysBeside
<1> QED
  BY <1>7, <1>8

LEMMA DueStep ==
  ASSUME IInv, [Next]_vars, NEW c \in SweepScope, NEW s \in Proc
  PROVE  DueMoves(c, s)
<1>0. TypeOK /\ UniquePids
  BY DEF IInv
<1>1. CASE Launch
  <2>1. born + 1 \in Proc /\ "CrashedOwners" \in SweepScope
    BY <1>0, <1>1, StartsType DEF Launch, Kind, SweepScope
  <2> QED
    BY <1>0, <1>1, <2>1, ListDues DEF Launch
<1>2. ASSUME NEW n \in Proc, BeginShutdown(n)
      PROVE  DueMoves(c, s)
  BY <1>0, <1>2, ListDues DEF BeginShutdown, SweepScope
<1>3. ASSUME NEW n \in Proc, Ends(n) \/ Raise(n)
      PROVE  DueMoves(c, s)
  BY <1>0, <1>3, DeathDues DEF Ends, Raise
<1>4. ASSUME NEW b \in SweepScope, NEW r \in Proc, NEW m \in Proc, Check(b, r, m)
      PROVE  DueMoves(c, s)
  <2>1. /\ pc[b][r] = "next" /\ todo' = [todo EXCEPT ![b][r] = todo[b][r] \ {m}]
        /\ UNCHANGED <<due, life>>
    BY <1>0, <1>4, SweepTypes DEF Check, os
  <2>2. todo'[c][s] = IF c = b /\ s = r THEN todo[b][r] \ {m} ELSE todo[c][s]
    BY <1>0, <2>1, SweepTypes
  <2>3. CASE /\ ~ (InScope(b, r, m) /\ m \in Of(pid[m]))
             /\ UNCHANGED <<pc, target>>
    <3>1. life'[m] = "running" => ~ InScope(b, r, m)
      BY <2>1, <2>3 DEF Of
    <3> QED
      BY <2>1, <2>2, <2>3, <3>1 DEF DueMoves, OnTheList
  <2>4. CASE /\ pc' = [pc EXCEPT ![b][r] = "matched"]
             /\ target' = [target EXCEPT ![b][r] = m]
    <3>1. /\ pc'[c][s] = IF c = b /\ s = r THEN "matched" ELSE pc[c][s]
          /\ target'[c][s] = IF c = b /\ s = r THEN m ELSE target[c][s]
      BY <1>0, <2>4, SweepTypes
    <3> QED
      BY <2>1, <2>2, <3>1 DEF DueMoves, OnTheList
  <2> QED
    BY <1>4, <2>3, <2>4 DEF Check
<1>5. ASSUME NEW b \in SweepScope, NEW r \in Proc, Terminate(b, r)
      PROVE  DueMoves(c, s)
  <2>1. pc[b][r] = "matched" /\ pc' = [pc EXCEPT ![b][r] = "termed"]
        /\ UNCHANGED <<todo, target, due>>
    BY <1>5 DEF Terminate
  <2>2. pc'[c][s] = IF c = b /\ s = r THEN "termed" ELSE pc[c][s]
    BY <1>0, <2>1, SweepTypes
  <2> QED
    BY <2>1, <2>2 DEF DueMoves, OnTheList
<1>6. ASSUME NEW b \in SweepScope, NEW r \in Proc,
             pc[b][r] = "termed", pc' = [pc EXCEPT ![b][r] = "next"],
             target' = [target EXCEPT ![b][r] = 0], UNCHANGED <<os, todo, due>>,
             Of(pid[target[b][r]]) = {}
      PROVE  DueMoves(c, s)
  <2>1. /\ pc'[c][s] = IF c = b /\ s = r THEN "next" ELSE pc[c][s]
        /\ target'[c][s] = IF c = b /\ s = r THEN 0 ELSE target[c][s]
    BY <1>0, <1>6, SweepTypes
  <2>2. \A n \in Proc : n = target[b][r] => life'[n] # "running"
    BY <1>6 DEF Of, os
  <2> QED
    BY <1>6, <2>1, <2>2 DEF DueMoves, OnTheList
<1>7. ASSUME NEW b \in SweepScope, NEW r \in Proc, Exited(b, r)
      PROVE  DueMoves(c, s)
  BY <1>6, <1>7 DEF Exited
<1>8. ASSUME NEW b \in SweepScope, NEW r \in Proc, Kill(b, r)
      PROVE  DueMoves(c, s)
  <2>1. CASE Of(pid[target[b][r]]) = {}
    BY <1>6, <1>8, <2>1 DEF Kill
  <2>2. CASE Of(pid[target[b][r]]) # {}
    <3>1. PICK v \in Of(pid[target[b][r]]) :
            /\ life' = LifeWithout(v)
            /\ pc' = [Forget(pc, v, "off") EXCEPT ![b][r] = "next"]
            /\ todo' = Forget(todo, v, {})
            /\ target' = [Forget(target, v, 0) EXCEPT ![b][r] = 0]
            /\ due' = Forget(due, v, {})
      BY <1>8, <2>2 DEF Kill
    <3>2. v \in Proc /\ life[v] = "running" /\ pid[v] = pid[target[b][r]]
      BY DEF Of
    <3>3. /\ pc'[c][s] = IF c = b /\ s = r THEN "next"
                         ELSE IF s = v THEN "off" ELSE pc[c][s]
          /\ target'[c][s] = IF (c = b /\ s = r) \/ s = v THEN 0 ELSE target[c][s]
          /\ todo'[c][s] = IF s = v THEN {} ELSE todo[c][s]
          /\ due'[c][s] = IF s = v THEN {} ELSE due[c][s]
      BY <1>0, <3>1, <3>2, SweepTypes DEF Forget
    <3>4. \A n \in Proc : life'[n] = "running" => n # v /\ life[n] = "running"
      BY <1>0, <3>1, <3>2, LifeWithoutType
    <3>5. \A n \in Proc : n = target[b][r] => life'[n] # "running"
      BY <1>0, <3>2, <3>4 DEF UniquePids
    <3>6. CASE s = v
      BY <3>3, <3>6 DEF DueMoves
    <3>7. CASE s # v
      BY <3>3, <3>5, <3>7 DEF DueMoves, OnTheList
    <3> QED
      BY <3>6, <3>7
  <2> QED
    BY <2>1, <2>2
<1>9. ASSUME NEW b \in SweepScope, NEW r \in Proc, FinishSweep(b, r)
      PROVE  DueMoves(c, s)
  <2>1. /\ pc' = [pc EXCEPT ![b][r] = "done"] /\ due' = [due EXCEPT ![b][r] = {}]
        /\ UNCHANGED <<todo, target>>
    BY <1>9 DEF FinishSweep
  <2>2. /\ pc'[c][s] = IF c = b /\ s = r THEN "done" ELSE pc[c][s]
        /\ due'[c][s] = IF c = b /\ s = r THEN {} ELSE due[c][s]
    BY <1>0, <2>1, SweepTypes
  <2> QED
    BY <2>1, <2>2, DueStaysBeside DEF DueMoves
<1>10. ASSUME NEW b \in SweepScope, NEW r \in Proc, SweepFails(b, r)
       PROVE  DueMoves(c, s)
  <2>1. CASE b = "CrashedOwners"
    BY <1>0, <1>10, <2>1, DeathDues DEF SweepFails
  <2>2. CASE b # "CrashedOwners"
    <3>1. /\ pc' = [pc EXCEPT ![b][r] = "failed"] /\ todo' = [todo EXCEPT ![b][r] = {}]
          /\ due' = [due EXCEPT ![b][r] = {}] /\ UNCHANGED target
      BY <1>10, <2>2 DEF SweepFails
    <3>2. /\ pc'[c][s] = IF c = b /\ s = r THEN "failed" ELSE pc[c][s]
          /\ todo'[c][s] = IF c = b /\ s = r THEN {} ELSE todo[c][s]
          /\ due'[c][s] = IF c = b /\ s = r THEN {} ELSE due[c][s]
      BY <1>0, <3>1, SweepTypes
    <3> QED
      BY <3>1, <3>2, DueStaysBeside DEF DueMoves
  <2> QED
    BY <2>1, <2>2
<1>11. ASSUME UNCHANGED sweeps PROVE DueMoves(c, s)
  BY <1>11, DueStaysBeside DEF sweeps
<1>12. ASSUME NEW n \in Proc,
              \/ Spawn(n) \/ Register(n) \/ Link(n) \/ RemoveTemp(n)
              \/ RegisterFails(n) \/ Reap(n) \/ DropHandle(n)
       PROVE  DueMoves(c, s)
  BY <1>11, <1>12
     DEF Spawn, Register, Link, RemoveTemp, RegisterFails, Reap, DropHandle
<1>13. CASE StrangerStarts \/ UNCHANGED vars
  BY <1>11, <1>13 DEF StrangerStarts, vars
<1> QED
  BY <1>1, <1>2, <1>3, <1>4, <1>5, <1>7, <1>8, <1>9, <1>10, <1>12, <1>13
     DEF Next, OwnerStep, SweepStep

\* A process that runs ran before, and what was in a sweep's scope stays in it.
LEMMA ScopeStays ==
  ASSUME IInv, [Next]_vars, NEW n \in Proc, n <= born
  PROVE  /\ n <= born'
         /\ life'[n] = "running" => life[n] = "running"
         /\ \A c \in SweepScope, s \in Proc : InScope(c, s, n) => InScope(c, s, n)'
<1>1. TypeOK /\ Parents
  BY DEF IInv
<1>2. LifeMoves
  BY <1>1, LifeStep
<1>3. \/ /\ UNCHANGED <<born, parent>>
         /\ \A m \in Proc : life'[m] = "running" => life[m] = "running"
      \/ /\ born + 1 \in Proc /\ born' = born + 1
         /\ \A m \in Proc : m # born + 1 => life'[m] = life[m] /\ parent'[m] = parent[m]
  BY <1>1, <1>2, StartsType DEF LifeMoves
<1>4. born \in Nat /\ n \in Nat /\ parent[n] \in Nat /\ parent[n] <= born
  BY <1>1 DEF TypeOK, Parents, Proc
<1>5. n # born + 1 /\ parent[n] # born + 1
  BY <1>4
<1>6. parent'[n] = parent[n]
  BY <1>3, <1>5
<1>7. parent[n] \in Proc /\ life'[parent[n]] = "running" => life[parent[n]] = "running"
  BY <1>3, <1>5
<1>8. OwnerAlive(n)' => OwnerAlive(n)
  BY <1>6, <1>7 DEF OwnerAlive, Of
<1> QED
  BY <1>3, <1>4, <1>5, <1>6, <1>8 DEF InScope

LEMMA DueFitsStep ==
  ASSUME IInv, DueFits, [Next]_vars
  PROVE  DueFits'
<1>1. TypeOK /\ Unborn
  BY DEF IInv
<1> SUFFICES ASSUME NEW c \in SweepScope, NEW s \in Proc, NEW n \in due'[c][s]
             PROVE  /\ n <= born'
                    /\ life'[n] = "running" => InScope(c, s, n)' /\ OnTheList(c, s, n)'
  BY DEF DueFits
<1>2. DueMoves(c, s)
  BY DueStep
<1>3. CASE /\ due'[c][s] = {m \in entries : InScope(c, s, m)}
           /\ due'[c][s] \subseteq todo'[c][s]
  <2>1. n \in entries /\ n \in Proc /\ InScope(c, s, n) /\ n \in todo'[c][s]
    BY <1>1, <1>3 DEF TypeOK
  <2>2. n <= born
    BY <1>1, <2>1 DEF Unborn, TypeOK, Proc
  <2> QED
    BY <2>1, <2>2, ScopeStays DEF OnTheList
<1>4. CASE /\ due'[c][s] = due[c][s]
           /\ \A m \in Proc : life'[m] = "running" /\ InScope(c, s, m) /\ OnTheList(c, s, m)
                                => OnTheList(c, s, m)'
  <2>1. n \in Proc
    BY <1>1, <1>4, SweepTypes
  <2>2. /\ n <= born
        /\ life[n] = "running" => InScope(c, s, n) /\ OnTheList(c, s, n)
    BY <1>4 DEF DueFits
  <2> QED
    BY <1>4, <2>1, <2>2, ScopeStays
<1> QED
  BY <1>2, <1>3, <1>4 DEF DueMoves

\* A sweep is done when every entry it listed was looked at.
LEMMA DoneIsThrough ==
  ASSUME TypeOK, Unborn, Next, NEW c \in SweepScope, NEW s \in Proc,
         pc[c][s] = "next", pc'[c][s] = "done"
  PROVE  todo[c][s] = {}
<1>1. ASSUME NEW b \in SweepScope, NEW r \in Proc,
             \E v \in {"next", "matched", "termed", "failed"} : pc' = [pc EXCEPT ![b][r] = v]
      PROVE  FALSE
  BY <1>1, SweepTypes
<1>2. CASE Launch
  <2>1. born + 1 \in Proc /\ "CrashedOwners" \in SweepScope
    BY <1>2, StartsType DEF Launch, Kind, SweepScope
  <2> QED
    BY <1>1, <1>2, <2>1 DEF Launch, List
<1>3. ASSUME NEW n \in Proc, BeginShutdown(n)
      PROVE  FALSE
  BY <1>1, <1>3 DEF BeginShutdown, List, SweepScope
<1>4. ASSUME NEW d \in Proc, Dies(d)
      PROVE  FALSE
  BY <1>4, SweepTypes DEF Dies, Forget
<1>5. ASSUME NEW b \in SweepScope, NEW r \in Proc, Kill(b, r)
      PROVE  FALSE
  <2>1. CASE Of(pid[target[b][r]]) = {}
    BY <1>1, <1>5, <2>1 DEF Kill
  <2>2. CASE Of(pid[target[b][r]]) # {}
    <3>1. PICK v \in Of(pid[target[b][r]]) : pc' = [Forget(pc, v, "off") EXCEPT ![b][r] = "next"]
      BY <1>5, <2>2 DEF Kill
    <3>2. v \in Proc
      BY DEF Of
    <3> QED
      BY <3>1, <3>2, SweepTypes DEF Forget
  <2> QED
    BY <2>1, <2>2
<1>6. ASSUME NEW b \in SweepScope, NEW r \in Proc, FinishSweep(b, r)
      PROVE  todo[c][s] = {}
  <2>1. pc' = [pc EXCEPT ![b][r] = "done"] /\ todo[b][r] = {}
    BY <1>6 DEF FinishSweep
  <2>2. c = b /\ s = r
    BY <2>1, SweepTypes
  <2> QED
    BY <2>1, <2>2
<1>7. pc' # pc
  OBVIOUS
<1>8. ASSUME NEW b \in SweepScope, NEW r \in Proc,
             \/ Terminate(b, r) \/ Exited(b, r) \/ SweepFails(b, r)
             \/ \E n \in Proc : Check(b, r, n)
      PROVE  FALSE
  BY <1>1, <1>4, <1>7, <1>8 DEF Terminate, Exited, SweepFails, Check
<1>9. ASSUME NEW n \in Proc, OwnerStep(n)
      PROVE  FALSE
  BY <1>7, <1>9 DEF OwnerStep, Spawn, Register, Link, RemoveTemp, RegisterFails, Reap,
                    DropHandle, sweeps
<1>10. CASE StrangerStarts
  BY <1>7, <1>10 DEF StrangerStarts, sweeps
<1> QED
  BY <1>2, <1>3, <1>4, <1>5, <1>6, <1>8, <1>9, <1>10 DEF Next, SweepStep, Ends, Raise

-----------------------------------------------------------------------------
(* The theorems *)

\* The strengthening holds of every reachable state, whatever the bounds.
LEMMA Invariant == Spec => []IInv
<1>1. Init => IInv
  BY InvInit
<1>2. IInv /\ [Next]_vars => IInv'
  BY InvStep
<1> QED
  BY <1>1, <1>2, PTL DEF Spec

\* The variables of the registry and its sweeps keep their types, and a sweep
\* has a target exactly while it is ending one.
THEOREM RegistryTypeCorrect == Spec => []TypeOK
<1>1. IInv => TypeOK
  BY DEF IInv
<1> QED
  BY <1>1, Invariant, PTL

\* A running process whose registration succeeded has its entry on disk, for
\* any number of instances, workers, children, pids, sweeps and deaths.
THEOREM RunningChildrenAreRecorded == Spec => []RegisteredStaysRecorded
<1>1. IInv => RegisteredStaysRecorded
  BY DEF IInv
<1> QED
  BY <1>1, Invariant, PTL

\* A launch sweep never ends the child of an owner that still runs.
THEOREM SweepsSpareLiveOwners == Spec => []LiveOwnersAreLeftAlone
<1>1. IInv => LiveOwnersAreLeftAlone
  BY DEF IInv
<1> QED
  BY <1>1, Invariant, PTL

\* If no pid is handed out again between a sweep's match and its last signal,
\* every signal of every sweep reaches the recorded process or nobody.
THEOREM SignalsReachTheRecorded ==
  ASSUME ~ ReuseInGrace
  PROVE  Spec => []OnlyTheRecordedIsSignalled
<1>1. Init => SInv
  BY InvInit DEF SInv, Sighted, OnlyTheRecordedIsSignalled, Init
<1>2. SInv /\ [Next]_vars => SInv'
  BY InvStep, SightedStep, StruckStep DEF SInv, IInv
<1>3. SInv => OnlyTheRecordedIsSignalled
  BY DEF SInv
<1> QED
  BY <1>1, <1>2, <1>3, PTL DEF Spec
\* A sweep that comes to its end without a failure has ended everything that was
\* recorded and in scope when it listed the entries, although other sweeps and
\* owners take entries away meanwhile, and whether or not a pid is used again
\* (sweep_with, terminate).
THEOREM SweepsEndWhatIsDue == Spec => SweepEndsWhatIsDue
<1>1. Init => DueFits
  BY DEF Init, DueFits, SweepScope
<1>2. Spec => []DueFits
  BY <1>1, DueFitsStep, Invariant, PTL DEF Spec
<1>3. ASSUME IInv, DueFits, Next, NEW c \in SweepScope, NEW s \in Proc,
             pc[c][s] = "next", pc'[c][s] = "done", NEW n \in due[c][s]
      PROVE  life[n] # "running"
  <2>1. todo[c][s] = {}
    BY <1>3, DoneIsThrough DEF IInv
  <2> QED
    BY <1>3, <2>1 DEF DueFits, OnTheList
<1>4. ASSUME IInv, DueFits, [Next]_vars
      PROVE  [\A c \in SweepScope, s \in Proc :
                pc[c][s] = "next" /\ pc'[c][s] = "done"
                  => \A n \in due[c][s] : life[n] # "running"]_vars
  BY <1>3, <1>4
<1> QED
  BY <1>2, <1>4, Invariant, PTL DEF Spec, SweepEndsWhatIsDue
=============================================================================
