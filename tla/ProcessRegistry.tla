-------------------------- MODULE ProcessRegistry --------------------------
(***************************************************************************)
(* The child processes of the shell, the CLI and the workers, the entry    *)
(* files that record them, and the sweeps that end what a dead owner left  *)
(* behind (workspace-engine/src/process_registry.rs and its callers).      *)
(*                                                                         *)
(* A process is the number it is started with: the number stands for its   *)
(* start time, and with its pid for its identity. Pids are reused as soon  *)
(* as a process is reaped. Every process leads a group of its own, so a    *)
(* signal to a group is a signal to its leader; members of the group that  *)
(* outlive the leader are not modelled. Processes of other users read as   *)
(* dead and are left out.                                                  *)
(*                                                                         *)
(* The number of processes ever started is bounded, MaxProcs.              *)
(***************************************************************************)
EXTENDS Naturals, FiniteSets

CONSTANTS Pid,         \* the process ids the system hands out
          MaxProcs,    \* bound: processes ever started
          MaxInstances, MaxStrangers, \* bounds: how many of them are such
          ReuseInGrace \* TRUE: a pid a sweep is about to signal may be reused

ASSUME PidAssumption == Pid # {} /\ 0 \notin Pid
ASSUME BoundsAssumption == /\ MaxProcs \in Nat
                           /\ MaxInstances \in Nat
                           /\ MaxStrangers \in Nat
ASSUME ReuseInGraceAssumption == ReuseInGrace \in BOOLEAN

Proc == 1..MaxProcs

\* An instance (the shell or the CLI) registers the workers and children it
\* spawns, a worker its children.
Kind == {"none", "instance", "worker", "child", "stranger"}

\* Launch: entries whose owner is gone. Shutdown: the sweeper's own entries.
SweepScope == {"CrashedOwners", "OwnProcess"}

VARIABLES
  (* the operating system *)
  born,     \* how many processes have been started
  kind,     \* what each process is
  parent,   \* who spawned it; 0: nobody in the model
  pid,      \* its process id
  life,     \* "unborn", "running", "zombie" (not reaped yet) or "gone"
  (* `<data_dir>/processes` *)
  entries,  \* the processes with an entry file; it names the child and its owner
  temps,    \* the processes whose entry is still under a temporary name
  (* in the owners *)
  reg,      \* how far the owner of a process is with registering it
  (* in the sweepers *)
  pc,       \* where each sweep is
  todo,     \* the entries it listed and has not looked at
  target,   \* the process of the entry it is ending; 0: none
  (* history *)
  due,      \* processes recorded, and in scope, when the sweep listed entries
  struck    \* processes a sweep signalled that the entry did not record

os == <<born, kind, parent, pid, life>>
files == <<entries, temps>>
sweeps == <<pc, todo, target, due>>
vars == <<os, files, reg, sweeps, struck>>

-----------------------------------------------------------------------------
(* Identities *)

Running(n) == n \in Proc /\ life[n] = "running"

\* The process a pid names: at most one. A zombie, or a pid nobody has, names
\* none. `n \in Of(pid[n])` is the comparison of start times.
Of(p) == {n \in Proc : life[n] = "running" /\ pid[n] = p}

\* A pid cannot be handed out while a process, or its zombie, has it.
Held(p) == \E n \in Proc : life[n] \in {"running", "zombie"} /\ pid[n] = p

\* A sweep has matched the pid and may yet signal it.
Aimed(p) == \E c \in SweepScope, s \in Proc :
              pc[c][s] \in {"matched", "termed"} /\ pid[target[c][s]] = p

Owner(n) == kind[n] \in {"instance", "worker"}

\* Process `d` dies: its parent reaps it later, or init does at once, and
\* init reaps the zombies it leaves.
LifeWithout(d) ==
  [n \in Proc |->
     IF n = d THEN IF Running(parent[d]) THEN "zombie" ELSE "gone"
     ELSE IF life[n] = "zombie" /\ parent[n] = d THEN "gone" ELSE life[n]]

\* What a dead process was doing is over.
Forget(f, d, v) == [c \in SweepScope |-> [f[c] EXCEPT ![d] = v]]

\* A registration its dead owner had begun is never finished, nor undone.
RegWithout(d) ==
  [n \in Proc |-> IF parent[n] # d THEN reg[n]
                  ELSE CASE reg[n] \in {"spawned", "written"} -> "failed"
                         [] reg[n] = "linked" -> "held"
                         [] OTHER -> reg[n]]

Dies(d) == /\ life' = LifeWithout(d)
           /\ reg' = RegWithout(d)
           /\ pc' = Forget(pc, d, "off")
           /\ todo' = Forget(todo, d, {})
           /\ target' = Forget(target, d, 0)
           /\ due' = Forget(due, d, {})

\* The owner an entry or a temporary file names is running.
OwnerAlive(n) == parent[n] \in Of(pid[parent[n]])

\* Mutant of InScope: "recorded but not mine" taken as evidence of a crash.
InScope_NotMine(c, s, n) == IF c = "CrashedOwners" THEN parent[n] # s
                            ELSE parent[n] = s

InScope(c, s, n) == IF c = "CrashedOwners" THEN ~ OwnerAlive(n)
                    ELSE parent[n] = s

\* A sweep begins: at launch with the temporary files of dead owners, which
\* go. Then the entries are listed and read.
List(c, s) ==
  /\ temps' = IF c = "CrashedOwners" THEN {n \in temps : OwnerAlive(n)} ELSE temps
  /\ due' = [due EXCEPT ![c][s] = {n \in entries : InScope(c, s, n)}]
  /\ todo' = [todo EXCEPT ![c][s] = IF c = "CrashedOwners" THEN entries
                                    ELSE due'[c][s]]
  /\ pc' = [pc EXCEPT ![c][s] = "next"]

\* How many processes of a kind were started.
HowMany(k) == Cardinality({n \in Proc : kind[n] = k})

\* The next process is started by `o`, as a `k`.
Starts(o, k) ==
  /\ born < MaxProcs
  /\ born' = born + 1
  /\ kind' = [kind EXCEPT ![born + 1] = k]
  /\ parent' = [parent EXCEPT ![born + 1] = o]
  /\ life' = [life EXCEPT ![born + 1] = "running"]
  /\ \E p \in Pid : /\ ~ Held(p)
                    /\ ReuseInGrace \/ ~ Aimed(p)
                    /\ pid' = [pid EXCEPT ![born + 1] = p]

Init == /\ born = 0
        /\ kind = [n \in Proc |-> "none"]
        /\ parent = [n \in Proc |-> 0]
        /\ pid = [n \in Proc |-> 0]
        /\ life = [n \in Proc |-> "unborn"]
        /\ entries = {}
        /\ temps = {}
        /\ reg = [n \in Proc |-> "no"]
        /\ pc = [c \in SweepScope |-> [n \in Proc |-> "off"]]
        /\ todo = [c \in SweepScope |-> [n \in Proc |-> {}]]
        /\ target = [c \in SweepScope |-> [n \in Proc |-> 0]]
        /\ due = [c \in SweepScope |-> [n \in Proc |-> {}]]
        /\ struck = {}

-----------------------------------------------------------------------------
(* Processes come and go *)

\* The user starts the app or the CLI: the launch sweep comes before anything
\* that spawns.
Launch == /\ HowMany("instance") < MaxInstances
          /\ Starts(0, "instance")
          /\ List("CrashedOwners", born + 1)
          /\ UNCHANGED <<entries, reg, target, struck>>

\* Another program of the same user.
StrangerStarts == /\ HowMany("stranger") < MaxStrangers
                  /\ Starts(0, "stranger")
                  /\ UNCHANGED <<files, reg, sweeps, struck>>

\* A process ends by itself, or is killed by its owner: a timeout, a stop.
\* For an owner this is a crash, or an exit that runs no cleanup.
Ends(d) == /\ Running(d) /\ kind[d] # "stranger"
           /\ Dies(d)
           /\ UNCHANGED <<born, kind, parent, pid, files, struck>>

-----------------------------------------------------------------------------
(* An owner and its children *)

\* An instance spawns once its launch sweep is done, a worker at once, and
\* neither stops because its own shutdown sweep has begun.
Spawn(o) ==
  /\ Running(o)
  /\ \/ kind[o] = "worker" /\ Starts(o, "child")
     \/ /\ kind[o] = "instance"
        /\ pc["CrashedOwners"][o] = "done"
        /\ \E k \in {"worker", "child"} : Starts(o, k)
  /\ reg' = [reg EXCEPT ![born + 1] = "spawned"]
  /\ UNCHANGED <<files, sweeps, struck>>

\* `register` reads the child's identity and writes it under a temporary
\* name. A child that has exited already needs no entry.
Register(n) ==
  /\ Running(parent[n]) /\ reg[n] = "spawned"
  /\ IF n \in Of(pid[n])
     THEN /\ temps' = temps \union {n}
          /\ reg' = [reg EXCEPT ![n] = "written"]
     ELSE /\ reg' = [reg EXCEPT ![n] = "held"]
          /\ UNCHANGED temps
  /\ UNCHANGED <<os, entries, sweeps, struck>>

\* The hard link: a reader sees the whole entry or none. It needs the
\* temporary file.
Link(n) ==
  /\ Running(parent[n]) /\ reg[n] = "written"
  /\ n \in temps
  /\ entries' = entries \union {n}
  /\ reg' = [reg EXCEPT ![n] = "linked"]
  /\ UNCHANGED <<os, temps, sweeps, struck>>

\* The temporary file goes and the caller gets its handle.
RemoveTemp(n) ==
  /\ Running(parent[n]) /\ reg[n] = "linked"
  /\ temps' = temps \ {n}
  /\ reg' = [reg EXCEPT ![n] = "held"]
  /\ UNCHANGED <<os, entries, sweeps, struck>>

\* The entry cannot be written. Hooks and language servers are then killed;
\* a command, a server, a terminal or a request stays as it is, and a worker
\* loses its lifeline.
RegisterFails(n) ==
  /\ Running(parent[n]) /\ reg[n] \in {"spawned", "written"}
  /\ temps' = temps \ {n}
  /\ reg' = [reg EXCEPT ![n] = "failed"]
  /\ UNCHANGED <<os, entries, sweeps, struck>>

\* The owner waits for a child that has exited: its pid is free.
Reap(n) ==
  /\ Running(parent[n]) /\ reg[n] \in {"held", "failed"}
  /\ life[n] = "zombie"
  /\ life' = [life EXCEPT ![n] = "gone"]
  /\ reg' = [reg EXCEPT ![n] = IF reg[n] = "held" THEN "reaped" ELSE "failed"]
  /\ UNCHANGED <<born, kind, parent, pid, files, sweeps, struck>>

\* Mutant of DropHandle: the file is named by the pid alone.
DropHandle_ByPid(n) ==
  /\ Running(parent[n]) /\ reg[n] = "reaped"
  /\ entries' = {m \in entries : pid[m] # pid[n]}
  /\ reg' = [reg EXCEPT ![n] = "dropped"]
  /\ UNCHANGED <<os, temps, sweeps, struck>>

\* The handle is dropped after the wait and takes the entry with it.
DropHandle(n) ==
  /\ Running(parent[n]) /\ reg[n] = "reaped"
  /\ entries' = entries \ {n}
  /\ reg' = [reg EXCEPT ![n] = "dropped"]
  /\ UNCHANGED <<os, temps, sweeps, struck>>

-----------------------------------------------------------------------------
(* The sweeps *)

\* The watchdog woken by a signal, or a worker's main thread told to shut
\* down or whose lifeline closed, sweeps the process's own children.
BeginShutdown(o) ==
  /\ Running(o) /\ Owner(o)
  /\ pc["OwnProcess"][o] = "off"
  /\ List("OwnProcess", o)
  /\ UNCHANGED <<os, entries, reg, target, struck>>

\* Mutant of Check: a process is killed by its number.
Check_ByNumber(c, s, n) ==
  /\ Running(s) /\ pc[c][s] = "next" /\ n \in todo[c][s]
  /\ todo' = [todo EXCEPT ![c][s] = @ \ {n}]
  /\ IF InScope(c, s, n) /\ Of(pid[n]) # {}
     THEN /\ pc' = [pc EXCEPT ![c][s] = "matched"]
          /\ target' = [target EXCEPT ![c][s] = n]
          /\ UNCHANGED entries
     ELSE /\ entries' = IF InScope(c, s, n) THEN entries \ {n} ELSE entries
          /\ UNCHANGED <<pc, target>>
  /\ UNCHANGED <<os, temps, reg, due, struck>>

\* One entry: leave it, if it is out of scope; remove it, if its pid names no
\* process, or another one; aim at the process, if its identity matches.
Check(c, s, n) ==
  /\ Running(s) /\ pc[c][s] = "next" /\ n \in todo[c][s]
  /\ todo' = [todo EXCEPT ![c][s] = @ \ {n}]
  /\ IF InScope(c, s, n) /\ n \in Of(pid[n])
     THEN /\ pc' = [pc EXCEPT ![c][s] = "matched"]
          /\ target' = [target EXCEPT ![c][s] = n]
          /\ UNCHANGED entries
     ELSE /\ entries' = IF InScope(c, s, n) THEN entries \ {n} ELSE entries
          /\ UNCHANGED <<pc, target>>
  /\ UNCHANGED <<os, temps, reg, due, struck>>

\* A signal goes to whatever the pid names now.
Strikes(c, s) ==
  struck' = struck \union (Of(pid[target[c][s]]) \ {target[c][s]})

\* SIGTERM: the process may end, later or never.
Terminate(c, s) ==
  /\ Running(s) /\ pc[c][s] = "matched"
  /\ Strikes(c, s)
  /\ pc' = [pc EXCEPT ![c][s] = "termed"]
  /\ UNCHANGED <<os, files, reg, todo, target, due>>

\* The kill is audited; at launch the entry goes, at shutdown it stays.
Settles(c, s) == entries' = IF c = "CrashedOwners" THEN entries \ {target[c][s]}
                            ELSE entries

\* Mutant of Exited: the sweep keeps its aim when the process has exited.
Exited_KeepsTarget(c, s) ==
  /\ Running(s) /\ pc[c][s] = "termed"
  /\ Of(pid[target[c][s]]) = {}
  /\ Settles(c, s)
  /\ pc' = [pc EXCEPT ![c][s] = "next"]
  /\ UNCHANGED <<os, temps, reg, todo, target, due, struck>>

\* A poll within the grace period finds the pid names nobody.
Exited(c, s) ==
  /\ Running(s) /\ pc[c][s] = "termed"
  /\ Of(pid[target[c][s]]) = {}
  /\ Settles(c, s)
  /\ pc' = [pc EXCEPT ![c][s] = "next"]
  /\ target' = [target EXCEPT ![c][s] = 0]
  /\ UNCHANGED <<os, temps, reg, todo, due, struck>>

\* Mutant of Kill: no SIGKILL after the grace period.
Kill_GivesUp(c, s) ==
  /\ Running(s) /\ pc[c][s] = "termed"
  /\ Settles(c, s)
  /\ pc' = [pc EXCEPT ![c][s] = "next"]
  /\ target' = [target EXCEPT ![c][s] = 0]
  /\ UNCHANGED <<os, temps, reg, todo, due, struck>>

\* The grace period is over: SIGKILL, by number.
Kill(c, s) ==
  /\ Running(s) /\ pc[c][s] = "termed"
  /\ Strikes(c, s)
  /\ Settles(c, s)
  /\ LET victims == Of(pid[target[c][s]])
     IN  IF victims = {}
         THEN /\ pc' = [pc EXCEPT ![c][s] = "next"]
              /\ target' = [target EXCEPT ![c][s] = 0]
              /\ UNCHANGED <<os, reg, todo, due>>
         ELSE \E v \in victims :
                /\ life' = LifeWithout(v)
                /\ reg' = RegWithout(v)
                /\ pc' = [Forget(pc, v, "off") EXCEPT ![c][s] = "next"]
                /\ todo' = Forget(todo, v, {})
                /\ target' = [Forget(target, v, 0) EXCEPT ![c][s] = 0]
                /\ due' = Forget(due, v, {})
                /\ UNCHANGED <<born, kind, parent, pid>>
  /\ UNCHANGED temps

\* Every listed entry has been looked at.
FinishSweep(c, s) ==
  /\ Running(s) /\ pc[c][s] = "next" /\ todo[c][s] = {}
  /\ pc' = [pc EXCEPT ![c][s] = "done"]
  /\ due' = [due EXCEPT ![c][s] = {}]
  /\ UNCHANGED <<os, files, reg, todo, target, struck>>

\* The audit log cannot be written: the sweep stops where it is. A launch
\* that cannot sweep does not go on; a shutdown does.
SweepFails(c, s) ==
  /\ Running(s) /\ pc[c][s] = "next" /\ due[c][s] # {}
  /\ IF c = "CrashedOwners"
     THEN /\ Dies(s)
          /\ UNCHANGED <<born, kind, parent, pid>>
     ELSE /\ pc' = [pc EXCEPT ![c][s] = "failed"]
          /\ todo' = [todo EXCEPT ![c][s] = {}]
          /\ due' = [due EXCEPT ![c][s] = {}]
          /\ UNCHANGED <<os, reg, target>>
  /\ UNCHANGED <<files, struck>>

\* The signal is raised again with its default disposition; a worker returns.
Raise(o) ==
  /\ Running(o) /\ pc["OwnProcess"][o] \in {"done", "failed"}
  /\ Dies(o)
  /\ UNCHANGED <<born, kind, parent, pid, files, struck>>

OwnerStep(n) == \/ Spawn(n) \/ Register(n) \/ Link(n) \/ RemoveTemp(n)
                \/ RegisterFails(n) \/ Reap(n) \/ DropHandle(n)

SweepStep(c, s) == \/ Terminate(c, s) \/ Exited(c, s) \/ Kill(c, s)
                   \/ FinishSweep(c, s) \/ SweepFails(c, s)
                   \/ \E n \in Proc : Check(c, s, n)

Next == \/ Launch \/ StrangerStarts
        \/ \E n \in Proc : Ends(n) \/ OwnerStep(n) \/ BeginShutdown(n) \/ Raise(n)
        \/ \E c \in SweepScope, s \in Proc : SweepStep(c, s)

Spec == Init /\ [][Next]_vars

-----------------------------------------------------------------------------
(* Properties *)

\* The variables hold what the code's types allow, and a sweep has a target
\* exactly while it is ending one.
TypeOK ==
  /\ born \in 0..MaxProcs
  /\ kind \in [Proc -> Kind]
  /\ parent \in [Proc -> Proc \union {0}]
  /\ pid \in [Proc -> Pid \union {0}]
  /\ life \in [Proc -> {"unborn", "running", "zombie", "gone"}]
  /\ entries \subseteq Proc
  /\ temps \subseteq Proc
  /\ reg \in [Proc -> {"no", "spawned", "written", "linked", "held", "failed",
                       "reaped", "dropped"}]
  /\ pc \in [SweepScope -> [Proc -> {"off", "next", "matched", "termed",
                                     "done", "failed"}]]
  /\ todo \in [SweepScope -> [Proc -> SUBSET Proc]]
  /\ target \in [SweepScope -> [Proc -> Proc \union {0}]]
  /\ due \in [SweepScope -> [Proc -> SUBSET Proc]]
  /\ struck \subseteq Proc
  /\ \A c \in SweepScope, s \in Proc :
       target[c][s] # 0 <=> pc[c][s] \in {"matched", "termed"}

Registered(n) == reg[n] \in {"linked", "held"}

\* A running process whose registration succeeded is recorded on disk, whoever
\* sweeps at the same time, however often its pid was used before and wherever
\* a sweeper died: the next launch can still find it (`register`, `sweep_with`
\* and the handle's drop all add and remove files).
RegisteredStaysRecorded ==
  \A n \in Proc : life[n] = "running" /\ Registered(n) => n \in entries

\* What a launch sweep is ending has lost its owner, for good: it is never the
\* child of an instance or a worker that still runs (requirement 6).
LiveOwnersAreLeftAlone ==
  \A s \in Proc : pc["CrashedOwners"][s] \in {"matched", "termed"} =>
                    ~ Running(parent[target["CrashedOwners"][s]])

\* A sweep that has come to its end without a failure has ended every process
\* that was recorded and in scope when it listed the entries, also those that
\* ignore SIGTERM and those another sweep was ending meanwhile.
SweepEndsWhatIsDue ==
  [][\A c \in SweepScope, s \in Proc :
       pc[c][s] = "next" /\ pc'[c][s] = "done"
         => \A n \in due[c][s] : life[n] # "running"]_vars

\* No signal of a sweep reaches a process the entry did not record, though
\* entries outlive their processes and pids are used again ("nothing here
\* kills without" the evidence of identity). Holds when a pid is not handed out
\* again between the match and the last signal.
OnlyTheRecordedIsSignalled == struck = {}
=============================================================================
