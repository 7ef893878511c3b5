----------------------------- MODULE SessionLog -----------------------------
(***************************************************************************)
(* The append-only JSONL log of one session and the sidecar that both      *)
(* locks it and holds the last sequence number reserved                    *)
(* (workspace-engine/src/session.rs: `append_session_events_locked`,       *)
(* `SessionLogLock`, `parsed_events`, `active_events`).                    *)
(*                                                                         *)
(* Several processes append: the desktop shell and one driver process per  *)
(* worker. An append takes the sidecar's flock, writes the new counter,    *)
(* then writes all its events as one buffer. A process may die between any *)
(* two of those steps, and the buffer may reach the file only in part (a   *)
(* full disk, a power cut). No reader takes the lock.                      *)
(*                                                                         *)
(* A line is a readable event or a fragment that does not parse. Only two  *)
(* facts of an event matter here: its sequence number, and, for a          *)
(* `conversation_rewound` marker, the position it rewinds through.         *)
(***************************************************************************)
EXTENDS Integers, Sequences, FiniteSets

CONSTANTS Proc,          \* the processes that append to this log
          MaxBatch,      \* most events one transaction appends
          MaxSeq,        \* bound: no number above this one is reserved
          MaxTears,      \* bound: how many writes may be cut short
          MaxOld         \* most lines an older build left in the log

ASSUME MaxBatchAssumption == MaxBatch \in Nat \ {0}
ASSUME MaxSeqAssumption == MaxSeq \in Nat
ASSUME MaxTearsAssumption == MaxTears \in Nat
ASSUME MaxOldAssumption == MaxOld \in Nat

VARIABLES
  counter,   \* the sidecar's text as a number, or Missing
  log,       \* the lines of the log file
  open,      \* TRUE: the file's last line has no newline
  lock,      \* who holds the flock: a subset of Proc
  pc,        \* where each process is in an append
  job,       \* the bodies of the events it appends
  first,     \* the first sequence number reserved for it
  points,    \* positions checkpoints recorded: where a rewind may go
  acked,     \* history: events whose append returned Ok, log not deleted
  tears      \* history: how many writes were cut short

vars == <<counter, log, open, lock, pc, job, first, points, acked, tears>>

Missing == -1   \* no counter: the sidecar is empty, as older builds left it
Plain == -1     \* the body of an event that is not a rewind marker

-----------------------------------------------------------------------------
(* Lines and what a reader makes of them *)

Event(s, body) == [ok |-> TRUE, seq |-> s, through |-> body]
Fragment == [ok |-> FALSE, seq |-> 0, through |-> Plain]

Body == Nat \cup {Plain}
Line == [ok : BOOLEAN, seq : Nat, through : Body]

\* parsed_events: the positions of the lines that parse.
Readable(l) == {i \in 1..Len(l) : l[i].ok}

ReadableSeqs(l) == {l[i].seq : i \in Readable(l)}

\* latest_seq: the number of the last line that parses, 0 when none does.
LatestSeq(l) ==
  IF Readable(l) = {} THEN 0
  ELSE l[CHOOSE i \in Readable(l) : \A j \in Readable(l) : j <= i].seq

Markers(l) == {i \in Readable(l) : l[i].through # Plain}

\* Mutant of ActiveSeqs: a marker is honoured only while it is the last line.
ActiveSeqs_LastLine(l) ==
  IF Len(l) \notin Markers(l) THEN ReadableSeqs(l)
  ELSE {s \in ReadableSeqs(l) : s <= l[Len(l)].through \/ s > l[Len(l)].seq}

(***************************************************************************)
(* active_events: the newest marker decides; what it left out is           *)
(* everything between the position it rewinds through and itself.          *)
(***************************************************************************)
ActiveSeqs(l) ==
  IF Markers(l) = {} THEN ReadableSeqs(l)
  ELSE LET newest == l[CHOOSE i \in Markers(l) : \A j \in Markers(l) : j <= i]
       IN {s \in ReadableSeqs(l) : s <= newest.through \/ s > newest.seq}

(***************************************************************************)
(* The file after `new` is written in append mode. A last line without a   *)
(* newline runs into the first new one, and the two together do not parse. *)
(***************************************************************************)
Written(new) ==
  IF open /\ new # <<>>
  THEN SubSeq(log, 1, Len(log) - 1) \o <<Fragment>> \o Tail(new)
  ELSE log \o new

\* The prebuilt buffer: the transaction's events under consecutive numbers.
Buffer(p) == [i \in 1..Len(job[p]) |-> Event(first[p] + i - 1, job[p][i])]

\* The last number the sidecar or, failing that, the log vouches for.
ReservedLast == IF counter = Missing THEN LatestSeq(log) ELSE counter

-----------------------------------------------------------------------------
(***************************************************************************)
(* A new session, or one an older build wrote: events without a `seq`,     *)
(* which parse_event numbers by their line, and perhaps fragments.         *)
(***************************************************************************)
OldLog(l) == \A i \in 1..Len(l) : l[i] \in {Event(i, Plain), Fragment}

Init ==
  /\ counter = Missing
  /\ \E n \in 0..MaxOld :
       log \in [1..n -> {Event(i, Plain) : i \in 1..MaxOld} \cup {Fragment}]
  /\ OldLog(log)
  /\ open \in {o \in BOOLEAN : o => log # <<>>}
  /\ lock = {}
  /\ pc = [p \in Proc |-> "idle"]
  /\ job = [p \in Proc |-> <<>>]
  /\ first = [p \in Proc |-> 0]
  /\ points = {}
  /\ acked = {log[i].seq : i \in Readable(log) \ (IF open THEN {Len(log)} ELSE {})}
  /\ tears = IF open THEN 1 ELSE 0
  /\ tears <= MaxTears

\* append_session_event and every locked transaction: what is to be appended
\* is decided, and the process asks for the flock.
Request(p, bodies) ==
  /\ pc[p] = "idle"
  /\ pc' = [pc EXCEPT ![p] = "waiting"]
  /\ job' = [job EXCEPT ![p] = bodies]
  /\ UNCHANGED <<counter, log, open, lock, first, points, acked, tears>>

AppendEvents(p) ==
  \E n \in 1..MaxBatch : Request(p, [i \in 1..n |-> Plain])

(***************************************************************************)
(* A checkpoint restore moves the conversation back. The position is one a *)
(* checkpoint read from the log earlier.                                   *)
(***************************************************************************)
Rewind(p) ==
  \E through \in points : Request(p, <<through>>)

\* Mutant of Acquire: an in-process mutex does not keep another process out.
Acquire_NoFlock(p) ==
  /\ pc[p] = "waiting"
  /\ lock' = lock \cup {p}
  /\ pc' = [pc EXCEPT ![p] = "locked"]
  /\ UNCHANGED <<counter, log, open, job, first, points, acked, tears>>

\* SessionLogLock::acquire
Acquire(p) ==
  /\ pc[p] = "waiting"
  /\ lock = {}
  /\ lock' = {p}
  /\ pc' = [pc EXCEPT ![p] = "locked"]
  /\ UNCHANGED <<counter, log, open, job, first, points, acked, tears>>

\* Mutant of Reserve: one number is reserved however many events there are.
Reserve_One(p) ==
  /\ pc[p] = "locked"
  /\ ReservedLast + Len(job[p]) <= MaxSeq
  /\ counter' = ReservedLast + 1
  /\ first' = [first EXCEPT ![p] = ReservedLast + 1]
  /\ pc' = [pc EXCEPT ![p] = "reserved"]
  /\ UNCHANGED <<log, open, lock, job, points, acked, tears>>

\* SessionLogLock::reserve: the counter is written before the log is.
Reserve(p) ==
  /\ pc[p] = "locked"
  /\ ReservedLast + Len(job[p]) <= MaxSeq
  /\ counter' = ReservedLast + Len(job[p])
  /\ first' = [first EXCEPT ![p] = ReservedLast + 1]
  /\ pc' = [pc EXCEPT ![p] = "reserved"]
  /\ UNCHANGED <<log, open, lock, job, points, acked, tears>>

\* The guard is dropped, or its process is gone: the flock is free again.
Release(p) ==
  /\ lock' = lock \ {p}
  /\ pc' = [pc EXCEPT ![p] = "idle"]
  /\ job' = [job EXCEPT ![p] = <<>>]
  /\ first' = [first EXCEPT ![p] = 0]

\* Mutant of Write: the newline separates events instead of ending them.
Write_NoNewline(p) ==
  /\ pc[p] = "reserved"
  /\ log' = Written(Buffer(p))
  /\ open' = TRUE
  /\ acked' = acked \cup {Buffer(p)[i].seq : i \in 1..Len(job[p])}
  /\ Release(p)
  /\ UNCHANGED <<counter, points, tears>>

\* write_all of the whole buffer; the append returns Ok.
Write(p) ==
  /\ pc[p] = "reserved"
  /\ log' = Written(Buffer(p))
  /\ open' = FALSE
  /\ acked' = acked \cup {Buffer(p)[i].seq : i \in 1..Len(job[p])}
  /\ Release(p)
  /\ UNCHANGED <<counter, points, tears>>

(***************************************************************************)
(* Only a part of the buffer reaches the file: `n` whole lines, then       *)
(* nothing, a fragment of the next line, or all of it but its newline. The *)
(* append does not return Ok.                                              *)
(***************************************************************************)
TornWrite(p) ==
  /\ pc[p] = "reserved"
  /\ tears < MaxTears
  /\ tears' = tears + 1
  /\ \E n \in 0..(Len(job[p]) - 1) :
     LET whole == SubSeq(Buffer(p), 1, n) IN
       \/ /\ log' = Written(whole)
          /\ open' = (open /\ n = 0)
       \/ \E rest \in {Fragment, Buffer(p)[n + 1]} :
            /\ log' = Written(Append(whole, rest))
            /\ open' = TRUE
  /\ Release(p)
  /\ UNCHANGED <<counter, points, acked>>

\* The process dies, or its append fails before the log is touched.
Crash(p) ==
  /\ pc[p] # "idle"
  /\ Release(p)
  /\ UNCHANGED <<counter, log, open, points, acked, tears>>

\* latest_event_seq, read by a checkpoint without the lock.
Checkpoint ==
  /\ points' = points \cup {LatestSeq(log)}
  /\ UNCHANGED <<counter, log, open, lock, pc, job, first, acked, tears>>

\* Mutant of Delete: the file is emptied, its missing newline forgotten.
Delete_KeepsOpen ==
  /\ lock = {}
  /\ log # <<>>
  /\ log' = <<>>
  /\ acked' = {}
  /\ UNCHANGED <<counter, open, lock, pc, job, first, points, tears>>

(***************************************************************************)
(* delete_session: the log goes under the same flock, so between no one    *)
(* else's check and append. The sidecar, and with it the counter, stays.   *)
(***************************************************************************)
Delete ==
  /\ lock = {}
  /\ log # <<>>
  /\ log' = <<>>
  /\ open' = FALSE
  /\ acked' = {}
  /\ UNCHANGED <<counter, lock, pc, job, first, points, tears>>

Next ==
  \/ \E p \in Proc : \/ AppendEvents(p)
                     \/ Rewind(p)
                     \/ Acquire(p)
                     \/ Reserve(p)
                     \/ Write(p)
                     \/ TornWrite(p)
                     \/ Crash(p)
  \/ Checkpoint
  \/ Delete

Spec == Init /\ [][Next]_vars

-----------------------------------------------------------------------------
(* Properties *)

TypeOK ==
  /\ counter \in Nat \cup {Missing}
  /\ log \in Seq(Line)
  /\ open \in BOOLEAN
  /\ open => log # <<>>
  /\ lock \in SUBSET Proc
  /\ pc \in [Proc -> {"idle", "waiting", "locked", "reserved"}]
  /\ job \in [Proc -> Seq(Body)]
  /\ first \in [Proc -> Nat]
  /\ points \in SUBSET Nat
  /\ acked \in SUBSET Nat
  /\ tears \in 0..MaxTears

(***************************************************************************)
(* The order of the lines is the order of their numbers, and no two lines  *)
(* share one, whichever processes wrote them and whatever died or tore on  *)
(* the way: the sidecar's promise of "a gap, never a duplicate".           *)
(***************************************************************************)
SeqsIncrease ==
  \A i, j \in Readable(log) : i < j => log[i].seq < log[j].seq

(***************************************************************************)
(* A known counter vouches for every line in the file, so that the next    *)
(* reservation never needs to read the log.                                *)
(***************************************************************************)
CounterCoversLog ==
  counter # Missing => \A i \in Readable(log) : log[i].seq <= counter

(***************************************************************************)
(* At most one process is past the flock, and it holds it.                 *)
(***************************************************************************)
OneWriter ==
  /\ \A p \in Proc : pc[p] \in {"locked", "reserved"} <=> p \in lock
  /\ \A p, q \in lock : p = q

(***************************************************************************)
(* Numbers reserved and not yet written are above every line of the file   *)
(* and still the newest the sidecar knows: no one reserves, writes or      *)
(* deletes in between.                                                     *)
(***************************************************************************)
ReservationsAreFresh ==
  \A p \in Proc : pc[p] = "reserved" =>
    /\ counter # Missing
    /\ counter = first[p] + Len(job[p]) - 1
    /\ \A i \in Readable(log) : log[i].seq < first[p]

(***************************************************************************)
(* A cut-off write costs a reader at most one event whose append had       *)
(* returned Ok: the one written onto the unfinished line.                  *)
(***************************************************************************)
LossBoundedByTears == Cardinality(acked \ ReadableSeqs(log)) <= tears

(***************************************************************************)
(* The log implements the abstract event log.                              *)
(***************************************************************************)
EL == INSTANCE EventLog WITH seqs <- ReadableSeqs(log),
                             high <- ReservedLast,
                             fresh <- (counter = Missing)

ImplementsEventLog == EL!Spec

(***************************************************************************)
(* What a rewind removed comes back only through a later rewind, and then  *)
(* no further than the point that one goes to: no append, torn write or    *)
(* checkpoint, in whatever order the processes make them, brings an event  *)
(* back into the conversation. A marker that was itself cut short of its   *)
(* newline may be lost to the next append.                                 *)
(***************************************************************************)
RemovedReturnsByRewindOnly ==
  Markers(log) \subseteq Markers(log')
    => \A s \in (ReadableSeqs(log) \ ActiveSeqs(log)) \cap ActiveSeqs(log') :
         \E i \in Markers(log') \ Markers(log) : s <= log'[i].through

(***************************************************************************)
(* Only a rewind (or deleting the session) takes an event out of the       *)
(* conversation: whatever is appended after a rewind continues it, also    *)
(* when it was requested before the rewind and written after.              *)
(***************************************************************************)
ConversationContinues ==
  log' # <<>> /\ Markers(log') = Markers(log)
    => /\ ActiveSeqs(log) \cap ReadableSeqs(log') \subseteq ActiveSeqs(log')
       /\ ReadableSeqs(log') \ ReadableSeqs(log) \subseteq ActiveSeqs(log')

(***************************************************************************)
(* Rewinds alone move the conversation, in either direction.               *)
(***************************************************************************)
OnlyRewindsMoveTheConversation ==
  [][RemovedReturnsByRewindOnly /\ ConversationContinues]_vars

(***************************************************************************)
(* tests/session_rewind.rs:5: a rewind appends a marker "and every reader  *)
(* treats the events between the rewound-to point and the marker as        *)
(* inert". Asked here only of a marker that no later rewind went behind:   *)
(* the conversation still stands on it.                                    *)
(***************************************************************************)
RewoundIsInert ==
  \A i \in Markers(log) :
    (\A j \in Markers(log) : j > i => log[j].through >= log[i].seq)
      => \A s \in ActiveSeqs(log) : ~(log[i].through < s /\ s < log[i].seq)

(***************************************************************************)
(* docs/specs/17_durable_task_state_and_crash_recovery/proposal.md: "A     *)
(* torn line is always the last one, so discarding it loses at most the    *)
(* event that was being written when the process died".                    *)
(***************************************************************************)
OnlyTheTornEventIsLost == acked \subseteq ReadableSeqs(log)
=============================================================================
