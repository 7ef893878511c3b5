-------------------------- MODULE MCDelegatedWorker --------------------------
(* Instances of DelegatedWorker for TLC. *)
EXTENDS DelegatedWorker, TLC

CONSTANTS c1, c2
TwoConsumers == {c1, c2}
ConsumerSymmetry == Permutations(TwoConsumers)

\* Requests to continue with a result touch the worker only through the
\* parent's log: they are explored where the turn thread writes it, and while
\* there is no worker.
ParentSideAtRest ==
  (\E c \in Consumer : chosen[c] # NoTask) => pc = "return" \/ ~Up

\* A turn that ends with a patch or an offer, and one the shell goes on with,
\* are explored beside turns that are neither steered nor stopped.
OffersAlone ==
  (\E t \in Task : pend[t] \in {"patch", "offer"}) \/ elsewhere # {} =>
    stops = 0 /\ notes = 0 /\ ~hold

\* A worker whose parent is gone is not restarted, one restarted after a stop
\* is given one job, and a second note, for the order of notes, is not tried
\* with the last job, a stop or a restart.
SmallerCases ==
  /\ parent = "deleted" => run.n = 1
  /\ stops > 0 /\ run.n > 1 => jobs < 2
  /\ notes > 1 => jobs < MaxJobs /\ run.n = 1 /\ stops = 0

=============================================================================
