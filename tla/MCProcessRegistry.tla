------------------------- MODULE MCProcessRegistry -------------------------
(* ProcessRegistry with a few interchangeable process ids. *)
EXTENDS ProcessRegistry

ThreePids == 1..3

\* Pids differ only in name: they are handed out in order, or again.
PidsInOrder == \A n \in 1..born : \A p \in 1..(pid[n] - 1) :
                 \E m \in 1..(n - 1) : pid[m] = p

\* Bound: one shutdown at a time, beside any number of launch sweeps.
OneShutdown == Cardinality({o \in Proc : pc["OwnProcess"][o] # "off"}) <= 1
=============================================================================
