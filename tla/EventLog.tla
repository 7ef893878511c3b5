------------------------------ MODULE EventLog ------------------------------
(***************************************************************************)
(* What one session's event log promises its readers, with no lock, no     *)
(* sidecar and no bytes: a growing set of sequence numbers, each one       *)
(* issued once and each one above everything readable when it arrives.     *)
(* `SessionLog` is shown to implement it.                                  *)
(*                                                                         *)
(* Every other module of this project that appends to the log in one       *)
(* atomic step relies on this contract.                                    *)
(***************************************************************************)
EXTENDS Naturals, FiniteSets

VARIABLES seqs,  \* the sequence numbers a reader finds in the log
          high,  \* the largest sequence number issued or found so far
          fresh  \* TRUE: no number has been issued yet, only found

vars == <<seqs, high, fresh>>

\* Everything in `S` is below `n`.
AllBelow(S, n) == \A s \in S : s < n

(***************************************************************************)
(* A log an older build left behind, or none at all.                       *)
(***************************************************************************)
Init == /\ seqs \in SUBSET Nat
        /\ high \in Nat
        /\ AllBelow(seqs, high + 1)
        /\ fresh \in BOOLEAN

(***************************************************************************)
(* A writer is issued numbers nobody has been issued before.               *)
(***************************************************************************)
Issue == /\ high' \in Nat
         /\ high' > high
         /\ fresh' = FALSE
         /\ UNCHANGED seqs

(***************************************************************************)
(* Issued numbers become readable together. A torn write may leave fewer   *)
(* of them, and may cost a reader the newest event it had (never an older  *)
(* one).                                                                   *)
(***************************************************************************)
Append == /\ seqs' \in SUBSET Nat
          /\ \A new \in seqs' \ seqs : new <= high /\ AllBelow(seqs, new)
          /\ \A lost \in seqs \ seqs' : AllBelow(seqs \ {lost}, lost)
          /\ UNCHANGED <<high, fresh>>

(***************************************************************************)
(* The session is deleted. A number once issued is not issued again; of    *)
(* numbers only found in the log, nothing remains.                         *)
(***************************************************************************)
Delete == /\ seqs' = {}
          /\ high' = IF fresh THEN 0 ELSE high
          /\ UNCHANGED fresh

Next == Issue \/ Append \/ Delete

Spec == Init /\ [][Next]_vars
=============================================================================
