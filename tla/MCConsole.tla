----------------------------- MODULE MCConsole -----------------------------
(* Instances of Console for TLC. *)
EXTENDS Console

\* A capture below the approval threshold, one above it, a survey and a hold.
MCProposals == {[action |-> "capture", bytes |-> 2], [action |-> "capture", bytes |-> 3],
                [action |-> "survey", bytes |-> 2], [action |-> "hold", bytes |-> 0]}

\* Every action of a plan.
MCAllProposals == MCProposals \cup [action : {"inspect", "recognize", "invalid"}, bytes : {2}]
====
