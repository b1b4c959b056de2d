---------------------------- MODULE RxOwnership -----------------------------
(***************************************************************************)
(* What sdrd promises about the receive radio, without threads, sockets or *)
(* attributes: one owner at a time; the radio leaves its home state only   *)
(* under an owner and never while a capture runs; the owner gives it back  *)
(* at home unless the hardware refuses, which is remembered for ever; and  *)
(* a cancelled owner starts no further capture.                            *)
(***************************************************************************)
CONSTANTS Clients, Nobody

VARIABLES owner, place, cancelled, capturing

vars == <<owner, place, cancelled, capturing>>

Places == {"home", "tuned", "lost"}

\* A restore that failed once is never forgotten.
Move(p) == IF place = "lost" THEN "lost" ELSE p

Init ==
    /\ owner = Nobody
    /\ place = "home"
    /\ cancelled = FALSE
    /\ capturing = FALSE

Acquire(c) ==
    /\ owner = Nobody
    /\ owner' = c
    /\ cancelled' = FALSE
    /\ UNCHANGED <<place, capturing>>

Tune ==
    /\ owner # Nobody
    /\ ~capturing
    /\ \E p \in {"home", "tuned"} : place' = Move(p)
    /\ UNCHANGED <<owner, cancelled, capturing>>

BeginCapture ==
    /\ owner # Nobody
    /\ ~cancelled
    /\ ~capturing
    /\ capturing' = TRUE
    /\ UNCHANGED <<owner, place, cancelled>>

EndCapture ==
    /\ capturing
    /\ capturing' = FALSE
    /\ UNCHANGED <<owner, place, cancelled>>

Cancel ==
    /\ cancelled' = TRUE
    /\ UNCHANGED <<owner, place, capturing>>

\* The owner gives the radio back, at home or known to be lost.
Release ==
    /\ owner # Nobody
    /\ ~capturing
    /\ owner' = Nobody
    /\ \E p \in {"home", "lost"} : place' = Move(p)
    /\ UNCHANGED <<cancelled, capturing>>

Next ==
    \/ \E c \in Clients : Acquire(c)
    \/ Tune
    \/ BeginCapture
    \/ EndCapture
    \/ Cancel
    \/ Release

Spec == Init /\ [][Next]_vars

=============================================================================
