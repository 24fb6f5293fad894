----------------------------- MODULE RequestLatch -----------------------------
(***************************************************************************)
(* What the reboot monitor relies on of the data model: a request is       *)
(* raised once in the life of the process and never taken back, and it is  *)
(* reported, once, some time after it was raised.                          *)
(***************************************************************************)
VARIABLES requested, committing

vars == <<requested, committing>>

Init == requested = FALSE /\ committing = FALSE

Raise == ~requested /\ requested' = TRUE /\ committing' = TRUE

Report == committing /\ committing' = FALSE /\ UNCHANGED requested

Next == Raise \/ Report

Spec == Init /\ [][Next]_vars

=============================================================================
