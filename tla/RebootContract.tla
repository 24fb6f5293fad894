--------------------------- MODULE RebootContract ---------------------------
(***************************************************************************)
(* What the Reboot Manager promises, whatever it says to whom: a reboot is *)
(* decided on only when it was requested, announced only while no          *)
(* component holds it back, and after the announcement none does; the      *)
(* system goes down only after an announcement; and a request is never     *)
(* taken back.                                                             *)
(***************************************************************************)
CONSTANT Component

VARIABLES
    requested,   \* a reboot was asked for
    phase,       \* how far it got
    holders      \* the components that hold it back

vars == <<requested, phase, holders>>

Init == requested = FALSE /\ phase = "idle" /\ holders = {}

Request ==
    /\ ~requested /\ requested' = TRUE
    /\ UNCHANGED <<phase, holders>>

Begin ==
    /\ phase = "idle" /\ requested
    /\ phase' = "deciding"
    /\ UNCHANGED <<requested, holders>>

\* Components come and go, and start and finish events.
Decide ==
    /\ phase = "deciding"
    /\ holders' \in SUBSET Component
    /\ UNCHANGED <<requested, phase>>

Announce ==
    /\ phase = "deciding" /\ holders = {}
    /\ phase' = "announced"
    /\ UNCHANGED <<requested, holders>>

\* The system resets, or it never will: the announcement, or the reset, failed.
Conclude ==
    /\ phase = "announced"
    /\ phase' \in {"down", "stuck"}
    /\ UNCHANGED <<requested, holders>>

\* The process may end before it resets the system.
Quit ==
    /\ phase \notin {"down", "gone"}
    /\ phase' = "gone"
    /\ UNCHANGED <<requested, holders>>

Next == Request \/ Begin \/ Decide \/ Announce \/ Conclude \/ Quit

Spec == Init /\ [][Next]_vars

=============================================================================
