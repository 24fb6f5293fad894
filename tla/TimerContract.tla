--------------------------- MODULE TimerContract ---------------------------
(***************************************************************************)
(* What the timers of the Reboot Manager promise their readers and their   *)
(* callers, whatever is staged, swapped or stored to keep it.  Between     *)
(* transactions a timer changes only when the timers are loaded; inside    *)
(* one a reader meets old and new values, and no others; a commit ends     *)
(* with all of what its callers wanted, and a rollback with none of it.  A *)
(* load among the sets of a transaction, or a rollback that fails,         *)
(* suspends the promise until a transaction ends well.                     *)
(***************************************************************************)
CONSTANTS Para, Word, Default, None

VARIABLES
    timers,    \* what a reader gets
    wanted,    \* what the callers of this transaction asked for
    old,       \* the timers when its commit or rollback began
    phase,     \* "idle", "applying" or "undoing"
    whole      \* the promise is in force

vars == <<timers, wanted, old, phase, whole>>

Nothing == [p \in Para |-> None]
AsWanted == [p \in Para |-> IF wanted[p] = None THEN old[p] ELSE wanted[p]]

Init ==
    /\ timers = Default /\ old = Default
    /\ wanted = Nothing
    /\ phase = "idle" /\ whole = TRUE

\* While something is wanted, only a load that was announced by Disturb.
Load ==
    /\ phase = "idle" /\ (whole => wanted = Nothing)
    /\ timers' \in [Para -> Word]
    /\ UNCHANGED <<wanted, old, phase, whole>>

Disturb ==
    /\ phase = "idle" /\ wanted # Nothing
    /\ whole' = FALSE
    /\ UNCHANGED <<timers, wanted, old, phase>>

Set(p, word) ==
    /\ phase = "idle"
    /\ wanted' = [wanted EXCEPT ![p] = word]
    /\ UNCHANGED <<timers, old, phase, whole>>

\* A commit, or the rollback of what no commit applied.
Begin ==
    /\ phase = "idle" /\ wanted # Nothing
    /\ phase' \in {"applying", "undoing"}
    /\ old' = timers
    /\ UNCHANGED <<timers, wanted, whole>>

Work ==
    /\ phase # "idle"
    /\ timers' \in [Para -> Word]
    /\ whole => \A p \in Para : timers'[p] \in {old[p], wanted[p]}
    /\ UNCHANGED <<wanted, old, phase, whole>>

TurnBack ==
    /\ phase = "applying" /\ phase' = "undoing"
    /\ UNCHANGED <<timers, wanted, old, whole>>

End ==
    /\ phase # "idle"
    /\ whole => timers = IF phase = "applying" THEN AsWanted ELSE old
    /\ phase' = "idle" /\ wanted' = Nothing /\ whole' = TRUE
    /\ UNCHANGED <<timers, old>>

\* The rollback failed.
Break ==
    /\ phase = "undoing"
    /\ phase' = "idle" /\ wanted' = Nothing /\ whole' = FALSE
    /\ UNCHANGED <<timers, old>>

\* The process is started again.
Restart == Init'

Next ==
    \/ Load \/ Disturb
    \/ \E p \in Para, word \in Word : Set(p, word)
    \/ Begin \/ Work \/ TurnBack \/ End \/ Break
    \/ Restart

Spec == Init /\ [][Next]_vars

=============================================================================
