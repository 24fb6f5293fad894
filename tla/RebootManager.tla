--------------------------- MODULE RebootManager ---------------------------
(***************************************************************************)
(* The back end of the Reboot Manager as its callers meet it: the objects  *)
(* Configuration and Reboot under the transactions of the CCSP library,    *)
(* and the monitor thread that takes the request.                          *)
(*                                                                         *)
(* One bus thread serves everything: the sets of a transaction, then the   *)
(* commits of the objects it set, in an order of the library's choice, or  *)
(* - after the first set or commit that fails - their rollbacks.  Each     *)
(* step is a step of one of the two objects, which leaves the other alone. *)
(* A restart of the process is a new behaviour.                            *)
(*                                                                         *)
(* The functions of both objects are registered before COSA_Init loads the *)
(* timers, so Enable may be set and committed while it still loads.  What  *)
(* keeps the monitor thread from acting on timers that are not loaded is   *)
(* BackEndInitDone, raised after a load by COSA_Init on the main thread or *)
(* by the system-ready callback on the bus thread, and polled first.  (The *)
(* VEN501 build raises the flag in the poll itself; it is left out here.)  *)
(***************************************************************************)
EXTENDS Integers, RankOrder

CONSTANTS N, Default, Requested, IntModulus, LongModulus, None

VARIABLES
    paraValue, paraBackup, paraState, recordName, psm, step, at, asked, before,
    promised, reloaded, torn,                   \* of Configuration
    bRebootEnabled, bRebootEnabledtemp, sRebootStatus, started, rebootStep,
    rebootAsked, rebootBefore, seenEnable, seenStatus, \* of RebootObject, whose
                 \* readers change nothing else and are not composed
    phase,       \* where the library is in the transaction
    BackEndInitDone,  \* a load is over: the monitor thread may look for requests
    loaded,      \* history: the timers a load has been through with
    wanted,      \* history: the timers the transaction set, until its answer
    disturbed    \* history: a load came in its way, or a rollback that failed,
                 \* this transaction's own or an earlier one's

Conf == INSTANCE Configuration

Object == INSTANCE RebootObject WITH
    step <- rebootStep, asked <- rebootAsked, before <- rebootBefore

ASSUME RebootManagerAssumption ==
    Conf!ConfigurationAssumption /\ Object!NoneAssumption

confVars   == <<paraValue, paraBackup, paraState, recordName, psm, step, at,
                asked, before, promised, reloaded, torn>>
objectVars == <<bRebootEnabled, bRebootEnabledtemp, sRebootStatus, started,
                rebootStep, rebootAsked, rebootBefore, seenEnable, seenStatus>>
library    == <<phase, wanted, disturbed>>
backEnd    == <<BackEndInitDone, loaded>>
vars       == <<confVars, objectVars, library, backEnd>>

TypeOK ==
    /\ Conf!TypeOK
    /\ Object!TypeOK
    /\ phase \in {"open", "commit", "rollback"}
    /\ wanted \in [Conf!Para -> Conf!Word \cup {None}]
    /\ disturbed \in BOOLEAN
    /\ BackEndInitDone \in BOOLEAN /\ loaded \subseteq Conf!Para

Init ==
    /\ Conf!Init
    /\ Object!Init
    /\ phase = "open" /\ wanted = Conf!Nothing /\ disturbed = FALSE
    /\ BackEndInitDone = FALSE /\ loaded = {}

-----------------------------------------------------------------------------
(* The loads, of COSA_Init and of the system-ready callback.                 *)

\* Variant with a bug: the flag goes up before the load instead of after it.
RaiseFirst(t) == BackEndInitDone' = TRUE

\* The statement after Configuration_Parameters_Init, in both its callers.
RaiseWhenLoaded(t) == BackEndInitDone' = (BackEndInitDone \/ step'[t] = "idle")

LoadParameters(t) ==
    /\ \/ Conf!NameRecord(t) /\ UNCHANGED loaded
       \/ Conf!GetRecord(t) /\ loaded' = loaded \cup {at[t]}
    /\ RaiseWhenLoaded(t)
    /\ UNCHANGED <<objectVars, library>>

SystemReady ==
    /\ phase = "open"
    /\ Conf!SystemReady
    /\ UNCHANGED <<objectVars, library, backEnd>>

-----------------------------------------------------------------------------
(* The sets, one at a time.  That no timer is set before COSA_Init is over   *)
(* is the library's doing; of Enable nothing of the kind is assumed.         *)

Free == phase = "open" /\ step["bus"] = "idle"

SetTimer(p, word) ==
    /\ phase = "open"
    /\ Conf!SetParamUlongValue(p, word)
    /\ wanted' = [wanted EXCEPT ![p] = word]
    /\ UNCHANGED <<objectVars, phase, disturbed, backEnd>>

SetEnable(value) ==
    /\ Free
    /\ Object!SetParamBoolValue(value)
    /\ UNCHANGED <<confVars, library, backEnd>>

RefuseSet(value) ==
    /\ Free
    /\ Object!RefuseSet(value)
    /\ phase' = "rollback"
    /\ UNCHANGED <<confVars, wanted, disturbed, backEnd>>

\* A set of another type than ULONG, or of a name that is not a timer's.
RefuseTimer ==
    /\ Free
    /\ phase' = "rollback"
    /\ UNCHANGED <<confVars, objectVars, wanted, disturbed, backEnd>>

-----------------------------------------------------------------------------
(* The commits.                                                              *)

ConfigurationAsked == asked # Conf!Nothing
RebootAsked        == rebootStep = "open"
BetweenCalls       == step["bus"] = "idle" /\ rebootStep # "status"

\* Both objects accept everything when they are asked to validate.
Validate ==
    /\ Free
    /\ ConfigurationAsked \/ RebootAsked
    /\ phase' = "commit"
    /\ UNCHANGED <<confVars, objectVars, wanted, disturbed, backEnd>>

Failed(failed) == phase' = IF failed THEN "rollback" ELSE phase

ConfigurationCommit ==
    /\ phase = "commit"
    /\ \/ BetweenCalls /\ Conf!BeginCommit
       \/ Conf!CommitSkip \/ Conf!CommitSwap \/ Conf!CommitSave
    /\ Failed(step'["bus"] = "refused")
    /\ UNCHANGED <<objectVars, wanted, disturbed, backEnd>>

ConfigurationCommitted ==
    /\ phase = "commit"
    /\ Conf!EndCommit
    /\ disturbed' = (reloaded \/ torn)
    /\ UNCHANGED <<objectVars, phase, wanted, backEnd>>

RebootCommit ==
    /\ phase = "commit"
    /\ \/ BetweenCalls /\ Object!Commit
       \/ Object!CommitStatus
    /\ Failed(rebootStep' = "refused")
    /\ UNCHANGED <<confVars, wanted, disturbed, backEnd>>

Close ==
    /\ phase' = "open" /\ wanted' = Conf!Nothing /\ disturbed' = FALSE

AnswerSuccess ==
    /\ phase = "commit" /\ BetweenCalls
    /\ ~ConfigurationAsked /\ ~RebootAsked
    /\ \/ Object!Succeed
       \/ rebootStep = "idle" /\ UNCHANGED objectVars
    /\ Close
    /\ UNCHANGED <<confVars, backEnd>>

-----------------------------------------------------------------------------
(* The rollbacks.  Configuration_Rollback finds nothing to do once           *)
(* Configuration_Commit was through: what it committed stays.                *)

ConfigurationRollback ==
    /\ phase = "rollback"
    /\ \/ Conf!BeginRollback \/ Conf!RollbackSkip \/ Conf!RollbackRestore
       \/ Conf!RollbackSave \/ Conf!EndRollback
    /\ disturbed' = (disturbed \/ reloaded \/ torn')
    /\ UNCHANGED <<objectVars, phase, wanted, backEnd>>

RebootRollback ==
    /\ phase = "rollback" /\ step["bus"] \in {"idle", "refused"}
    /\ Object!OtherFails \/ Object!Rollback
    /\ UNCHANGED <<confVars, library, backEnd>>

AnswerFault ==
    /\ phase = "rollback" /\ BetweenCalls
    /\ ~ConfigurationAsked /\ rebootStep = "idle"
    /\ Close
    /\ UNCHANGED <<confVars, objectVars, backEnd>>

-----------------------------------------------------------------------------
(* The monitor thread, at any time.  Once the flag is up it stays up, so that *)
(* the poll of it and the poll of the request after it are one guard.        *)

BackEndPolled == BackEndInitDone

Monitor ==
    /\ BackEndPolled
    /\ Object!Take \/ Object!WriteStatus
    /\ UNCHANGED <<confVars, library, backEnd>>

\* What the bus thread does without being called again.
BusThread ==
    \/ LoadParameters("bus")
    \/ ConfigurationCommit \/ ConfigurationCommitted \/ RebootCommit
    \/ AnswerSuccess
    \/ ConfigurationRollback \/ RebootRollback \/ AnswerFault

Next ==
    \/ LoadParameters("main") \/ BusThread \/ SystemReady
    \/ \E p \in Conf!Para, word \in Requested : SetTimer(p, word)
    \/ \E value \in BOOLEAN : SetEnable(value)
    \/ \E value \in {None, FALSE} : RefuseSet(value)
    \/ RefuseTimer
    \/ Validate
    \/ Monitor

Spec == Init /\ [][Next]_vars

\* The bus thread is scheduled, and every call of the PSM returns, if only by
\* its timeout.
FairSpec == Spec /\ WF_vars(BusThread)

-----------------------------------------------------------------------------
(* What holds.                                                               *)

\* The monitor thread takes no request, and so reads no timer, before a load was
\* through with every timer - though Enable may be committed while COSA_Init
\* still loads, and the system-ready callback may overtake it with a load of its
\* own.  What keeps the thread is BackEndInitDone, raised after either load, and
\* the poll of it in monitorRebootRequest.
TakenAfterLoad == started => loaded = Conf!Para

\* Every timer the transaction set is in force and in the PSM, and no other
\* timer has changed.
Applied ==
    \A p \in Conf!Para :
        IF wanted[p] = None THEN paraValue[p] = before[p]
        ELSE paraValue[p] = wanted[p] /\ psm[p] = Conf!Itoa(wanted[p])

\* A transaction that is answered by a success is in force in both objects -
\* unless a load or an earlier, failed rollback came in its way.
SuccessMeansBoth ==
    [][AnswerSuccess /\ ~disturbed =>
          /\ wanted # Conf!Nothing => Applied
          /\ rebootAsked # None => bRebootEnabled = rebootAsked]_vars

\* A transaction that is answered by a fault left every timer as it was - unless
\* a load came in its way, or a rollback failed, its own or an earlier one (which
\* AllOrNothing of Configuration shows to happen).  So it is in the object that
\* is committed last as well as in the one committed first: once
\* Configuration_Commit was through nothing can undo it, and so Reboot_Commit
\* must not fail after it.
FaultKeepsTimers ==
    [][AnswerFault /\ wanted # Conf!Nothing /\ ~disturbed
          => paraValue = before]_vars

\* Every transaction that reached its commits or its rollbacks is answered.
TransactionAnswered == phase # "open" ~> phase = "open"

-----------------------------------------------------------------------------
(* Progress: how far the bus thread is from the answer.                      *)

PhasesLeft ==
    CASE phase = "commit"   -> 2
      [] phase = "rollback" -> 1
      [] OTHER              -> 0

RebootLeft ==
    CASE rebootStep = "open"      -> 4
      [] rebootStep = "status"    -> 3
      [] rebootStep = "committed" -> 2
      [] rebootStep = "refused"   -> 1
      [] OTHER                    -> 0

ConfigurationLeft ==
    CASE step["bus"] \in {"commit", "commitSave"}     -> 3
      [] step["bus"] = "refused"                      -> 2
      [] step["bus"] \in {"rollback", "rollbackSave"} -> 1
      [] OTHER -> IF ConfigurationAsked THEN 4 ELSE 0

\* At most two steps for each parameter that is left, and one to end the loop.
CallsLeft ==
    CASE step["bus"] \in {"name", "commit", "rollback"}        ->
            2 * (N + 1 - at["bus"]) + 1
      [] step["bus"] \in {"get", "commitSave", "rollbackSave"} ->
            2 * (N + 1 - at["bus"])
      [] OTHER -> 0

Rank == <<PhasesLeft, RebootLeft, ConfigurationLeft, CallsLeft>>

\* Every step of the bus thread, whatever the PSM answers, takes it nearer to
\* the answer of the transaction, or to the end of the load, that it is at; and
\* nobody else puts that answer off.
AnswerComesNearer ==
    [][/\ BusThread => Nearer(Rank', Rank)
       /\ phase # "open" /\ ~BusThread => Rank' = Rank]_vars

-----------------------------------------------------------------------------
(* The inductive invariant behind these, beside those of the two objects.    *)

\* Which parts of the two objects' code can run in which phase.
PhaseInv ==
    /\ phase = "open" =>
          /\ step["bus"] \in {"idle"} \cup Conf!InitSteps
          /\ rebootStep \in {"idle", "open"}
    /\ phase = "commit" =>
          /\ step["bus"] \in {"idle", "commit", "commitSave"}
          /\ rebootStep \in {"idle", "open", "status", "committed"}
    /\ phase = "rollback" =>
          /\ step["bus"] \in {"idle", "refused", "rollback", "rollbackSave"}
          /\ rebootStep \in {"idle", "open", "committed", "refused"}
    /\ wanted # Conf!Nothing => step["main"] = "idle"
    /\ rebootStep = "status" => step["bus"] = "idle"
    /\ rebootStep = "idle" => rebootAsked = None

\* Configuration has still to commit, or to roll back, what the transaction set
\* - or it is through, with the outcome that will be answered.
Pending == asked = wanted /\ ~disturbed
Ended(outcome) == asked = Conf!Nothing /\ (disturbed \/ outcome)

OutcomeInv ==
    /\ phase = "open" \/ step["bus"] \in {"commit", "commitSave", "refused"}
          => Pending
    /\ step["bus"] \in {"rollback", "rollbackSave"}
          => disturbed \/ (~torn /\ ~reloaded)
    /\ phase = "commit" /\ step["bus"] = "idle" => Pending \/ Ended(Applied)
    /\ phase = "rollback" /\ step["bus"] = "idle"
          => Pending \/ Ended(paraValue = before)

\* How far each load has come, and what the flag and the monitor thread's poll
\* of it say about the loads that are over.
LoadInv ==
    /\ \A t \in Conf!Thread, p \in Conf!Para :
          step[t] \in Conf!InitSteps /\ p < at[t] => p \in loaded
    /\ BackEndInitDone => loaded = Conf!Para
    /\ started => BackEndInitDone

ManagerInv == PhaseInv /\ OutcomeInv /\ LoadInv

-----------------------------------------------------------------------------
\* What the note on Reboot_Rollback says, and the code does not do: a
\* transaction that is answered by a fault has not requested a reboot.
FaultHasNoEffect ==
    [][RebootRollback /\ rebootStep' = "idle"
          => bRebootEnabled' = rebootBefore]_vars

=============================================================================
