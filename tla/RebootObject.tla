---------------------------- MODULE RebootObject ----------------------------
(***************************************************************************)
(* The data-model object com.cisco.spvtg.ccsp.rm.Reboot of                 *)
(* source/DataModelBackEnd/cosa_apis_reboot.c: the parameter Enable, which *)
(* requests a reboot, and the parameter Status.                            *)
(*                                                                         *)
(* The bus thread serves one transaction after the other: sets, then -     *)
(* when every object of the transaction validates - the commits of these   *)
(* objects, or a rollback of them when a set, a validation or a commit     *)
(* failed.  Another object may come before or after this one.  Meanwhile   *)
(* the monitor thread polls the flag and writes statuses of its own.       *)
(***************************************************************************)

CONSTANT None   \* nothing asked, or nothing read yet

Statuses == {"none", "received", "later"}

ASSUME NoneAssumption == None \notin BOOLEAN /\ None \notin Statuses

VARIABLES
    bRebootEnabled,      \* the request, which the monitor thread polls
    bRebootEnabledtemp,  \* the value set and not yet committed
    sRebootStatus,       \* "none", "received", or "later": the monitor's own
    started,             \* the monitor thread took the request
    step,                \* where the bus thread is in a transaction
    asked,               \* history: what this transaction set Enable to last
    before,              \* history: bRebootEnabled when it began
    seenEnable,          \* what the parameters were when a caller last read
    seenStatus           \* them

object  == <<bRebootEnabled, bRebootEnabledtemp>>
monitor == <<sRebootStatus, started>>
history == <<asked, before>>
reader  == <<seenEnable, seenStatus>>
vars == <<object, monitor, step, history, reader>>

TypeOK ==
    /\ bRebootEnabled \in BOOLEAN /\ bRebootEnabledtemp \in BOOLEAN
    /\ sRebootStatus \in Statuses
    /\ started \in BOOLEAN
    /\ step \in {"idle", "open", "status", "committed", "refused"}
    /\ asked \in BOOLEAN \cup {None}
    /\ before \in BOOLEAN
    /\ seenEnable \in BOOLEAN \cup {None}
    /\ seenStatus \in Statuses \cup {None}

Init ==
    /\ bRebootEnabled = FALSE /\ bRebootEnabledtemp = FALSE
    /\ sRebootStatus = "none" /\ started = FALSE
    /\ step = "idle"
    /\ asked = None /\ before = FALSE
    /\ seenEnable = None /\ seenStatus = None

Open ==
    /\ step \in {"idle", "open"}
    /\ before' = bRebootEnabled

\* Variants with a bug: the set that lowers Enable is accepted; the last value
\* is staged instead of this one; a value that is in force is not staged.
AnyAllowed(value) == TRUE
StageLast(value) == bRebootEnabledtemp' = asked
StageChange(value) ==
    bRebootEnabledtemp' = IF value = bRebootEnabled THEN bRebootEnabledtemp
                                                    ELSE value

\* A reboot cannot be cancelled.
Allowed(value) == ~(bRebootEnabled /\ ~value)

Stage(value) == bRebootEnabledtemp' = value

SetParamBoolValue(value) ==
    /\ Open
    /\ Allowed(value)
    /\ Stage(value)
    /\ asked' = value
    /\ step' = "open"
    /\ UNCHANGED <<bRebootEnabled, monitor, reader>>

\* Enable set to FALSE once it is TRUE, or a parameter the object does not have.
RefuseSet(value) ==
    /\ Open
    /\ (value # None) => ~Allowed(value)
    /\ asked' = value
    /\ step' = "refused"
    /\ UNCHANGED <<object, monitor, reader>>

\* Reboot_Validate accepts everything.  The commit refuses to lower the flag,
\* and raises it at most once.
Commit ==
    /\ step = "open"
    /\ step' = IF bRebootEnabled /\ ~bRebootEnabledtemp THEN "refused"
               ELSE IF ~bRebootEnabled /\ bRebootEnabledtemp THEN "status"
               ELSE "committed"
    /\ bRebootEnabled' = (bRebootEnabled \/ bRebootEnabledtemp)
    /\ UNCHANGED <<bRebootEnabledtemp, monitor, history, reader>>

CommitStatus ==
    /\ step = "status"
    /\ sRebootStatus' = "received"
    /\ step' = "committed"
    /\ UNCHANGED <<object, started, history, reader>>

\* The other objects of the transaction were committed as well ...
Succeed ==
    /\ step = "committed"
    /\ step' = "idle" /\ asked' = None
    /\ before' = bRebootEnabled
    /\ UNCHANGED <<object, monitor, reader>>

\* ... or one of them failed.
OtherFails ==
    /\ step \in {"open", "committed"}
    /\ step' = "refused"
    /\ UNCHANGED <<object, monitor, history, reader>>

\* Variant with a bug: the flag is lowered again.
LowerFlag == bRebootEnabled' = before

\* Reboot_Rollback does nothing.
LeaveFlag == UNCHANGED bRebootEnabled

Rollback ==
    /\ step = "refused"
    /\ LeaveFlag
    /\ step' = "idle" /\ asked' = None
    /\ before' = bRebootEnabled'
    /\ UNCHANGED <<bRebootEnabledtemp, monitor, reader>>

\* The getters are served between the sets, not during a commit.
GetParamBoolValue ==
    /\ step \in {"idle", "open"}
    /\ seenEnable' = bRebootEnabled
    /\ UNCHANGED <<object, monitor, step, history, seenStatus>>

\* The caller's buffer is as long as a status can be.
GetParamStringValue ==
    /\ step \in {"idle", "open"}
    /\ seenStatus' = sRebootStatus
    /\ UNCHANGED <<object, monitor, step, history, seenEnable>>

\* The monitor thread leaves its poll of the request, and from then on writes
\* statuses.  That it polls BackEndInitDone before is RebootManager's subject.
Take ==
    /\ bRebootEnabled /\ ~started
    /\ started' = TRUE /\ sRebootStatus' = "later"
    /\ UNCHANGED <<object, step, history, reader>>

WriteStatus ==
    /\ started
    /\ sRebootStatus' = "later"
    /\ UNCHANGED <<object, started, step, history, reader>>

Next ==
    \/ \E value \in BOOLEAN : SetParamBoolValue(value)
    \/ \E value \in {None, FALSE} : RefuseSet(value)
    \/ Commit \/ CommitStatus \/ Succeed \/ OtherFails \/ Rollback
    \/ GetParamBoolValue \/ GetParamStringValue \/ Take \/ WriteStatus

Spec == Init /\ [][Next]_vars

-----------------------------------------------------------------------------

\* The check of the set and the check of the commit agree: while the flag is up
\* TRUE is staged, so that Reboot_Commit never has to refuse.
StagedAgrees == bRebootEnabled => bRebootEnabledtemp

\* A transaction that is answered by a success left Enable as it asked for; in
\* particular, what an earlier transaction staged and Reboot_Rollback did not
\* remove never raises the request.
SuccessMeansAsked == [][Succeed => bRebootEnabled = asked]_vars

\* What a caller has read stays true: once Enable was read as TRUE, or Status as
\* anything but the initial one, a reboot is requested, and remains so.
ReadStaysTrue ==
    seenEnable = TRUE \/ seenStatus \in {"received", "later"} => bRebootEnabled

\* The inductive invariant behind both: what is staged while a transaction is
\* open is what it asked for, and what it committed is in force.
RequestInv ==
    /\ TypeOK
    /\ StagedAgrees
    /\ step = "open" => asked = bRebootEnabledtemp
    /\ step \in {"status", "committed"} => asked = bRebootEnabled

Latch == INSTANCE RequestLatch WITH requested <- bRebootEnabled,
                                    committing <- step = "status"

\* Whatever the callers do, the monitor thread sees one request, never taken
\* back: what GracefulReboot assumes of its environment.
KeepsLatch == Latch!Spec

=============================================================================
