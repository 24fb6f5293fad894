--------------------------- MODULE GracefulReboot ---------------------------
(***************************************************************************)
(* The reboot monitor thread of the Reboot Manager: monitorRebootRequest   *)
(* and GracefullyRebootSystem of source/RmSsp/ssp_action.c, together with  *)
(* the bus callback that may end its wait and the components it talks to.  *)
(*                                                                         *)
(* The thread discovers the components that support the namespace          *)
(* RebootService.BlockingEvent, and visits them one after the other: it    *)
(* forbids new critical events on the component, asks whether one is       *)
(* ongoing, and when one is, allows events again on every component        *)
(* visited so far, waits for a notification or a timeout, and starts over  *)
(* from the first component.  When a whole pass found nothing it announces *)
(* the reboot, gives the components a grace period and resets the system.  *)
(*                                                                         *)
(* Each step of the thread ends where other threads or other processes can *)
(* be seen to act: at a remote call, a sleep, or an access to a variable   *)
(* it shares with the bus thread.  C's array index i is i - 1 here.        *)
(***************************************************************************)
EXTENDS Integers, Sequences, FiniteSets, RankOrder

CONSTANTS
    Component,    \* the processes that can hold a reboot back
    eRT, eMG,     \* what a discovery in each subsystem finds, in its order
    Attempts,     \* tries of a remote set or get before it is given up
    LoopCounts,   \* values loop_cnt can take: number of 50 ms naps of the wait
    GraceTicks,   \* values of the SystemRebootSignalTimer
    MaxRestarts   \* bound: how often components restart in a behaviour

\* Discovery can fail in each subsystem by itself; it then finds nothing.
Discoveries == {first \o second : first \in {<<>>, eRT}, second \in {<<>>, eMG}}

\* Component names carry the subsystem as a prefix, so none is found twice.
ASSUME DiscoveryAssumption ==
    \A found \in Discoveries :
        /\ found \in Seq(Component)
        /\ \A p, q \in DOMAIN found : found[p] = found[q] => p = q

ASSUME BoundsAssumption ==
    /\ Attempts \in Nat \ {0}
    /\ LoopCounts \subseteq Nat /\ LoopCounts # {}
    /\ GraceTicks \subseteq Nat /\ GraceTicks # {}
    /\ MaxRestarts \in Nat

VARIABLES
    bRebootEnabled,        \* written by Reboot_Commit on the bus thread
    BackEndInitDone,       \* written by COSA_Init or the system-ready callback
    bOngingCriticalEvent,  \* the flag the wait watches (the source's spelling)
    paramToWatchFor,       \* the name the value-change callback compares with
    sRebootStatus,         \* the status the data model reports
    committing,            \* Reboot_Commit is between its two assignments
    pc,                    \* the step the monitor thread takes next
    comps,                 \* pAllCompnts[0 .. compnts_cnt - 1]
    i, j,                  \* the loop counters
    visited,               \* positions whose parameterValue has been assigned
    answer,                \* ppParamVal[0]->parameterValue = "true"
    ticks,                 \* loop_cnt - k, then what is left of the grace sleep
    allow, busy, up,       \* per component: AllowCriticalEvents,
                           \* OngoingCriticalEvent, and whether it is running
    notify,                \* components whose OngoingCriticalEvent is notified
    registered,            \* components whose value-change signal is received
    signals,               \* "... = false" signals on their way to the callback
    restarts,              \* history: how many restarts there were
    skipped,               \* history: given up as not responding in this pass
    told                   \* history: what each component was last told, and
                           \* answered for, about AllowCriticalEvents

requestVars == <<bRebootEnabled, BackEndInitDone, committing>>
loopVars    == <<comps, i, j, visited, answer, ticks>>
watchVars   == <<bOngingCriticalEvent, paramToWatchFor>>
worldVars   == <<allow, busy, up, notify, restarts>>
busVars     == <<registered, signals>>
histVars    == <<skipped, told>>
vars == <<requestVars, loopVars, watchVars, worldVars, busVars, histVars, pc,
          sRebootStatus>>

-----------------------------------------------------------------------------
(* Names.  pFullNames[n] is a row of one pointer: handing it over as a      *)
(* string passes the bytes of the address, not the name the address is of.  *)

FullName(c)   == <<"name", c>>
RowAddress(c) == <<"address", c>>
NoName        == <<"none">>
Names == {NoName} \cup {FullName(c) : c \in Component}
                  \cup {RowAddress(c) : c \in Component}

Waiting(c) == <<"Waiting for", c>>
Plain(s)   == <<s>>
Statuses == {Plain(s) : s \in {"None", "Received", "Checking", "Continue",
                               "Safe", "Rebooting"}}
              \cup {Waiting(c) : c \in Component}

\* The steps of a visit, the steps after the last pass, and where it all ends.
Clearing  == {"Prepare", "Disable", "Query", "Record", "Test"}
Blocked   == {"Watch", "TurnOn", "Reenable", "Wait", "Unwatch", "TurnOff"}
Announced == {"SendSignal", "Grace", "Reset", "Down", "GaveUp"}
Steps == {"AwaitBackEnd", "AwaitRequest", "Discover"}
           \cup Clearing \cup Blocked \cup Announced \cup {"Exited"}
Ended == {"Down", "GaveUp", "Exited"}

TypeOK ==
    /\ bRebootEnabled \in BOOLEAN /\ BackEndInitDone \in BOOLEAN
    /\ bOngingCriticalEvent \in BOOLEAN /\ answer \in BOOLEAN
    /\ committing \in BOOLEAN
    /\ paramToWatchFor \in Names
    /\ sRebootStatus \in Statuses
    /\ pc \in Steps
    /\ comps \in Discoveries
    /\ i \in 1 .. (Len(comps) + 1)
    /\ j \in Nat /\ visited \in Nat /\ ticks \in Nat /\ restarts \in Nat
    /\ allow \in [Component -> BOOLEAN]
    /\ busy \in [Component -> BOOLEAN]
    /\ up \in [Component -> BOOLEAN]
    /\ notify \in [Component -> BOOLEAN]
    /\ registered \subseteq Component /\ signals \subseteq Component
    /\ skipped \subseteq Component
    /\ told \in [Component -> {"fresh", "unsure", "true", "false"}]

Init ==
    /\ bRebootEnabled = FALSE /\ BackEndInitDone = FALSE
    /\ bOngingCriticalEvent = FALSE /\ committing = FALSE
    /\ paramToWatchFor = NoName
    /\ sRebootStatus = Plain("None")
    /\ pc = "AwaitBackEnd"
    /\ comps = <<>> /\ i = 1 /\ j = 0 /\ visited = 0
    /\ answer = FALSE /\ ticks = 0
    /\ allow \in [Component -> BOOLEAN]    \* an earlier run of the process may
    /\ busy \in [Component -> BOOLEAN]     \* have left components disabled
    /\ up = [c \in Component |-> TRUE]
    /\ notify \in [Component -> BOOLEAN]   \* another agent may want the signal
    /\ registered = {} /\ signals = {}
    /\ restarts = 0 /\ skipped = {}
    /\ told = [c \in Component |-> "fresh"]

-----------------------------------------------------------------------------
(* The remote calls of the thread.  A call that reports success reached a   *)
(* running component; one that reports failure may have reached it too.     *)

\* CcspBaseIf_setParameterValues of c's AllowCriticalEvents.
SetAllow(c, value, ok) ==
    /\ ok => up[c]
    /\ \/ /\ up[c]
          /\ allow' = [allow EXCEPT ![c] = value]
       \/ /\ ~ok
          /\ UNCHANGED allow
    /\ told' = [told EXCEPT ![c] = IF ~ok THEN "unsure"
                                   ELSE IF value THEN "true" ELSE "false"]

\* CcspBaseIf_setParameterAttributes: c rejects a name that is not its own.
SetNotification(c, name, value) ==
    \/ /\ up[c] /\ name = FullName(c)
       /\ notify' = [notify EXCEPT ![c] = value]
    \/ UNCHANGED notify

-----------------------------------------------------------------------------
(* The monitor thread.                                                      *)

Goto(step) == pc' = step

AwaitBackEnd ==
    /\ pc = "AwaitBackEnd" /\ BackEndInitDone
    /\ Goto("AwaitRequest")
    /\ UNCHANGED <<requestVars, loopVars, watchVars, worldVars, busVars,
                   histVars, sRebootStatus>>

\* Variant with a bug: the thread does not wait for the flag.
Unasked == TRUE

Asked == bRebootEnabled

AwaitRequest ==
    /\ pc = "AwaitRequest" /\ Asked
    /\ Goto("Discover")
    /\ sRebootStatus' = Plain("Checking")
    /\ UNCHANGED <<requestVars, loopVars, watchVars, worldVars, busVars, histVars>>

\* The component list is built once and never refreshed.
Discover ==
    /\ pc = "Discover"
    /\ comps' \in Discoveries
    /\ i' = 1
    /\ Goto("Prepare")
    /\ UNCHANGED <<requestVars, watchVars, worldVars, busVars, histVars, j,
                   visited, answer, ticks, sRebootStatus>>

\* The head of the loop.  The first visit of a position frees the pointer the
\* stack happened to hold there, which may kill the process.
Prepare ==
    /\ pc = "Prepare" /\ i <= Len(comps)
    /\ j' = 0
    /\ \/ /\ Goto("Disable")
          /\ visited' = IF i > visited THEN i ELSE visited
       \/ /\ i > visited
          /\ Goto("Exited")
          /\ UNCHANGED visited
    /\ UNCHANGED <<requestVars, watchVars, worldVars, busVars, histVars, comps,
                   i, answer, ticks, sRebootStatus>>

\* Every component has been visited without finding an event: clear to reboot.
FinishPass ==
    /\ pc = "Prepare" /\ i = Len(comps) + 1
    /\ Goto("SendSignal")
    /\ sRebootStatus' = Plain("Safe")
    /\ UNCHANGED <<requestVars, loopVars, watchVars, worldVars, busVars, histVars>>

\* Variant with a bug: the failed tries are not counted.
RetryForever(c) == UNCHANGED <<pc, i, j, skipped>>

\* The failure branch shared by the two retry loops: try again, or give the
\* component up and move on to the next one.
RetryOrSkip(c) ==
    \/ /\ j + 1 < Attempts
       /\ j' = j + 1
       /\ UNCHANGED <<pc, i, skipped>>
    \/ /\ j + 1 = Attempts
       /\ j' = 0 /\ i' = i + 1
       /\ skipped' = skipped \cup {c}
       /\ Goto("Prepare")

Disable ==
    /\ pc = "Disable"
    /\ \/ /\ SetAllow(comps[i], FALSE, TRUE)
          /\ j' = 0
          /\ Goto("Query")
          /\ UNCHANGED <<i, skipped>>
       \/ /\ SetAllow(comps[i], FALSE, FALSE)
          /\ RetryOrSkip(comps[i])
    /\ UNCHANGED <<requestVars, watchVars, busVars, comps, visited, answer,
                   ticks, busy, up, notify, restarts, sRebootStatus>>

\* The answer is what the component said, which may be old when it is used.
Query ==
    /\ pc = "Query"
    /\ \/ /\ up[comps[i]]
          /\ answer' = busy[comps[i]]
          /\ Goto("Record")
          /\ UNCHANGED <<i, j, skipped>>
       \/ /\ RetryOrSkip(comps[i])
          /\ UNCHANGED answer
    /\ UNCHANGED <<requestVars, watchVars, worldVars, busVars, told, comps,
                   visited, ticks, sRebootStatus>>

\* Variant with a bug: the flag is raised, but never lowered.
RaiseFlag == bOngingCriticalEvent' = (bOngingCriticalEvent \/ answer)

RecordAnswer == bOngingCriticalEvent' = answer

Record ==
    /\ pc = "Record"
    /\ RecordAnswer
    /\ answer' = FALSE
    /\ Goto("Test")
    /\ UNCHANGED <<requestVars, paramToWatchFor, worldVars, busVars, histVars,
                   comps, i, j, visited, ticks, sRebootStatus>>

\* The flag is read again: the callback may have cleared it since.
Test ==
    /\ pc = "Test"
    /\ \/ /\ ~bOngingCriticalEvent
          /\ i' = i + 1
          /\ Goto("Prepare")
       \/ /\ bOngingCriticalEvent
          /\ Goto("Watch")
          /\ UNCHANGED i
    /\ UNCHANGED <<requestVars, watchVars, worldVars, busVars, histVars, comps,
                   j, visited, answer, ticks, sRebootStatus>>

\* A refused registration is logged and otherwise ignored.
Watch ==
    /\ pc = "Watch"
    /\ paramToWatchFor' = RowAddress(comps[i])
    /\ registered' \in {registered, registered \cup {comps[i]}}
    /\ Goto("TurnOn")
    /\ UNCHANGED <<requestVars, bOngingCriticalEvent, loopVars, worldVars,
                   signals, histVars, sRebootStatus>>

TurnOn ==
    /\ pc = "TurnOn"
    /\ SetNotification(comps[i], RowAddress(comps[i]), TRUE)
    /\ j' = 1
    /\ Goto("Reenable")
    /\ UNCHANGED <<requestVars, watchVars, comps, i, visited, answer, ticks,
                   allow, busy, up, restarts, busVars, histVars, sRebootStatus>>

\* Variant with a bug: the inner loop indexes with i.
CurrentOne == comps[i]

ReenabledOne == comps[j]

\* One attempt for each position up to the current one, its result ignored;
\* after the last of them the wait is set up.
Reenable ==
    /\ pc = "Reenable"
    /\ \E ok \in BOOLEAN : SetAllow(ReenabledOne, TRUE, ok)
    /\ \/ /\ j < i
          /\ j' = j + 1
          /\ UNCHANGED <<pc, ticks, sRebootStatus>>
       \/ /\ j = i
          /\ ticks' \in LoopCounts
          /\ sRebootStatus' = Waiting(comps[i])
          /\ Goto("Wait")
          /\ UNCHANGED j
    /\ UNCHANGED <<requestVars, watchVars, comps, i, visited, answer, busy, up,
                   notify, restarts, busVars, skipped>>

Wait ==
    /\ pc = "Wait" /\ bOngingCriticalEvent /\ ticks > 0
    /\ ticks' = ticks - 1
    /\ UNCHANGED <<requestVars, watchVars, comps, i, j, visited, answer, pc,
                   worldVars, busVars, histVars, sRebootStatus>>

\* Variants with a bug: a wait without a timer; a status left as it is.
FlagCleared == ~bOngingCriticalEvent
SayNothing  == UNCHANGED sRebootStatus

WaitEnds    == ~bOngingCriticalEvent \/ ticks = 0
SayContinue == sRebootStatus' = Plain("Continue")

WaitOver ==
    /\ pc = "Wait" /\ WaitEnds
    /\ ticks' = 0
    /\ SayContinue
    /\ Goto("Unwatch")
    /\ UNCHANGED <<requestVars, watchVars, comps, i, j, visited, answer,
                   worldVars, busVars, histVars>>

Unwatch ==
    /\ pc = "Unwatch"
    /\ registered' \in {registered, registered \ {comps[i]}}
    /\ Goto("TurnOff")
    /\ UNCHANGED <<requestVars, watchVars, loopVars, worldVars, signals,
                   histVars, sRebootStatus>>

\* Variants with a bug: on to the next component; an index one too low.
GoOn      == i' = i + 1 /\ UNCHANGED skipped
StartLow  == i' = 0 /\ skipped' = {}

StartOver == i' = 1 /\ skipped' = {}

\* ... and the pass starts over from the first component.
TurnOff ==
    /\ pc = "TurnOff"
    /\ SetNotification(comps[i], RowAddress(comps[i]), FALSE)
    /\ StartOver /\ j' = 0
    /\ Goto("Prepare")
    /\ UNCHANGED <<requestVars, watchVars, comps, visited, answer, ticks, allow,
                   busy, up, restarts, busVars, told, sRebootStatus>>

\* A failure to send the signal ends the thread: nothing resets the system,
\* nothing re-enables the components, and bRebootEnabled stays TRUE.
SendSignal ==
    /\ pc = "SendSignal"
    /\ \/ /\ ticks' \in GraceTicks
          /\ Goto("Grace")
       \/ /\ Goto("GaveUp")
          /\ UNCHANGED ticks
    /\ UNCHANGED <<requestVars, watchVars, comps, i, j, visited, answer,
                   worldVars, busVars, histVars, sRebootStatus>>

Grace ==
    /\ pc = "Grace" /\ ticks > 0
    /\ ticks' = ticks - 1
    /\ UNCHANGED <<requestVars, watchVars, comps, i, j, visited, answer, pc,
                   worldVars, busVars, histVars, sRebootStatus>>

\* sleep() returns early when the thread takes one of the signals that
\* sig_handler returns from, and its result is not looked at.
GraceOver ==
    /\ pc = "Grace"
    /\ ticks' = 0
    /\ sRebootStatus' = Plain("Rebooting")
    /\ Goto("Reset")
    /\ UNCHANGED <<requestVars, watchVars, comps, i, j, visited, answer,
                   worldVars, busVars, histVars>>

\* The command that resets the system may fail, or return before it is carried
\* out: the thread then returns, where the code says it never gets to.
ResetSystem ==
    /\ pc = "Reset"
    /\ Goto("Down") \/ Goto("GaveUp")
    /\ UNCHANGED <<requestVars, loopVars, watchVars, worldVars, busVars,
                   histVars, sRebootStatus>>

Monitor ==
    \/ AwaitBackEnd \/ AwaitRequest \/ Discover
    \/ Prepare \/ FinishPass \/ Disable \/ Query \/ Record \/ Test
    \/ Watch \/ TurnOn \/ Reenable \/ Wait \/ WaitOver \/ Unwatch \/ TurnOff
    \/ SendSignal \/ Grace \/ GraceOver \/ ResetSystem

-----------------------------------------------------------------------------
(* The other threads of the process.                                        *)

Alive == pc \notin {"Down", "Exited"}

\* COSA_Init, or the system-ready callback, or the VEN501 build's own poll.
InitBackEnd ==
    /\ Alive /\ ~BackEndInitDone
    /\ BackEndInitDone' = TRUE
    /\ UNCHANGED <<bRebootEnabled, committing, loopVars, watchVars, worldVars,
                   busVars, histVars, pc, sRebootStatus>>

\* Reboot_Commit of a staged TRUE assigns the flag, then the status; the
\* monitor thread can run in between.
CommitFlag ==
    /\ Alive /\ ~bRebootEnabled
    /\ bRebootEnabled' = TRUE
    /\ committing' = TRUE
    /\ UNCHANGED <<BackEndInitDone, loopVars, watchVars, worldVars, busVars,
                   histVars, pc, sRebootStatus>>

CommitStatus ==
    /\ Alive /\ committing
    /\ committing' = FALSE
    /\ sRebootStatus' = Plain("Received")
    /\ UNCHANGED <<bRebootEnabled, BackEndInitDone, loopVars, watchVars,
                   worldVars, busVars, histVars, pc>>

\* CcspRebootManagerValueChangedCB on the signal of c.
ValueChangedCB(c) ==
    /\ Alive /\ c \in signals
    /\ signals' = signals \ {c}
    /\ bOngingCriticalEvent' = (bOngingCriticalEvent
                                 /\ paramToWatchFor # FullName(c))
    /\ UNCHANGED <<requestVars, loopVars, paramToWatchFor, worldVars,
                   registered, histVars, pc, sRebootStatus>>

\* A termination signal: sig_handler calls exit(0) whatever the thread is at.
Exit ==
    /\ Alive
    /\ Goto("Exited")
    /\ UNCHANGED <<requestVars, loopVars, watchVars, worldVars, busVars,
                   histVars, sRebootStatus>>

-----------------------------------------------------------------------------
(* The components, as the thread relies on them: a component whose          *)
(* AllowCriticalEvents is false starts no event, and one that restarts      *)
(* comes back allowing events and with notification off.  What they do once *)
(* the process is gone is of no consequence to it and left out.             *)

BeginEvent(c) ==
    /\ Alive /\ up[c] /\ allow[c] /\ ~busy[c]
    /\ busy' = [busy EXCEPT ![c] = TRUE]
    /\ UNCHANGED <<requestVars, loopVars, watchVars, allow, up, notify,
                   restarts, busVars, histVars, pc, sRebootStatus>>

EndEvent(c) ==
    /\ Alive /\ busy[c]
    /\ busy' = [busy EXCEPT ![c] = FALSE]
    /\ signals' = IF notify[c] /\ c \in registered
                  THEN signals \cup {c} ELSE signals
    /\ UNCHANGED <<requestVars, loopVars, watchVars, allow, up, notify,
                   restarts, registered, histVars, pc, sRebootStatus>>

Die(c) ==
    /\ Alive /\ up[c] /\ restarts < MaxRestarts
    /\ up' = [up EXCEPT ![c] = FALSE]
    /\ busy' = [busy EXCEPT ![c] = FALSE]
    /\ restarts' = restarts + 1
    /\ UNCHANGED <<requestVars, loopVars, watchVars, allow, notify, busVars,
                   histVars, pc, sRebootStatus>>

Restart(c) ==
    /\ Alive /\ ~up[c]
    /\ up' = [up EXCEPT ![c] = TRUE]
    /\ allow' = [allow EXCEPT ![c] = TRUE]
    /\ notify' = [notify EXCEPT ![c] = FALSE]
    /\ told' = [told EXCEPT ![c] = "fresh"]
    /\ UNCHANGED <<requestVars, loopVars, watchVars, busy, restarts, busVars,
                   skipped, pc, sRebootStatus>>

Environment ==
    \/ InitBackEnd \/ CommitFlag \/ CommitStatus \/ Exit
    \/ \E c \in Component :
          \/ ValueChangedCB(c)
          \/ BeginEvent(c) \/ EndEvent(c) \/ Die(c) \/ Restart(c)

\* The thread has ended, one way or another.
Done == pc \in Ended /\ UNCHANGED vars

Next == Monitor \/ Environment \/ Done

Spec == Init /\ [][Next]_vars

\* The kernel keeps scheduling a runnable thread.  Nothing is assumed of the
\* components, of the bus thread, or of the outcome of a call.
FairSpec == Spec /\ WF_vars(Monitor)

-----------------------------------------------------------------------------
(* Safety.                                                                  *)

\* A component the thread has no word from: given up in this pass, or started
\* again after its last word.
Excused(c) == c \in skipped \/ told[c] = "fresh"

\* A component that holds no reboot back, now or later.
Quiet(c) == ~allow[c] /\ ~busy[c]

Cleared(p) == Excused(comps[p]) \/ Quiet(comps[p])

\* Once the reboot is announced - and ever after, also when the announcement
\* failed - every component the thread found, but those that did not respond
\* or were restarted behind its back, is idle and takes on no critical event.
\* The loop of GracefullyRebootSystem must start over after every wait, since
\* it lets the components it already checked take on events meanwhile.
SafeToReset == pc \in Announced => \A p \in DOMAIN comps : Cleared(p)

\* The status never claims more than is the case: it says the system is safe
\* to reset, or resetting, only while that is so, and it names a component as
\* being waited for only while the thread waits for that component.
StatusIsHonest ==
    pc # "Exited" =>
        /\ sRebootStatus \in {Plain("Safe"), Plain("Rebooting")} =>
              \A p \in DOMAIN comps : Cleared(p)
        /\ \A c \in Component :
              sRebootStatus = Waiting(c) => pc = "Wait" /\ comps[i] = c

\* While the thread waits, no component it visited in this pass still stands
\* by an answered order to refuse events: each has been told, or told in vain,
\* to take them on again (the loop over j in GracefullyRebootSystem).
ReenabledWhileWaiting ==
    pc = "Wait" => \A p \in 1 .. i : told[comps[p]] # "false"

\* What the comment on the wait says: CcspRebootManagerValueChangedCB sets the
\* flag to false when the value change notification is received, that is, the
\* notification of the component the thread waits for ends the wait.
NotificationEndsWait ==
    [][\A c \in Component :
          pc = "Wait" /\ c = comps[i] /\ ValueChangedCB(c)
              => ~bOngingCriticalEvent']_vars

-----------------------------------------------------------------------------
(* Refinement.                                                              *)

Phase ==
    CASE pc \in {"AwaitBackEnd", "AwaitRequest"}   -> "idle"
      [] pc \in {"Discover"} \cup Clearing \cup Blocked -> "deciding"
      [] pc \in {"SendSignal", "Grace", "Reset"}   -> "announced"
      [] pc = "Down"                               -> "down"
      [] pc = "GaveUp"                             -> "stuck"
      [] pc = "Exited"                             -> "gone"

Holders == {comps[p] : p \in {q \in DOMAIN comps : ~Cleared(q)}}

Contract == INSTANCE RebootContract
              WITH requested <- bRebootEnabled, phase <- Phase, holders <- Holders

\* The thread keeps the promises of RebootContract: it starts only on a request,
\* announces only when no component holds the reboot back, resets only after it
\* announced, and takes none of these steps back.
KeepsContract == Contract!Spec

\* What the thread sees of the bus thread that serves Enable is the latch that
\* RebootObject keeps.
Latch == INSTANCE RequestLatch WITH requested <- bRebootEnabled

-----------------------------------------------------------------------------
(* Progress: how far the thread is from its decision.  Only the start of a   *)
(* new pass takes it farther away.                                           *)

PartsLeft ==
    CASE pc = "AwaitBackEnd"            -> 4
      [] pc = "AwaitRequest"            -> 3
      [] pc = "Discover"                -> 2
      [] pc \in Clearing \cup Blocked   -> 1
      [] OTHER                          -> 0

PositionsLeft ==
    IF pc \in Clearing \cup Blocked THEN Len(comps) + 1 - i ELSE 0

StepsLeft ==
    CASE pc = "Prepare"  -> 10
      [] pc = "Disable"  -> 9
      [] pc = "Query"    -> 8
      [] pc = "Record"   -> 7
      [] pc = "Test"     -> 6
      [] pc = "Watch"    -> 5
      [] pc = "TurnOn"   -> 4
      [] pc \in {"Reenable", "SendSignal"} -> 3
      [] pc \in {"Wait", "Grace"}          -> 2
      [] pc \in {"Unwatch", "Reset"}       -> 1
      [] OTHER           -> 0

TurnsLeft ==
    CASE pc \in {"Disable", "Query"} -> Attempts - j
      [] pc = "Reenable"             -> i - j
      [] pc \in {"Wait", "Grace"}    -> ticks
      [] OTHER                       -> 0

Rank == <<PartsLeft, PositionsLeft, StepsLeft, TurnsLeft>>

RankOK == Rank \in [1 .. 4 -> Nat]

\* Every step of the thread, a failed try of a call, a turn of a loop or of a
\* wait included, takes it nearer to its decision, and nobody else puts that
\* off - but for the step that starts the pass over after a wait.
DecisionComesNearer ==
    [][\/ Nearer(Rank', Rank)
       \/ Rank' = Rank /\ ~Monitor
       \/ TurnOff]_vars

\* The thread is on its way to a wait: it holds the answer, or has recorded it,
\* that a component is busy.
HeldUp ==
    \/ pc = "Record" /\ answer
    \/ pc = "Test" /\ bOngingCriticalEvent
    \/ pc \in Blocked

\* It is held up only by a component that is busy when it is asked - not by what
\* an earlier wait, whose timer ran out, left in bOngingCriticalEvent.
OnlyEventsDelay ==
    [][HeldUp' => HeldUp \/ (Query /\ busy[comps[i]])]_vars

-----------------------------------------------------------------------------
(* The inductive invariant behind SafeToReset.                              *)

\* An order that was answered is in force until the component restarts.
OrdersHold == \A c \in Component : told[c] = "false" => ~allow[c]

\* No signal can clear the flag: an address is not a name.
NothingMatches == paramToWatchFor \notin {FullName(c) : c \in Component}

\* What the loop counters count, and point at while a position is visited.
IndexInv ==
    /\ pc \in {"AwaitBackEnd", "AwaitRequest"} => comps = <<>>
    /\ pc \in (Clearing \cup Blocked) \ {"Prepare"} => i <= Len(comps)
    /\ pc = "Reenable" => j \in 1 .. i

\* What the thread has established inside a pass, about the positions before i
\* and, step by step, about position i.
VisitInv ==
    /\ pc \in Clearing => \A p \in 1 .. (i - 1) : Cleared(p)
    /\ pc = "Query" => told[comps[i]] \in {"false", "fresh"}
    /\ pc = "Record" => answer \/ Cleared(i)
    /\ pc = "Test" => bOngingCriticalEvent \/ Cleared(i)

\* The reset is safe because of what each step of a visit has established and
\* no other thread and no component can undo.
SafetyInv ==
    TypeOK /\ IndexInv /\ OrdersHold /\ NothingMatches /\ VisitInv /\ SafeToReset

-----------------------------------------------------------------------------
(* Liveness.                                                                *)

EventsCease == <>[](\A c \in Component : ~busy[c])

\* A requested reboot is decided: if critical events come to an end, the
\* thread does not wait for ever, not for a component that died during its
\* event, nor for a notification that never comes (the wait has a timer).
RequestIsDecided ==
    EventsCease => (bRebootEnabled /\ BackEndInitDone ~> pc \in Ended)

=============================================================================
