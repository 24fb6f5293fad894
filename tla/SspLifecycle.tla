---------------------------- MODULE SspLifecycle ----------------------------
(***************************************************************************)
(* How the process comes up, serves and is cancelled: ssp_create,          *)
(* ssp_engage, ssp_cancel and the ssp_CcdIf functions of                   *)
(* source/RmSsp/ssp_action.c, the commands of ssp_main.c and the callbacks *)
(* of ssp_messagebus_interface.c.                                          *)
(*                                                                         *)
(* The main thread runs the command 'e' at start, and then, on a console,  *)
(* 'e', 'c' and 'q'; a daemon types none.  The bus thread serves the       *)
(* common component parameters while a controller is engaged, and the      *)
(* finalize and freeResources calls, and runs the callback of the          *)
(* system-ready signal, as soon as they are registered.  The two share     *)
(* three pointers without a lock.  A step ends where the other thread can  *)
(* see, or upset, what it did.                                             *)
(***************************************************************************)
EXTENDS Naturals

CONSTANTS
    Level,       \* trace levels, from the lowest, CCSP_TRACE_LEVEL_EMERGENCY
    Lowest,
    Invalid,     \* CCSP_TRACE_INVALID_LEVEL: nothing is logged
    MaxEngaged   \* bound: controllers engaged at a time

ASSUME LevelAssumption == Lowest \in Level /\ Invalid \notin Level
ASSUME EngagedAssumption == MaxEngaged \in Nat \ {0}

VARIABLES
    common,      \* g_pComponent_COMMON_Rm: "null", "live", or "dangling"
    ccdIf,       \* pRmCcdIf, likewise
    controller,  \* pDslhCpeController, likewise
    Health, LogEnable, LogLevel,   \* of the common object
    g_iTraceLevel,                 \* what AnscSetTraceLevel sets
    served,      \* the bus delivers base-interface calls to the process
    registered,  \* the component registrar lists the component
    engaged,     \* how many controllers answer for the component
    listening,   \* the callback of the system-ready signal is set
    ready,       \* the signal was sent: from then on the PSM is up
    loaded,      \* Configuration_Parameters_Init ran since then
    pc,          \* what each thread does next
    quitting,    \* main left its loop for the last ssp_cancel
    life,        \* "up", "crashed" or "ended"
    refused,     \* history: ssp_Mbi_MessageBusEngage returned an error
    failed,      \* history: an allocation of ssp_create failed
    overlapped,  \* history: a cancel ran while the other thread was at work
    twice,       \* history: 'e' was typed without a 'c' after the last one
    silenced     \* history: 'e' ran while nothing was logged

pointers == <<common, ccdIf, controller>>
object   == <<Health, LogEnable, LogLevel, g_iTraceLevel>>
signals  == <<listening, ready, loaded, refused>>
outside  == <<served, registered, engaged, signals>>
history  == <<failed, overlapped, twice, silenced>>
vars == <<pointers, object, outside, history, pc, quitting, life>>

Thread   == {"main", "bus"}
Pointer  == {"null", "live", "dangling"}
Connecting == {"connect", "path", "events", "callback"}
Starting == Connecting \cup
    {"create", "createIfs", "createController", "yellow", "engage", "register",
     "green"}
Cancelling == {"unregister", "cancel", "free", "clear"}

TypeOK ==
    /\ common \in Pointer /\ ccdIf \in Pointer /\ controller \in Pointer
    /\ Health \in {"Red", "Yellow", "Green"}
    /\ LogEnable \in BOOLEAN /\ LogLevel \in Level
    /\ g_iTraceLevel \in Level \cup {Invalid}
    /\ served \in BOOLEAN /\ registered \in BOOLEAN
    /\ engaged \in 0 .. MaxEngaged
    /\ listening \in BOOLEAN /\ ready \in BOOLEAN
    /\ loaded \in BOOLEAN /\ refused \in BOOLEAN
    /\ pc \in [Thread -> Starting \cup Cancelling \cup {"idle"}]
    /\ quitting \in BOOLEAN /\ life \in {"up", "crashed", "ended"}
    /\ failed \in BOOLEAN /\ overlapped \in BOOLEAN
    /\ twice \in BOOLEAN /\ silenced \in BOOLEAN

Init ==
    /\ common = "null" /\ ccdIf = "null" /\ controller = "null"
    /\ Health = "Red" /\ LogEnable = TRUE /\ LogLevel = Lowest
    /\ g_iTraceLevel \in Level
    /\ served = FALSE /\ registered = FALSE /\ engaged = 0
    /\ listening = FALSE /\ ready \in BOOLEAN
    /\ loaded = FALSE /\ refused = FALSE
    /\ pc = [t \in Thread |-> IF t = "main" THEN "connect" ELSE "idle"]
    /\ quitting = FALSE /\ life = "up"
    /\ failed = FALSE /\ overlapped = FALSE /\ twice = FALSE
    /\ silenced = FALSE

-----------------------------------------------------------------------------
(* Control, and what touching a pointer does to the process.                *)

At(t, step) == life = "up" /\ pc[t] = step

Goto(t, step) == pc' = [pc EXCEPT ![t] = step]

\* The SIGSEGV handler exits; a use after free may go on, or may not.
Crash(t, pointer) ==
    /\ pointer # "live"
    /\ life' = "crashed"
    /\ UNCHANGED <<pointers, object, outside, history, pc, quitting>>

Usable(pointer) == pointer # "null"

-----------------------------------------------------------------------------
(* 'e': ssp_Mbi_MessageBusEngage, ssp_create and ssp_engage, the results of *)
(* the first two ignored.                                                   *)

\* A call of ssp_Mbi_MessageBusEngage, which returns at the first refusal.
BusCall(here, next, accepted) ==
    /\ At("main", here)
    /\ Goto("main", IF accepted THEN next ELSE "create")
    /\ refused' = (refused \/ ~accepted)
    /\ UNCHANGED <<pointers, object, registered, engaged, ready, loaded,
                   history, quitting, life>>

\* CCSP_Message_Bus_Init.
Connect ==
    /\ \E accepted \in BOOLEAN : BusCall("connect", "path", accepted)
    /\ UNCHANGED <<served, listening>>

RegisterPath ==
    \E accepted \in BOOLEAN :
        /\ BusCall("path", "events", accepted)
        /\ served' = (served \/ accepted)
        /\ UNCHANGED listening

\* The signals of the session and of the system; without a callback the latter
\* is dropped when it comes.
RegisterEvents ==
    /\ \E accepted \in BOOLEAN : BusCall("events", "callback", accepted)
    /\ UNCHANGED <<served, listening>>

\* Variant with a bug: the callback is forgotten.
ListenNot == UNCHANGED listening

Listen == listening' = TRUE

SetCallback2 ==
    /\ BusCall("callback", "create", TRUE)
    /\ Listen
    /\ UNCHANGED served

\* Variant with a bug: any level in force is taken over.
LevelAsItIs == g_iTraceLevel

\* ComponentCommonDmInit takes over the level in force if it is one.
KeptLevel == IF g_iTraceLevel \in Level THEN g_iTraceLevel ELSE Lowest

CreateCommon ==
    /\ At("main", "create")
    /\ \/ /\ common' = "live"
          /\ Health' = "Red" /\ LogEnable' = TRUE
          /\ LogLevel' = KeptLevel
          /\ silenced' = (g_iTraceLevel = Invalid)
          /\ Goto("main", "createIfs")
          /\ UNCHANGED failed
       \/ /\ common' = "null" /\ failed' = TRUE
          /\ Goto("main", "yellow")
          /\ UNCHANGED <<Health, LogEnable, LogLevel, silenced>>
    /\ UNCHANGED <<ccdIf, controller, g_iTraceLevel, outside, overlapped,
                   twice, quitting, life>>

CreateIfs ==
    /\ At("main", "createIfs")
    /\ \/ /\ ccdIf' = IF ccdIf = "null" THEN "live" ELSE ccdIf
          /\ Goto("main", "createController")
          /\ UNCHANGED failed
       \/ /\ failed' = TRUE
          /\ ccdIf' \in {ccdIf, IF ccdIf = "null" THEN "live" ELSE ccdIf}
          /\ Goto("main", "yellow")
    /\ UNCHANGED <<common, controller, object, outside, overlapped, twice,
                   silenced, quitting, life>>

CreateController ==
    /\ At("main", "createController")
    /\ \/ controller' = "live" /\ UNCHANGED failed
       \/ controller' = "null" /\ failed' = TRUE
    /\ Goto("main", "yellow")
    /\ UNCHANGED <<common, ccdIf, object, outside, overlapped, twice, silenced,
                   quitting, life>>

TurnYellow ==
    /\ At("main", "yellow")
    /\ \/ Crash("main", common)
       \/ /\ Usable(common)
          /\ Health' = "Yellow"
          /\ Goto("main", "engage")
          /\ UNCHANGED <<pointers, LogEnable, LogLevel, g_iTraceLevel, outside,
                         history, quitting, life>>

Engage ==
    /\ At("main", "engage")
    /\ \/ Crash("main", controller)
       \/ /\ Usable(controller)
          /\ engaged' = engaged + 1
          /\ Goto("main", "register")
          /\ UNCHANGED <<pointers, object, served, registered, signals,
                         history, quitting, life>>

\* Variant with a bug: the answer of the registrar is not looked at.
AnyAnswer(success) == TRUE

Green(success) == success

\* RegisterCcspDataModel loads the data model, and with it, in COSA_Init, the
\* parameters; it may fail before that or after.
Register ==
    /\ At("main", "register")
    /\ \/ Crash("main", controller)
       \/ /\ Usable(controller)
          /\ \E success \in BOOLEAN :
                /\ registered' = (registered \/ success)
                /\ Goto("main", IF Green(success) THEN "green" ELSE "idle")
                /\ loaded' \in {loaded \/ ready} \cup
                               (IF success THEN {} ELSE {loaded})
          /\ UNCHANGED <<pointers, object, served, engaged, listening, ready,
                         refused, history, quitting, life>>

TurnGreen ==
    /\ At("main", "green")
    /\ \/ Crash("main", common)
       \/ /\ Usable(common)
          /\ Health' = "Green"
          /\ Goto("main", "idle")
          /\ UNCHANGED <<pointers, LogEnable, LogLevel, g_iTraceLevel, outside,
                         history, quitting, life>>

Start ==
    \/ Connect \/ RegisterPath \/ RegisterEvents \/ SetCallback2
    \/ CreateCommon \/ CreateIfs \/ CreateController
    \/ TurnYellow \/ Engage \/ Register \/ TurnGreen

-----------------------------------------------------------------------------
(* ssp_cancel, on either thread.                                            *)

Busy(t) == \E other \in Thread \ {t} : pc[other] # "idle"

Cancel(t) ==
    /\ overlapped' = (overlapped \/ Busy(t))
    /\ Goto(t, IF common = "null" THEN "idle" ELSE "unregister")

\* The result is only logged.
Unregister(t) ==
    /\ At(t, "unregister")
    /\ registered' \in {registered, FALSE}
    /\ Goto(t, "cancel")
    /\ UNCHANGED <<pointers, object, served, engaged, signals, history,
                   quitting, life>>

CancelController(t) ==
    /\ At(t, "cancel")
    /\ \/ Crash(t, controller)
       \/ /\ Usable(controller)
          /\ engaged' = IF engaged > 0 THEN engaged - 1 ELSE 0
          /\ controller' = "dangling"
          /\ Goto(t, "free")
          /\ UNCHANGED <<common, ccdIf, object, served, registered, signals,
                         history, quitting, life>>

Freed(pointer) == IF pointer = "null" THEN "null" ELSE "dangling"

Free(t) ==
    /\ At(t, "free")
    /\ \/ "dangling" \in {ccdIf, common} /\ Crash(t, "dangling")
       \/ /\ ccdIf' = Freed(ccdIf) /\ common' = Freed(common)
          /\ Goto(t, "clear")
          /\ UNCHANGED <<controller, object, outside, history, quitting, life>>

\* Variant with a bug: one of the pointers keeps its value.
ForgetSome == ccdIf' = "null" /\ controller' = "null" /\ UNCHANGED common

ForgetAll == ccdIf' = "null" /\ controller' = "null" /\ common' = "null"

\* main returns after the ssp_cancel that follows its loop.
Clear(t) ==
    /\ At(t, "clear")
    /\ ForgetAll
    /\ Goto(t, "idle")
    /\ life' = IF t = "main" /\ quitting THEN "ended" ELSE "up"
    /\ UNCHANGED <<object, outside, history, quitting>>

-----------------------------------------------------------------------------
(* What is typed on a console, and what comes in from the bus.              *)

CommandE ==
    /\ At("main", "idle") /\ ~quitting /\ engaged < MaxEngaged
    /\ Goto("main", "connect")
    /\ overlapped' = (overlapped \/ Busy("main"))
    /\ twice' = (twice \/ controller # "null")
    /\ UNCHANGED <<pointers, object, outside, failed, silenced, quitting, life>>

CommandC ==
    /\ At("main", "idle") /\ ~quitting
    /\ Cancel("main")
    /\ UNCHANGED <<pointers, object, outside, failed, twice, silenced,
                   quitting, life>>

Quit ==
    /\ At("main", "idle") /\ ~quitting
    /\ Cancel("main")
    /\ quitting' = TRUE
    /\ life' = IF common = "null" THEN "ended" ELSE "up"
    /\ UNCHANGED <<pointers, object, outside, failed, twice, silenced>>

\* ssp_Mbi_Finalize, or ssp_Mbi_FreeResources of high priority; the other
\* calls of the base interface do nothing.
Finalize ==
    /\ At("bus", "idle") /\ served
    /\ Cancel("bus")
    /\ UNCHANGED <<pointers, object, outside, failed, twice, silenced,
                   quitting, life>>

\* CcspRebootManagerSysReadySignalCB, if anybody listens.
SystemReady ==
    /\ At("bus", "idle") /\ ~ready
    /\ ready' = TRUE
    /\ loaded' = listening
    /\ UNCHANGED <<pointers, object, served, registered, engaged, listening,
                   refused, history, pc, quitting, life>>

Asked == At("bus", "idle") /\ engaged > 0

Get == Asked /\ Crash("bus", common)

\* Nothing is done about a value that is already in force.
SetLoggingEnabled(bEnabled) ==
    /\ Asked /\ Usable(common) /\ LogEnable # bEnabled
    /\ LogEnable' = bEnabled
    /\ g_iTraceLevel' = IF bEnabled THEN LogLevel ELSE Invalid
    /\ UNCHANGED <<pointers, Health, LogLevel, outside, history, pc, quitting,
                   life>>

\* Variant with a bug: the level is in force even while logging is off.
ApplyAnyway(level) == g_iTraceLevel' = level

ApplyLevel(level) == g_iTraceLevel' = IF LogEnable THEN level ELSE g_iTraceLevel

SetLoggingLevel(level) ==
    /\ Asked /\ Usable(common) /\ LogLevel # level
    /\ LogLevel' = level
    /\ ApplyLevel(level)
    /\ UNCHANGED <<pointers, Health, LogEnable, outside, history, pc, quitting,
                   life>>

Gone == life # "up" /\ UNCHANGED vars

Next ==
    \/ Start
    \/ \E t \in Thread :
          Unregister(t) \/ CancelController(t) \/ Free(t) \/ Clear(t)
    \/ CommandE \/ CommandC \/ Quit \/ Finalize \/ SystemReady \/ Get
    \/ \E b \in BOOLEAN : SetLoggingEnabled(b)
    \/ \E l \in Level : SetLoggingLevel(l)
    \/ Gone

Spec == Init /\ [][Next]_vars

-----------------------------------------------------------------------------

\* The process crashes for one of three reasons, none of which the code guards
\* against: ssp_create ran out of memory, and ssp_engage went on; a cancel met
\* the other thread at work; or a second 'e' engaged a second controller.  In
\* particular cancelling again, or starting again after a cancel, is safe.
CrashHasACause == life = "crashed" => failed \/ overlapped \/ twice

\* Between two commands the process has all of its objects or none of them,
\* although no failure of ssp_create is reported to anybody - unless a cancel met
\* the other thread at work.
WholeOrNothing ==
    life = "up" /\ (\A t \in Thread : pc[t] = "idle") /\ ~overlapped =>
        \/ common = "live" /\ ccdIf = "live" /\ controller = "live"
        \/ common = "null" /\ ccdIf = "null" /\ controller = "null"

\* A component that says it is fully initialized is one the registrar lists,
\* unless it is being cancelled.
GreenIsRegistered ==
    /\ Health = "Green" /\ common = "live"
    /\ \A t \in Thread : pc[t] \notin Cancelling
    => registered

\* What is logged is what the parameters LogEnable and LogLevel say, unless the
\* object was created anew while nothing was logged: it then says that logging
\* is on, and setting it on has no effect.
LoggingInForce ==
    common = "live" /\ ~silenced =>
        g_iTraceLevel = IF LogEnable THEN LogLevel ELSE Invalid

\* The process starts before the PSM: whether the system is ready before it
\* connects, while it is coming up or afterwards, a component that says it is
\* fully initialized has asked the PSM for its parameters once it is - unless
\* the bus refused something, which nobody looks at.
GreenHasLoaded ==
    Health = "Green" /\ common = "live" /\ ready => loaded \/ refused

-----------------------------------------------------------------------------
(* The inductive invariant behind these.                                    *)

AllAre(pointer) ==
    common = pointer /\ ccdIf = pointer /\ controller = pointer

AllIdle == \A t \in Thread : pc[t] = "idle"

SomeAt(steps) == \E t \in Thread : pc[t] \in steps

\* There is room for the controller that is about to be engaged.
RoomInv ==
    /\ pc["bus"] \notin Starting
    /\ pc["main"] \in Starting \ {"register", "green"} => engaged < MaxEngaged

\* While no two threads are at work at a time, each step finds of the three
\* objects what the steps before it left.
ObjectsInv ==
    ~overlapped /\ life = "up" =>
        /\ pc["main"] = "idle" \/ pc["bus"] = "idle"
        /\ AllIdle \/ pc["main"] \in Connecting \cup {"create"} =>
              AllAre("live") \/ AllAre("null")
        /\ pc["main"] = "createIfs" =>
              /\ common = "live"
              /\ controller = ccdIf /\ ccdIf \in {"null", "live"}
        /\ pc["main"] = "createController" =>
              common = "live" /\ ccdIf = "live"
        /\ pc["main"] = "yellow" => common \in {"null", "live"}
        /\ pc["main"] = "engage" => common = "live"
        /\ pc["main"] \in {"yellow", "engage"} /\ common = "live" =>
              controller = "null" \/ (controller = "live" /\ ccdIf = "live")
        /\ SomeAt({"register", "green", "unregister", "cancel"}) =>
              AllAre("live")
        /\ SomeAt({"free"}) => common = "live" /\ ccdIf = "live"

\* If besides nothing failed and 'e' was not typed twice, every pointer is live
\* that is used, and a controller answers exactly while there is one.
CalmInv ==
    ~overlapped /\ ~failed /\ ~twice =>
        /\ life # "crashed"
        /\ life = "up" =>
              /\ AllIdle => engaged = IF common = "live" THEN 1 ELSE 0
              /\ pc["main"] \in {"yellow", "engage"} => AllAre("live")
              /\ SomeAt((Starting \ {"register", "green"})
                           \cup {"free", "clear"}) => engaged = 0
              /\ SomeAt({"register", "green", "unregister", "cancel"}) =>
                    engaged = 1

\* A component that is, or is about to be, green without being listed is on its
\* way to be cancelled.
GreenInv ==
    common = "live" /\ ~registered /\ (Health = "Green" \/ pc["main"] = "green")
        => SomeAt({"cancel", "free", "clear"})

\* From the callback's registration on the signal is heard, and a load follows.
LoadInv ==
    LET SaysGreen == Health = "Green" /\ common = "live" IN
    ~refused =>
        /\ pc["main"] \notin Connecting \/ SaysGreen => listening
        /\ pc["main"] = "green" \/ SaysGreen => (ready => loaded)

LifecycleInv ==
    /\ TypeOK /\ RoomInv /\ ObjectsInv /\ CalmInv /\ GreenInv
    /\ LoggingInForce /\ LoadInv

=============================================================================
