------------------------- MODULE SspLifecycleProofs -------------------------
(***************************************************************************)
(* Proofs about SspLifecycle, for any trace levels and any number of       *)
(* controllers.                                                            *)
(***************************************************************************)
EXTENDS SspLifecycle, TLAPS

\* The process starts without objects, and with room for a controller.
LEMMA LifecycleInit == Init => LifecycleInv
  <1> SUFFICES ASSUME Init PROVE LifecycleInv
    OBVIOUS
  <1> USE LevelAssumption, EngagedAssumption DEF Init, Thread
  <1>1. TypeOK
    <2>1. pc \in [Thread -> Starting \cup Cancelling \cup {"idle"}]
      BY DEF Connecting, Starting, Cancelling
    <2>2. g_iTraceLevel \in Level \cup {Invalid} /\ engaged \in 0 .. MaxEngaged
      OBVIOUS
    <2> QED
      BY <2>1, <2>2 DEF TypeOK, Pointer
  <1>2. RoomInv /\ GreenInv /\ LoggingInForce
    BY DEF RoomInv, GreenInv, LoggingInForce, Connecting, Starting
  <1>3. ObjectsInv
    BY DEF ObjectsInv, AllAre, AllIdle, SomeAt, Connecting
  <1>4. CalmInv /\ LoadInv
    BY DEF CalmInv, LoadInv, AllAre, AllIdle, SomeAt, Connecting, Starting
  <1> QED
    BY <1>1, <1>2, <1>3, <1>4 DEF LifecycleInv

\* Wherever a step goes, it is a step of the program.
LEMMA GotoType ==
    ASSUME TypeOK, NEW t \in Thread,
           NEW to \in Starting \cup Cancelling \cup {"idle"}, Goto(t, to)
    PROVE  /\ pc' \in [Thread -> Starting \cup Cancelling \cup {"idle"}]
           /\ pc'[t] = to
           /\ \A other \in Thread \ {t} : pc'[other] = pc[other]
  BY DEF TypeOK, Goto

\* A cancel marks the overlap if there is one, and begins if there is a need.
LEMMA CancelStep ==
    ASSUME TypeOK, NEW t \in Thread, Cancel(t)
    PROVE  /\ pc' \in [Thread -> Starting \cup Cancelling \cup {"idle"}]
           /\ pc'[t] = IF common = "null" THEN "idle" ELSE "unregister"
           /\ \A other \in Thread \ {t} : pc'[other] = pc[other]
           /\ overlapped' \in BOOLEAN
           /\ overlapped => overlapped'
           /\ ~overlapped' => \A other \in Thread \ {t} : pc[other] = "idle"
  <1>1. /\ Goto(t, IF common = "null" THEN "idle" ELSE "unregister")
        /\ overlapped' = (overlapped \/ Busy(t))
    BY DEF Cancel
  <1>2. (IF common = "null" THEN "idle" ELSE "unregister")
           \in Starting \cup Cancelling \cup {"idle"}
    BY DEF Cancelling
  <1>3. overlapped' \in BOOLEAN /\ (overlapped => overlapped')
    BY <1>1 DEF TypeOK, Busy
  <1>4. ~overlapped' => \A other \in Thread \ {t} : pc[other] = "idle"
    BY <1>1 DEF Busy
  <1> QED
    BY <1>1, <1>2, <1>3, <1>4, GotoType

\* What the calls of ssp_Mbi_MessageBusEngage have in common: they are the main
\* thread's, they leave the objects alone, and all of them succeeded if it ends
\* without a refusal.
LEMMA ConnectStep ==
    ASSUME TypeOK,
           Connect \/ RegisterPath \/ RegisterEvents \/ SetCallback2
    PROVE  /\ life = "up" /\ pc["main"] \in Connecting
           /\ pc' \in [Thread -> Starting \cup Cancelling \cup {"idle"}]
           /\ pc'["main"] \in Connecting \cup {"create"}
           /\ pc'["bus"] = pc["bus"]
           /\ served' \in BOOLEAN /\ listening' \in BOOLEAN
           /\ refused' \in BOOLEAN
           /\ listening => listening'
           /\ refused => refused'
           /\ ~refused' /\ pc'["main"] = "create" => listening'
           /\ UNCHANGED <<pointers, object, registered, engaged, ready, loaded,
                          history, quitting, life>>
  <1> USE DEF TypeOK, BusCall, At, Goto, Thread, Connecting, Starting
  <1>1. CASE Connect
    <2>1. PICK accepted \in BOOLEAN : BusCall("connect", "path", accepted)
      BY <1>1 DEF Connect
    <2>2. served' \in BOOLEAN /\ listening' = listening
      BY Zenon, <1>1 DEF Connect
    <2> QED
      BY <2>1, <2>2
  <1>2. CASE RegisterPath
    <2>1. PICK accepted \in BOOLEAN :
             /\ BusCall("path", "events", accepted)
             /\ served' = (served \/ accepted)
             /\ listening' = listening
      BY <1>2 DEF RegisterPath
    <2> QED
      BY <2>1
  <1>3. CASE RegisterEvents
    <2>1. PICK accepted \in BOOLEAN : BusCall("events", "callback", accepted)
      BY <1>3 DEF RegisterEvents
    <2>2. served' \in BOOLEAN /\ listening' = listening
      BY Zenon, <1>3 DEF RegisterEvents
    <2> QED
      BY <2>1, <2>2
  <1>4. CASE SetCallback2
    BY <1>4 DEF SetCallback2, Listen
  <1> QED
    BY <1>1, <1>2, <1>3, <1>4

\* The types: KeptLevel is a level, and Engage finds room.
LEMMA TypeNext ==
    ASSUME TypeOK, RoomInv, [Next]_vars
    PROVE  TypeOK'
  <1> USE LevelAssumption, EngagedAssumption
      DEF TypeOK, Pointer, pointers, object, signals, outside, history, Crash
  <1>0. /\ "main" \in Thread /\ "bus" \in Thread
        /\ {"unregister", "cancel", "free", "clear"} \subseteq Cancelling
        /\ {"connect", "path", "events", "callback"} \subseteq Starting
        /\ {"create", "createIfs", "createController", "yellow",
            "engage", "register", "green"} \subseteq Starting
    BY DEF Thread, Connecting, Starting, Cancelling
  <1>1. CASE Connect \/ RegisterPath \/ RegisterEvents \/ SetCallback2
    BY <1>1, ConnectStep
  <1>2. CASE CreateCommon
    <2>1. KeptLevel \in Level
      BY DEF KeptLevel
    <2>2. pc' \in [Thread -> Starting \cup Cancelling \cup {"idle"}]
      BY <1>0, <1>2, GotoType DEF CreateCommon
    <2>3. silenced' \in BOOLEAN /\ failed' \in BOOLEAN
      BY <1>2 DEF CreateCommon
    <2>4. /\ common' \in Pointer /\ Health' \in {"Red", "Yellow", "Green"}
          /\ LogLevel' \in Level
      BY <1>2, <2>1 DEF CreateCommon
    <2>5. LogEnable' \in BOOLEAN
      BY <1>2 DEF CreateCommon
    <2>6. UNCHANGED <<ccdIf, controller, g_iTraceLevel, outside, overlapped,
                      twice, quitting, life>>
      BY <1>2 DEF CreateCommon
    <2> QED
      BY <2>2, <2>3, <2>4, <2>5, <2>6
  <1>3. CASE CreateIfs \/ CreateController
    <2>1. pc' \in [Thread -> Starting \cup Cancelling \cup {"idle"}]
      BY <1>0, <1>3, GotoType DEF CreateIfs, CreateController
    <2>2. failed' \in BOOLEAN
      BY <1>3 DEF CreateIfs, CreateController
    <2> QED
      BY <1>3, <2>1, <2>2 DEF CreateIfs, CreateController
  <1>4. CASE TurnYellow \/ TurnGreen
    BY <1>0, <1>4, GotoType DEF TurnYellow, TurnGreen
  <1>5. CASE Engage
    <2>1. At("main", "engage") => engaged + 1 \in 0 .. MaxEngaged
      BY DEF RoomInv, At, Starting
    <2> QED
      BY <1>0, <1>5, <2>1, GotoType DEF Engage
  <1>6. CASE Register
    <2>1. CASE UNCHANGED vars \/ Crash("main", controller)
      BY <2>1 DEF vars
    <2>2. ASSUME NEW success \in BOOLEAN,
                 registered' = (registered \/ success),
                 Goto("main", IF Green(success) THEN "green" ELSE "idle"),
                 loaded' \in {loaded \/ ready} \cup
                                (IF success THEN {} ELSE {loaded}),
                 UNCHANGED <<pointers, object, served, engaged, listening,
                             ready, refused, history, quitting, life>>
          PROVE  TypeOK'
      <3>1. pc' \in [Thread -> Starting \cup Cancelling \cup {"idle"}]
        BY <1>0, <2>2, GotoType
      <3>2. registered' \in BOOLEAN /\ loaded' \in BOOLEAN
        BY <2>2
      <3> QED
        BY <2>2, <3>1, <3>2
    <2> QED
      BY <1>6, <2>1, <2>2 DEF Register
  <1>7. ASSUME NEW t \in Thread,
               Unregister(t) \/ CancelController(t) \/ Free(t) \/ Clear(t)
        PROVE  TypeOK'
    <2>1. CASE Unregister(t)
      <3>1. pc' \in [Thread -> Starting \cup Cancelling \cup {"idle"}]
        BY <1>0, <2>1, GotoType DEF Unregister
      <3>2. registered' \in BOOLEAN
        BY <2>1 DEF Unregister
      <3> QED
        BY <2>1, <3>1, <3>2 DEF Unregister
    <2>2. CASE CancelController(t)
      <3>1. (IF engaged > 0 THEN engaged - 1 ELSE 0) \in 0 .. MaxEngaged
        OBVIOUS
      <3> QED
        BY <1>0, <2>2, <3>1, GotoType DEF CancelController
    <2>3. CASE Free(t)
      BY <1>0, <2>3, GotoType DEF Free, Freed
    <2>4. CASE Clear(t)
      BY <1>0, <2>4, GotoType DEF Clear, ForgetAll
    <2> QED
      BY <1>7, <2>1, <2>2, <2>3, <2>4
  <1>8. CASE CommandE
    <2>1. /\ pc' \in [Thread -> Starting \cup Cancelling \cup {"idle"}]
          /\ overlapped' \in BOOLEAN /\ twice' \in BOOLEAN
      BY <1>0, <1>8, GotoType DEF CommandE, Busy
    <2> QED
      BY <1>8, <2>1 DEF CommandE
  <1>9. CASE CommandC \/ Quit \/ Finalize
    <2>1. /\ pc' \in [Thread -> Starting \cup Cancelling \cup {"idle"}]
          /\ overlapped' \in BOOLEAN
      BY <1>0, <1>9, CancelStep DEF CommandC, Quit, Finalize
    <2>2. quitting' \in BOOLEAN /\ life' \in {"up", "crashed", "ended"}
      BY <1>9 DEF CommandC, Quit, Finalize
    <2> QED
      BY <1>9, <2>1, <2>2 DEF CommandC, Quit, Finalize
  <1>10. CASE Get \/ SystemReady
    <2>1. CASE SystemReady
      <3>1. ready' \in BOOLEAN /\ loaded' \in BOOLEAN
        BY <2>1 DEF SystemReady
      <3> QED
        BY <2>1, <3>1 DEF SystemReady
    <2> QED
      BY <1>10, <2>1 DEF Get
  <1>11. ASSUME NEW b \in BOOLEAN, SetLoggingEnabled(b)
         PROVE  TypeOK'
    BY <1>11 DEF SetLoggingEnabled
  <1>12. ASSUME NEW l \in Level, SetLoggingLevel(l)
         PROVE  TypeOK'
    BY <1>12 DEF SetLoggingLevel, ApplyLevel
  <1>13. CASE Gone \/ UNCHANGED vars
    BY <1>13 DEF Gone, vars
  <1> QED
    BY <1>1, <1>2, <1>3, <1>4, <1>5, <1>6, <1>7, <1>8, <1>9, <1>10, <1>11,
       <1>12, <1>13
    DEF Next, Start

\* One controller more is engaged only where 'e' found room for it.
LEMMA RoomNext ==
    ASSUME TypeOK, RoomInv, [Next]_vars
    PROVE  RoomInv'
  <1> USE EngagedAssumption
      DEF TypeOK, RoomInv, Connecting, Starting, Thread, outside, At, Goto,
          Crash
  <1>0. CASE Connect \/ RegisterPath \/ RegisterEvents \/ SetCallback2
    BY <1>0, ConnectStep
  <1>1. CASE Start /\ ~(Connect \/ RegisterPath \/ RegisterEvents \/ SetCallback2)
    BY <1>1 DEF Start, CreateCommon, CreateIfs, CreateController,
                TurnYellow, Engage, Register, Green, TurnGreen
  <1>2. ASSUME NEW t \in Thread,
               Unregister(t) \/ CancelController(t) \/ Free(t) \/ Clear(t)
        PROVE  RoomInv'
    <2>1. CASE Unregister(t)
      BY <2>1 DEF Unregister
    <2>2. CASE CancelController(t)
      BY <2>2 DEF CancelController
    <2>3. CASE Free(t) \/ Clear(t)
      BY <2>3 DEF Free, Clear
    <2> QED
      BY <1>2, <2>1, <2>2, <2>3
  <1>3. CASE CommandE \/ CommandC \/ Quit \/ Finalize
    BY <1>3 DEF CommandE, CommandC, Quit, Finalize, Cancel
  <1>4. CASE Get \/ SystemReady \/ Gone \/ UNCHANGED vars
    BY <1>4 DEF Get, SystemReady, Gone, vars
  <1>5. CASE (\E b \in BOOLEAN : SetLoggingEnabled(b))
               \/ (\E l \in Level : SetLoggingLevel(l))
    BY <1>5 DEF SetLoggingEnabled, SetLoggingLevel
  <1> QED
    BY <1>0, <1>1, <1>2, <1>3, <1>4, <1>5 DEF Next, Start

\* What went wrong is not forgotten, and a process that is gone stays so.
WentWrong == overlapped \/ failed \/ twice

LEMMA HistoryStays ==
    ASSUME TypeOK, [Next]_vars
    PROVE  /\ overlapped => overlapped'
           /\ WentWrong => WentWrong'
           /\ life' = "up" => life = "up"
  <1> DEFINE Stays == /\ overlapped => overlapped'
                      /\ failed => failed'
                      /\ twice => twice'
                      /\ life' = "up" => life = "up"
  <1> SUFFICES Stays
    BY DEF WentWrong
  <1> USE DEF TypeOK, history, At, Crash
  <1>1. CASE Connect \/ RegisterPath \/ RegisterEvents \/ SetCallback2
    BY <1>1, ConnectStep
  <1>2. CASE CreateCommon
    BY <1>2 DEF CreateCommon
  <1>3. CASE CreateIfs \/ CreateController
    BY <1>3 DEF CreateIfs, CreateController
  <1>4. CASE TurnYellow \/ TurnGreen
    BY <1>4 DEF TurnYellow, TurnGreen
  <1>5. CASE Engage \/ Register
    BY <1>5 DEF Engage, Register
  <1>6. ASSUME NEW t \in Thread, Unregister(t)
       PROVE  Stays
    BY <1>6 DEF Unregister
  <1>7. ASSUME NEW t \in Thread, CancelController(t)
       PROVE  Stays
    BY <1>7 DEF CancelController
  <1>8. ASSUME NEW t \in Thread, Free(t)
       PROVE  Stays
    BY <1>8 DEF Free
  <1>9. ASSUME NEW t \in Thread, Clear(t)
       PROVE  Stays
    BY <1>9 DEF Clear, ForgetAll
  <1>10. CASE CommandE
    BY <1>10 DEF CommandE
  <1>11. CASE CommandC \/ Quit \/ Finalize
    BY <1>11 DEF CommandC, Quit, Finalize, Cancel
  <1>12. CASE Get \/ SystemReady
    BY <1>12 DEF Get, SystemReady, Asked
  <1>13. ASSUME NEW b \in BOOLEAN, SetLoggingEnabled(b)
       PROVE  Stays
    BY <1>13 DEF SetLoggingEnabled, Asked
  <1>14. ASSUME NEW l \in Level, SetLoggingLevel(l)
       PROVE  Stays
    BY <1>14 DEF SetLoggingLevel, Asked
  <1>15. CASE Gone \/ UNCHANGED vars
    BY <1>15 DEF Gone, vars
  <1> QED
    BY <1>1, <1>2, <1>3, <1>4, <1>5, <1>6, <1>7, <1>8,
       <1>9, <1>10, <1>11, <1>12, <1>13, <1>14, <1>15 DEF Next, Start

\* What each step finds of the objects, no other thread being at work.
LEMMA ObjectsNext ==
    ASSUME TypeOK, TypeOK', RoomInv, ObjectsInv, [Next]_vars
    PROVE  ObjectsInv'
  <1> SUFFICES ASSUME ~overlapped', life' = "up"
               PROVE  ObjectsInv'
    BY DEF ObjectsInv
  <1> USE DEF AllAre, AllIdle, SomeAt, Thread, Connecting
  <1>0. /\ ~overlapped /\ life = "up"
        /\ pc \in [Thread -> Starting \cup Cancelling \cup {"idle"}]
        /\ pc["bus"] \notin Starting
        /\ common \in Pointer /\ ccdIf \in Pointer /\ controller \in Pointer
    BY HistoryStays DEF TypeOK, RoomInv
  <1>1. CASE Connect \/ RegisterPath \/ RegisterEvents \/ SetCallback2
    BY <1>0, <1>1, ConnectStep DEF pointers, ObjectsInv
  <1>2. CASE CreateCommon
    BY <1>0, <1>2 DEF CreateCommon, At, Goto, ObjectsInv, Starting
  <1>3. CASE CreateIfs
    BY <1>0, <1>3 DEF CreateIfs, At, Goto, ObjectsInv, Starting
  <1>4. CASE CreateController
    BY <1>0, <1>4 DEF CreateController, At, Goto, ObjectsInv, Starting
  <1>5. CASE TurnYellow
    BY <1>0, <1>5 DEF TurnYellow, Crash, Usable, At, Goto, pointers,
        ObjectsInv, Starting
  <1>6. CASE Engage
    BY <1>0, <1>6 DEF Engage, Crash, Usable, At, Goto, pointers, ObjectsInv,
        Starting
  <1>7. CASE Register
    BY <1>0, <1>7 DEF Register, Green, Crash, Usable, At, Goto, pointers,
        ObjectsInv, Starting
  <1>8. CASE TurnGreen
    BY <1>0, <1>8 DEF TurnGreen, Crash, Usable, At, Goto, pointers,
        ObjectsInv, Starting
  <1>9. ASSUME NEW t \in Thread, Unregister(t)
        PROVE  ObjectsInv'
    BY <1>0, <1>9 DEF Unregister, At, Goto, pointers, ObjectsInv, Cancelling
  <1>10. ASSUME NEW t \in Thread, CancelController(t)
         PROVE  ObjectsInv'
    BY <1>0, <1>10 DEF CancelController, Crash, Usable, At, Goto, ObjectsInv,
        Cancelling
  <1>11. ASSUME NEW t \in Thread, Free(t)
         PROVE  ObjectsInv'
    BY <1>0, <1>11 DEF Free, Freed, Crash, At, Goto, ObjectsInv, Cancelling
  <1>12. ASSUME NEW t \in Thread, Clear(t)
         PROVE  ObjectsInv'
    BY <1>0, <1>12 DEF Clear, ForgetAll, At, Goto, ObjectsInv, Cancelling
  <1>13. CASE CommandE
    <2>1. pc["bus"] = "idle" /\ pc["main"] = "idle"
      BY <1>0, <1>13 DEF CommandE, Busy, At
    <2> QED
      BY <1>0, <1>13, <2>1 DEF CommandE, Goto, pointers, ObjectsInv
  <1>14. CASE CommandC \/ Quit \/ Finalize
    <2>1. PICK t \in Thread :
             /\ Cancel(t) /\ pc[t] = "idle"
             /\ UNCHANGED pointers
      BY <1>14 DEF CommandC, Quit, Finalize, At
    <2>2. AllIdle
      BY <2>1, CancelStep
    <2>3. /\ pc'[t] = IF common = "null" THEN "idle" ELSE "unregister"
          /\ \A other \in Thread \ {t} : pc'[other] = "idle"
      BY <2>1, <2>2, CancelStep
    <2> QED
      BY <1>0, <2>1, <2>2, <2>3 DEF pointers, ObjectsInv
  <1>15. CASE Get
    BY <1>0, <1>15 DEF Get, Crash
  <1>16. CASE \/ \E b \in BOOLEAN : SetLoggingEnabled(b)
              \/ \E l \in Level : SetLoggingLevel(l)
              \/ SystemReady \/ Gone \/ UNCHANGED vars
    <2>1. UNCHANGED <<pc, common, ccdIf, controller>>
      BY <1>16 DEF SetLoggingEnabled, SetLoggingLevel, SystemReady, Gone, vars,
          pointers
    <2> QED
      BY <1>0, <2>1 DEF ObjectsInv
  <1> QED
    BY <1>1, <1>2, <1>3, <1>4, <1>5, <1>6, <1>7, <1>8, <1>9, <1>10, <1>11,
       <1>12, <1>13, <1>14, <1>15, <1>16
    DEF Next, Start

\* A start or a cancel that nothing disturbs uses live pointers only.
LEMMA CalmNext ==
    ASSUME TypeOK, TypeOK', RoomInv, ObjectsInv, CalmInv, [Next]_vars
    PROVE  CalmInv'
  <1> SUFFICES ASSUME ~WentWrong'
               PROVE  CalmInv'
    BY DEF CalmInv, WentWrong
  <1> USE DEF AllAre, AllIdle, SomeAt, Thread, Connecting
  <1>0. /\ ~WentWrong /\ life # "crashed"
        /\ pc \in [Thread -> Starting \cup Cancelling \cup {"idle"}]
        /\ pc["bus"] \notin Starting
        /\ common \in Pointer /\ ccdIf \in Pointer /\ controller \in Pointer
        /\ engaged \in Nat
    BY HistoryStays, EngagedAssumption DEF TypeOK, RoomInv, CalmInv, WentWrong
  <1>1. CASE Connect \/ RegisterPath \/ RegisterEvents \/ SetCallback2
    BY <1>0, <1>1, ConnectStep DEF pointers, history, WentWrong,
        ObjectsInv, CalmInv, Starting
  <1>2. CASE CreateCommon
    BY <1>0, <1>2
    DEF CreateCommon, outside, WentWrong, At, Goto, ObjectsInv, CalmInv,
        Starting
  <1>3. CASE CreateIfs
    BY <1>0, <1>3
    DEF CreateIfs, outside, WentWrong, At, Goto, ObjectsInv, CalmInv, Starting
  <1>4. CASE CreateController
    BY <1>0, <1>4
    DEF CreateController, outside, WentWrong, At, Goto, ObjectsInv, CalmInv,
        Starting
  <1>5. CASE TurnYellow
    BY <1>0, <1>5
    DEF TurnYellow, pointers, outside, history, Crash, Usable, WentWrong, At,
        Goto, ObjectsInv, CalmInv, Starting
  <1>6. CASE Engage
    BY <1>0, <1>6
    DEF Engage, pointers, outside, history, Crash, Usable, WentWrong, At,
        Goto, ObjectsInv, CalmInv, Starting
  <1>7. CASE Register
    BY <1>0, <1>7
    DEF Register, Green, pointers, outside, history, Crash, Usable,
        WentWrong, At, Goto, ObjectsInv, CalmInv, Starting
  <1>8. CASE TurnGreen
    BY <1>0, <1>8
    DEF TurnGreen, pointers, outside, history, Crash, Usable, WentWrong, At,
        Goto, ObjectsInv, CalmInv, Starting
  <1>9. ASSUME NEW t \in Thread, Unregister(t)
        PROVE  CalmInv'
    BY <1>0, <1>9
    DEF Unregister, pointers, history, Cancelling, WentWrong, At, Goto,
        ObjectsInv, CalmInv, Starting
  <1>10. ASSUME NEW t \in Thread, CancelController(t)
        PROVE  CalmInv'
    BY <1>0, <1>10
    DEF CancelController, history, Crash, Usable, Cancelling, WentWrong, At,
        Goto, ObjectsInv, CalmInv, Starting
  <1>11. ASSUME NEW t \in Thread, Free(t)
        PROVE  CalmInv'
    BY <1>0, <1>11
    DEF Free, Freed, Crash, outside, history, Cancelling, WentWrong, At,
        Goto, ObjectsInv, CalmInv, Starting
  <1>12. ASSUME NEW t \in Thread, Clear(t)
        PROVE  CalmInv'
    BY <1>0, <1>12
    DEF Clear, ForgetAll, outside, history, Cancelling, WentWrong, At, Goto,
        ObjectsInv, CalmInv, Starting
  <1>13. CASE CommandE
    <2>1. pc["bus"] = "idle" /\ pc["main"] = "idle" /\ controller = "null"
      BY <1>0, <1>13 DEF CommandE, Busy, At, WentWrong
    <2> QED
      BY <1>0, <1>13, <2>1
      DEF CommandE, At, Goto, pointers, outside, WentWrong, ObjectsInv, CalmInv,
          Starting
  <1>14. CASE CommandC \/ Quit \/ Finalize
    <2>1. PICK t \in Thread :
             /\ Cancel(t) /\ pc[t] = "idle"
             /\ UNCHANGED <<common, ccdIf, controller, engaged>>
             /\ life = "up" /\ life' # "crashed"
      BY <1>14
      DEF CommandC, Quit, Finalize, At, pointers, outside
    <2>2. AllIdle
      BY <1>0, <2>1, CancelStep DEF WentWrong
    <2>3. /\ pc'[t] = IF common = "null" THEN "idle" ELSE "unregister"
          /\ \A other \in Thread \ {t} : pc'[other] = "idle"
      BY <2>1, <2>2, CancelStep
    <2> QED
      BY <1>0, <2>1, <2>2, <2>3 DEF WentWrong, ObjectsInv, CalmInv, Starting
  <1>15. CASE Get
    <2>1. common = "live"
      BY <1>0, <1>15
      DEF Get, Asked, At, WentWrong, ObjectsInv, CalmInv, Starting, Cancelling
    <2> QED
      BY <1>15, <2>1 DEF Get, Crash
  <1>16. CASE \/ \E b \in BOOLEAN : SetLoggingEnabled(b)
              \/ \E l \in Level : SetLoggingLevel(l)
              \/ SystemReady \/ Gone \/ UNCHANGED vars
    <2>1. UNCHANGED <<pc, common, ccdIf, controller, engaged, life>>
      BY <1>16
      DEF SetLoggingEnabled, SetLoggingLevel, SystemReady, Gone, vars,
          pointers, outside
    <2> QED
      BY <1>0, <2>1 DEF WentWrong, CalmInv
  <1> QED
    BY <1>1, <1>2, <1>3, <1>4, <1>5, <1>6, <1>7, <1>8, <1>9, <1>10, <1>11,
       <1>12, <1>13, <1>14, <1>15, <1>16
    DEF Next, Start

\* Only a thread that has unregistered the component leaves it green.
LEMMA GreenNext ==
    ASSUME TypeOK, TypeOK', GreenInv, [Next]_vars
    PROVE  GreenInv'
  <1> USE DEF SomeAt, Thread, GreenInv, pointers, object, outside, history,
              Crash, Usable, At, Goto
  <1>0. pc \in [Thread -> Starting \cup Cancelling \cup {"idle"}]
    BY DEF TypeOK
  <1>1. CASE Connect \/ RegisterPath \/ RegisterEvents \/ SetCallback2
    BY <1>0, <1>1, ConnectStep DEF Connecting
  <1>2. CASE CreateCommon
    BY <1>0, <1>2 DEF CreateCommon
  <1>3. CASE CreateIfs \/ CreateController
    BY <1>0, <1>3 DEF CreateIfs, CreateController
  <1>4. CASE TurnYellow \/ Engage
    BY <1>0, <1>4 DEF TurnYellow, Engage
  <1>5. CASE Register
    BY <1>0, <1>5 DEF Register, Green, TypeOK
  <1>6. CASE TurnGreen
    BY <1>0, <1>6 DEF TurnGreen
  <1>7. ASSUME NEW t \in Thread, Unregister(t)
        PROVE  GreenInv'
    BY <1>0, <1>7 DEF Unregister, TypeOK
  <1>8. ASSUME NEW t \in Thread, CancelController(t)
        PROVE  GreenInv'
    BY <1>0, <1>8 DEF CancelController
  <1>9. ASSUME NEW t \in Thread, Free(t)
        PROVE  GreenInv'
    BY <1>0, <1>9 DEF Free, Freed
  <1>10. ASSUME NEW t \in Thread, Clear(t)
        PROVE  GreenInv'
    BY <1>0, <1>10 DEF Clear, ForgetAll
  <1>11. CASE CommandE
    BY <1>0, <1>11 DEF CommandE
  <1>12. CASE CommandC \/ Quit \/ Finalize
    BY <1>0, <1>12 DEF CommandC, Quit, Finalize, Cancel
  <1>13. CASE Get \/ SystemReady
    BY <1>0, <1>13 DEF Get, SystemReady
  <1>14. ASSUME NEW b \in BOOLEAN, SetLoggingEnabled(b)
        PROVE  GreenInv'
    BY <1>0, <1>14 DEF SetLoggingEnabled, Asked
  <1>15. ASSUME NEW l \in Level, SetLoggingLevel(l)
        PROVE  GreenInv'
    BY <1>0, <1>15 DEF SetLoggingLevel, Asked
  <1>16. CASE Gone \/ UNCHANGED vars
    BY <1>0, <1>16 DEF Gone, vars
  <1> QED
    BY <1>1, <1>2, <1>3, <1>4, <1>5, <1>6, <1>7, <1>8, <1>9, <1>10, <1>11,
        <1>12, <1>13, <1>14, <1>15, <1>16
    DEF Next, Start

\* A new object takes over the level in force, and every later change of the
\* object changes the level in force with it.
LEMMA LoggingNext ==
    ASSUME TypeOK, LoggingInForce, [Next]_vars
    PROVE  LoggingInForce'
  <1> USE LevelAssumption
      DEF LoggingInForce, TypeOK, pointers, object, outside, history, Crash
  <1>0. g_iTraceLevel \in Level \cup {Invalid}
    OBVIOUS
  <1>1. CASE Connect \/ RegisterPath \/ RegisterEvents \/ SetCallback2
    BY <1>0, <1>1, ConnectStep
  <1>2. CASE CreateCommon
    BY <1>0, <1>2 DEF CreateCommon, KeptLevel
  <1>3. CASE CreateIfs \/ CreateController
    BY <1>0, <1>3 DEF CreateIfs, CreateController
  <1>4. CASE TurnYellow \/ TurnGreen
    BY <1>0, <1>4 DEF TurnYellow, TurnGreen
  <1>5. CASE Engage \/ Register
    BY <1>0, <1>5 DEF Engage, Register
  <1>6. ASSUME NEW t \in Thread, Unregister(t) \/ CancelController(t)
        PROVE  LoggingInForce'
    <2>1. UNCHANGED <<common, object, silenced>>
      BY Zenon, <1>6 DEF Unregister, CancelController
    <2> QED
      BY <2>1
  <1>7. ASSUME NEW t \in Thread, Free(t)
        PROVE  LoggingInForce'
    BY <1>0, <1>7 DEF Free, Freed
  <1>8. ASSUME NEW t \in Thread, Clear(t)
        PROVE  LoggingInForce'
    BY <1>0, <1>8 DEF Clear, ForgetAll
  <1>9. CASE CommandE \/ CommandC \/ Quit \/ Finalize
    BY <1>0, <1>9 DEF CommandE, CommandC, Quit, Finalize
  <1>10. CASE Get \/ SystemReady
    BY <1>0, <1>10 DEF Get, SystemReady
  <1>11. ASSUME NEW b \in BOOLEAN, SetLoggingEnabled(b)
        PROVE  LoggingInForce'
    BY <1>0, <1>11 DEF SetLoggingEnabled
  <1>12. ASSUME NEW l \in Level, SetLoggingLevel(l)
        PROVE  LoggingInForce'
    BY <1>0, <1>12 DEF SetLoggingLevel, ApplyLevel
  <1>13. CASE Gone \/ UNCHANGED vars
    BY <1>0, <1>13 DEF Gone, vars
  <1> QED
    BY <1>1, <1>2, <1>3, <1>4, <1>5, <1>6, <1>7, <1>8, <1>9, <1>10, <1>11,
        <1>12, <1>13
    DEF Next, Start

\* The signal is heard once the callback is set, and a registration that
\* succeeds has loaded the parameters.
LEMMA LoadNext ==
    ASSUME TypeOK, TypeOK', LoadInv, [Next]_vars
    PROVE  LoadInv'
  <1> SUFFICES ASSUME ~refused' PROVE LoadInv'
    BY DEF LoadInv
  <1> USE DEF Thread, LoadInv, Connecting, pointers, object, signals, outside,
              history, Crash, Usable, At, Goto
  <1>0. /\ pc \in [Thread -> Starting \cup Cancelling \cup {"idle"}]
        /\ ready \in BOOLEAN /\ loaded \in BOOLEAN /\ listening \in BOOLEAN
    BY DEF TypeOK
  <1>1. CASE Connect \/ RegisterPath \/ RegisterEvents \/ SetCallback2
    BY <1>0, <1>1, ConnectStep
  <1>2. CASE CreateCommon
    BY <1>0, <1>2 DEF CreateCommon
  <1>3. CASE CreateIfs \/ CreateController
    BY <1>0, <1>3 DEF CreateIfs, CreateController
  <1>4. CASE TurnYellow \/ Engage
    BY <1>0, <1>4 DEF TurnYellow, Engage
  <1>5. CASE Register
    BY <1>0, <1>5 DEF Register, Green
  <1>6. CASE TurnGreen
    BY <1>0, <1>6 DEF TurnGreen
  <1>7. ASSUME NEW t \in Thread, Unregister(t)
        PROVE  LoadInv'
    BY <1>0, <1>7 DEF Unregister
  <1>8. ASSUME NEW t \in Thread, CancelController(t)
        PROVE  LoadInv'
    BY <1>0, <1>8 DEF CancelController
  <1>9. ASSUME NEW t \in Thread, Free(t)
        PROVE  LoadInv'
    BY <1>0, <1>9 DEF Free, Freed
  <1>10. ASSUME NEW t \in Thread, Clear(t)
         PROVE  LoadInv'
    BY <1>0, <1>10 DEF Clear, ForgetAll
  <1>11. CASE CommandE
    BY <1>0, <1>11 DEF CommandE
  <1>12. CASE CommandC \/ Quit \/ Finalize
    BY <1>0, <1>12 DEF CommandC, Quit, Finalize, Cancel
  <1>13. CASE SystemReady
    BY <1>0, <1>13 DEF SystemReady
  <1>14. CASE Get
    BY <1>0, <1>14 DEF Get
  <1>15. ASSUME NEW b \in BOOLEAN, SetLoggingEnabled(b)
         PROVE  LoadInv'
    BY <1>0, <1>15 DEF SetLoggingEnabled, Asked
  <1>16. ASSUME NEW l \in Level, SetLoggingLevel(l)
         PROVE  LoadInv'
    BY <1>0, <1>16 DEF SetLoggingLevel, Asked
  <1>17. CASE Gone \/ UNCHANGED vars
    BY <1>0, <1>17 DEF Gone, vars
  <1> QED
    BY <1>1, <1>2, <1>3, <1>4, <1>5, <1>6, <1>7, <1>8, <1>9, <1>10, <1>11,
       <1>12, <1>13, <1>14, <1>15, <1>16, <1>17
    DEF Next, Start

-----------------------------------------------------------------------------

\* The invariant behind the theorems below: what each step of a start or
\* of a cancel finds of the objects, of the controllers and of the registration.
THEOREM LifecycleInvariant == Spec => []LifecycleInv
  <1>1. LifecycleInv /\ [Next]_vars => LifecycleInv'
    BY TypeNext, RoomNext, ObjectsNext, CalmNext, GreenNext, LoggingNext,
       LoadNext
    DEF LifecycleInv
  <1> QED
    BY LifecycleInit, <1>1, PTL DEF Spec

\* The process stays well typed; in particular LogLevel is always a level.
THEOREM TypeCorrect == Spec => []TypeOK
  <1>1. LifecycleInv => TypeOK
    BY DEF LifecycleInv
  <1> QED
    BY LifecycleInvariant, <1>1, PTL

\* The process crashes only after ssp_create failed, a cancel met the other
\* thread at work, or 'e' was typed twice: ssp_cancel may be repeated, and
\* ssp_create may follow it, as often as anybody likes.
THEOREM CrashesHaveACause == Spec => []CrashHasACause
  <1>1. LifecycleInv => CrashHasACause
    BY DEF LifecycleInv, CalmInv, CrashHasACause
  <1> QED
    BY LifecycleInvariant, <1>1, PTL

\* Between two commands there are all three objects of ssp_create or none, unless
\* a cancel met the other thread at work.
THEOREM ObjectsAreWhole == Spec => []WholeOrNothing
  <1>1. LifecycleInv => WholeOrNothing
    BY DEF LifecycleInv, ObjectsInv, WholeOrNothing, AllIdle, AllAre
  <1> QED
    BY LifecycleInvariant, <1>1, PTL

\* The Health that ssp_engage sets to Green is that of a registered component.
THEOREM GreenMeansRegistered == Spec => []GreenIsRegistered
  <1>1. LifecycleInv => GreenIsRegistered
    BY DEF LifecycleInv, GreenInv, GreenIsRegistered, SomeAt, Cancelling
  <1> QED
    BY LifecycleInvariant, <1>1, PTL

\* The trace level in force is the one that the common parameters show, through
\* every order of the two setters and of new objects - unless the common object
\* was created anew while nothing was logged.
THEOREM LoggingAgrees == Spec => []LoggingInForce
  <1>1. LifecycleInv => LoggingInForce
    BY DEF LifecycleInv
  <1> QED
    BY LifecycleInvariant, <1>1, PTL

\* However the start of the PSM falls between the steps of the start of this
\* process, a green component has asked for its parameters, if the bus refused
\* it nothing.
THEOREM GreenIsLoaded == Spec => []GreenHasLoaded
  <1>1. LifecycleInv => GreenHasLoaded
    BY DEF LifecycleInv, LoadInv, GreenHasLoaded
  <1> QED
    BY LifecycleInvariant, <1>1, PTL

=============================================================================
