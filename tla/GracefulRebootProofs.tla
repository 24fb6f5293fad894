------------------------ MODULE GracefulRebootProofs ------------------------
(***************************************************************************)
(* Proofs about GracefulReboot, for any components, any discovery, any     *)
(* number of attempts and any timer values.                                *)
(***************************************************************************)
EXTENDS GracefulReboot, RankOrderProofs, TLAPS

\* The bytes of an address are no component's parameter name: the callback,
\* which compares names, never matches what Watch copied.
LEMMA NamesDiffer ==
    ASSUME NEW c \in Component, NEW d \in Component
    PROVE  RowAddress(c) # FullName(d) /\ NoName # FullName(d)
  BY DEF RowAddress, FullName, NoName

\* What a discovery returns is a sequence of distinct components.
LEMMA Discovered ==
    ASSUME comps \in Discoveries
    PROVE  /\ comps \in Seq(Component)
           /\ Len(comps) \in Nat
           /\ DOMAIN comps = 1 .. Len(comps)
           /\ \A p \in 1 .. Len(comps) : comps[p] \in Component
           /\ \A p, q \in 1 .. Len(comps) : comps[p] = comps[q] => p = q
  <1>1. /\ comps \in Seq(Component)
        /\ \A p, q \in DOMAIN comps : comps[p] = comps[q] => p = q
    BY DiscoveryAssumption
  <1>2. DOMAIN comps = 1 .. Len(comps) /\ Len(comps) \in Nat
    BY <1>1
  <1> QED
    BY <1>1, <1>2

\* The types and the index bounds, which are inductive only together.
TypeInv == TypeOK /\ IndexInv

LEMMA TypeInit == Init => TypeInv
  <1> SUFFICES ASSUME Init PROVE TypeInv
    OBVIOUS
  <1>1. <<>> \in Discoveries
    BY DEF Discoveries
  <1>2. paramToWatchFor \in Names /\ sRebootStatus \in Statuses
    BY DEF Init, Names, Statuses
  <1>3. pc \in Steps /\ i \in 1 .. (Len(comps) + 1)
    BY DEF Init, Steps
  <1>4. IndexInv
    BY DEF Init, IndexInv, Clearing, Blocked
  <1> QED
    BY <1>1, <1>2, <1>3, <1>4 DEF TypeInv, TypeOK, Init


\* Which index a step of the thread reads is inside the discovered list.
LEMMA Inside ==
    ASSUME TypeInv, pc \in (Clearing \cup Blocked) \ {"Prepare"}
    PROVE  /\ i \in 1 .. Len(comps)
           /\ comps[i] \in Component
           /\ i + 1 \in 1 .. (Len(comps) + 1)
           /\ Len(comps) \in Nat
  <1>1. i \in 1 .. Len(comps) /\ Len(comps) \in Nat
    BY Discovered DEF TypeInv, TypeOK, IndexInv
  <1> QED
    BY <1>1, Discovered DEF TypeInv, TypeOK

\* A remote call, whatever its outcome, leaves what it touches well-typed.
LEMMA SetAllowType ==
    ASSUME TypeOK, NEW c \in Component, NEW value \in BOOLEAN,
           NEW ok \in BOOLEAN, SetAllow(c, value, ok)
    PROVE  /\ allow' \in [Component -> BOOLEAN]
           /\ told' \in [Component -> {"fresh", "unsure", "true", "false"}]
  BY DEF TypeOK, SetAllow

LEMMA SetNotificationType ==
    ASSUME TypeOK, NEW c \in Component, NEW name, NEW value \in BOOLEAN,
           SetNotification(c, name, value)
    PROVE  notify' \in [Component -> BOOLEAN]
  BY DEF TypeOK, SetNotification

\* What the thread writes to the status and to the watched name.
LEMMA Written ==
    /\ \A s \in {"None", "Received", "Checking", "Continue", "Safe",
                "Rebooting"} : Plain(s) \in Statuses
    /\ \A c \in Component : Waiting(c) \in Statuses /\ RowAddress(c) \in Names
  BY DEF Statuses, Names

LEMMA TypeNext == TypeInv /\ [Next]_vars => TypeInv'
  <1> SUFFICES ASSUME TypeInv, [Next]_vars PROVE TypeInv'
    OBVIOUS
  <1> USE DEF TypeInv, TypeOK, IndexInv, Goto, Asked, ReenabledOne, WaitEnds,
  SayContinue, StartOver, Steps, Clearing, Blocked,
  Announced,
              requestVars, loopVars, watchVars, worldVars, busVars, histVars
  <1>1. CASE AwaitBackEnd
    BY <1>1 DEF AwaitBackEnd
  <1>2. CASE AwaitRequest
    BY <1>2, Written DEF AwaitRequest
  <1>3. CASE Discover
    BY <1>3 DEF Discover
  <1>4. CASE Prepare
    BY <1>4 DEF Prepare
  <1>5. CASE FinishPass
    BY <1>5, Written DEF FinishPass
  <1>6. CASE Disable
    <2>1. /\ allow' \in [Component -> BOOLEAN]
          /\ told' \in [Component -> {"fresh", "unsure", "true", "false"}]
      BY <1>6, Inside, SetAllowType DEF Disable
    <2>2. /\ pc' \in {"Disable", "Query", "Prepare"}
          /\ pc' # "Prepare" => i' = i
          /\ i' \in {i, i + 1} /\ comps' = comps
          /\ j' \in Nat /\ skipped' \subseteq Component
      BY <1>6, Inside DEF Disable, SetAllow, RetryOrSkip
    <2> QED
      BY <1>6, <2>1, <2>2, Inside DEF Disable
  <1>7. CASE Query
    BY <1>7, Inside DEF Query, RetryOrSkip
  <1>8. CASE Record
    BY <1>8 DEF Record, RecordAnswer
  <1>9. CASE Test
    BY <1>9, Inside DEF Test
  <1>10. CASE Watch
    BY <1>10, Written, Inside DEF Watch
  <1>11. CASE TurnOn
    <2>1. notify' \in [Component -> BOOLEAN]
      BY <1>11, Inside, SetNotificationType DEF TurnOn
    <2> QED
      BY <1>11, <2>1, Inside DEF TurnOn
  <1>12. CASE Reenable
    <2>1. comps[j] \in Component /\ Waiting(comps[i]) \in Statuses
      BY <1>12, Inside, Discovered, Written DEF Reenable
    <2>2. /\ allow' \in [Component -> BOOLEAN]
          /\ told' \in [Component -> {"fresh", "unsure", "true", "false"}]
      BY <1>12, <2>1, SetAllowType DEF Reenable
    <2>3. pc = "Reenable" /\ i' = i /\ comps' = comps /\ i \in 1 .. Len(comps) /\ j \in 1 .. i
      BY <1>12, Inside DEF Reenable
    <2>4. \/ j < i /\ j' = j + 1 /\ pc' = pc /\ ticks' = ticks
             /\ sRebootStatus' = sRebootStatus
          \/ j' = j /\ pc' = "Wait" /\ ticks' \in LoopCounts
             /\ sRebootStatus' = Waiting(comps[i])
      BY <1>12 DEF Reenable, SetAllow
    <2>5. /\ ticks' \in Nat /\ sRebootStatus' \in Statuses /\ j' \in Nat
          /\ pc' \in {"Reenable", "Wait"}
          /\ pc' = "Reenable" => j' \in 1 .. i
      <3>1. LoopCounts \subseteq Nat
        BY BoundsAssumption
      <3>2. ticks' \in Nat /\ pc' \in {"Reenable", "Wait"}
        BY <2>3, <2>4, <3>1
      <3>3. sRebootStatus' \in Statuses
        BY <2>1, <2>4
      <3>4. j' \in Nat /\ (pc' = "Reenable" => j' \in 1 .. i)
        BY <2>3, <2>4
      <3> QED
        BY <3>2, <3>3, <3>4
    <2> QED
      BY <1>12, <2>2, <2>3, <2>5 DEF Reenable
  <1>13. CASE Wait
    BY <1>13 DEF Wait
  <1>14. CASE WaitOver
    BY <1>14, Written DEF WaitOver
  <1>15. CASE Unwatch
    BY <1>15 DEF Unwatch
  <1>16. CASE TurnOff
    <2>1. notify' \in [Component -> BOOLEAN]
      BY <1>16, Inside, SetNotificationType DEF TurnOff
    <2> QED
      BY <1>16, <2>1, Inside DEF TurnOff
  <1>17. CASE SendSignal
    BY <1>17, BoundsAssumption DEF SendSignal
  <1>18. CASE Grace
    BY <1>18 DEF Grace
  <1>19. CASE GraceOver
    BY <1>19, Written DEF GraceOver
  <1>20. CASE ResetSystem
    BY <1>20 DEF ResetSystem
  <1>21. CASE InitBackEnd
    BY <1>21 DEF InitBackEnd
  <1>22. CASE CommitFlag
    BY <1>22 DEF CommitFlag
  <1>23. CASE CommitStatus
    BY <1>23, Written DEF CommitStatus
  <1>24. CASE Exit
    BY <1>24 DEF Exit
  <1>25. ASSUME NEW c \in Component, ValueChangedCB(c) PROVE TypeInv'
    BY <1>25 DEF ValueChangedCB
  <1>26. ASSUME NEW c \in Component, BeginEvent(c) PROVE TypeInv'
    BY <1>26 DEF BeginEvent
  <1>27. ASSUME NEW c \in Component, EndEvent(c) PROVE TypeInv'
    BY <1>27 DEF EndEvent
  <1>28. ASSUME NEW c \in Component, Die(c) PROVE TypeInv'
    BY <1>28 DEF Die
  <1>29. ASSUME NEW c \in Component, Restart(c) PROVE TypeInv'
    BY <1>29 DEF Restart
  <1>30. CASE Done \/ UNCHANGED vars
    BY <1>30 DEF Done, vars
  <1> QED
    BY <1>1, <1>2, <1>3, <1>4, <1>5, <1>6, <1>7, <1>8, <1>9, <1>10, <1>11,
        <1>12, <1>13, <1>14, <1>15, <1>16, <1>17, <1>18, <1>19, <1>20, <1>21,
        <1>22, <1>23, <1>24, <1>25, <1>26, <1>27, <1>28, <1>29, <1>30
    DEF Next, Monitor, Environment

\* Type correctness: whatever the calls, the callbacks and the components do,
\* the thread indexes its arrays inside the components it discovered.
THEOREM TypeCorrect == Spec => [](TypeOK /\ IndexInv)
  <1>1. Spec => []TypeInv
    BY TypeInit, TypeNext, PTL DEF Spec
  <1> QED
    BY <1>1, PTL DEF TypeInv

-----------------------------------------------------------------------------
(* What a step can do to a position that is cleared.                        *)

\* Nothing changes that Cleared looks at.
LEMMA ClearedFrame ==
    ASSUME NEW p, UNCHANGED <<comps, allow, busy, told, skipped>>
    PROVE  Cleared(p)' = Cleared(p)
  BY DEF Cleared, Excused, Quiet

\* No component can undo what the thread established about it but by
\* restarting, and then it is excused.
LEMMA ClearedByWorld ==
    ASSUME TypeInv, NEW c \in Component, NEW p \in 1 .. Len(comps), Cleared(p),
           BeginEvent(c) \/ EndEvent(c) \/ Die(c) \/ Restart(c)
    PROVE  Cleared(p)'
  <1>1. comps[p] \in Component /\ comps' = comps /\ skipped' = skipped
    BY Discovered DEF TypeInv, TypeOK, BeginEvent, EndEvent, Die, Restart,
                      loopVars, histVars
  <1>2. CASE BeginEvent(c)
    BY <1>1, <1>2
    DEF BeginEvent, Cleared, Excused, Quiet, TypeInv, TypeOK, histVars
  <1>3. CASE EndEvent(c)
    BY <1>1, <1>3 DEF EndEvent, Cleared, Excused, Quiet, TypeInv, TypeOK,
        histVars
  <1>4. CASE Die(c)
    BY <1>1, <1>4 DEF Die, Cleared, Excused, Quiet, TypeInv, TypeOK, histVars
  <1>5. CASE Restart(c)
    BY <1>1, <1>5 DEF Restart, Cleared, Excused, Quiet, TypeInv, TypeOK
  <1> QED
    BY <1>2, <1>3, <1>4, <1>5

\* Telling one component what to do leaves the other positions alone, since no
\* component is at two of them.
LEMMA ClearedBySetAllow ==
    ASSUME TypeInv, NEW p \in 1 .. Len(comps), NEW q \in 1 .. Len(comps), p # q,
           NEW value \in BOOLEAN, NEW ok \in BOOLEAN,
           SetAllow(comps[q], value, ok), Cleared(p),
           comps' = comps, busy' = busy, skipped \subseteq skipped'
    PROVE  Cleared(p)'
  <1>1. comps[p] \in Component /\ comps[q] \in Component /\ comps[p] # comps[q]
    BY Discovered DEF TypeInv, TypeOK
  <1>2. allow'[comps[p]] = allow[comps[p]] /\ told'[comps[p]] = told[comps[p]]
    BY <1>1 DEF SetAllow, TypeInv, TypeOK
  <1> QED
    BY <1>1, <1>2 DEF Cleared, Excused, Quiet

-----------------------------------------------------------------------------
(* The parts of the safety invariant.                                       *)

LEMMA SafetyInit == Init => SafetyInv
  <1> SUFFICES ASSUME Init PROVE SafetyInv
    OBVIOUS
  <1>1. TypeInv
    BY TypeInit
  <1>2. OrdersHold
    BY DEF Init, OrdersHold
  <1>3. NothingMatches
    BY NamesDiffer DEF Init, NothingMatches
  <1>4. VisitInv /\ SafeToReset
    BY DEF Init, VisitInv, SafeToReset, Clearing, Announced
  <1> QED
    BY <1>1, <1>2, <1>3, <1>4 DEF SafetyInv, TypeInv

LEMMA OrdersHoldNext == TypeInv /\ OrdersHold /\ [Next]_vars => OrdersHold'
  <1> SUFFICES ASSUME TypeInv, OrdersHold, [Next]_vars PROVE OrdersHold'
    OBVIOUS
  <1> USE DEF TypeInv, TypeOK, OrdersHold, worldVars, histVars
  <1>1. ASSUME NEW c \in Component, NEW value \in BOOLEAN, NEW ok \in BOOLEAN,
               SetAllow(c, value, ok)
        PROVE  OrdersHold'
    BY <1>1 DEF SetAllow
  <1>2. CASE Disable
    BY <1>1, <1>2, Inside DEF Disable, Clearing
  <1>3. CASE Reenable
    <2>1. comps[j] \in Component
      BY <1>3, Inside, Discovered DEF Reenable, IndexInv, Blocked
    <2> QED
      BY <1>1, <1>3, <2>1 DEF Reenable, ReenabledOne
  <1>4. ASSUME NEW c \in Component, Restart(c) PROVE OrdersHold'
    BY <1>4 DEF Restart
  <1>5. ASSUME NEW c \in Component,
               ValueChangedCB(c) \/ BeginEvent(c) \/ EndEvent(c) \/ Die(c)
        PROVE  OrdersHold'
    BY <1>5 DEF ValueChangedCB, BeginEvent, EndEvent, Die
  <1>6. CASE UNCHANGED <<allow, told>>
    BY <1>6
  <1>7. CASE UNCHANGED vars
    BY <1>7 DEF vars
  <1> QED
    BY <1>2, <1>3, <1>4, <1>5, <1>6, <1>7
    DEF Next, Monitor, Environment, AwaitBackEnd, AwaitRequest, Discover,
        Prepare, FinishPass, Query, Record, Test, Watch, TurnOn, Wait,
        WaitOver, Unwatch, TurnOff, SendSignal, Grace, GraceOver, ResetSystem,
        InitBackEnd, CommitFlag, CommitStatus, Exit, Done

LEMMA NothingMatchesNext ==
    TypeInv /\ NothingMatches /\ [Next]_vars => NothingMatches'
  <1> SUFFICES ASSUME TypeInv, NothingMatches, [Next]_vars PROVE NothingMatches'
    OBVIOUS
  <1>1. CASE Watch
    <2>1. comps[i] \in Component /\ paramToWatchFor' = RowAddress(comps[i])
      BY <1>1, Inside DEF Watch, Blocked
    <2> QED
      BY <2>1, NamesDiffer DEF NothingMatches
  <1>2. CASE UNCHANGED paramToWatchFor
    BY <1>2 DEF NothingMatches
  <1>3. CASE ~Watch
    BY <1>2, <1>3
    DEF Next, Monitor, Environment, watchVars, vars, AwaitBackEnd,
        AwaitRequest, Discover, Prepare, FinishPass, Query, Record, Test,
        TurnOn, Wait, WaitOver, Unwatch, TurnOff, SendSignal, Grace, GraceOver,
        ResetSystem, InitBackEnd, CommitFlag, CommitStatus, Exit, Done,
       Disable, Reenable, ValueChangedCB, BeginEvent, EndEvent, Die, Restart
  <1> QED
    BY <1>1, <1>3

\* The step that matters: what a pass has established about the positions it
\* has visited survives every step but the one that starts a new pass.
LEMMA VisitNext ==
    TypeInv /\ OrdersHold /\ NothingMatches /\ VisitInv /\ SafeToReset /\ [Next]_vars
        => VisitInv' /\ SafeToReset'
  <1> SUFFICES ASSUME TypeInv, OrdersHold, NothingMatches, VisitInv, SafeToReset,
                      [Next]_vars
               PROVE  VisitInv' /\ SafeToReset'
    OBVIOUS
  <1> USE DEF loopVars, worldVars, histVars
  <1>0. /\ DOMAIN comps = 1 .. Len(comps) /\ Len(comps) \in Nat
        /\ i \in 1 .. (Len(comps) + 1)
    BY Discovered DEF TypeInv, TypeOK
  \* A step to where nothing is claimed: a wait, an exit, the steps before a pass.
  <1>1. ASSUME pc' \notin Clearing \cup Announced PROVE VisitInv' /\ SafeToReset'
    BY <1>1 DEF VisitInv, SafeToReset, Clearing, Announced
  <1>2. ASSUME pc' = "Prepare", i' = 1 PROVE VisitInv' /\ SafeToReset'
    BY <1>2 DEF VisitInv, SafeToReset, Clearing, Announced
  <1>3. CASE Prepare
    <2>1. \A p \in 1 .. (i - 1) : Cleared(p)'
      BY <1>3, ClearedFrame DEF Prepare, VisitInv, Clearing
    <2>2. CASE pc' = "Disable"
      BY <1>3, <2>1, <2>2 DEF Prepare, VisitInv, SafeToReset, Clearing,
          Announced
    <2>3. CASE pc' = "Exited"
      BY <1>1, <2>3 DEF Clearing, Announced
    <2> QED
      BY <1>3, <2>2, <2>3 DEF Prepare, Goto
  <1>4. CASE FinishPass
    <2>1. \A p \in DOMAIN comps' : Cleared(p)'
      BY <1>0, <1>4, ClearedFrame DEF FinishPass, VisitInv, Clearing
    <2> QED
      BY <1>4, <2>1 DEF FinishPass, Goto, VisitInv, SafeToReset, Clearing
  <1>5. CASE Disable
    <2>1. i \in 1 .. Len(comps) /\ comps[i] \in Component /\ pc = "Disable"
      BY <1>5, Inside DEF Disable, Clearing
    <2>2. /\ comps' = comps /\ busy' = busy /\ skipped \subseteq skipped'
          /\ SetAllow(comps[i], FALSE, TRUE) \/ SetAllow(comps[i], FALSE, FALSE)
      BY <1>5 DEF Disable, RetryOrSkip
    <2>3. \A p \in 1 .. (i - 1) : Cleared(p)'
      <3>1. TAKE p \in 1 .. (i - 1)
      <3>2. p \in 1 .. Len(comps) /\ p # i /\ Cleared(p)
        BY <2>1, <1>0 DEF VisitInv, Clearing
      <3> QED
        BY <2>1, <2>2, <3>2, ClearedBySetAllow
    <2>4. CASE SetAllow(comps[i], FALSE, TRUE) /\ pc' = "Query" /\ i' = i
      BY <2>1, <2>2, <2>3, <2>4
      DEF SetAllow, VisitInv, SafeToReset, Clearing, Announced, TypeInv, TypeOK
    <2>5. CASE pc' = "Disable" /\ i' = i
      BY <2>3, <2>5 DEF VisitInv, SafeToReset, Clearing, Announced
    <2>6. CASE pc' = "Prepare" /\ i' = i + 1 /\ skipped' = skipped \cup {comps[i]}
      <3>1. ASSUME NEW p \in 1 .. i PROVE Cleared(p)'
        <4>1. CASE p = i
          BY <2>2, <2>6, <4>1 DEF Cleared, Excused
        <4>2. CASE p # i
          BY <2>1, <2>3, <4>2
        <4> QED
          BY <4>1, <4>2
      <3>2. \A p \in 1 .. (i' - 1) : Cleared(p)'
        BY <2>1, <2>6, <3>1
      <3> QED
        BY <2>6, <3>2 DEF VisitInv, SafeToReset, Clearing, Announced
    <2> QED
      BY <1>5, <2>1, <2>4, <2>5, <2>6 DEF Disable, RetryOrSkip, Goto
  <1>6. CASE Query
    <2>1. i \in 1 .. Len(comps) /\ comps[i] \in Component /\ pc = "Query"
      BY <1>6, Inside DEF Query, Clearing
    <2>2. comps' = comps /\ skipped \subseteq skipped'
          /\ UNCHANGED <<allow, busy, told>>
      BY <1>6 DEF Query, RetryOrSkip
    <2>3. \A p \in 1 .. (i - 1) : Cleared(p)'
      BY <2>1, <2>2 DEF VisitInv, Clearing, Cleared, Excused, Quiet
    <2>4. CASE answer' = busy[comps[i]] /\ pc' = "Record" /\ i' = i
      <3>1. told[comps[i]] = "fresh" \/ ~allow[comps[i]]
        BY <2>1 DEF VisitInv, OrdersHold
      <3>2. answer' \/ Cleared(i)'
        BY <2>2, <2>4, <3>1 DEF Cleared, Excused, Quiet
      <3> QED
        BY <2>3, <2>4, <3>2 DEF VisitInv, SafeToReset, Clearing, Announced
    <2>5. CASE pc' = "Query" /\ i' = i
      BY <2>1, <2>2, <2>3, <2>5 DEF VisitInv, SafeToReset, Clearing, Announced
    <2>6. CASE pc' = "Prepare" /\ i' = i + 1 /\ skipped' = skipped \cup {comps[i]}
      <3>1. ASSUME NEW p \in 1 .. i PROVE Cleared(p)'
        <4>1. CASE p = i
          BY <2>2, <2>6, <4>1 DEF Cleared, Excused
        <4>2. CASE p # i
          BY <2>1, <2>3, <4>2
        <4> QED
          BY <4>1, <4>2
      <3>2. \A p \in 1 .. (i' - 1) : Cleared(p)'
        BY <2>1, <2>6, <3>1
      <3> QED
        BY <2>6, <3>2 DEF VisitInv, SafeToReset, Clearing, Announced
    <2> QED
      BY <1>6, <2>1, <2>4, <2>5, <2>6 DEF Query, RetryOrSkip, Goto
  <1>7. CASE Record
    <2>1. pc = "Record" /\ (answer \/ Cleared(i))
      BY <1>7 DEF Record, RecordAnswer, VisitInv
    <2>2. \A p \in 1 .. i : Cleared(p)' = Cleared(p)
      BY <1>7, ClearedFrame DEF Record, RecordAnswer
    <2>3. /\ pc' = "Test" /\ i' = i /\ bOngingCriticalEvent' = answer
          /\ pc = "Record" /\ i \in 1 .. Len(comps)
      BY <1>7, Inside DEF Record, RecordAnswer, Goto, Clearing
    <2>4. \A p \in 1 .. (i - 1) : Cleared(p)'
      BY <2>2, <2>3 DEF VisitInv, Clearing
    <2>5. answer \/ Cleared(i)'
      BY <1>7, <2>2, <2>3 DEF VisitInv
    <2> QED
      BY <2>3, <2>4, <2>5 DEF VisitInv, SafeToReset, Clearing, Announced
  <1>8. CASE Test
    <2>1. pc = "Test" /\ i \in 1 .. Len(comps) /\ comps' = comps
      BY <1>8, Inside DEF Test, Clearing
    <2>2. CASE ~bOngingCriticalEvent /\ i' = i + 1 /\ pc' = "Prepare"
      <3>1. \A p \in 1 .. i : Cleared(p)
        BY <2>1, <2>2 DEF VisitInv, Clearing
      <3>2. \A p \in 1 .. i : Cleared(p)'
        BY <1>8, <3>1, ClearedFrame DEF Test
      <3> QED
        BY <2>1, <2>2, <3>2 DEF VisitInv, SafeToReset, Clearing, Announced
    <2>3. CASE pc' = "Watch"
      BY <1>1, <2>3 DEF Clearing, Announced
    <2> QED
      BY <1>8, <2>2, <2>3 DEF Test, Goto
  \* After the last pass the thread only moves on, and nobody else disturbs it.
  <1>9. CASE SendSignal \/ Grace \/ GraceOver \/ ResetSystem
    <2>1. pc \in Announced /\ pc' \in Announced
      BY <1>9 DEF SendSignal, Grace, GraceOver, ResetSystem, Goto, Announced
    <2>2. \A p \in DOMAIN comps' : Cleared(p)'
      BY <1>9, <2>1, ClearedFrame
      DEF SendSignal, Grace, GraceOver, ResetSystem, SafeToReset
    <2> QED
      BY <2>1, <2>2 DEF VisitInv, SafeToReset, Clearing, Announced
  <1>10. CASE Watch \/ TurnOn \/ Reenable \/ Wait \/ WaitOver \/ Unwatch
              \/ AwaitBackEnd \/ AwaitRequest \/ Exit
    <2>1. pc' \notin Clearing \cup Announced
      BY <1>10 DEF Watch, TurnOn, Reenable, Wait, WaitOver, Unwatch,
          AwaitBackEnd,
                   AwaitRequest, Exit, Goto, Clearing, Announced
    <2> QED
      BY <1>1, <2>1
  <1>11. CASE Discover \/ TurnOff
    BY <1>2, <1>11 DEF Discover, TurnOff, StartOver, Goto
  <1>12. ASSUME UNCHANGED <<pc, i, comps, answer, bOngingCriticalEvent, allow,
                            busy, told, skipped>>
         PROVE  VisitInv' /\ SafeToReset'
    BY <1>12 DEF VisitInv, SafeToReset, Cleared, Excused, Quiet
  <1>13. CASE InitBackEnd \/ CommitFlag \/ CommitStatus \/ Done \/ UNCHANGED vars
    BY <1>12, <1>13
    DEF InitBackEnd, CommitFlag, CommitStatus, Done, vars, watchVars
  <1>14. ASSUME NEW c \in Component, ValueChangedCB(c)
         PROVE  VisitInv' /\ SafeToReset'
    BY <1>12, <1>14 DEF ValueChangedCB, NothingMatches, TypeInv, TypeOK
  <1>15. ASSUME NEW c \in Component,
                BeginEvent(c) \/ EndEvent(c) \/ Die(c) \/ Restart(c)
         PROVE  VisitInv' /\ SafeToReset'
    <2>1. /\ UNCHANGED <<pc, i, comps, answer, bOngingCriticalEvent, skipped>>
          /\ \A d \in Component : told'[d] \in {told[d], "fresh"}
      BY <1>15 DEF BeginEvent, EndEvent, Die, Restart, watchVars, TypeInv,
          TypeOK
    <2>2. \A p \in 1 .. Len(comps) : Cleared(p) => Cleared(p)'
      BY <1>15, ClearedByWorld
    <2>3. pc \in Clearing \ {"Prepare"} => i \in 1 .. Len(comps)
                                           /\ comps[i] \in Component
      BY Inside
    <2>4. SafeToReset'
      BY <1>0, <2>1, <2>2 DEF SafeToReset
    <2>5. pc' \in Clearing => \A p \in 1 .. (i' - 1) : Cleared(p)'
      BY <1>0, <2>1, <2>2 DEF VisitInv
    <2>6. /\ pc' = "Query" => told'[comps'[i']] \in {"false", "fresh"}
          /\ pc' = "Record" => answer' \/ Cleared(i)'
          /\ pc' = "Test" => bOngingCriticalEvent' \/ Cleared(i)'
      <3>1. pc \in Clearing \ {"Prepare"} /\ Cleared(i) => Cleared(i)'
        <4>1. ASSUME NEW p \in 1 .. Len(comps), p = i, Cleared(p)
              PROVE  Cleared(i)'
          BY <2>1, <2>2, <4>1
        <4> QED
          BY <2>3, <4>1
      <3> QED
        BY <2>1, <2>3, <3>1 DEF VisitInv, Clearing
    <2> QED
      BY <2>4, <2>5, <2>6 DEF VisitInv
  <1> QED
    BY <1>3, <1>4, <1>5, <1>6, <1>7, <1>8, <1>9, <1>10, <1>11, <1>13, <1>14,
        <1>15
    DEF Next, Monitor, Environment

THEOREM SafetyInvariant == Spec => []SafetyInv
  <1>1. SafetyInv /\ [Next]_vars => SafetyInv'
    BY TypeNext, OrdersHoldNext, NothingMatchesNext, VisitNext
    DEF SafetyInv, TypeInv
  <1> QED
    BY SafetyInit, <1>1, PTL DEF Spec

\* For any components and timers, the reset is announced, and carried out, only
\* while every component found, and not lost sight of, is idle and disabled.
THEOREM ResetIsSafe == Spec => []SafeToReset
  <1>1. SafetyInv => SafeToReset
    BY DEF SafetyInv
  <1> QED
    BY SafetyInvariant, <1>1, PTL

-----------------------------------------------------------------------------
(* What the thread tells: to the components while it waits, and in the      *)
(* status it reports.                                                       *)

\* The loop over j has told, or told in vain, every position behind it.
ReenableInv ==
    /\ pc = "Reenable" => \A p \in 1 .. (j - 1) : told[comps[p]] # "false"
    /\ pc = "Wait" => \A p \in 1 .. i : told[comps[p]] # "false"

LEMMA ReenableNext ==
    ASSUME TypeInv, TypeInv', ReenableInv, [Next]_vars
    PROVE  ReenableInv'
  <1> USE DEF loopVars, worldVars, histVars
  <1>1. ASSUME pc' \notin {"Reenable", "Wait"}
        PROVE  ReenableInv'
    BY <1>1 DEF ReenableInv
  <1>2. ASSUME UNCHANGED <<pc, i, j, comps, told>>
        PROVE  ReenableInv'
    BY <1>2 DEF ReenableInv
  <1>3. CASE TurnOn
    BY <1>3 DEF TurnOn, Goto, ReenableInv
  <1>4. CASE Reenable
    <2>1. /\ pc = "Reenable" /\ i \in 1 .. Len(comps) /\ j \in 1 .. i
          /\ Len(comps) \in Nat
          /\ UNCHANGED <<i, comps>>
      BY <1>4, Inside DEF Reenable, TypeInv, IndexInv, Blocked
    <2>2. /\ \A p \in 1 .. Len(comps) : comps[p] \in Component
          /\ \A p, q \in 1 .. Len(comps) : comps[p] = comps[q] => p = q
          /\ told \in [Component -> {"fresh", "unsure", "true", "false"}]
      BY Discovered DEF TypeInv, TypeOK
    <2>3. PICK ok \in BOOLEAN : SetAllow(comps[j], TRUE, ok)
      BY <1>4 DEF Reenable, ReenabledOne
    <2>4. \A p \in 1 .. j : told'[comps[p]] # "false"
      <3>1. told'[comps[j]] # "false"
        BY <2>1, <2>2, <2>3 DEF SetAllow
      <3>2. ASSUME NEW p \in 1 .. (j - 1)
            PROVE  told'[comps[p]] # "false"
        <4>1. p \in 1 .. Len(comps) /\ j \in 1 .. Len(comps) /\ p # j
          BY <2>1
        <4>2. told'[comps[p]] = told[comps[p]]
          BY <2>2, <2>3, <4>1 DEF SetAllow
        <4> QED
          BY <2>1, <4>2 DEF ReenableInv
      <3>3. ASSUME NEW p \in 1 .. j
            PROVE  p = j \/ p \in 1 .. (j - 1)
        BY <2>1
      <3> QED
        BY <3>1, <3>2, <3>3
    <2>5. \/ pc' = "Reenable" /\ j' = j + 1
          \/ pc' = "Wait" /\ j = i
      BY <1>4, <2>1 DEF Reenable, Goto
    <2> QED
      BY <2>1, <2>4, <2>5 DEF ReenableInv
  <1>5. CASE Wait
    BY <1>2, <1>5 DEF Wait
  <1>6. ASSUME NEW c \in Component, Restart(c)
        PROVE  ReenableInv'
    <2>1. /\ UNCHANGED <<pc, i, j, comps>>
          /\ \A d \in Component : told'[d] \in {told[d], "fresh"}
      BY <1>6 DEF Restart, TypeInv, TypeOK
    <2>2. /\ \A p \in 1 .. Len(comps) : comps[p] \in Component
          /\ Len(comps) \in Nat
      BY Discovered DEF TypeInv, TypeOK
    <2>3. pc \in {"Reenable", "Wait"} => i \in 1 .. Len(comps)
      BY Inside DEF Blocked
    <2>4. pc = "Reenable" => j \in 1 .. i
      BY DEF TypeInv, IndexInv
    <2> QED
      BY <2>1, <2>2, <2>3, <2>4 DEF ReenableInv
  <1>7. ASSUME NEW c \in Component,
               ValueChangedCB(c) \/ BeginEvent(c) \/ EndEvent(c) \/ Die(c)
        PROVE  ReenableInv'
    BY <1>2, <1>7 DEF ValueChangedCB, BeginEvent, EndEvent, Die
  <1>8. CASE InitBackEnd \/ CommitFlag \/ CommitStatus \/ Done
               \/ UNCHANGED vars
    BY <1>2, <1>8 DEF InitBackEnd, CommitFlag, CommitStatus, Done, vars
  <1>9. CASE Disable \/ Query
    BY <1>1, <1>9 DEF Disable, Query, RetryOrSkip, Goto
  <1>10. CASE \/ AwaitBackEnd \/ AwaitRequest \/ Discover \/ Prepare
              \/ FinishPass \/ Record \/ Test \/ Watch \/ WaitOver
              \/ Unwatch \/ TurnOff \/ SendSignal \/ Grace \/ GraceOver
              \/ ResetSystem \/ Exit
    BY <1>1, <1>10
    DEF AwaitBackEnd, AwaitRequest, Discover, Prepare, FinishPass, Record,
        Test, Watch, WaitOver, Unwatch, TurnOff, SendSignal, Grace, GraceOver,
        ResetSystem, Exit, Goto
  <1> QED
    BY <1>3, <1>4, <1>5, <1>6, <1>7, <1>8, <1>9, <1>10
    DEF Next, Monitor, Environment

\* While the thread waits, no component it visited still stands by an answered
\* order to refuse events.
THEOREM WaitLetsEventsBegin == Spec => []ReenabledWhileWaiting
  <1>1. Init => ReenableInv
    BY DEF Init, ReenableInv
  <1>2. ReenableInv => ReenabledWhileWaiting
    BY DEF ReenableInv, ReenabledWhileWaiting
  <1>3. Spec => []TypeInv
    BY TypeCorrect, PTL DEF TypeInv
  <1>4. TypeInv /\ TypeInv' /\ ReenableInv /\ [Next]_vars => ReenableInv'
    BY ReenableNext
  <1> QED
    BY <1>1, <1>2, <1>3, <1>4, PTL DEF Spec

\* Where the thread is while a status that claims something is reported.
StatusInv ==
    /\ sRebootStatus \in {Plain("Safe"), Plain("Rebooting")}
          => pc \in Announced \cup {"Exited"}
    /\ \A c \in Component : sRebootStatus = Waiting(c)
          => pc = "Exited" \/ (pc = "Wait" /\ comps[i] = c)

LEMMA StatusesDiffer ==
    ASSUME NEW c \in Component, NEW d \in Component
    PROVE  /\ \A text \in {"None", "Checking", "Continue", "Received", "Safe",
                            "Rebooting"} : Plain(text) # Waiting(c)
           /\ Waiting(c) = Waiting(d) => c = d
  BY DEF Plain, Waiting

LEMMA StatusNext ==
    ASSUME TypeInv, StatusInv, [Next]_vars
    PROVE  StatusInv'
  <1> USE DEF loopVars, Announced
  <1>1. ASSUME NEW text \in {"Checking", "Continue", "Received"},
               sRebootStatus' = Plain(text)
        PROVE  StatusInv'
    <2>1. Plain(text) \notin {Plain("Safe"), Plain("Rebooting")}
      BY DEF Plain
    <2> QED
      BY <1>1, <2>1, StatusesDiffer DEF StatusInv
  <1>2. ASSUME NEW text \in {"Safe", "Rebooting"},
               sRebootStatus' = Plain(text), pc' \in Announced
        PROVE  StatusInv'
    BY <1>2, StatusesDiffer DEF StatusInv
  <1>3. ASSUME UNCHANGED <<sRebootStatus, pc, comps, i>>
        PROVE  StatusInv'
    BY <1>3 DEF StatusInv
  <1>4. ASSUME pc' = "Exited"
        PROVE  StatusInv'
    BY <1>4 DEF StatusInv
  <1>5. ASSUME UNCHANGED sRebootStatus,
               pc \notin Announced \cup {"Wait", "Exited"}
        PROVE  StatusInv'
    BY <1>5 DEF StatusInv
  <1>6. CASE AwaitRequest \/ WaitOver \/ CommitStatus
    BY <1>1, <1>6 DEF AwaitRequest, WaitOver, SayContinue, CommitStatus
  <1>7. CASE FinishPass \/ GraceOver
    BY <1>2, <1>7 DEF FinishPass, GraceOver, Goto
  <1>8. CASE Reenable
    <2>1. CASE sRebootStatus' = Waiting(comps[i]) /\ pc' = "Wait"
      <3>1. comps[i] \in Component /\ UNCHANGED <<comps, i>>
        BY <1>8, Inside DEF Reenable, Blocked
      <3>2. Waiting(comps[i]) \notin {Plain("Safe"), Plain("Rebooting")}
        BY <3>1, StatusesDiffer
      <3> QED
        BY <2>1, <3>1, <3>2, StatusesDiffer DEF StatusInv
    <2>2. CASE UNCHANGED sRebootStatus
      BY <1>5, <1>8, <2>2 DEF Reenable
    <2> QED
      BY <1>8, <2>1, <2>2 DEF Reenable, Goto
  <1>9. CASE SendSignal \/ Grace \/ ResetSystem
    <2>1. pc \in Announced /\ pc' \in Announced /\ UNCHANGED sRebootStatus
          /\ pc # "Wait" /\ pc # "Exited"
      BY <1>9 DEF SendSignal, Grace, ResetSystem, Goto
    <2> QED
      BY <2>1 DEF StatusInv
  <1>10. CASE Prepare \/ Exit
    BY <1>4, <1>5, <1>10 DEF Prepare, Exit, Goto
  <1>11. CASE Wait \/ InitBackEnd \/ CommitFlag \/ Done \/ UNCHANGED vars
    BY <1>3, <1>11 DEF Wait, InitBackEnd, CommitFlag, Done, vars
  <1>12. ASSUME NEW c \in Component,
                \/ ValueChangedCB(c) \/ BeginEvent(c) \/ EndEvent(c)
                \/ Die(c) \/ Restart(c)
         PROVE  StatusInv'
    BY <1>3, <1>12
    DEF ValueChangedCB, BeginEvent, EndEvent, Die, Restart
  <1>13. CASE \/ AwaitBackEnd \/ Discover \/ Disable \/ Query \/ Record
              \/ Test \/ Watch \/ TurnOn \/ Unwatch \/ TurnOff
    BY <1>5, <1>13
    DEF AwaitBackEnd, Discover, Disable, Query, Record, Test, Watch, TurnOn,
        Unwatch, TurnOff
  <1> QED
    BY <1>6, <1>7, <1>8, <1>9, <1>10, <1>11, <1>12, <1>13
    DEF Next, Monitor, Environment

\* The status never claims more than is the case, whichever thread wrote it.
THEOREM StatusHonest == Spec => []StatusIsHonest
  <1>1. Init => StatusInv
    BY StatusesDiffer DEF Init, StatusInv, Plain
  <1>2. StatusInv /\ SafetyInv => StatusIsHonest
    BY DEF StatusInv, SafetyInv, SafeToReset, StatusIsHonest
  <1>3. Spec => []TypeInv
    BY TypeCorrect, PTL DEF TypeInv
  <1>4. TypeInv /\ StatusInv /\ [Next]_vars => StatusInv'
    BY StatusNext
  <1> QED
    BY <1>1, <1>2, <1>3, <1>4, SafetyInvariant, PTL DEF Spec

-----------------------------------------------------------------------------
(* Refinement.                                                              *)

LEMMA HoldersFrame ==
    ASSUME UNCHANGED <<comps, allow, busy, told, skipped>>
    PROVE  Holders' = Holders
  BY DEF Holders, Cleared, Excused, Quiet

\* Nobody holds the reboot back before the discovery and after the announcement.
LEMMA NoHolders ==
    ASSUME SafetyInv, pc \in Announced \cup {"AwaitBackEnd", "AwaitRequest"}
    PROVE  Holders = {}
  <1>1. CASE pc \in Announced
    BY <1>1 DEF SafetyInv, SafeToReset, Holders
  <1>2. CASE pc \in {"AwaitBackEnd", "AwaitRequest"}
    <2>1. DOMAIN comps = {}
      BY <1>2 DEF SafetyInv, IndexInv
    <2> QED
      BY <2>1 DEF Holders
  <1> QED
    BY <1>1, <1>2

LEMMA ContractInit == Init => Contract!Init
  <1> SUFFICES ASSUME Init PROVE Contract!Init
    OBVIOUS
  <1>1. Holders = {}
    BY SafetyInit, NoHolders DEF Init
  <1>2. Phase = "idle"
    BY DEF Init, Phase, Clearing, Blocked
  <1> QED
    BY <1>1, <1>2 DEF Init, Contract!Init

\* Inside the decision anything may become of the holders.
LEMMA Deciding ==
    ASSUME SafetyInv', UNCHANGED bRebootEnabled, Phase = "deciding",
           Phase' = "deciding"
    PROVE  Contract!Next
  <1>1. Holders' \in SUBSET Component
    <2>1. \A p \in DOMAIN comps' : comps'[p] \in Component
      BY DiscoveryAssumption DEF SafetyInv, TypeOK
    <2> QED
      BY <2>1 DEF Holders
  <1> QED
    BY <1>1 DEF Contract!Next, Contract!Decide

LEMMA ContractNext ==
    SafetyInv /\ SafetyInv' /\ [Next]_vars => [Contract!Next]_(Contract!vars)
  <1> SUFFICES ASSUME SafetyInv, SafetyInv', [Next]_vars
               PROVE  [Contract!Next]_(Contract!vars)
    OBVIOUS
  <1> USE DEF requestVars, loopVars, watchVars, worldVars, busVars, histVars,
  Goto
  \* A step that changes nothing the contract speaks of.
  <1>1. ASSUME UNCHANGED <<bRebootEnabled, Phase, Holders>>
        PROVE  [Contract!Next]_(Contract!vars)
    BY <1>1 DEF Contract!vars
  <1>2. ASSUME UNCHANGED <<bRebootEnabled, pc, comps, allow, busy, told, skipped>>
        PROVE  [Contract!Next]_(Contract!vars)
    BY <1>1, <1>2, HoldersFrame DEF Phase
  <1>3. CASE AwaitRequest
    <2>1. Holders' = Holders
      BY <1>3, HoldersFrame DEF AwaitRequest
    <2>2. Contract!Begin
      BY <1>3, <2>1 DEF AwaitRequest, Asked, Phase, Clearing, Blocked,
          Contract!Begin
    <2> QED
      BY <2>2 DEF Contract!Next
  <1>4. CASE FinishPass
    <2>1. Holders' = Holders
      BY <1>4, HoldersFrame DEF FinishPass
    <2>2. Holders' = {}
      BY <1>4 DEF FinishPass, Announced, SafetyInv, SafeToReset, Holders
    <2>3. Contract!Announce
      BY <1>4, <2>1, <2>2 DEF FinishPass, Phase, Clearing, Blocked,
          Contract!Announce
    <2> QED
      BY <2>3 DEF Contract!Next
  <1>5. CASE ResetSystem \/ (SendSignal /\ pc' = "GaveUp")
    <2>1. Holders' = Holders
      BY <1>5, HoldersFrame DEF ResetSystem, SendSignal
    <2>2. Contract!Conclude
      BY <1>5, <2>1
      DEF ResetSystem, SendSignal, Phase, Clearing, Blocked, Contract!Conclude
    <2> QED
      BY <2>2 DEF Contract!Next
  <1>6. CASE Exit \/ (Prepare /\ pc' = "Exited")
    <2>1. Holders' = Holders
      BY <1>6, HoldersFrame DEF Exit, Prepare
    <2>2. Contract!Quit
      BY <1>6, <2>1
      DEF Exit, Prepare, Alive, Phase, Clearing, Blocked, SafetyInv, TypeOK,
          Steps,
          Announced, Contract!Quit
    <2> QED
      BY <2>2 DEF Contract!Next
  <1>7. CASE CommitFlag
    <2>1. Holders' = Holders /\ Phase' = Phase
      BY <1>7, HoldersFrame DEF CommitFlag, Phase
    <2>2. Contract!Request
      BY <1>7, <2>1 DEF CommitFlag, Contract!Request
    <2> QED
      BY <2>2 DEF Contract!Next
  <1>8. CASE Discover \/ (Prepare /\ pc' = "Disable") \/ Disable \/ Query \/ Record
             \/ Test \/ Watch \/ TurnOn \/ Reenable \/ Wait \/ WaitOver \/ Unwatch
             \/ TurnOff
    <2>1. /\ UNCHANGED bRebootEnabled
          /\ pc \in {"Discover"} \cup Clearing \cup Blocked
          /\ pc' \in Clearing \cup Blocked
      BY <1>8 DEF Discover, Prepare, Disable, Query, RetryOrSkip, Record,
          Test, Watch,
                  TurnOn, Reenable, Wait, WaitOver, Unwatch, TurnOff,
                  Clearing, Blocked
    <2>2. Phase = "deciding" /\ Phase' = "deciding"
      BY <2>1 DEF Phase, Clearing, Blocked
    <2> QED
      BY <2>1, <2>2, Deciding
  <1>9. CASE AwaitBackEnd \/ (SendSignal /\ pc' = "Grace") \/ GraceOver
    <2>1. UNCHANGED <<bRebootEnabled, Phase, Holders>>
      BY <1>9, HoldersFrame
      DEF AwaitBackEnd, SendSignal, GraceOver, Phase, Clearing, Blocked
    <2> QED
      BY <1>1, <2>1
  <1>10. CASE Grace \/ InitBackEnd \/ CommitStatus \/ Done \/ UNCHANGED vars
    BY <1>2, <1>10 DEF Grace, InitBackEnd, CommitStatus, Done, vars
  <1>11. ASSUME NEW c \in Component,
                \/ ValueChangedCB(c) \/ BeginEvent(c) \/ EndEvent(c)
                \/ Die(c) \/ Restart(c)
         PROVE  [Contract!Next]_(Contract!vars)
    <2>1. UNCHANGED <<bRebootEnabled, pc>> /\ Alive
      BY <1>11 DEF ValueChangedCB, BeginEvent, EndEvent, Die, Restart
    <2>2. Phase' = Phase
      BY <2>1 DEF Phase
    <2>3. CASE pc \in {"Discover"} \cup Clearing \cup Blocked
      <3>1. Phase = "deciding"
        BY <2>3 DEF Phase, Clearing, Blocked
      <3> QED
        BY <2>1, <2>2, <3>1, Deciding
    <2>4. CASE pc \in Announced \cup {"AwaitBackEnd", "AwaitRequest"}
      <3>1. Holders = {}
        BY <2>4, NoHolders
      <3>2. CASE pc \in Announced
        <4>1. Holders' = {}
          BY <2>1, <3>2 DEF SafetyInv, SafeToReset, Holders
        <4> QED
          BY <1>1, <2>1, <2>2, <3>1, <4>1
      <3>3. CASE pc \in {"AwaitBackEnd", "AwaitRequest"}
        <4>1. DOMAIN comps' = {}
          BY <2>1, <3>3 DEF SafetyInv, IndexInv
        <4>2. Holders' = {}
          BY <4>1 DEF Holders
        <4> QED
          BY <1>1, <2>1, <2>2, <3>1, <4>2
      <3> QED
        BY <2>4, <3>2, <3>3
    <2> QED
      BY <2>1, <2>3, <2>4 DEF Alive, SafetyInv, TypeOK, Steps
  <1> QED
    BY <1>3, <1>4, <1>5, <1>6, <1>7, <1>8, <1>9, <1>10, <1>11
    DEF Next, Monitor, Environment, SendSignal, Prepare

\* For any components and timers, every behaviour of the thread and its
\* surroundings is one RebootContract allows.
THEOREM Refinement == Spec => KeepsContract
  <1>1. Spec => Contract!Spec
    BY SafetyInvariant, ContractInit, ContractNext, PTL DEF Spec, Contract!Spec
  <1> QED
    BY <1>1 DEF KeepsContract

-----------------------------------------------------------------------------
(* Progress.                                                                *)

LEMMA NearerRank ==
    ASSUME \/ PartsLeft' < PartsLeft
           \/ PartsLeft' = PartsLeft /\ PositionsLeft' < PositionsLeft
           \/ /\ PartsLeft' = PartsLeft /\ PositionsLeft' = PositionsLeft
              /\ StepsLeft' < StepsLeft
           \/ /\ PartsLeft' = PartsLeft /\ PositionsLeft' = PositionsLeft
              /\ StepsLeft' = StepsLeft /\ TurnsLeft' < TurnsLeft
    PROVE  Nearer(Rank', Rank)
  BY NearerByPlace DEF Rank

\* No call is tried more often than the thread is ready to.
TriesInv == pc \in {"Disable", "Query"} => j < Attempts

LEMMA TriesNext == TypeInv /\ TriesInv /\ [Next]_vars => TriesInv'
  <1> SUFFICES ASSUME TypeInv, TriesInv, [Next]_vars PROVE TriesInv'
    OBVIOUS
  <1> USE BoundsAssumption DEF TypeInv, TypeOK, TriesInv, Goto
  <1>1. CASE Prepare
    BY <1>1 DEF Prepare
  <1>2. CASE Disable
    <2>1. j' = 0 \/ RetryOrSkip(comps[i])
      BY <1>2 DEF Disable
    <2> QED
      BY <1>2, <2>1 DEF RetryOrSkip
  <1>3. CASE Query
    BY <1>3 DEF Query, RetryOrSkip
  <1>4. CASE AwaitBackEnd \/ AwaitRequest \/ Discover \/ FinishPass \/ Record
              \/ Test \/ Watch \/ TurnOn
    BY <1>4 DEF AwaitBackEnd, AwaitRequest, Discover, FinishPass, Record, Test,
                Watch, TurnOn
  <1>5. CASE Reenable \/ Wait \/ WaitOver \/ Unwatch \/ TurnOff \/ SendSignal
              \/ Grace \/ GraceOver \/ ResetSystem
    BY <1>5 DEF Reenable, Wait, WaitOver, Unwatch, TurnOff, SendSignal, Grace,
                GraceOver, ResetSystem
  <1>6. CASE Environment
    BY <1>6 DEF Environment, InitBackEnd, CommitFlag, CommitStatus, Exit,
                ValueChangedCB, BeginEvent, EndEvent, Die, Restart, loopVars
  <1>7. CASE Done \/ UNCHANGED vars
    BY <1>7 DEF Done, vars, loopVars
  <1> QED
    BY <1>1, <1>2, <1>3, <1>4, <1>5, <1>6, <1>7 DEF Next, Monitor

\* The rank is a tuple of natural numbers.
LEMMA RankType == TypeInv /\ TriesInv => RankOK
  <1> SUFFICES ASSUME TypeInv, TriesInv PROVE RankOK
    OBVIOUS
  <1>1. PartsLeft \in Nat /\ StepsLeft \in Nat
    BY DEF PartsLeft, StepsLeft
  <1>2. PositionsLeft \in Nat
    BY Discovered DEF TypeInv, TypeOK, PositionsLeft
  <1>3. TurnsLeft \in Nat
    BY BoundsAssumption DEF TypeInv, TypeOK, IndexInv, TriesInv, TurnsLeft
  <1> QED
    BY <1>1, <1>2, <1>3 DEF Rank, RankOK

\* A try that failed is one less to come, or the component was the last to try.
LEMMA RetryComesNearer ==
    ASSUME TypeInv, pc \in {"Disable", "Query"}, comps' = comps,
           NEW c, RetryOrSkip(c)
    PROVE  Nearer(Rank', Rank)
  <1>1. CASE pc' = pc /\ i' = i /\ j' = j + 1
    <2>1. TurnsLeft' < TurnsLeft
      BY <1>1, BoundsAssumption DEF TypeInv, TypeOK, TurnsLeft
    <2>2. PartsLeft' = PartsLeft /\ PositionsLeft' = PositionsLeft
          /\ StepsLeft' = StepsLeft
      BY <1>1 DEF PartsLeft, PositionsLeft, StepsLeft
    <2> QED
      BY <2>1, <2>2, NearerRank
  <1>2. CASE pc' = "Prepare" /\ i' = i + 1
    <2>1. PartsLeft' = PartsLeft /\ PositionsLeft' < PositionsLeft
      BY <1>2, Inside DEF PartsLeft, PositionsLeft, Clearing, Blocked
    <2> QED
      BY <2>1, NearerRank
  <1> QED
    BY <1>1, <1>2 DEF RetryOrSkip, Goto

LEMMA MonitorComesNearer ==
    ASSUME TypeInv, TriesInv, Monitor
    PROVE  Nearer(Rank', Rank) \/ TurnOff
  <1> USE DEF Goto, Clearing, Blocked
  <1>1. CASE AwaitBackEnd \/ AwaitRequest \/ Discover
    <2>1. PartsLeft' < PartsLeft
      BY <1>1 DEF AwaitBackEnd, AwaitRequest, Discover, PartsLeft
    <2> QED
      BY <2>1, NearerRank
  <1>2. CASE Prepare
    <2>1. CASE pc' = "Exited"
      BY <1>2, <2>1, NearerRank DEF Prepare, PartsLeft
    <2>2. CASE pc' = "Disable"
      <3>1. PartsLeft' = PartsLeft /\ PositionsLeft' = PositionsLeft
            /\ StepsLeft' < StepsLeft
        BY <1>2, <2>2 DEF Prepare, PartsLeft, PositionsLeft, StepsLeft
      <3> QED
        BY <3>1, NearerRank
    <2> QED
      BY <1>2, <2>1, <2>2 DEF Prepare
  <1>3. CASE FinishPass
    BY <1>3, NearerRank DEF FinishPass, PartsLeft
  <1>4. CASE Disable
    <2>1. CASE pc' = "Query" /\ i' = i
      <3>1. PartsLeft' = PartsLeft /\ PositionsLeft' = PositionsLeft
            /\ StepsLeft' < StepsLeft
        BY <1>4, <2>1 DEF Disable, PartsLeft, PositionsLeft, StepsLeft
      <3> QED
        BY <3>1, NearerRank
    <2>2. CASE RetryOrSkip(comps[i])
      BY <1>4, <2>2, RetryComesNearer DEF Disable
    <2> QED
      BY <1>4, <2>1, <2>2 DEF Disable
  <1>5. CASE Query
    <2>1. CASE pc' = "Record" /\ i' = i
      <3>1. PartsLeft' = PartsLeft /\ PositionsLeft' = PositionsLeft
            /\ StepsLeft' < StepsLeft
        BY <1>5, <2>1 DEF Query, PartsLeft, PositionsLeft, StepsLeft
      <3> QED
        BY <3>1, NearerRank
    <2>2. CASE RetryOrSkip(comps[i])
      BY <1>5, <2>2, RetryComesNearer DEF Query
    <2> QED
      BY <1>5, <2>1, <2>2 DEF Query
  <1>6. CASE Test
    <2>1. CASE pc' = "Prepare" /\ i' = i + 1
      <3>1. PartsLeft' = PartsLeft /\ PositionsLeft' < PositionsLeft
        BY <1>6, <2>1, Inside DEF Test, loopVars, PartsLeft, PositionsLeft
      <3> QED
        BY <3>1, NearerRank
    <2>2. CASE pc' = "Watch" /\ i' = i
      <3>1. PartsLeft' = PartsLeft /\ PositionsLeft' = PositionsLeft
            /\ StepsLeft' < StepsLeft
        BY <1>6, <2>2 DEF Test, PartsLeft, PositionsLeft, StepsLeft
      <3> QED
        BY <3>1, NearerRank
    <2> QED
      BY <1>6, <2>1, <2>2 DEF Test
  <1>7. CASE Record \/ Watch \/ TurnOn \/ WaitOver \/ Unwatch
    <2>1. /\ \/ pc = "Record" /\ pc' = "Test"
             \/ pc = "Watch" /\ pc' = "TurnOn"
             \/ pc = "TurnOn" /\ pc' = "Reenable"
             \/ pc = "Wait" /\ pc' = "Unwatch"
             \/ pc = "Unwatch" /\ pc' = "TurnOff"
          /\ comps' = comps /\ i' = i
      BY <1>7 DEF Record, Watch, TurnOn, WaitOver, Unwatch, loopVars
    <2>2. PartsLeft' = PartsLeft /\ PositionsLeft' = PositionsLeft
      BY <2>1 DEF PartsLeft, PositionsLeft
    <2>3. StepsLeft' < StepsLeft
      BY <2>1 DEF StepsLeft
    <2> QED
      BY <2>2, <2>3, NearerRank
  <1>8. CASE Reenable
    <2>1. PartsLeft' = PartsLeft /\ PositionsLeft' = PositionsLeft
      BY <1>8 DEF Reenable, PartsLeft, PositionsLeft
    <2>2. CASE pc' = pc /\ j' = j + 1
      <3>1. StepsLeft' = StepsLeft /\ TurnsLeft' < TurnsLeft
        BY <1>8, <2>2, Inside
        DEF Reenable, TypeInv, TypeOK, StepsLeft, TurnsLeft
      <3> QED
        BY <2>1, <3>1, NearerRank
    <2>3. CASE pc' = "Wait"
      <3>1. StepsLeft' < StepsLeft
        BY <1>8, <2>3 DEF Reenable, StepsLeft
      <3> QED
        BY <2>1, <3>1, NearerRank
    <2> QED
      BY <1>8, <2>2, <2>3 DEF Reenable
  <1>9. CASE Wait \/ Grace
    <2>1. /\ PartsLeft' = PartsLeft /\ PositionsLeft' = PositionsLeft
          /\ StepsLeft' = StepsLeft /\ TurnsLeft' < TurnsLeft
      BY <1>9
      DEF Wait, Grace, TypeInv, TypeOK, PartsLeft, PositionsLeft, StepsLeft,
          TurnsLeft
    <2> QED
      BY <2>1, NearerRank
  <1>10. CASE SendSignal \/ GraceOver \/ ResetSystem
    <2>1. PartsLeft' = PartsLeft /\ PositionsLeft' = PositionsLeft
          /\ StepsLeft' < StepsLeft
      BY <1>10 DEF SendSignal, GraceOver, ResetSystem, PartsLeft,
                   PositionsLeft, StepsLeft
    <2> QED
      BY <2>1, NearerRank
  <1> QED
    BY <1>1, <1>2, <1>3, <1>4, <1>5, <1>6, <1>7, <1>8, <1>9, <1>10 DEF Monitor

\* The other threads and the components leave the rank alone, and the end of the
\* process is the end of all work.
LEMMA OthersDoNotDelay ==
    ASSUME Environment \/ Done \/ UNCHANGED vars
    PROVE  Nearer(Rank', Rank) \/ Rank' = Rank
  <1>1. CASE Exit
    <2>1. CASE PartsLeft = 0
      <3>1. PartsLeft' = 0 /\ PositionsLeft = 0 /\ PositionsLeft' = 0
            /\ StepsLeft' = 0 /\ TurnsLeft' = 0
        BY <1>1, <2>1 DEF Exit, Goto, Alive, PartsLeft, PositionsLeft,
                          StepsLeft, TurnsLeft, Clearing, Blocked
      <3>2. StepsLeft > 0 \/ (StepsLeft = 0 /\ TurnsLeft = 0)
        BY DEF StepsLeft, TurnsLeft
      <3> QED
        BY <2>1, <3>1, <3>2, NearerRank DEF Rank, StepsLeft
    <2>2. CASE PartsLeft # 0
      <3>1. PartsLeft' < PartsLeft
        BY <1>1, <2>2 DEF Exit, Goto, PartsLeft, Clearing, Blocked
      <3> QED
        BY <3>1, NearerRank
    <2> QED
      BY <2>1, <2>2
  <1>2. CASE UNCHANGED <<pc, comps, i, j, ticks>>
    BY <1>2 DEF Rank, PartsLeft, PositionsLeft, StepsLeft, TurnsLeft
  <1> QED
    BY <1>1, <1>2
    DEF Environment, InitBackEnd, CommitFlag, CommitStatus, ValueChangedCB,
        BeginEvent, EndEvent, Die, Restart, Done, vars, loopVars

\* Between two starts of a pass the thread takes finitely many steps, for any
\* number of components, of tries and of turns: its rank is a tuple of natural
\* numbers ...
THEOREM RankIsNatural == Spec => []RankOK
  <1>1. Init => TriesInv
    BY DEF Init, TriesInv
  <1>2. Spec => []TypeInv
    BY TypeCorrect, PTL DEF TypeInv
  <1> QED
    BY <1>1, <1>2, TriesNext, RankType, PTL DEF Spec

\* ... and comes nearer, in the order of which RankOrderProofs!NearerEnds shows
\* that it ends, with every step but the one that starts the pass over.
THEOREM DecisionIsNearer == Spec => DecisionComesNearer
  <1>1. Init => TriesInv
    BY DEF Init, TriesInv
  <1>2. Spec => []TypeInv
    BY TypeCorrect, PTL DEF TypeInv
  <1>3. TypeInv /\ TriesInv /\ [Next]_vars =>
            [\/ Nearer(Rank', Rank)
             \/ Rank' = Rank /\ ~Monitor
             \/ TurnOff]_vars
    BY MonitorComesNearer, OthersDoNotDelay DEF Next
  <1> QED
    BY <1>1, <1>2, <1>3, TriesNext, PTL DEF Spec, DecisionComesNearer

\* Whatever the callbacks, the restarts and the failures: a wait goes back to a
\* component that was busy when the thread asked it.
THEOREM OnlyEventsHoldUp == Spec => OnlyEventsDelay
  <1>1. ASSUME TypeInv, [Next]_vars, HeldUp'
        PROVE  HeldUp \/ (Query /\ busy[comps[i]])
    <2> USE <1>1 DEF HeldUp, Goto, Blocked
    <2>1. CASE AwaitBackEnd \/ AwaitRequest \/ Discover \/ Prepare
                \/ FinishPass
      BY <2>1 DEF AwaitBackEnd, AwaitRequest, Discover, Prepare, FinishPass
    <2>2. CASE Disable
      BY <2>2 DEF Disable, RetryOrSkip
    <2>3. CASE Query
      BY <2>3 DEF Query, RetryOrSkip
    <2>4. CASE Record \/ Test
      BY <2>4 DEF Record, RecordAnswer, Test, watchVars
    <2>5. CASE Watch \/ TurnOn \/ Reenable \/ Wait \/ WaitOver \/ Unwatch
                \/ TurnOff
      BY <2>5 DEF Watch, TurnOn, Reenable, Wait, WaitOver, Unwatch, TurnOff
    <2>6. CASE SendSignal \/ Grace \/ GraceOver \/ ResetSystem
      BY <2>6 DEF SendSignal, Grace, GraceOver, ResetSystem
    <2>7. CASE \E c \in Component : ValueChangedCB(c)
      BY <2>7 DEF ValueChangedCB, loopVars, TypeInv, TypeOK
    <2>8. CASE InitBackEnd \/ CommitFlag \/ CommitStatus \/ Exit
      BY <2>8 DEF InitBackEnd, CommitFlag, CommitStatus, Exit, loopVars,
                  watchVars
    <2>9. CASE \E c \in Component :
                  BeginEvent(c) \/ EndEvent(c) \/ Die(c) \/ Restart(c)
      BY <2>9 DEF BeginEvent, EndEvent, Die, Restart, loopVars, watchVars
    <2>10. CASE Done \/ UNCHANGED vars
      BY <2>10 DEF Done, vars, loopVars, watchVars
    <2> QED
      BY <2>1, <2>2, <2>3, <2>4, <2>5, <2>6, <2>7, <2>8, <2>9, <2>10
      DEF Next, Monitor, Environment
  <1>2. Spec => []TypeInv
    BY TypeCorrect, PTL DEF TypeInv
  <1>3. TypeInv /\ [Next]_vars =>
            [HeldUp' => HeldUp \/ (Query /\ busy[comps[i]])]_vars
    BY <1>1
  <1> QED
    BY <1>2, <1>3, PTL DEF Spec, OnlyEventsDelay

\* The two assignments of Reboot_Commit as the monitor thread meets them are the
\* latch that RebootObject is proved to keep: no step is added ...
THEOREM RequestIsTheLatch == Spec => Latch!Spec
  <1>1. Init => Latch!Init
    BY DEF Init, Latch!Init
  <1>2. [Next]_vars => [Latch!Next]_(Latch!vars)
    <2> SUFFICES ASSUME [Next]_vars PROVE [Latch!Next]_(Latch!vars)
      OBVIOUS
    <2> USE DEF Latch!vars, requestVars
    <2>1. CASE CommitFlag
      BY <2>1 DEF CommitFlag, Latch!Next, Latch!Raise
    <2>2. CASE CommitStatus
      BY <2>2 DEF CommitStatus, Latch!Next, Latch!Report
    <2>3. CASE AwaitBackEnd \/ AwaitRequest \/ Discover \/ Prepare
                 \/ FinishPass \/ Disable
      BY <2>3 DEF AwaitBackEnd, AwaitRequest, Discover, Prepare, FinishPass, Disable
    <2>4. CASE Query \/ Record \/ Test \/ Watch \/ TurnOn \/ Reenable
      BY <2>4 DEF Query, RetryOrSkip, Record, Test, Watch, TurnOn, Reenable
    <2>5. CASE Wait \/ WaitOver \/ Unwatch \/ TurnOff \/ SendSignal \/ Grace
                 \/ GraceOver \/ ResetSystem
      BY <2>5 DEF Wait, WaitOver, Unwatch, TurnOff, SendSignal, Grace,
                  GraceOver, ResetSystem
    <2>6. CASE InitBackEnd \/ Exit \/ Done \/ UNCHANGED vars
      BY <2>6 DEF InitBackEnd, Exit, Done, vars
    <2>7. CASE \E c \in Component :
                  \/ ValueChangedCB(c)
                  \/ BeginEvent(c) \/ EndEvent(c) \/ Die(c) \/ Restart(c)
      BY <2>7 DEF ValueChangedCB, BeginEvent, EndEvent, Die, Restart
    <2> QED
      BY <2>1, <2>2, <2>3, <2>4, <2>5, <2>6, <2>7 DEF Next, Monitor, Environment
  <1> QED
    BY <1>1, <1>2, PTL DEF Spec, Latch!Spec

\* ... and none is missing while the process lives.
THEOREM LatchIsTheRequest ==
    Alive /\ UNCHANGED <<BackEndInitDone, loopVars, watchVars, worldVars,
                        busVars, histVars, pc>>
      => /\ Latch!Raise /\ UNCHANGED sRebootStatus <=> CommitFlag
         /\ Latch!Report /\ sRebootStatus' = Plain("Received")
              <=> CommitStatus
  BY DEF Latch!Raise, Latch!Report, CommitFlag, CommitStatus

=============================================================================
