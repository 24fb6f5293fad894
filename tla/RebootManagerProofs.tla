------------------------- MODULE RebootManagerProofs -------------------------
(***************************************************************************)
(* Proofs about RebootManager: it runs its two objects by their own        *)
(* specifications, so that what is proved of them holds of the whole, and  *)
(* the answers to its transactions say what they should.                   *)
(***************************************************************************)
EXTENDS RebootManager, RankOrderProofs, TLAPS

ConfP == INSTANCE ConfigurationProofs

ObjectP == INSTANCE RebootObjectProofs WITH
    step <- rebootStep, asked <- rebootAsked, before <- rebootBefore

-----------------------------------------------------------------------------
(* The two objects, and the modules with the proofs about them, are the same *)
(* definitions under two names.                                              *)

LEMMA SameObject ==
    /\ Object!Init <=> ObjectP!Init
    /\ [Object!Next]_(Object!vars) <=> [ObjectP!Next]_(ObjectP!vars)
  BY Zenon DEF Object!Init, ObjectP!Init, Object!Next, ObjectP!Next,
      Object!vars, ObjectP!vars, Object!object, ObjectP!object,
      Object!monitor, ObjectP!monitor, Object!history, ObjectP!history,
      Object!reader, ObjectP!reader, Object!Open, ObjectP!Open,
      Object!Allowed, ObjectP!Allowed, Object!Stage, ObjectP!Stage,
      Object!SetParamBoolValue, ObjectP!SetParamBoolValue, Object!RefuseSet,
      ObjectP!RefuseSet, Object!Commit, ObjectP!Commit, Object!CommitStatus,
      ObjectP!CommitStatus, Object!Succeed, ObjectP!Succeed,
      Object!OtherFails, ObjectP!OtherFails, Object!LeaveFlag,
      ObjectP!LeaveFlag, Object!Rollback, ObjectP!Rollback,
      Object!GetParamBoolValue, ObjectP!GetParamBoolValue,
      Object!GetParamStringValue, ObjectP!GetParamStringValue, Object!Take,
      ObjectP!Take, Object!WriteStatus, ObjectP!WriteStatus

LEMMA SameRequestInv ==
    /\ Object!RequestInv <=> ObjectP!RequestInv
    /\ Object!RequestInv' <=> ObjectP!RequestInv'
  BY Zenon DEF Object!RequestInv, ObjectP!RequestInv, Object!TypeOK,
      ObjectP!TypeOK, Object!Statuses, ObjectP!Statuses, Object!StagedAgrees,
      ObjectP!StagedAgrees

LEMMA SameConf ==
    /\ Conf!Init <=> ConfP!Init
    /\ [Conf!Next]_(Conf!vars) <=> [ConfP!Next]_(ConfP!vars)
  BY Zenon DEF Conf!Init, ConfP!Init, Conf!Next, ConfP!Next, Conf!vars,
      ConfP!vars, Conf!config, ConfP!config, Conf!control, ConfP!control,
      Conf!history, ConfP!history, Conf!Para, ConfP!Para, Conf!Word,
      ConfP!Word, Conf!Nothing, ConfP!Nothing, Conf!Clean, ConfP!Clean,
      Conf!Thread, ConfP!Thread, Conf!InitSteps, ConfP!InitSteps,
      Conf!BusSteps, ConfP!BusSteps, Conf!Itoa, ConfP!Itoa, Conf!Atoi,
      ConfP!Atoi, Conf!Store, ConfP!Store, Conf!SavePsmValueRecord,
      ConfP!SavePsmValueRecord, Conf!StartUp, ConfP!StartUp, Conf!AtFirst,
      ConfP!AtFirst, Conf!NameRecord, ConfP!NameRecord, Conf!GetRecord,
      ConfP!GetRecord, Conf!SystemReady, ConfP!SystemReady, Conf!Serving,
      ConfP!Serving, Conf!SetParamUlongValue, ConfP!SetParamUlongValue,
      Conf!Begin, ConfP!Begin, Conf!Advance, ConfP!Advance, Conf!BeginCommit,
      ConfP!BeginCommit, Conf!CommitSkip, ConfP!CommitSkip, Conf!Exchange,
      ConfP!Exchange, Conf!NameSavedRecord, ConfP!NameSavedRecord,
      Conf!CommitSwap, ConfP!CommitSwap, Conf!CommitSave, ConfP!CommitSave,
      Conf!EndTransaction, ConfP!EndTransaction, Conf!StatesCleared,
      ConfP!StatesCleared, Conf!EndCommit, ConfP!EndCommit,
      Conf!BeginRollback, ConfP!BeginRollback, Conf!DropStaged,
      ConfP!DropStaged, Conf!RollbackSkip, ConfP!RollbackSkip,
      Conf!RollbackRestore, ConfP!RollbackRestore, Conf!RollbackSave,
      ConfP!RollbackSave, Conf!EndRollback, ConfP!EndRollback, Conf!Crash,
      ConfP!Crash

LEMMA SameConfInv ==
    /\ Conf!DurableInv /\ Conf!ExactInv <=> ConfP!DurableInv /\ ConfP!ExactInv
    /\ (Conf!DurableInv /\ Conf!ExactInv)'
          <=> (ConfP!DurableInv /\ ConfP!ExactInv)'
  BY Zenon DEF Conf!DurableInv, ConfP!DurableInv, Conf!ExactInv,
      ConfP!ExactInv, Conf!TypeOK, ConfP!TypeOK, Conf!ControlInv,
      ConfP!ControlInv, Conf!StoreInv, ConfP!StoreInv, Conf!Recorded,
      ConfP!Recorded, Conf!ProgressInv, ConfP!ProgressInv, Conf!Undoable,
      ConfP!Undoable, Conf!Staged, ConfP!Staged, Conf!Transacting,
      ConfP!Transacting, Conf!Saving, ConfP!Saving, Conf!Para, ConfP!Para,
      Conf!Word, ConfP!Word, Conf!Thread, ConfP!Thread, Conf!BusSteps,
      ConfP!BusSteps, Conf!InitSteps, ConfP!InitSteps, Conf!Nothing,
      ConfP!Nothing, Conf!Itoa, ConfP!Itoa

LEMMA SameContracts ==
    /\ Conf!Contract!Init <=> ConfP!Contract!Init
    /\ [Conf!Contract!Next]_(Conf!Contract!vars)
          <=> [ConfP!Contract!Next]_(ConfP!Contract!vars)
    /\ Object!Latch!Init <=> ObjectP!Latch!Init
    /\ [Object!Latch!Next]_(Object!Latch!vars)
          <=> [ObjectP!Latch!Next]_(ObjectP!Latch!vars)
  <1>1. UNCHANGED Conf!Contract!vars <=> UNCHANGED ConfP!Contract!vars
    BY Zenon DEF Conf!Contract!vars, ConfP!Contract!vars, Conf!Phase, ConfP!Phase,
       Conf!Transacting, ConfP!Transacting
  <1>2. Conf!Contract!Init <=> ConfP!Contract!Init
    BY Zenon DEF Conf!Contract!Init, ConfP!Contract!Init, Conf!Phase, ConfP!Phase,
       Conf!Transacting, ConfP!Transacting, Conf!Contract!Nothing, ConfP!Contract!Nothing,
       Conf!Para, ConfP!Para
  <1>3. Conf!Contract!Next <=> ConfP!Contract!Next
    BY Zenon DEF Conf!Contract!Init, ConfP!Contract!Init, Conf!Phase, ConfP!Phase,
       Conf!Transacting, ConfP!Transacting, Conf!Contract!Nothing, ConfP!Contract!Nothing,
       Conf!Para, ConfP!Para, Conf!Word, ConfP!Word,
       Conf!Contract!Next, ConfP!Contract!Next,
       Conf!Contract!Load, ConfP!Contract!Load,
       Conf!Contract!Disturb, ConfP!Contract!Disturb,
       Conf!Contract!Set, ConfP!Contract!Set,
       Conf!Contract!Begin, ConfP!Contract!Begin,
       Conf!Contract!Work, ConfP!Contract!Work,
       Conf!Contract!TurnBack, ConfP!Contract!TurnBack,
       Conf!Contract!End, ConfP!Contract!End,
       Conf!Contract!AsWanted, ConfP!Contract!AsWanted,
       Conf!Contract!Break, ConfP!Contract!Break,
       Conf!Contract!Restart, ConfP!Contract!Restart
  <1>4. /\ Object!Latch!Init <=> ObjectP!Latch!Init
        /\ [Object!Latch!Next]_(Object!Latch!vars)
              <=> [ObjectP!Latch!Next]_(ObjectP!Latch!vars)
    BY Zenon DEF Object!Latch!Init, ObjectP!Latch!Init, Object!Latch!Next, ObjectP!Latch!Next,
      Object!Latch!vars, ObjectP!Latch!vars, Object!Latch!Raise, ObjectP!Latch!Raise,
      Object!Latch!Report, ObjectP!Latch!Report
  <1> QED
    BY <1>1, <1>2, <1>3, <1>4

LEMMA SameAssumption ==
    ConfP!ConfigurationAssumption /\ ObjectP!NoneAssumption
  BY RebootManagerAssumption
  DEF Conf!ConfigurationAssumption, ConfP!ConfigurationAssumption, Conf!Para,
      ConfP!Para, Conf!Word, ConfP!Word, Object!NoneAssumption,
      ObjectP!NoneAssumption, Object!Statuses, ObjectP!Statuses

-----------------------------------------------------------------------------
(* Every step of the whole is a step of one object and leaves the other one  *)
(* as it is.                                                                 *)

LEMMA ConfStep == [Next]_vars => [Conf!Next]_(Conf!vars)
  <1> SUFFICES ASSUME [Next]_vars PROVE [Conf!Next]_(Conf!vars)
    OBVIOUS
  <1>1. CASE UNCHANGED confVars
    BY <1>1 DEF confVars, Conf!vars, Conf!config, Conf!control, Conf!history
  <1>2. ASSUME NEW t \in Conf!Thread, LoadParameters(t)
        PROVE  Conf!Next
    BY <1>2 DEF LoadParameters, Conf!Next
  <1>3. CASE SystemReady
    BY <1>3 DEF SystemReady, Conf!Next
  <1>4. CASE \E p \in Conf!Para, word \in Requested : SetTimer(p, word)
    BY <1>4 DEF SetTimer, Conf!Next
  <1>5. CASE ConfigurationCommit \/ ConfigurationCommitted
    BY <1>5 DEF ConfigurationCommit, ConfigurationCommitted, Conf!Next
  <1>6. CASE ConfigurationRollback
    BY <1>6 DEF ConfigurationRollback, Conf!Next
  <1>7. ASSUME \/ \E value \in BOOLEAN : SetEnable(value)
               \/ \E value \in {None, FALSE} : RefuseSet(value)
               \/ RefuseTimer \/ Validate \/ RebootCommit \/ AnswerSuccess \/ RebootRollback
               \/ AnswerFault \/ Monitor \/ UNCHANGED vars
        PROVE  UNCHANGED confVars
    BY <1>7
    DEF SetEnable, RefuseSet, RefuseTimer, Validate, RebootCommit,
        AnswerSuccess,
        RebootRollback, AnswerFault, Monitor, vars
  <1>8. "main" \in Conf!Thread /\ "bus" \in Conf!Thread
    BY DEF Conf!Thread
  <1> QED
    BY <1>1, <1>2, <1>3, <1>4, <1>5, <1>6, <1>7, <1>8 DEF Next, BusThread

LEMMA ObjectStep == [Next]_vars => [Object!Next]_(Object!vars)
  <1> SUFFICES ASSUME [Next]_vars PROVE [Object!Next]_(Object!vars)
    OBVIOUS
  <1>1. CASE UNCHANGED objectVars
    BY <1>1 DEF objectVars, Object!vars, Object!object, Object!monitor,
                Object!history, Object!reader
  <1>2. CASE \E value \in BOOLEAN : SetEnable(value)
    BY <1>2 DEF SetEnable, Object!Next
  <1>3. CASE \E value \in {None, FALSE} : RefuseSet(value)
    BY <1>3 DEF RefuseSet, Object!Next
  <1>4. CASE RebootCommit
    BY <1>4 DEF RebootCommit, Object!Next
  <1>5. CASE RebootRollback \/ Monitor
    BY <1>5 DEF RebootRollback, Monitor, Object!Next
  <1>6. CASE AnswerSuccess
    BY <1>1, <1>6 DEF AnswerSuccess, Object!Next
  <1>7. ASSUME \/ \E t \in {"main", "bus"} : LoadParameters(t)
               \/ SystemReady \/ RefuseTimer \/ Validate
               \/ \E p \in Conf!Para, word \in Requested : SetTimer(p, word)
               \/ ConfigurationCommit \/ ConfigurationCommitted
               \/ ConfigurationRollback \/ AnswerFault \/ UNCHANGED vars
        PROVE  UNCHANGED objectVars
    BY <1>7
    DEF LoadParameters, SystemReady, RefuseTimer, Validate, SetTimer,
        ConfigurationCommit,
        ConfigurationCommitted, ConfigurationRollback, AnswerFault, vars
  <1> QED
    BY <1>1, <1>2, <1>3, <1>4, <1>5, <1>6, <1>7 DEF Next, BusThread

\* The transactions run Configuration by its own specification ...
THEOREM RunsConfiguration == Spec => Conf!Spec
  <1>1. Init => Conf!Init
    BY DEF Init
  <1> QED
    BY <1>1, ConfStep, PTL DEF Spec, Conf!Spec

\* ... and the Reboot object by its own.
THEOREM RunsRebootObject == Spec => Object!Spec
  <1>1. Init => Object!Init
    BY DEF Init
  <1> QED
    BY <1>1, ObjectStep, PTL DEF Spec, Object!Spec

ObjectsInv == Object!RequestInv /\ Conf!DurableInv /\ Conf!ExactInv

\* What is invariant of each object is invariant of the whole.
LEMMA ObjectsKept == Spec => []ObjectsInv
  <1>1. ObjectP!Init => ObjectP!RequestInv
    BY ObjectP!InitEstablishes, SameAssumption
  <1>2. ObjectP!RequestInv /\ [ObjectP!Next]_(ObjectP!vars)
          => ObjectP!RequestInv'
    BY ObjectP!StepPreserves, SameAssumption
  <1>3. ConfP!Init => ConfP!DurableInv /\ ConfP!ExactInv
    BY ConfP!DurableInit, ConfP!ExactInit, SameAssumption
  <1>4. ConfP!DurableInv /\ [ConfP!Next]_(ConfP!vars) => ConfP!DurableInv'
    BY ConfP!DurableNext, SameAssumption
  <1>5. ConfP!ExactInv /\ ConfP!DurableInv' /\ [ConfP!Next]_(ConfP!vars)
          => ConfP!ExactInv'
    BY ConfP!ExactNext, SameAssumption
  <1>6. Init => ObjectsInv
    BY <1>1, <1>3, SameObject, SameRequestInv, SameConf, SameConfInv
    DEF Init, ObjectsInv
  <1>7. ObjectsInv /\ [Next]_vars => ObjectsInv'
    <2> SUFFICES ASSUME ObjectsInv, [Next]_vars
                 PROVE  ObjectsInv'
      OBVIOUS
    <2>1. ObjectP!RequestInv'
      BY <1>2, ObjectStep, SameObject, SameRequestInv DEF ObjectsInv
    <2>2. ConfP!DurableInv' /\ ConfP!ExactInv'
      BY <1>4, <1>5, ConfStep, SameConf, SameConfInv DEF ObjectsInv
    <2> QED
      BY <2>1, <2>2, SameRequestInv, SameConfInv DEF ObjectsInv
  <1> QED
    BY <1>6, <1>7, PTL DEF Spec

\* The composition keeps the contract of its timers, and that of its request.
THEOREM KeepsBothContracts ==
    Spec => Conf!KeepsTimerContract /\ Object!KeepsLatch
  <1> USE SameAssumption
  <1>1. Init => Conf!Contract!Init /\ Object!Latch!Init
    BY SameObject, SameConf, SameContracts, ConfP!ContractInit,
       ObjectP!LatchInit
    DEF Init
  <1>2. ObjectsInv /\ [Next]_vars => [Object!Latch!Next]_(Object!Latch!vars)
    BY ObjectStep, SameObject, SameRequestInv, SameContracts, ObjectP!LatchNext
    DEF ObjectsInv
  <1>3. ObjectsInv /\ ObjectsInv' /\ [Next]_vars
           => [Conf!Contract!Next]_(Conf!Contract!vars)
    <2> SUFFICES ASSUME ObjectsInv, ObjectsInv', [Next]_vars
                 PROVE  [Conf!Contract!Next]_(Conf!Contract!vars)
      OBVIOUS
    <2>1. ConfP!ExactInv /\ ConfP!ExactInv'
      BY SameConfInv DEF ObjectsInv
    <2>2. ConfP!TypeOK'
      BY <2>1 DEF ConfP!ExactInv
    <2>3. ConfP!TimerIsOldOrNew'
      BY <2>1, ConfP!ExactReadsNext
    <2> QED
      BY <2>1, <2>2, <2>3, ConfStep, SameConf, SameContracts,
         ConfP!ContractNext
  <1> QED
    BY <1>1, <1>2, <1>3, ObjectsKept, PTL
    DEF Spec, Conf!KeepsTimerContract, Object!KeepsLatch, Conf!Contract!Spec,
        Object!Latch!Spec

-----------------------------------------------------------------------------
(* The phases and the outcomes.                                              *)

\* Nobody but a load raises the flag or changes what is loaded.
LEMMA OnlyLoadsRaise ==
    ASSUME [Next]_vars
    PROVE  UNCHANGED backEnd \/ \E t \in Conf!Thread : LoadParameters(t)
  BY DEF Next, BusThread, SystemReady, SetTimer, SetEnable, RefuseSet,
         RefuseTimer, Validate, ConfigurationCommit, ConfigurationCommitted,
         RebootCommit, AnswerSuccess, ConfigurationRollback, RebootRollback,
         AnswerFault, Monitor, vars, Conf!Thread

LEMMA TypeNext ==
    ASSUME TypeOK, ObjectsInv, ObjectsInv', [Next]_vars
    PROVE  TypeOK'
  <1>1. Conf!TypeOK' /\ Object!TypeOK'
    BY DEF ObjectsInv, Conf!DurableInv, Object!RequestInv
  <1>2. Requested \subseteq Conf!Word
    BY RebootManagerAssumption DEF Conf!ConfigurationAssumption
  <1>3. phase' \in {"open", "commit", "rollback"}
    BY DEF TypeOK, Next, BusThread, LoadParameters, SystemReady, SetTimer,
           SetEnable, RefuseSet, RefuseTimer, Validate, ConfigurationCommit,
           Failed,
           ConfigurationCommitted, RebootCommit, AnswerSuccess, Close,
           ConfigurationRollback, RebootRollback, AnswerFault, Monitor, library,
           vars
  <1>4. wanted' \in [Conf!Para -> Conf!Word \cup {None}]
    <2>1. CASE \E p \in Conf!Para, word \in Requested : SetTimer(p, word)
      BY <1>2, <2>1 DEF TypeOK, SetTimer
    <2>2. CASE UNCHANGED wanted
      BY <2>2 DEF TypeOK
    <2>3. CASE wanted' = Conf!Nothing
      BY <2>3 DEF Conf!Nothing
    <2> QED
      BY <2>1, <2>2, <2>3
      DEF Next, BusThread, LoadParameters, SystemReady, SetEnable, RefuseSet,
          RefuseTimer,
          Validate, ConfigurationCommit, ConfigurationCommitted, RebootCommit,
          AnswerSuccess, Close, ConfigurationRollback, RebootRollback,
          AnswerFault, Monitor, library, vars
  <1>5. disturbed' \in BOOLEAN
    BY <1>1 DEF TypeOK, Conf!TypeOK, Next, BusThread, LoadParameters,
        SystemReady,
           SetTimer, SetEnable, RefuseSet, RefuseTimer, Validate,
           ConfigurationCommit,
           ConfigurationCommitted, RebootCommit, AnswerSuccess, Close,
           ConfigurationRollback, RebootRollback, AnswerFault, Monitor, library,
           vars
  <1>6. BackEndInitDone' \in BOOLEAN /\ loaded' \subseteq Conf!Para
    <2>1. ASSUME NEW t \in Conf!Thread, LoadParameters(t)
          PROVE  BackEndInitDone' \in BOOLEAN /\ loaded' \subseteq Conf!Para
      <3>1. BackEndInitDone' \in BOOLEAN
        BY <2>1 DEF TypeOK, LoadParameters, RaiseWhenLoaded
      <3>2. CASE Conf!NameRecord(t) /\ UNCHANGED loaded
        BY <3>1, <3>2 DEF TypeOK
      <3>3. CASE Conf!GetRecord(t) /\ loaded' = loaded \cup {at[t]}
        <4>1. at[t] \in Conf!Para
          BY <3>3, RebootManagerAssumption
          DEF Conf!GetRecord, TypeOK, Conf!TypeOK, ObjectsInv, Conf!DurableInv,
              Conf!ControlInv, Conf!InitSteps, Conf!Para,
              Conf!ConfigurationAssumption
        <4> QED
          BY <3>1, <3>3, <4>1 DEF TypeOK
      <3> QED
        BY <2>1, <3>2, <3>3 DEF LoadParameters
    <2>2. CASE UNCHANGED backEnd
      BY <2>2 DEF backEnd, TypeOK
    <2>3. UNCHANGED backEnd \/ \E t \in Conf!Thread : LoadParameters(t)
      BY OnlyLoadsRaise
    <2> QED
      BY <2>1, <2>2, <2>3
  <1> QED
    BY <1>1, <1>3, <1>4, <1>5, <1>6 DEF TypeOK

LEMMA ManagerInit == Init => ManagerInv
  <1>0. SUFFICES ASSUME Init PROVE ManagerInv
    OBVIOUS
  <1>1. PhaseInv /\ OutcomeInv
    BY <1>0 DEF Init, Conf!Init, Object!Init, PhaseInv, OutcomeInv, Pending,
                Conf!StartUp, Conf!Thread
  <1>2. LoadInv
    BY <1>0 DEF Init, Conf!Init, Object!Init, LoadInv, Conf!AtFirst, Conf!Para
  <1> QED
    BY <1>1, <1>2 DEF ManagerInv

\* What Configuration_Commit was through with is in force and in the PSM.
LEMMA CommittedIsApplied ==
    ASSUME ObjectsInv, Conf!EndCommit, ~torn, ~reloaded
    PROVE  \A p \in Conf!Para :
               IF asked[p] = None THEN paraValue[p] = before[p]
               ELSE paraValue[p] = asked[p] /\ psm[p] = Conf!Itoa(asked[p])
  <1> SUFFICES ASSUME NEW p \in Conf!Para
               PROVE  IF asked[p] = None THEN paraValue[p] = before[p]
                      ELSE paraValue[p] = asked[p] /\ psm[p] = Conf!Itoa(asked[p])
    OBVIOUS
  <1>1. step["bus"] = "commit" /\ p < at["bus"]
    BY RebootManagerAssumption
    DEF Conf!EndCommit, Conf!ConfigurationAssumption, Conf!Para
  <1>2. /\ paraState[p] \in {"CAN_COMMIT", "CAN_ROLLBACK", "CAN_NEITHER"}
        /\ paraState[p] # "CAN_COMMIT" /\ Conf!Undoable(p) /\ Conf!Staged(p)
        /\ paraState[p] = "CAN_ROLLBACK" => psm[p] = Conf!Itoa(paraValue[p])
    BY <1>1
    DEF ObjectsInv, Conf!ExactInv, Conf!TypeOK, Conf!ProgressInv,
        Conf!DurableInv, Conf!StoreInv
  <1> QED
    BY <1>1, <1>2 DEF Conf!Undoable, Conf!Staged, Conf!Transacting

LEMMA TransactionNext ==
    ASSUME ObjectsInv, ObjectsInv', TypeOK, TypeOK', ManagerInv, [Next]_vars
    PROVE  PhaseInv' /\ OutcomeInv'
  <1> USE DEF Conf!Thread, Conf!BusSteps, Conf!InitSteps
  <1>0. /\ step \in [Conf!Thread -> Conf!BusSteps]
        /\ at \in [Conf!Thread -> 1 .. (N + 1)]
        /\ phase \in {"open", "commit", "rollback"}
        /\ disturbed' \in BOOLEAN /\ torn' \in BOOLEAN
        /\ PhaseInv /\ OutcomeInv
        /\ Object!RequestInv
    BY DEF ObjectsInv, Conf!DurableInv, Conf!TypeOK, TypeOK, ManagerInv
  <1>1. ASSUME NEW t \in {"main", "bus"}, LoadParameters(t)
        PROVE  PhaseInv' /\ OutcomeInv'
    <2>1. PhaseInv'
      BY <1>0, <1>1 DEF objectVars, library, LoadParameters, Conf!NameRecord,
          Conf!GetRecord,
          Conf!history, PhaseInv
    <2>2. OutcomeInv'
      BY <1>0, <1>1 DEF objectVars, library, LoadParameters, Conf!NameRecord,
          Conf!GetRecord,
          Conf!history, PhaseInv, OutcomeInv, Pending, Ended, Applied
    <2> QED
      BY <2>1, <2>2
  <1>2. ASSUME SystemReady
        PROVE  PhaseInv' /\ OutcomeInv'
    <2>1. PhaseInv'
      BY <1>0, <1>2 DEF objectVars, library, SystemReady, Conf!SystemReady,
          Conf!config, PhaseInv
    <2>2. OutcomeInv'
      BY <1>0, <1>2 DEF objectVars, library, SystemReady, Conf!SystemReady,
          Conf!config, PhaseInv,
          OutcomeInv, Pending, Ended, Applied
    <2> QED
      BY <2>1, <2>2
  <1>3. ASSUME NEW p \in Conf!Para, NEW word \in Requested, SetTimer(p, word)
        PROVE  PhaseInv' /\ OutcomeInv'
    <2>1. PhaseInv'
      BY <1>0, <1>3 DEF objectVars, SetTimer, Conf!SetParamUlongValue,
          Conf!Serving,
          Conf!control, PhaseInv
    <2>2. OutcomeInv'
      BY <1>0, <1>3 DEF objectVars, SetTimer, Conf!SetParamUlongValue,
          Conf!Serving,
          Conf!control, PhaseInv, OutcomeInv, Pending, Ended, Applied
    <2> QED
      BY <2>1, <2>2
  <1>4. ASSUME NEW value \in BOOLEAN, SetEnable(value)
        PROVE  PhaseInv' /\ OutcomeInv'
    <2>1. PhaseInv'
      BY <1>0, <1>4 DEF SetEnable, Object!SetParamBoolValue, Object!Open,
          Object!monitor, Free, confVars, library, PhaseInv
    <2>2. OutcomeInv'
      BY <1>0, <1>4 DEF SetEnable, Object!SetParamBoolValue, Object!Open,
          Object!monitor, Free, confVars, library, PhaseInv,
          OutcomeInv, Pending, Ended, Applied
    <2> QED
      BY <2>1, <2>2
  <1>5. ASSUME NEW value \in {None, FALSE}, RefuseSet(value)
        PROVE  PhaseInv' /\ OutcomeInv'
    <2>1. PhaseInv'
      BY <1>0, <1>5 DEF RefuseSet, Object!RefuseSet, Object!Open,
          Object!object, Object!monitor, Free, confVars, PhaseInv
    <2>2. OutcomeInv'
      BY <1>0, <1>5 DEF RefuseSet, Object!RefuseSet, Object!Open,
          Object!object, Object!monitor, Free, confVars, PhaseInv,
          OutcomeInv, Pending, Ended, Applied
    <2> QED
      BY <2>1, <2>2
  <1>16. ASSUME RefuseTimer
        PROVE  PhaseInv' /\ OutcomeInv'
    <2>1. PhaseInv'
      BY <1>0, <1>16 DEF RefuseTimer, Free, confVars, objectVars,
          PhaseInv
    <2>2. OutcomeInv'
      BY <1>0, <1>16 DEF RefuseTimer, Free, confVars, objectVars,
          PhaseInv, OutcomeInv, Pending, Ended, Applied
    <2> QED
      BY <2>1, <2>2
  <1>6. ASSUME Validate
        PROVE  PhaseInv' /\ OutcomeInv'
    <2>1. PhaseInv'
      BY <1>0, <1>6 DEF Validate, Free, confVars, objectVars, PhaseInv
    <2>2. OutcomeInv'
      BY <1>0, <1>6 DEF Validate, Free, confVars, objectVars,
          PhaseInv, OutcomeInv, Pending, Ended, Applied
    <2> QED
      BY <2>1, <2>2
  <1>7. ASSUME ConfigurationCommit
        PROVE  PhaseInv' /\ OutcomeInv'
    <2>0. /\ step'["bus"] \in {"commit", "commitSave", "refused"}
          /\ step'["main"] = step["main"]
          /\ step["bus"] \in {"commit", "commitSave"} \/ BetweenCalls
      BY <1>0, <1>7
      DEF ConfigurationCommit, Conf!BeginCommit, Conf!CommitSkip,
          Conf!CommitSwap, Conf!CommitSave, Conf!Begin, Conf!Advance
    <2>1. PhaseInv'
      <3>1. /\ phase = "commit"
            /\ phase' = IF step'["bus"] = "refused" THEN "rollback" ELSE phase
            /\ UNCHANGED <<rebootStep, rebootAsked, wanted>>
        BY <1>7 DEF ConfigurationCommit, Failed, objectVars
      <3>2. rebootStep # "status"
        BY <1>0, <2>0 DEF BetweenCalls, PhaseInv
      <3> QED
        BY <1>0, <2>0, <3>1, <3>2 DEF PhaseInv
    <2>2. OutcomeInv'
      BY <1>0, <1>7 DEF ConfigurationCommit, BetweenCalls, Failed,
          Conf!BeginCommit, Conf!CommitSkip, Conf!CommitSwap, Conf!CommitSave,
          Conf!Begin, Conf!Advance, Conf!Serving, Conf!config, Conf!history,
          objectVars, PhaseInv, OutcomeInv, Pending, Ended, Applied
    <2> QED
      BY <2>1, <2>2
  <1>8. ASSUME ConfigurationCommitted
        PROVE  PhaseInv' /\ OutcomeInv'
    <2>1. PhaseInv'
      BY <1>0, <1>8 DEF ConfigurationCommitted, Conf!EndCommit,
          Conf!EndTransaction, Conf!Begin, objectVars, PhaseInv
    <2>2. Pending /\ UNCHANGED <<paraValue, before, psm, wanted, phase>>
          /\ Conf!EndCommit /\ phase = "commit"
          /\ asked' = Conf!Nothing /\ step'["bus"] = "idle"
          /\ disturbed' = (reloaded \/ torn)
      BY <1>0, <1>8
      DEF ConfigurationCommitted, Conf!EndCommit, Conf!EndTransaction,
          Conf!Begin, OutcomeInv
    <2>3. ~disturbed' => Applied'
      BY <2>2, CommittedIsApplied DEF Applied, Pending
    <2>4. OutcomeInv'
      BY <2>2, <2>3 DEF OutcomeInv, Ended, Conf!Nothing
    <2> QED
      BY <2>1, <2>4
  <1>9. ASSUME RebootCommit
        PROVE  PhaseInv' /\ OutcomeInv'
    <2>1. PhaseInv'
      BY <1>0, <1>9 DEF RebootCommit, BetweenCalls, Failed, Object!Commit,
          Object!CommitStatus, Object!RequestInv, Object!StagedAgrees,
          Object!monitor, Object!object, Object!history, confVars, PhaseInv
    <2>2. OutcomeInv'
      BY <1>0, <1>9 DEF RebootCommit, BetweenCalls, Failed, Object!Commit,
          Object!CommitStatus, Object!RequestInv, Object!StagedAgrees,
          Object!monitor, Object!object, Object!history, confVars, PhaseInv,
          OutcomeInv, Pending, Ended, Applied
    <2> QED
      BY <2>1, <2>2
  <1>10. ASSUME AnswerSuccess
        PROVE  PhaseInv' /\ OutcomeInv'
    <2>1. PhaseInv'
      BY <1>0, <1>10 DEF AnswerSuccess, BetweenCalls, Close,
          ConfigurationAsked, RebootAsked, Object!Succeed, Object!object,
          Object!monitor, objectVars, confVars, PhaseInv
    <2>2. OutcomeInv'
      BY <1>0, <1>10 DEF AnswerSuccess, BetweenCalls, Close,
          ConfigurationAsked, RebootAsked, Object!Succeed, Object!object,
          Object!monitor, objectVars, confVars, PhaseInv, OutcomeInv, Pending,
          Ended, Applied
    <2> QED
      BY <2>1, <2>2
  <1>11. ASSUME ConfigurationRollback
        PROVE  PhaseInv' /\ OutcomeInv'
    <2>1. PhaseInv'
      BY <1>0, <1>11 DEF ConfigurationRollback, Conf!BeginRollback,
          Conf!RollbackSkip, Conf!RollbackRestore, Conf!RollbackSave,
          Conf!EndRollback, Conf!Begin, Conf!Advance, Conf!EndTransaction,
          Conf!Serving, Conf!config, Conf!history, objectVars, PhaseInv
    <2>2. ASSUME Conf!BeginRollback \/ Conf!RollbackSkip \/ Conf!RollbackRestore
          PROVE  OutcomeInv'
      <3>1. /\ step'["bus"] \in {"rollback", "rollbackSave"}
            /\ phase' = "rollback" /\ disturbed' = (disturbed \/ reloaded \/ torn)
            /\ torn' = torn /\ reloaded' = reloaded
        BY <1>0, <1>11, <2>2
        DEF ConfigurationRollback, Conf!BeginRollback, Conf!RollbackSkip,
            Conf!RollbackRestore, Conf!Begin, Conf!Advance, Conf!history
      <3> QED
        BY <1>0, <3>1 DEF OutcomeInv
    <2>3. ASSUME Conf!RollbackSave
          PROVE  OutcomeInv'
      <3>1. /\ phase' = "rollback" /\ disturbed' = (disturbed \/ reloaded \/ torn')
            /\ \/ step'["bus"] = "rollback" /\ UNCHANGED <<reloaded, torn>>
               \/ step'["bus"] = "idle" /\ torn' /\ asked' = Conf!Nothing
            /\ step["bus"] = "rollbackSave"
        <4>1. \/ Conf!Advance("rollback") /\ UNCHANGED <<reloaded, torn>>
              \/ Conf!EndTransaction /\ torn' = TRUE
          BY <2>3 DEF Conf!RollbackSave
        <4>2. step["bus"] = "rollbackSave"
          BY <2>3 DEF Conf!RollbackSave
        <4> QED
          BY <1>0, <1>11, <4>1, <4>2
          DEF ConfigurationRollback, Conf!Advance, Conf!EndTransaction,
              Conf!Begin
      <3>2. CASE step'["bus"] = "rollback" /\ UNCHANGED <<reloaded, torn>>
        BY <1>0, <3>1, <3>2 DEF OutcomeInv
      <3>3. CASE step'["bus"] = "idle" /\ torn' /\ asked' = Conf!Nothing
        BY <1>0, <3>1, <3>3 DEF OutcomeInv, Ended, Conf!Nothing, Conf!Para
      <3> QED
        BY <3>1, <3>2, <3>3
    <2>4. ASSUME Conf!EndRollback
          PROVE  OutcomeInv'
      <3>1. /\ phase' = "rollback" /\ step'["bus"] = "idle"
            /\ asked' = Conf!Nothing /\ UNCHANGED <<paraValue, before>>
            /\ disturbed => disturbed'
            /\ step["bus"] = "rollback" /\ at["bus"] = N + 1
        BY <1>0, <1>11, <2>4
        DEF ConfigurationRollback, Conf!EndRollback, Conf!EndTransaction,
            Conf!Begin, Conf!config
      <3>2. ~torn => paraValue = before
        BY <3>1, SameConfInv, SameAssumption, ConfP!ExactRollback
        DEF ObjectsInv, ConfP!RollbackRestores
      <3> QED
        BY <1>0, <3>1, <3>2 DEF OutcomeInv, Ended
    <2>5. OutcomeInv'
      BY <1>11, <2>2, <2>3, <2>4 DEF ConfigurationRollback
    <2> QED
      BY <2>1, <2>5
  <1>12. ASSUME RebootRollback
        PROVE  PhaseInv' /\ OutcomeInv'
    <2>1. PhaseInv'
      BY <1>0, <1>12 DEF RebootRollback, Object!OtherFails, Object!Rollback,
          Object!LeaveFlag, Object!object, Object!monitor, Object!history,
          confVars, library, PhaseInv
    <2>2. OutcomeInv'
      BY <1>0, <1>12 DEF RebootRollback, Object!OtherFails, Object!Rollback,
          Object!LeaveFlag, Object!object, Object!monitor, Object!history,
          confVars, library, PhaseInv, OutcomeInv, Pending, Ended, Applied
    <2> QED
      BY <2>1, <2>2
  <1>13. ASSUME AnswerFault
        PROVE  PhaseInv' /\ OutcomeInv'
    <2>1. PhaseInv'
      BY <1>0, <1>13 DEF AnswerFault, BetweenCalls, Close, ConfigurationAsked,
          objectVars, confVars, PhaseInv
    <2>2. OutcomeInv'
      BY <1>0, <1>13 DEF AnswerFault, BetweenCalls, Close, ConfigurationAsked,
          objectVars, confVars, PhaseInv, OutcomeInv, Pending, Ended, Applied
    <2> QED
      BY <2>1, <2>2
  <1>14. ASSUME Monitor
        PROVE  PhaseInv' /\ OutcomeInv'
    <2>1. PhaseInv'
      BY <1>0, <1>14 DEF Monitor, Object!Take, Object!WriteStatus,
          Object!object, Object!history, confVars, library, PhaseInv
    <2>2. OutcomeInv'
      BY <1>0, <1>14 DEF Monitor, Object!Take, Object!WriteStatus,
          Object!object, Object!history, confVars, library, PhaseInv,
          OutcomeInv, Pending, Ended, Applied
    <2> QED
      BY <2>1, <2>2
  <1>15. ASSUME UNCHANGED vars
        PROVE  PhaseInv' /\ OutcomeInv'
    <2>1. PhaseInv'
      BY <1>0, <1>15 DEF vars, confVars, objectVars, library, PhaseInv
    <2>2. OutcomeInv'
      BY <1>0, <1>15 DEF vars, confVars, objectVars, library, PhaseInv,
          OutcomeInv, Pending, Ended, Applied
    <2> QED
      BY <2>1, <2>2
  <1> QED
    BY <1>1, <1>2, <1>3, <1>4, <1>5, <1>6, <1>7, <1>8, <1>9, <1>10, <1>11,
        <1>12, <1>13, <1>14, <1>15, <1>16 DEF Next, BusThread

\* A load goes through the timers one after the other, and raises the flag
\* behind the last one; the flag is up before the monitor thread goes on.
LEMMA LoadNext ==
    ASSUME ObjectsInv, TypeOK, LoadInv, [Next]_vars
    PROVE  LoadInv'
  <1> USE DEF Conf!Thread, Conf!InitSteps, Conf!Para
  <1>0. /\ step \in [Conf!Thread -> Conf!BusSteps]
        /\ at \in [Conf!Thread -> 1 .. (N + 1)] /\ N \in Nat \ {0}
        /\ loaded \subseteq Conf!Para
    BY RebootManagerAssumption
    DEF TypeOK, Conf!TypeOK, Conf!ConfigurationAssumption
  <1>1. ASSUME NEW t \in Conf!Thread, LoadParameters(t)
        PROVE  LoadInv'
    <2>1. CASE Conf!NameRecord(t) /\ UNCHANGED loaded
      <3>1. /\ step[t] = "name" /\ step' = [step EXCEPT ![t] = "get"]
            /\ at' = at /\ started' = started
            /\ BackEndInitDone' = BackEndInitDone
        BY <1>0, <1>1, <2>1
        DEF Conf!NameRecord, LoadParameters, objectVars, RaiseWhenLoaded,
            TypeOK
      <3> QED
        BY <1>0, <2>1, <3>1 DEF LoadInv
    <2>2. CASE Conf!GetRecord(t) /\ loaded' = loaded \cup {at[t]}
      <3>1. at[t] \in 1 .. N /\ step[t] = "get" /\ started' = started
        BY <1>0, <1>1, <2>2
        DEF Conf!GetRecord, LoadParameters, objectVars, ObjectsInv,
            Conf!DurableInv, Conf!ControlInv
      <3>2. \A p \in Conf!Para : p <= at[t] => p \in loaded'
        BY <1>0, <2>2, <3>1 DEF LoadInv
      <3>3. CASE at[t] < N
        <4>1. /\ at' = [at EXCEPT ![t] = at[t] + 1]
              /\ step' = [step EXCEPT ![t] = "name"]
              /\ BackEndInitDone' = BackEndInitDone
          BY <1>0, <1>1, <2>2, <3>3
          DEF Conf!GetRecord, LoadParameters, RaiseWhenLoaded, TypeOK
        <4>2. ASSUME NEW u \in Conf!Thread, NEW p \in Conf!Para,
                     step'[u] \in Conf!InitSteps, p < at'[u]
              PROVE  p \in loaded'
          <5>1. CASE u = t
            BY <1>0, <3>1, <3>2, <4>1, <4>2, <5>1
          <5>2. CASE u # t
            BY <1>0, <2>2, <4>1, <4>2, <5>2 DEF LoadInv
          <5> QED
            BY <5>1, <5>2
        <4>3. BackEndInitDone' => loaded' = Conf!Para
          BY <1>0, <2>2, <3>1, <4>1 DEF LoadInv
        <4> QED
          BY <3>1, <4>1, <4>2, <4>3 DEF LoadInv
      <3>4. CASE ~(at[t] < N)
        <4>1. /\ at' = [at EXCEPT ![t] = 1]
              /\ step' = [step EXCEPT ![t] = "idle"]
              /\ BackEndInitDone'
          BY <1>0, <1>1, <2>2, <3>4
          DEF Conf!GetRecord, LoadParameters, RaiseWhenLoaded
        <4>2. loaded' = Conf!Para
          <5>1. at[t] = N
            BY <1>0, <3>1, <3>4
          <5>2. \A p \in Conf!Para : p \in loaded'
            BY <1>0, <3>2, <5>1
          <5>3. loaded' \subseteq Conf!Para
            BY <1>0, <2>2, <3>1
          <5> QED
            BY <5>2, <5>3
        <4> QED
          BY <1>0, <4>1, <4>2 DEF LoadInv
      <3> QED
        BY <3>3, <3>4
    <2> QED
      BY <1>1, <2>1, <2>2 DEF LoadParameters
  <1>2. ASSUME UNCHANGED backEnd, ~\E t \in Conf!Thread : LoadParameters(t)
        PROVE  LoadInv'
    <2>1. started' => BackEndInitDone
      <3>1. CASE Monitor
        BY <3>1 DEF Monitor, BackEndPolled
      <3>2. CASE UNCHANGED started
        BY <3>2 DEF LoadInv
      <3>3. Monitor \/ UNCHANGED started
        BY <1>2
        DEF Next, BusThread, SystemReady, SetTimer, SetEnable,
            Object!SetParamBoolValue, RefuseSet, Object!RefuseSet, RefuseTimer,
            Validate, ConfigurationCommit, ConfigurationCommitted, RebootCommit,
            Object!Commit, Object!CommitStatus, AnswerSuccess, Object!Succeed,
            ConfigurationRollback, RebootRollback, Object!OtherFails,
            Object!Rollback, AnswerFault, Object!monitor, objectVars, vars
      <3> QED
        BY <3>1, <3>2, <3>3
    <2>2. ASSUME NEW t \in Conf!Thread, step'[t] \in Conf!InitSteps
          PROVE  \/ at'[t] = 1
                 \/ step[t] \in Conf!InitSteps /\ at'[t] = at[t]
      <3>1. CASE UNCHANGED <<step, at>>
        BY <2>2, <3>1
      <3>2. CASE SystemReady
        BY <1>0, <2>2, <3>2 DEF SystemReady, Conf!SystemReady
      <3>3. CASE ConfigurationCommit \/ ConfigurationCommitted
        BY <1>0, <2>2, <3>3
        DEF ConfigurationCommit, ConfigurationCommitted, Conf!BeginCommit,
            Conf!CommitSkip, Conf!CommitSwap, Conf!CommitSave, Conf!EndCommit,
            Conf!EndTransaction, Conf!Begin, Conf!Advance
      <3>4. CASE ConfigurationRollback
        BY <1>0, <2>2, <3>4
        DEF ConfigurationRollback, Conf!BeginRollback, Conf!RollbackSkip,
            Conf!RollbackRestore, Conf!RollbackSave, Conf!EndRollback,
            Conf!EndTransaction, Conf!Begin, Conf!Advance
      <3>5. \/ UNCHANGED <<step, at>> \/ SystemReady \/ ConfigurationCommit
            \/ ConfigurationCommitted \/ ConfigurationRollback
        BY <1>2
        DEF Next, BusThread, SetTimer, Conf!SetParamUlongValue, SetEnable,
            RefuseSet, RefuseTimer, Validate, RebootCommit, AnswerSuccess,
            RebootRollback, AnswerFault, Monitor, Conf!control, confVars, vars
      <3> QED
        BY <3>1, <3>2, <3>3, <3>4, <3>5
    <2> QED
      BY <1>0, <1>2, <2>1, <2>2 DEF LoadInv, backEnd
  <1> QED
    BY <1>1, <1>2, OnlyLoadsRaise

LEMMA ManagerNext ==
    ASSUME ObjectsInv, ObjectsInv', TypeOK, TypeOK', ManagerInv, [Next]_vars
    PROVE  ManagerInv'
  BY TransactionNext, LoadNext DEF ManagerInv

\* Everything that is invariant: of the objects, and of the transactions.
LEMMA AllKept == Spec => [](ObjectsInv /\ TypeOK /\ ManagerInv)
  <1>1. Init /\ ObjectsInv => TypeOK /\ ManagerInv
    BY ManagerInit
    DEF Init, ObjectsInv, TypeOK, Object!RequestInv, Conf!DurableInv,
        Conf!Nothing
  <1>2. ObjectsInv /\ ObjectsInv' /\ TypeOK /\ ManagerInv /\ [Next]_vars
          => (TypeOK /\ ManagerInv)'
    BY TypeNext, ManagerNext
  <1> QED
    BY <1>1, <1>2, ObjectsKept, PTL DEF Spec

\* ManagerInv holds through every transaction.
THEOREM ManagerInvariant == Spec => []ManagerInv
  BY AllKept, PTL

\* The two objects and the library's transaction stay well typed.
THEOREM TypeCorrect == Spec => []TypeOK
  BY AllKept, PTL

\* The flag that the monitor thread polls first keeps it from taking a request,
\* and from reading a timer, before a load was through with every timer: the
\* loads of the two threads may overtake each other, and Enable may be
\* committed while they last.
THEOREM NothingBeforeTheLoad == Spec => []TakenAfterLoad
  <1>1. ManagerInv => TakenAfterLoad
    BY DEF ManagerInv, LoadInv, TakenAfterLoad
  <1> QED
    BY <1>1, AllKept, PTL

\* A success of a transaction over both objects means what it says, unless a load
\* or an earlier, failed rollback came in its way.
THEOREM SuccessIsBoth == Spec => SuccessMeansBoth
  <1>1. ObjectsInv /\ TypeOK /\ ManagerInv /\ [Next]_vars =>
          [AnswerSuccess /\ ~disturbed =>
              /\ wanted # Conf!Nothing => Applied
              /\ rebootAsked # None => bRebootEnabled = rebootAsked]_vars
    <2> SUFFICES ASSUME ObjectsInv, ManagerInv, AnswerSuccess, ~disturbed
                 PROVE  /\ wanted # Conf!Nothing => Applied
                        /\ rebootAsked # None => bRebootEnabled = rebootAsked
      OBVIOUS
    <2>1. wanted # Conf!Nothing => Applied
      BY DEF ManagerInv, OutcomeInv, Pending, Ended, AnswerSuccess,
             BetweenCalls, ConfigurationAsked
    <2>2. rebootAsked # None => bRebootEnabled = rebootAsked
      BY DEF ManagerInv, PhaseInv, AnswerSuccess, ObjectsInv, Object!RequestInv,
             Object!Succeed
    <2> QED
      BY <2>1, <2>2
  <1> QED
    BY <1>1, AllKept, PTL DEF Spec, SuccessMeansBoth

\* A fault of a transaction over both objects leaves the timers as they were, if
\* no load came in its way and no rollback failed, its own or an earlier one.
THEOREM FaultSparesTimers == Spec => FaultKeepsTimers
  <1>1. ObjectsInv /\ TypeOK /\ ManagerInv /\ [Next]_vars =>
          [AnswerFault /\ wanted # Conf!Nothing /\ ~disturbed
              => paraValue = before]_vars
    BY DEF ManagerInv, OutcomeInv, Pending, Ended, AnswerFault, BetweenCalls,
           ConfigurationAsked
  <1> QED
    BY <1>1, AllKept, PTL DEF Spec, FaultKeepsTimers

-----------------------------------------------------------------------------
(* Progress.                                                                *)

LEMMA NearerRank ==
    ASSUME \/ PhasesLeft' < PhasesLeft
           \/ PhasesLeft' = PhasesLeft /\ RebootLeft' < RebootLeft
           \/ /\ PhasesLeft' = PhasesLeft /\ RebootLeft' = RebootLeft
              /\ ConfigurationLeft' < ConfigurationLeft
           \/ /\ PhasesLeft' = PhasesLeft /\ RebootLeft' = RebootLeft
              /\ ConfigurationLeft' = ConfigurationLeft
              /\ CallsLeft' < CallsLeft
    PROVE  Nearer(Rank', Rank)
  BY NearerByPlace DEF Rank

\* The rank is a tuple of natural numbers.
LEMMA RankType == TypeOK => Rank \in [1 .. 4 -> Nat]
  <1> SUFFICES ASSUME TypeOK PROVE Rank \in [1 .. 4 -> Nat]
    OBVIOUS
  <1>1. PhasesLeft \in Nat /\ RebootLeft \in Nat /\ ConfigurationLeft \in Nat
    BY DEF PhasesLeft, RebootLeft, ConfigurationLeft
  <1>2. at["bus"] \in 1 .. (N + 1) /\ N \in Nat
    BY RebootManagerAssumption
    DEF TypeOK, Conf!TypeOK, Conf!Thread, Conf!ConfigurationAssumption
  <1>3. CallsLeft \in Nat
    BY <1>2 DEF CallsLeft
  <1> QED
    BY <1>1, <1>3 DEF Rank

\* A step of a loop over the parameters, as the rank sees it.
LEMMA LoopComesNearer ==
    ASSUME TypeOK, UNCHANGED <<phase, rebootStep, asked>>,
           \/ /\ <<step["bus"], step'["bus"]>> \in
                   {<<"name", "get">>, <<"commit", "commitSave">>,
                    <<"rollback", "rollbackSave">>}
              /\ at'["bus"] = at["bus"]
           \/ /\ <<step["bus"], step'["bus"]>> \in
                   {<<"get", "name">>, <<"commit", "commit">>,
                    <<"commitSave", "commit">>, <<"rollback", "rollback">>,
                    <<"rollbackSave", "rollback">>}
              /\ at'["bus"] = at["bus"] + 1
           \/ /\ step["bus"] = "get" /\ step'["bus"] = "idle"
              /\ at["bus"] <= N
    PROVE  Nearer(Rank', Rank)
  <1>1. PhasesLeft' = PhasesLeft /\ RebootLeft' = RebootLeft
    BY DEF PhasesLeft, RebootLeft
  <1>2. ConfigurationLeft' = ConfigurationLeft
    BY DEF ConfigurationLeft, ConfigurationAsked
  <1>3. at["bus"] \in Nat /\ N \in Nat
    BY RebootManagerAssumption
    DEF TypeOK, Conf!TypeOK, Conf!Thread, Conf!ConfigurationAssumption
  <1>4. CallsLeft' < CallsLeft
    BY <1>3 DEF CallsLeft
  <1> QED
    BY <1>1, <1>2, <1>4, NearerRank

LEMMA BusThreadComesNearer ==
    ASSUME TypeOK, ObjectsInv, BusThread PROVE Nearer(Rank', Rank)
  <1>0. /\ step \in [Conf!Thread -> Conf!BusSteps]
        /\ at \in [Conf!Thread -> 1 .. (N + 1)] /\ N \in Nat
        /\ "bus" \in Conf!Thread
    BY RebootManagerAssumption
    DEF TypeOK, Conf!TypeOK, Conf!Thread, Conf!ConfigurationAssumption
  <1> USE DEF Conf!Begin, Conf!Advance, confVars, objectVars, library,
              Conf!history, Conf!control
  <1>1. CASE LoadParameters("bus")
    <2>1. UNCHANGED <<phase, rebootStep, asked>>
      BY <1>1 DEF LoadParameters, Conf!NameRecord, Conf!GetRecord
    <2>2. \/ /\ step["bus"] = "name" /\ step'["bus"] = "get"
             /\ at'["bus"] = at["bus"]
          \/ /\ step["bus"] = "get" /\ step'["bus"] = "name"
             /\ at'["bus"] = at["bus"] + 1
          \/ /\ step["bus"] = "get" /\ step'["bus"] = "idle"
             /\ at["bus"] <= N
      <3>1. CASE Conf!NameRecord("bus")
        BY <1>0, <3>1 DEF Conf!NameRecord
      <3>2. CASE Conf!GetRecord("bus")
        <4>1. at["bus"] <= N
          BY <1>0, <3>2 DEF Conf!GetRecord, ObjectsInv, Conf!DurableInv,
                            Conf!ControlInv, Conf!InitSteps
        <4> QED
          BY <1>0, <3>2, <4>1 DEF Conf!GetRecord
      <3> QED
        BY <1>1, <3>1, <3>2 DEF LoadParameters
    <2> QED
      BY <2>1, <2>2, LoopComesNearer
  <1>2. CASE ConfigurationCommit
    <2>0. rebootStep' = rebootStep /\ phase = "commit"
      BY <1>2 DEF ConfigurationCommit
    <2>1. CASE Conf!BeginCommit /\ step["bus"] = "idle"
      <3>1. step' ["bus"] = "commit" /\ phase' = phase /\ ConfigurationAsked
        BY <1>0, <1>2, <2>1 DEF ConfigurationCommit, Conf!BeginCommit, Failed,
                                ConfigurationAsked
      <3>2. /\ PhasesLeft' = PhasesLeft /\ RebootLeft' = RebootLeft
            /\ ConfigurationLeft' < ConfigurationLeft
        BY <2>0, <2>1, <3>1 DEF PhasesLeft, RebootLeft, ConfigurationLeft
      <3> QED
        BY <3>2, NearerRank
    <2>2. CASE Conf!CommitSkip \/ Conf!CommitSwap
               \/ (Conf!CommitSave /\ step'["bus"] # "refused")
      <3>1. /\ asked' = asked /\ step'["bus"] # "refused"
            /\ \/ /\ step["bus"] = "commit" /\ step'["bus"] = "commitSave"
                  /\ at'["bus"] = at["bus"]
               \/ /\ step["bus"] \in {"commit", "commitSave"}
                  /\ step'["bus"] = "commit" /\ at'["bus"] = at["bus"] + 1
        BY <1>0, <2>2 DEF Conf!CommitSkip, Conf!CommitSwap, Conf!CommitSave
      <3>2. phase' = phase
        BY <1>2, <3>1 DEF ConfigurationCommit, Failed
      <3> QED
        BY <2>0, <3>1, <3>2, LoopComesNearer
    <2>3. CASE step'["bus"] = "refused"
      <3>1. PhasesLeft' < PhasesLeft
        BY <1>2, <2>3 DEF ConfigurationCommit, Failed, PhasesLeft
      <3> QED
        BY <3>1, NearerRank
    <2> QED
      BY <1>2, <2>1, <2>2, <2>3 DEF ConfigurationCommit, BetweenCalls
  <1>3. CASE ConfigurationCommitted
    <2>1. /\ step["bus"] = "commit" /\ step'["bus"] = "idle"
          /\ asked' = Conf!Nothing
          /\ phase' = phase /\ rebootStep' = rebootStep
      BY <1>0, <1>3 DEF ConfigurationCommitted, Conf!EndCommit,
                        Conf!EndTransaction
    <2>2. /\ PhasesLeft' = PhasesLeft /\ RebootLeft' = RebootLeft
          /\ ConfigurationLeft' < ConfigurationLeft
      BY <2>1 DEF PhasesLeft, RebootLeft, ConfigurationLeft,
                  ConfigurationAsked, Conf!Nothing, Conf!Para
    <2> QED
      BY <2>2, NearerRank
  <1>4. CASE RebootCommit
    <2>1. CASE rebootStep' = "refused"
      <3>1. PhasesLeft' < PhasesLeft
        BY <1>4, <2>1 DEF RebootCommit, Failed, PhasesLeft
      <3> QED
        BY <3>1, NearerRank
    <2>2. CASE rebootStep' # "refused"
      <3>1. PhasesLeft' = PhasesLeft
        BY <1>4, <2>2 DEF RebootCommit, Failed, PhasesLeft
      <3>2. \/ rebootStep = "open" /\ rebootStep' \in {"status", "committed"}
            \/ rebootStep = "status" /\ rebootStep' = "committed"
        BY <1>4, <2>2 DEF RebootCommit, Object!Commit, Object!CommitStatus
      <3>3. RebootLeft' < RebootLeft
        BY <3>2 DEF RebootLeft
      <3> QED
        BY <3>1, <3>3, NearerRank
    <2> QED
      BY <2>1, <2>2
  <1>5. CASE AnswerSuccess \/ AnswerFault
    <2>1. PhasesLeft' < PhasesLeft
      BY <1>5 DEF AnswerSuccess, AnswerFault, Close, PhasesLeft
    <2> QED
      BY <2>1, NearerRank
  <1>6. CASE ConfigurationRollback
    <2>0. phase' = phase /\ rebootStep' = rebootStep
      BY <1>6 DEF ConfigurationRollback
    <2>1. CASE Conf!BeginRollback
      <3>1. /\ step'["bus"] = "rollback"
            /\ step["bus"] = "refused"
                 \/ (step["bus"] = "idle" /\ ConfigurationAsked)
        BY <1>0, <2>1 DEF Conf!BeginRollback, Conf!Serving, ConfigurationAsked
      <3>2. /\ PhasesLeft' = PhasesLeft /\ RebootLeft' = RebootLeft
            /\ ConfigurationLeft' < ConfigurationLeft
        BY <2>0, <3>1 DEF PhasesLeft, RebootLeft, ConfigurationLeft
      <3> QED
        BY <3>2, NearerRank
    <2>2. CASE Conf!RollbackSkip \/ Conf!RollbackRestore
               \/ (Conf!RollbackSave /\ step'["bus"] = "rollback")
      <3>1. /\ asked' = asked
            /\ \/ /\ step["bus"] = "rollback" /\ step'["bus"] = "rollbackSave"
                  /\ at'["bus"] = at["bus"]
               \/ /\ step["bus"] \in {"rollback", "rollbackSave"}
                  /\ step'["bus"] = "rollback" /\ at'["bus"] = at["bus"] + 1
        BY <1>0, <2>2 DEF Conf!RollbackSkip, Conf!RollbackRestore,
                          Conf!RollbackSave, Conf!EndTransaction
      <3> QED
        BY <2>0, <3>1, LoopComesNearer
    <2>3. CASE Conf!EndRollback
               \/ (Conf!RollbackSave /\ step'["bus"] # "rollback")
      <3>1. /\ step["bus"] \in {"rollback", "rollbackSave"}
            /\ step'["bus"] = "idle" /\ asked' = Conf!Nothing
        BY <1>0, <2>3 DEF Conf!EndRollback, Conf!RollbackSave,
                          Conf!EndTransaction
      <3>2. /\ PhasesLeft' = PhasesLeft /\ RebootLeft' = RebootLeft
            /\ ConfigurationLeft' < ConfigurationLeft
        BY <2>0, <3>1 DEF PhasesLeft, RebootLeft, ConfigurationLeft,
                          ConfigurationAsked, Conf!Nothing, Conf!Para
      <3> QED
        BY <3>2, NearerRank
    <2> QED
      BY <1>6, <2>1, <2>2, <2>3 DEF ConfigurationRollback
  <1>7. CASE RebootRollback
    <2>1. /\ phase' = phase
          /\ \/ rebootStep \in {"open", "committed"} /\ rebootStep' = "refused"
             \/ rebootStep = "refused" /\ rebootStep' = "idle"
      BY <1>7 DEF RebootRollback, Object!OtherFails, Object!Rollback
    <2>2. PhasesLeft' = PhasesLeft /\ RebootLeft' < RebootLeft
      BY <2>1 DEF PhasesLeft, RebootLeft
    <2> QED
      BY <2>2, NearerRank
  <1> QED
    BY <1>1, <1>2, <1>3, <1>4, <1>5, <1>6, <1>7 DEF BusThread

\* Once the sets are over only the monitor thread and the load of the main
\* thread run beside the bus thread, and neither touches what it counts.
LEMMA OthersDoNotDelay ==
    ASSUME TypeOK, [Next]_vars, phase # "open", ~BusThread
    PROVE  Rank' = Rank
  <1>0. step \in [Conf!Thread -> Conf!BusSteps]
        /\ at \in [Conf!Thread -> 1 .. (N + 1)] /\ "main" \in Conf!Thread
    BY DEF TypeOK, Conf!TypeOK, Conf!Thread
  <1>1. CASE LoadParameters("main")
    <2>1. UNCHANGED <<phase, rebootStep, asked>>
      BY <1>1 DEF LoadParameters, Conf!NameRecord, Conf!GetRecord,
                  objectVars, library, Conf!history
    <2>2. step'["bus"] = step["bus"] /\ at'["bus"] = at["bus"]
      <3>1. CASE Conf!NameRecord("main")
        BY <1>0, <3>1 DEF Conf!NameRecord
      <3>2. CASE Conf!GetRecord("main")
        <4>1. /\ \E s : step' = [step EXCEPT !["main"] = s]
              /\ \E a : at' = [at EXCEPT !["main"] = a]
          BY <3>2 DEF Conf!GetRecord
        <4> QED
          BY <1>0, <4>1
      <3> QED
        BY <1>1, <3>1, <3>2 DEF LoadParameters
    <2> QED
      BY <2>1, <2>2 DEF Rank, PhasesLeft, RebootLeft, ConfigurationLeft,
                        CallsLeft, ConfigurationAsked
  <1>2. CASE Monitor \/ UNCHANGED vars
    <2>1. UNCHANGED <<phase, rebootStep, asked, step, at>>
      BY <1>2 DEF Monitor, Object!Take, Object!WriteStatus, vars, confVars,
                  objectVars, library
    <2> QED
      BY <2>1 DEF Rank, PhasesLeft, RebootLeft, ConfigurationLeft, CallsLeft,
                  ConfigurationAsked
  <1> QED
    BY <1>1, <1>2 DEF Next, SystemReady, SetTimer, SetEnable, RefuseSet,
                      RefuseTimer, Validate, Free

\* For any number of parameters, and any behaviour of the PSM, a transaction is
\* finitely many steps away from its answer (RankOrderProofs!NearerEnds): each
\* step of the bus thread takes it nearer, and nobody puts it off.
THEOREM AnswerIsNearer == Spec => AnswerComesNearer /\ [](Rank \in [1 .. 4 -> Nat])
  <1>1. TypeOK /\ ObjectsInv /\ [Next]_vars =>
            [/\ BusThread => Nearer(Rank', Rank)
             /\ phase # "open" /\ ~BusThread => Rank' = Rank]_vars
    BY BusThreadComesNearer, OthersDoNotDelay
  <1> QED
    BY <1>1, RankType, AllKept, PTL DEF Spec, AnswerComesNearer

=============================================================================
