------------------------ MODULE ConfigurationProofs ------------------------
(***************************************************************************)
(* Proofs about Configuration, for any number of parameters, any values    *)
(* and any integer widths.                                                 *)
(***************************************************************************)
EXTENDS Configuration, TLAPS

\* What is read back from a text is a parameter value, whatever the text.
LEMMA Conversions ==
    /\ \A word \in Word : Itoa(word) \in Int
    /\ \A text \in Int : Atoi(text) \in Word
  <1>1. ASSUME NEW word \in Word PROVE Itoa(word) \in Int
    BY ConfigurationAssumption DEF Itoa, Word
  <1>2. ASSUME NEW text \in Int PROVE Atoi(text) \in Word
    BY ConfigurationAssumption DEF Atoi, Word
  <1> QED
    BY <1>1, <1>2

\* A save writes the record the shared buffer names, if it writes at all.
LEMMA Saved ==
    ASSUME TypeOK, NEW word \in Word, NEW success \in BOOLEAN,
           recordName \in Para, SavePsmValueRecord(word, success)
    PROVE  /\ psm' \in [Para -> Int \cup {None}]
           /\ \A p \in Para : p # recordName => psm'[p] = psm[p]
           /\ success => psm'[recordName] = Itoa(word)
  BY Conversions DEF TypeOK, SavePsmValueRecord, Store

\* Where a transaction, and a process, begins.
LEMMA Blank ==
    /\ Nothing \in [Para -> Word \cup {None}]
    /\ Clean \in [Para -> {"CAN_COMMIT", "CAN_ROLLBACK", "CAN_NEITHER"}]
    /\ \A p \in Para : Nothing[p] = None /\ Clean[p] = "CAN_NEITHER"
    /\ StartUp \in [Thread -> BusSteps] /\ AtFirst \in [Thread -> 1 .. (N + 1)]
    /\ 0 \in Word /\ Default \in [Para -> Word]
  <1>1. 0 \in Word /\ 1 \in 1 .. (N + 1)
    BY ConfigurationAssumption DEF Word
  <1> QED
    BY <1>1, ConfigurationAssumption
    DEF Nothing, Clean, StartUp, AtFirst, BusSteps, InitSteps

LEMMA DurableInit == Init => DurableInv
  <1> SUFFICES ASSUME Init PROVE DurableInv
    OBVIOUS
  <1>1. 0 \in Word /\ 1 \in 1 .. (N + 1) /\ N >= 1
    BY ConfigurationAssumption DEF Word
  <1>2. psm \in [Para -> Int \cup {None}]
    BY Conversions, ConfigurationAssumption DEF Init
  <1>3. /\ step \in [Thread -> BusSteps] /\ at \in [Thread -> 1 .. (N + 1)]
        /\ \A t \in Thread : at[t] = 1
        /\ step["main"] = "name" /\ step["bus"] = "idle"
    BY <1>1 DEF Init, StartUp, AtFirst, Thread, BusSteps, InitSteps
  <1>4. TypeOK
    BY <1>1, <1>2, <1>3, ConfigurationAssumption
    DEF Init, TypeOK, Nothing, Clean
  <1>5. ControlInv
    BY <1>1, <1>3 DEF ControlInv, InitSteps, Thread, Transacting, Saving
  <1>6. StoreInv /\ Recorded
    BY <1>3 DEF Init, StoreInv, Recorded, Nothing, Clean
  <1> QED
    BY <1>4, <1>5, <1>6 DEF DurableInv

LEMMA DurableNext == DurableInv /\ [Next]_vars => DurableInv'
  <1> SUFFICES ASSUME DurableInv, [Next]_vars PROVE DurableInv'
    OBVIOUS
  <1> USE DEF DurableInv, Exchange, NameSavedRecord, StatesCleared, DropStaged,
  config, control, history, Thread, BusSteps, InitSteps,
              Transacting, Saving, Para
  <1>0. N \in Nat /\ N >= 1 /\ None \notin Int
    BY ConfigurationAssumption
  <1>1. ASSUME NEW t \in Thread, NameRecord(t)
        PROVE  DurableInv'
    <2>1. TypeOK'
      BY <1>0, <1>1 DEF NameRecord, TypeOK, ControlInv
    <2>2. ControlInv'
      BY <1>0, <1>1 DEF NameRecord, TypeOK, ControlInv
    <2>3. StoreInv' /\ Recorded'
      BY <1>0, <1>1 DEF NameRecord, TypeOK, ControlInv, StoreInv, Recorded
    <2> QED
      BY <2>1, <2>2, <2>3
  <1>2. ASSUME NEW t \in Thread, GetRecord(t)
        PROVE  DurableInv'
    <2>1. t \in Thread /\ at[t] \in 1 .. N /\ recordName \in Para /\ step[t] = "get"
      BY <1>2 DEF GetRecord, TypeOK, ControlInv
    <2>2. paraValue' \in [Para -> Word]
      <3>1. CASE /\ psm[recordName] # None
                 /\ paraValue' = [paraValue EXCEPT ![at[t]] = Atoi(psm[recordName])]
        <4>1. Atoi(psm[recordName]) \in Word
          BY <2>1, <3>1, Conversions DEF TypeOK
        <4> QED
          BY <2>1, <3>1, <4>1 DEF TypeOK
      <3>2. CASE UNCHANGED paraValue
        BY <3>2 DEF TypeOK
      <3> QED
        BY <1>2, <3>1, <3>2 DEF GetRecord
    <2>3. /\ at' \in [Thread -> 1 .. (N + 1)] /\ step' \in [Thread -> BusSteps]
          /\ \A u \in Thread : u # t => at'[u] = at[u] /\ step'[u] = step[u]
          /\ step'[t] \in {"name", "idle"} /\ at'[t] <= N
      BY <1>0, <1>2, <2>1 DEF GetRecord, TypeOK
    <2>4. paraState' = [paraState EXCEPT ![at[t]] = "CAN_NEITHER"]
          /\ UNCHANGED <<paraBackup, recordName, psm, history>>
      BY <1>2 DEF GetRecord
    <2>5. TypeOK'
      BY <2>1, <2>2, <2>3, <2>4 DEF TypeOK
    <2>6. ControlInv'
      BY <2>1, <2>3, <2>4
      DEF TypeOK, ControlInv
    <2>7. step'["bus"] \notin {"commit", "commitSave"}
      BY <2>1, <2>3 DEF ControlInv
    <2>8. StoreInv' /\ Recorded'
      BY <2>1, <2>4, <2>7 DEF TypeOK, StoreInv, Recorded
    <2> QED
      BY <2>5, <2>6, <2>8
  <1>3. CASE SystemReady
    <2>1. TypeOK'
      BY <1>0, <1>3 DEF SystemReady, TypeOK, ControlInv
    <2>2. ControlInv'
      BY <1>0, <1>3 DEF SystemReady, TypeOK, ControlInv
    <2>3. StoreInv' /\ Recorded'
      BY <1>0, <1>3 DEF SystemReady, TypeOK, ControlInv, StoreInv, Recorded
    <2> QED
      BY <2>1, <2>2, <2>3
  <1>4. ASSUME NEW p \in Para, NEW word \in Requested, SetParamUlongValue(p, word)
        PROVE  DurableInv'
    <2>1. TypeOK'
      BY <1>0, <1>4, ConfigurationAssumption
      DEF SetParamUlongValue, Serving, TypeOK, ControlInv
    <2>2. ControlInv'
      BY <1>0, <1>4 DEF SetParamUlongValue, Serving, TypeOK, ControlInv
    <2>3. StoreInv' /\ Recorded'
      BY <1>0, <1>4
      DEF SetParamUlongValue, Serving, TypeOK, ControlInv, StoreInv, Recorded
    <2> QED
      BY <2>1, <2>2, <2>3
  <1>5. CASE BeginCommit
    <2>1. TypeOK'
      BY <1>0, <1>5 DEF BeginCommit, Begin, Serving, TypeOK, ControlInv
    <2>2. ControlInv'
      BY <1>0, <1>5 DEF BeginCommit, Begin, Serving, TypeOK, ControlInv
    <2>3. StoreInv' /\ Recorded'
      BY <1>0, <1>5
      DEF BeginCommit, Begin, Serving, TypeOK, ControlInv, StoreInv, Recorded
    <2> QED
      BY <2>1, <2>2, <2>3
  <1>6. CASE CommitSkip
    <2>1. TypeOK'
      BY <1>0, <1>6 DEF CommitSkip, Advance, TypeOK, ControlInv
    <2>2. ControlInv'
      BY <1>0, <1>6 DEF CommitSkip, Advance, TypeOK, ControlInv
    <2>3. StoreInv' /\ Recorded'
      BY <1>0, <1>6
      DEF CommitSkip, Advance, TypeOK, ControlInv, StoreInv, Recorded
    <2> QED
      BY <2>1, <2>2, <2>3
  <1>7. CASE CommitSwap
    <2>1. TypeOK'
      BY <1>0, <1>7 DEF CommitSwap, TypeOK, ControlInv
    <2>2. ControlInv'
      BY <1>0, <1>7 DEF CommitSwap, TypeOK, ControlInv
    <2>3. StoreInv' /\ Recorded'
      BY <1>0, <1>7 DEF CommitSwap, TypeOK, ControlInv, StoreInv, Recorded
    <2> QED
      BY <2>1, <2>2, <2>3
  <1>8. CASE CommitSave
    <2>1. /\ at["bus"] \in Para /\ recordName = at["bus"] /\ step["bus"] = "commitSave"
          /\ paraState[at["bus"]] = "CAN_ROLLBACK" /\ promised[at["bus"]] = None
          /\ step["main"] = "idle" /\ paraValue[at["bus"]] \in Word
      BY <1>0, <1>8
      DEF CommitSave, TypeOK, ControlInv, StoreInv
    <2>2. PICK success \in BOOLEAN :
             /\ SavePsmValueRecord(paraValue[at["bus"]], success)
             /\ success => Advance("commit")
             /\ ~success => Begin("refused")
      BY <1>8 DEF CommitSave
    <2>3. /\ psm' \in [Para -> Int \cup {None}]
          /\ \A p \in Para : p # at["bus"] => psm'[p] = psm[p]
          /\ success => psm'[at["bus"]] = Itoa(paraValue[at["bus"]])
      BY <2>1, <2>2, Saved
    <2>4. UNCHANGED <<config, recordName, history>>
      BY <1>8 DEF CommitSave
    <2>5. /\ step' \in [Thread -> BusSteps] /\ at' \in [Thread -> 1 .. (N + 1)]
          /\ step'["main"] = "idle"
          /\ \/ step'["bus"] = "commit" /\ success /\ at'["bus"] = at["bus"] + 1
             \/ step'["bus"] = "refused"
      BY <1>0, <2>1, <2>2 DEF Advance, Begin, TypeOK
    <2>6. TypeOK'
      BY <2>3, <2>4, <2>5 DEF TypeOK
    <2>7. ControlInv'
      BY <2>4, <2>5 DEF ControlInv
    <2>8. StoreInv'
      <3>1. ASSUME step'["bus"] = "commit", NEW p \in Para, p < at'["bus"],
                   paraState[p] = "CAN_ROLLBACK"
            PROVE  psm'[p] = Itoa(paraValue[p])
        <4>1. CASE p = at["bus"]
          BY <2>3, <2>5, <3>1, <4>1
        <4>2. CASE p # at["bus"]
          <5>1. p < at["bus"]
            BY <1>0, <2>1, <2>5, <3>1, <4>2 
          <5> QED
            BY <1>8, <2>3, <3>1, <4>2, <5>1 DEF StoreInv, CommitSave
        <4> QED
          BY <4>1, <4>2
      <3> QED
        BY <2>4, <2>5, <3>1 DEF StoreInv
    <2>9. Recorded'
      BY <2>1, <2>3, <2>4 DEF Recorded
    <2> QED
      BY <2>6, <2>7, <2>8, <2>9
  <1>9. CASE EndCommit
    <2>1. TypeOK'
      <3>1. promised' \in [Para -> Word \cup {None}]
        BY <1>9 DEF EndCommit, TypeOK
      <3>2. step' \in [Thread -> BusSteps] /\ at' \in [Thread -> 1 .. (N + 1)]
        BY <1>0, <1>9 DEF EndCommit, EndTransaction, Begin, TypeOK
      <3> QED
        BY <1>9, <3>1, <3>2, Blank DEF EndCommit, EndTransaction, TypeOK
    <2>2. ControlInv'
      BY <1>0, <1>9
      DEF EndCommit, EndTransaction, Begin, Clean, Nothing, TypeOK, ControlInv
    <2>3. StoreInv' /\ Recorded'
      BY <1>0, <1>9
      DEF EndCommit, EndTransaction, Begin, Clean, Nothing, TypeOK, ControlInv,
          StoreInv, Recorded
    <2> QED
      BY <2>1, <2>2, <2>3
  <1>10. CASE BeginRollback
    <2>1. TypeOK'
      BY <1>0, <1>10 DEF BeginRollback, Begin, Serving, TypeOK, ControlInv
    <2>2. ControlInv'
      BY <1>0, <1>10 DEF BeginRollback, Begin, Serving, TypeOK, ControlInv
    <2>3. StoreInv' /\ Recorded'
      BY <1>0, <1>10
      DEF BeginRollback, Begin, Serving, TypeOK, ControlInv, StoreInv,
          Recorded
    <2> QED
      BY <2>1, <2>2, <2>3
  <1>11. CASE RollbackSkip
    <2>1. TypeOK'
      BY <1>0, <1>11 DEF RollbackSkip, Advance, TypeOK, ControlInv
    <2>2. ControlInv'
      BY <1>0, <1>11 DEF RollbackSkip, Advance, TypeOK, ControlInv
    <2>3. StoreInv' /\ Recorded'
      BY <1>0, <1>11
      DEF RollbackSkip, Advance, TypeOK, ControlInv, StoreInv, Recorded
    <2> QED
      BY <2>1, <2>2, <2>3
  <1>12. CASE RollbackRestore
    <2>1. TypeOK'
      BY <1>0, <1>12 DEF RollbackRestore, TypeOK, ControlInv
    <2>2. ControlInv'
      BY <1>0, <1>12 DEF RollbackRestore, TypeOK, ControlInv
    <2>3. StoreInv' /\ Recorded'
      BY <1>0, <1>12
      DEF RollbackRestore, TypeOK, ControlInv, StoreInv, Recorded
    <2> QED
      BY <2>1, <2>2, <2>3
  <1>13. CASE RollbackSave
    <2>1. /\ at["bus"] \in Para /\ recordName = at["bus"] /\ step["bus"] = "rollbackSave"
          /\ paraState[at["bus"]] = "CAN_ROLLBACK" /\ promised[at["bus"]] = None
          /\ step["main"] = "idle" /\ paraValue[at["bus"]] \in Word
      BY <1>0, <1>13
      DEF RollbackSave, TypeOK, ControlInv, StoreInv
    <2>2. UNCHANGED <<paraValue, paraBackup, recordName, before>>
      BY <1>13 DEF RollbackSave
    <2>3. CASE /\ SavePsmValueRecord(paraValue[at["bus"]], TRUE)
               /\ Advance("rollback")
               /\ paraState' = [paraState EXCEPT ![at["bus"]] = "CAN_NEITHER"]
               /\ promised' = [promised EXCEPT ![at["bus"]] = paraValue[at["bus"]]]
               /\ UNCHANGED <<asked, reloaded, torn>>
      <3>1. /\ psm' \in [Para -> Int \cup {None}]
            /\ \A p \in Para : p # at["bus"] => psm'[p] = psm[p]
            /\ psm'[at["bus"]] = Itoa(paraValue[at["bus"]])
        BY <2>1, <2>3, Saved
      <3>2. /\ step' \in [Thread -> BusSteps] /\ at' \in [Thread -> 1 .. (N + 1)]
            /\ step'["main"] = "idle" /\ step'["bus"] = "rollback"
        BY <1>0, <2>1, <2>3 DEF Advance, TypeOK
      <3>3. TypeOK'
        BY <2>1, <2>2, <2>3, <3>1, <3>2 DEF TypeOK
      <3>4. ControlInv'
        BY <3>2 DEF ControlInv
      <3>5. StoreInv' /\ Recorded'
        BY <2>1, <2>3, <3>1, <3>2 DEF StoreInv, Recorded, TypeOK
      <3> QED
        BY <3>3, <3>4, <3>5
    <2>4. CASE /\ SavePsmValueRecord(paraValue[at["bus"]], FALSE)
               /\ EndTransaction /\ torn' = TRUE
               /\ UNCHANGED <<paraState, promised>>
      <3>1. /\ psm' \in [Para -> Int \cup {None}]
            /\ \A p \in Para : p # at["bus"] => psm'[p] = psm[p]
        BY <2>1, <2>4, Saved
      <3>2. /\ step' \in [Thread -> BusSteps] /\ at' \in [Thread -> 1 .. (N + 1)]
            /\ step'["main"] = "idle" /\ step'["bus"] = "idle"
            /\ asked' = Nothing /\ reloaded' = FALSE
        BY <1>0, <2>1, <2>4 DEF EndTransaction, Begin, TypeOK
      <3>3. TypeOK'
        BY <2>2, <2>4, <3>1, <3>2, Blank DEF TypeOK
      <3>4. ControlInv'
        BY <3>2 DEF ControlInv
      <3>5. StoreInv' /\ Recorded'
        BY <2>1, <2>4, <3>1, <3>2 DEF StoreInv, Recorded
      <3> QED
        BY <3>3, <3>4, <3>5
    <2> QED
      BY <1>13, <2>3, <2>4 DEF RollbackSave
  <1>14. CASE EndRollback
    <2>1. TypeOK'
      <3>1. step' \in [Thread -> BusSteps] /\ at' \in [Thread -> 1 .. (N + 1)]
        BY <1>0, <1>14 DEF EndRollback, EndTransaction, Begin, TypeOK
      <3> QED
        BY <1>14, <3>1, Blank DEF EndRollback, EndTransaction, TypeOK
    <2>2. ControlInv'
      BY <1>0, <1>14
      DEF EndRollback, EndTransaction, Begin, Nothing, TypeOK, ControlInv
    <2>3. StoreInv' /\ Recorded'
      BY <1>0, <1>14
      DEF EndRollback, EndTransaction, Begin, Nothing, TypeOK, ControlInv,
          StoreInv, Recorded
    <2> QED
      BY <2>1, <2>2, <2>3
  <1>15. CASE Crash
    <2>1. TypeOK'
      BY <1>0, Blank, <1>15 DEF Crash, TypeOK, ControlInv
    <2>2. ControlInv'
      BY <1>0, <1>15
      DEF Crash, StartUp, AtFirst, Clean, Nothing, TypeOK, ControlInv
    <2>3. StoreInv' /\ Recorded'
      BY <1>0, <1>15
      DEF Crash, StartUp, AtFirst, Clean, Nothing, TypeOK, ControlInv,
          StoreInv, Recorded
    <2> QED
      BY <2>1, <2>2, <2>3
  <1>16. CASE UNCHANGED vars
    BY <1>16 DEF vars, TypeOK, ControlInv, StoreInv, Recorded
  <1> QED
    BY <1>1, <1>2, <1>3, <1>4, <1>5, <1>6, <1>7, <1>8, <1>9, <1>10, <1>11,
        <1>12, <1>13, <1>14, <1>15, <1>16 DEF Next

\* A value that fits is read back as it was written.
LEMMA RoundTrip ==
    ASSUME NEW word \in Word, Fits(word)
    PROVE  Atoi(Itoa(word)) = word
  <1>1. word \in Nat /\ word < LongModulus /\ word % LongModulus = word
        /\ IntModulus \in Nat \ {0} /\ LongModulus \in Nat \ {0}
    BY ConfigurationAssumption DEF Word
  <1>2. CASE 2 * word < IntModulus
    <2>1. word % IntModulus = word
      BY <1>1, <1>2
    <2> QED
      BY <1>1, <1>2, <2>1 DEF Itoa, Atoi
  <1>3. CASE IntModulus = LongModulus /\ ~(2 * word < IntModulus)
    <2>1. Itoa(word) = word - LongModulus
      BY <1>1, <1>3 DEF Itoa
    <2>2. (word - LongModulus) % LongModulus = word
      BY <1>1
    <2> QED
      BY <2>1, <2>2 DEF Atoi
  <1> QED
    BY <1>2, <1>3 DEF Fits

\* For any number of parameters and any widths: a commit reported as a success
\* is what the next load reads, until a later transaction reaches it.
THEOREM CommitIsDurable == Spec => []DurableCommit
  <1>1. DurableInv => DurableCommit
    <2> SUFFICES ASSUME DurableInv, NEW p \in Para, promised[p] # None,
                        Fits(promised[p])
                 PROVE  psm[p] # None /\ Atoi(psm[p]) = promised[p]
      BY DEF DurableCommit
    <2>1. promised[p] \in Word /\ psm[p] = Itoa(promised[p])
      BY DEF DurableInv, TypeOK, Recorded
    <2>2. Itoa(promised[p]) \in Int /\ None \notin Int
      BY <2>1, Conversions, ConfigurationAssumption
    <2> QED
      BY <2>1, <2>2, RoundTrip
  <1> QED
    BY DurableInit, DurableNext, <1>1, PTL DEF Spec

-----------------------------------------------------------------------------
(* A commit and a rollback do exactly what they say.                        *)

LEMMA ExactInit == Init => ExactInv
  <1> SUFFICES ASSUME Init PROVE ExactInv
    OBVIOUS
  <1>1. TypeOK /\ ControlInv
    BY DurableInit DEF DurableInv
  <1>2. step["bus"] = "idle" /\ asked = Nothing /\ paraState = Clean
    BY DEF Init, StartUp, Thread
  <1>3. ProgressInv
    BY <1>2 DEF ProgressInv, InitSteps
  <1>4. ASSUME NEW p \in Para PROVE Undoable(p) /\ Staged(p)
    BY <1>2, Blank DEF Undoable, Staged, Transacting
  <1> QED
    BY <1>1, <1>3, <1>4 DEF ExactInv

\* Types and control are kept: that is part of DurableNext.
LEMMA ExactNext ==
    ASSUME ExactInv, DurableInv', [Next]_vars
    PROVE  ExactInv'
  <1> USE DEF Exchange, NameSavedRecord, StatesCleared, DropStaged,
              config, control, history, Thread, BusSteps, InitSteps,
              Transacting, Saving, Para
  <1>0. /\ N \in Nat /\ N >= 1 /\ None \notin Int
        /\ TypeOK /\ ControlInv /\ ProgressInv
        /\ ~torn => \A p \in Para : Undoable(p)
        /\ ~torn /\ ~reloaded => \A p \in Para : Staged(p)
    BY ConfigurationAssumption DEF ExactInv
  <1> SUFFICES /\ ProgressInv'
               /\ \A q \in Para : ~torn' => Undoable(q)'
               /\ \A q \in Para : ~torn' /\ ~reloaded' => Staged(q)'
    BY DEF ExactInv, DurableInv
  <1>1. ASSUME NEW t \in Thread, NameRecord(t), NEW q \in Para
        PROVE  /\ ProgressInv' /\ (~torn' => Undoable(q)')
               /\ (~torn' /\ ~reloaded' => Staged(q)')
    <2>1. ProgressInv'
      BY <1>0, <1>1
      DEF NameRecord, TypeOK, ControlInv, ProgressInv
    <2>2. ~torn' => Undoable(q)'
      BY <1>0, <1>1
      DEF NameRecord, TypeOK, ControlInv, ProgressInv, Undoable
    <2>3. ~torn' /\ ~reloaded' => Staged(q)'
      BY <1>0, <1>1
      DEF NameRecord, TypeOK, ControlInv, ProgressInv, Staged, Nothing
    <2> QED
      BY <2>1, <2>2, <2>3
  <1>2. ASSUME NEW t \in Thread, GetRecord(t), NEW q \in Para
        PROVE  /\ ProgressInv' /\ (~torn' => Undoable(q)')
               /\ (~torn' /\ ~reloaded' => Staged(q)')
    <2>1. ProgressInv'
      BY <1>0, <1>2
      DEF GetRecord, TypeOK, ControlInv, ProgressInv
    <2>2. ~torn' => Undoable(q)'
      BY <1>0, <1>2
      DEF GetRecord, TypeOK, ControlInv, ProgressInv, Undoable
    <2>3. ~torn' /\ ~reloaded' => Staged(q)'
      BY <1>0, <1>2
      DEF GetRecord, TypeOK, ControlInv, ProgressInv, Staged, Nothing
    <2> QED
      BY <2>1, <2>2, <2>3
  <1>3. ASSUME SystemReady, NEW q \in Para
        PROVE  /\ ProgressInv' /\ (~torn' => Undoable(q)')
               /\ (~torn' /\ ~reloaded' => Staged(q)')
    <2>1. ProgressInv'
      BY <1>0, <1>3
      DEF SystemReady, TypeOK, ControlInv, ProgressInv
    <2>2. ~torn' => Undoable(q)'
      BY <1>0, <1>3
      DEF SystemReady, TypeOK, ControlInv, ProgressInv, Undoable
    <2>3. ~torn' /\ ~reloaded' => Staged(q)'
      BY <1>0, <1>3
      DEF SystemReady, TypeOK, ControlInv, ProgressInv, Staged, Nothing
    <2> QED
      BY <2>1, <2>2, <2>3
  <1>4. ASSUME NEW p \in Para, NEW word \in Requested, SetParamUlongValue(p, word), NEW q \in Para
        PROVE  /\ ProgressInv' /\ (~torn' => Undoable(q)')
               /\ (~torn' /\ ~reloaded' => Staged(q)')
    <2>0. word \in Word /\ word # None
      BY <1>0, ConfigurationAssumption DEF Word
    <2>1. ProgressInv'
      BY <1>0, <1>4
      DEF SetParamUlongValue, Serving, TypeOK, ControlInv, ProgressInv
    <2>2. ~torn' => Undoable(q)'
      BY <1>0, <1>4
      DEF SetParamUlongValue, Serving, TypeOK, ControlInv, ProgressInv, Undoable
    <2>3. ~torn' /\ ~reloaded' => Staged(q)'
      BY <1>0, <1>4, <2>0
      DEF SetParamUlongValue, Serving, TypeOK, ControlInv, ProgressInv,
          Staged, Nothing
    <2> QED
      BY <2>1, <2>2, <2>3
  <1>5. ASSUME BeginCommit, NEW q \in Para
        PROVE  /\ ProgressInv' /\ (~torn' => Undoable(q)')
               /\ (~torn' /\ ~reloaded' => Staged(q)')
    <2>1. ProgressInv'
      BY <1>0, <1>5
      DEF BeginCommit, Begin, Serving, TypeOK, ControlInv, ProgressInv, Undoable
    <2>2. ~torn' => Undoable(q)'
      BY <1>0, <1>5
      DEF BeginCommit, Begin, Serving, TypeOK, ControlInv, ProgressInv, Undoable
    <2>3. ~torn' /\ ~reloaded' => Staged(q)'
      BY <1>0, <1>5
      DEF BeginCommit, Begin, Serving, TypeOK, ControlInv, Undoable, Staged
    <2> QED
      BY <2>1, <2>2, <2>3
  <1>6. ASSUME CommitSkip, NEW q \in Para
        PROVE  /\ ProgressInv' /\ (~torn' => Undoable(q)')
               /\ (~torn' /\ ~reloaded' => Staged(q)')
    <2>1. ProgressInv'
      BY <1>0, <1>6
      DEF CommitSkip, Advance, TypeOK, ControlInv, ProgressInv
    <2>2. ~torn' => Undoable(q)'
      BY <1>0, <1>6
      DEF CommitSkip, Advance, TypeOK, ControlInv, ProgressInv, Undoable
    <2>3. ~torn' /\ ~reloaded' => Staged(q)'
      BY <1>0, <1>6
      DEF CommitSkip, Advance, TypeOK, ControlInv, ProgressInv, Staged, Nothing
    <2> QED
      BY <2>1, <2>2, <2>3
  <1>7. ASSUME CommitSwap, NEW q \in Para
        PROVE  /\ ProgressInv' /\ (~torn' => Undoable(q)')
               /\ (~torn' /\ ~reloaded' => Staged(q)')
    <2>1. ProgressInv'
      BY <1>0, <1>7
      DEF CommitSwap, TypeOK, ControlInv, ProgressInv
    <2>2. ~torn' => Undoable(q)'
      BY <1>0, <1>7
      DEF CommitSwap, TypeOK, ControlInv, ProgressInv, Undoable
    <2>3. ~torn' /\ ~reloaded' => Staged(q)'
      BY <1>0, <1>7
      DEF CommitSwap, TypeOK, ControlInv, ProgressInv, Staged, Nothing
    <2> QED
      BY <2>1, <2>2, <2>3
  <1>8. ASSUME CommitSave, NEW q \in Para
        PROVE  /\ ProgressInv' /\ (~torn' => Undoable(q)')
               /\ (~torn' /\ ~reloaded' => Staged(q)')
    <2>0. /\ \/ step'["bus"] = "commit" /\ at'["bus"] = at["bus"] + 1
             \/ step'["bus"] = "refused"
          /\ step'["main"] = step["main"] /\ at["bus"] \in Para
          /\ UNCHANGED <<paraState, asked, torn>>
      <3>1. Advance("commit") \/ Begin("refused")
        BY <1>8 DEF CommitSave
      <3>2. step["bus"] = "commitSave" /\ UNCHANGED <<config, recordName, history>>
        BY <1>8 DEF CommitSave
      <3> QED
        BY <1>0, <3>1, <3>2 DEF Advance, Begin, TypeOK, ControlInv
    <2>1. ProgressInv'
      BY <1>0, <1>8, <2>0 DEF CommitSave, TypeOK, ControlInv, ProgressInv
    <2>2. ~torn' => Undoable(q)'
      BY <1>0, <1>8
      DEF CommitSave, Advance, Begin, TypeOK, ControlInv, ProgressInv, Undoable
    <2>3. ~torn' /\ ~reloaded' => Staged(q)'
      BY <1>0, <1>8
      DEF CommitSave, Advance, Begin, TypeOK, ControlInv, ProgressInv, Staged,
          Nothing
    <2> QED
      BY <2>1, <2>2, <2>3
  <1>9. ASSUME EndCommit, NEW q \in Para
        PROVE  /\ ProgressInv' /\ (~torn' => Undoable(q)')
               /\ (~torn' /\ ~reloaded' => Staged(q)')
    <2>1. ProgressInv'
      BY <1>0, <1>9
      DEF EndCommit, EndTransaction, Begin, Clean, Nothing, TypeOK,
          ControlInv, ProgressInv
    <2>2. ~torn' => Undoable(q)'
      BY <1>0, <1>9
      DEF EndCommit, EndTransaction, Begin, Clean, Nothing, TypeOK,
          ControlInv, ProgressInv, Undoable
    <2>3. ~torn' /\ ~reloaded' => Staged(q)'
      BY <1>0, <1>9
      DEF EndCommit, EndTransaction, Begin, Clean, TypeOK, ControlInv,
          ProgressInv, Staged, Nothing
    <2> QED
      BY <2>1, <2>2, <2>3
  <1>10. ASSUME BeginRollback, NEW q \in Para
        PROVE  /\ ProgressInv' /\ (~torn' => Undoable(q)')
               /\ (~torn' /\ ~reloaded' => Staged(q)')
    <2>1. ProgressInv'
      BY <1>0, <1>10
      DEF BeginRollback, Begin, Serving, TypeOK, ControlInv, ProgressInv
    <2>2. ~torn' => Undoable(q)'
      BY <1>0, <1>10
      DEF BeginRollback, Begin, Serving, TypeOK, ControlInv, ProgressInv,
          Undoable
    <2>3. ~torn' /\ ~reloaded' => Staged(q)'
      BY <1>0, <1>10
      DEF BeginRollback, Begin, Serving, TypeOK, ControlInv, ProgressInv,
          Staged, Nothing
    <2> QED
      BY <2>1, <2>2, <2>3
  <1>11. ASSUME RollbackSkip, NEW q \in Para
        PROVE  /\ ProgressInv' /\ (~torn' => Undoable(q)')
               /\ (~torn' /\ ~reloaded' => Staged(q)')
    <2>1. ProgressInv'
      BY <1>0, <1>11
      DEF RollbackSkip, Advance, TypeOK, ControlInv, ProgressInv
    <2>2. ~torn' => Undoable(q)'
      BY <1>0, <1>11
      DEF RollbackSkip, Advance, TypeOK, ControlInv, ProgressInv, Undoable
    <2>3. ~torn' /\ ~reloaded' => Staged(q)'
      BY <1>0, <1>11
      DEF RollbackSkip, Advance, TypeOK, ControlInv, ProgressInv, Staged,
          Nothing
    <2> QED
      BY <2>1, <2>2, <2>3
  <1>12. ASSUME RollbackRestore, NEW q \in Para
        PROVE  /\ ProgressInv' /\ (~torn' => Undoable(q)')
               /\ (~torn' /\ ~reloaded' => Staged(q)')
    <2>1. ProgressInv'
      BY <1>0, <1>12
      DEF RollbackRestore, TypeOK, ControlInv, ProgressInv
    <2>2. ~torn' => Undoable(q)'
      BY <1>0, <1>12
      DEF RollbackRestore, TypeOK, ControlInv, ProgressInv, Undoable
    <2>3. ~torn' /\ ~reloaded' => Staged(q)'
      BY <1>0, <1>12
      DEF RollbackRestore, TypeOK, ControlInv, Undoable, Staged
    <2> QED
      BY <2>1, <2>2, <2>3
  <1>13. ASSUME RollbackSave, NEW q \in Para
        PROVE  /\ ProgressInv' /\ (~torn' => Undoable(q)')
               /\ (~torn' /\ ~reloaded' => Staged(q)')
    <2>0. /\ \/ /\ step'["bus"] = "rollback" /\ at'["bus"] = at["bus"] + 1
                /\ paraState' = [paraState EXCEPT ![at["bus"]] = "CAN_NEITHER"]
                /\ UNCHANGED <<asked, reloaded, torn>>
             \/ step'["bus"] = "idle" /\ torn'
          /\ step["bus"] = "rollbackSave" /\ at["bus"] \in Para
          /\ step'["main"] = "idle"
          /\ asked' \in {asked, Nothing}
          /\ UNCHANGED <<paraValue, paraBackup, before>>
      <3>1. \/ /\ Advance("rollback")
               /\ paraState' = [paraState EXCEPT ![at["bus"]] = "CAN_NEITHER"]
               /\ UNCHANGED <<asked, reloaded, torn>>
            \/ EndTransaction /\ torn' = TRUE
        BY <1>13 DEF RollbackSave
      <3>2. /\ step["bus"] = "rollbackSave"
            /\ UNCHANGED <<paraValue, paraBackup, recordName, before>>
        BY <1>13 DEF RollbackSave
      <3> QED
        BY <1>0, <3>1, <3>2
        DEF EndTransaction, Begin, Advance, TypeOK, ControlInv
    <2>1. CASE step'["bus"] = "idle" /\ torn'
      BY <2>0, <2>1 DEF ProgressInv
    <2>2. CASE /\ step'["bus"] = "rollback" /\ at'["bus"] = at["bus"] + 1
               /\ paraState' = [paraState EXCEPT ![at["bus"]] = "CAN_NEITHER"]
               /\ UNCHANGED <<asked, reloaded, torn>>
      <3>1. /\ paraState'[at["bus"]] = "CAN_NEITHER"
            /\ \A p \in Para : p # at["bus"] => paraState'[p] = paraState[p]
        BY <1>0, <2>0, <2>2 DEF TypeOK
      <3>2. \A p \in Para : p < at'["bus"] => paraState'[p] = "CAN_NEITHER"
        <4>1. ASSUME NEW p \in Para, p < at["bus"] + 1, p # at["bus"]
              PROVE  p < at["bus"]
          BY <1>0, <2>0, <4>1
        <4> QED
          BY <1>0, <2>0, <2>2, <3>1, <4>1 DEF ProgressInv
      <3>3. ProgressInv'
        BY <2>0, <2>2, <3>2 DEF ProgressInv
      <3>4. ~torn' => Undoable(q)'
        BY <1>0, <1>13, <2>0, <2>2, <3>1 DEF Undoable, ProgressInv, ControlInv
      <3>5. ~torn' /\ ~reloaded' => Staged(q)'
        BY <1>0, <2>0, <2>2, <3>1 DEF Staged
      <3> QED
        BY <3>3, <3>4, <3>5
    <2> QED
      BY <2>0, <2>1, <2>2
  <1>14. ASSUME EndRollback, NEW q \in Para
        PROVE  /\ ProgressInv' /\ (~torn' => Undoable(q)')
               /\ (~torn' /\ ~reloaded' => Staged(q)')
    <2>1. ProgressInv'
      BY <1>0, <1>14
      DEF EndRollback, EndTransaction, Begin, Nothing, TypeOK, ControlInv,
          ProgressInv
    <2>2. ~torn' => Undoable(q)'
      BY <1>0, <1>14
      DEF EndRollback, EndTransaction, Begin, Nothing, TypeOK, ControlInv,
          ProgressInv, Undoable
    <2>3. ~torn' /\ ~reloaded' => Staged(q)'
      BY <1>0, <1>14
      DEF EndRollback, EndTransaction, Begin, TypeOK, ControlInv, ProgressInv,
          Staged, Nothing
    <2> QED
      BY <2>1, <2>2, <2>3
  <1>15. ASSUME Crash, NEW q \in Para
        PROVE  /\ ProgressInv' /\ (~torn' => Undoable(q)')
               /\ (~torn' /\ ~reloaded' => Staged(q)')
    <2>1. ProgressInv'
      BY <1>0, <1>15
      DEF Crash, StartUp, AtFirst, Clean, Nothing, TypeOK, ControlInv,
          ProgressInv
    <2>2. ~torn' => Undoable(q)'
      BY <1>0, <1>15
      DEF Crash, StartUp, AtFirst, Clean, Nothing, TypeOK, ControlInv,
          ProgressInv, Undoable
    <2>3. ~torn' /\ ~reloaded' => Staged(q)'
      BY <1>0, <1>15
      DEF Crash, StartUp, AtFirst, Clean, TypeOK, ControlInv, ProgressInv,
          Staged, Nothing
    <2> QED
      BY <2>1, <2>2, <2>3
  <1>16. ASSUME UNCHANGED vars, NEW q \in Para
        PROVE  /\ ProgressInv' /\ (~torn' => Undoable(q)')
               /\ (~torn' /\ ~reloaded' => Staged(q)')
    <2>1. ProgressInv'
      BY <1>0, <1>16
      DEF vars, TypeOK, ControlInv, ProgressInv
    <2>2. ~torn' => Undoable(q)'
      BY <1>0, <1>16
      DEF vars, TypeOK, ControlInv, ProgressInv, Undoable
    <2>3. ~torn' /\ ~reloaded' => Staged(q)'
      BY <1>0, <1>16
      DEF vars, TypeOK, ControlInv, ProgressInv, Staged, Nothing
    <2> QED
      BY <2>1, <2>2, <2>3
  <1> QED
    BY <1>0, <1>1, <1>2, <1>3, <1>4, <1>5, <1>6, <1>7, <1>8, <1>9, <1>10, <1>11,
        <1>12, <1>13, <1>14, <1>15, <1>16 DEF Next

\* The words, states and names of Configuration stay well typed.
THEOREM TypeCorrect == Spec => []TypeOK
  <1>1. DurableInv => TypeOK
    BY DEF DurableInv
  <1> QED
    BY DurableInit, DurableNext, <1>1, PTL DEF Spec

\* ExactInv holds at every step of Configuration_Commit and _Rollback.
THEOREM ExactInvariant == Spec => []ExactInv
  <1>1. Spec => []DurableInv
    BY DurableInit, DurableNext, PTL DEF Spec
  <1>2. DurableInv' /\ ExactInv /\ [Next]_vars => ExactInv'
    BY ExactNext
  <1> QED
    BY <1>1, <1>2, ExactInit, PTL DEF Spec

LEMMA ExactCommit == ExactInv => CommitIsExact
  <1> SUFFICES ASSUME ExactInv, step["bus"] = "commit", at["bus"] = N + 1,
                      ~reloaded, ~torn
               PROVE  paraValue = [p \in Para |-> IF asked[p] = None
                                                  THEN before[p]
                                                  ELSE asked[p]]
    BY DEF CommitIsExact
  <1>1. ASSUME NEW p \in Para
        PROVE  paraValue[p] = IF asked[p] = None THEN before[p] ELSE asked[p]
    <2>1. N \in Nat /\ p < at["bus"]
      BY ConfigurationAssumption DEF Para
    <2>2. /\ paraState[p] \in {"CAN_ROLLBACK", "CAN_NEITHER"}
          /\ Undoable(p) /\ Staged(p)
      BY <2>1 DEF ExactInv, ProgressInv, TypeOK
    <2> QED
      BY <2>2 DEF Undoable, Staged, Transacting
  <1> QED
    BY <1>1 DEF ExactInv, TypeOK

LEMMA ExactRollback == ExactInv => RollbackRestores
  <1> SUFFICES ASSUME ExactInv, step["bus"] = "rollback", at["bus"] = N + 1,
                      ~torn
               PROVE  paraValue = before
    BY DEF RollbackRestores
  <1>1. ASSUME NEW p \in Para PROVE paraValue[p] = before[p]
    <2>1. N \in Nat /\ p < at["bus"]
      BY ConfigurationAssumption DEF Para
    <2>2. paraState[p] = "CAN_NEITHER" /\ Undoable(p)
      BY <2>1 DEF ExactInv, ProgressInv
    <2> QED
      BY <2>2 DEF Undoable, Transacting
  <1> QED
    BY <1>1 DEF ExactInv, TypeOK

\* A commit that returns success has applied what its transaction set, and
\* nothing else, provided that no load discarded the set and that no earlier
\* rollback failed.
THEOREM CommitsExactly == Spec => []CommitIsExact
  BY ExactCommit, ExactInvariant, PTL

\* A rollback that returns success has undone its commit, unless an earlier
\* rollback failed.
THEOREM RollsBackExactly == Spec => []RollbackRestores
  BY ExactRollback, ExactInvariant, PTL

LEMMA ExactReads == ExactInv => TimerIsOldOrNew
  <1> SUFFICES ASSUME ExactInv, step["bus"] \in Transacting, ~reloaded, ~torn,
                      NEW p \in Para
               PROVE  paraValue[p] \in {before[p], asked[p]}
    BY DEF TimerIsOldOrNew, GetParamUlongValue
  <1>1. Undoable(p) /\ Staged(p)
    BY DEF ExactInv
  <1> QED
    BY <1>1 DEF Undoable, Staged

LEMMA ExactReadsNext == ExactInv' => TimerIsOldOrNew'
  BY ExactReads, PTL

\* What the monitor thread reads in the middle of a commit or of a rollback is
\* a value from before it, or one that was asked for - under the provisos of
\* CommitsExactly.
THEOREM ReadsOldOrNew == Spec => []TimerIsOldOrNew
  BY ExactReads, ExactInvariant, PTL

\* DurableInv holds at every step of every load, commit and rollback.
THEOREM DurableInvariant == Spec => []DurableInv
  BY DurableInit, DurableNext, PTL DEF Spec

LEMMA ContractInit == Init => Contract!Init
  <1>1. "idle" \notin Transacting /\ "idle" \notin {"commit", "commitSave"}
    BY DEF Transacting
  <1>2. Init => step["bus"] = "idle"
    BY DEF Init, StartUp, Thread
  <1> QED
    BY <1>1, <1>2 DEF Init, Contract!Init, Phase, Nothing, Contract!Nothing

\* Every step of the object is a step of the contract, or leaves it alone.
LEMMA ContractNext ==
    ASSUME ExactInv, TypeOK', TimerIsOldOrNew', [Next]_vars
    PROVE  [Contract!Next]_(Contract!vars)
  <1> USE DEF Contract!vars, Contract!Nothing, Nothing, Phase, Transacting, Thread,
              config, control, history
  <1>0. /\ TypeOK /\ TypeOK' /\ ControlInv /\ ProgressInv
        /\ None \notin Int /\ N \in Nat /\ None \notin Word
    BY ConfigurationAssumption DEF ExactInv, Word
  <1>1. ASSUME NEW t \in Thread, NameRecord(t)
        PROVE  UNCHANGED Contract!vars
    BY <1>0, <1>1 DEF NameRecord, TypeOK
  <1>2. ASSUME NEW t \in Thread, GetRecord(t)
        PROVE  Contract!Load
    <2>1. /\ step["bus"] \notin Transacting /\ step'["bus"] \notin Transacting
          /\ ~reloaded => asked = Nothing
      BY <1>0, <1>2 DEF GetRecord, TypeOK, ControlInv, ProgressInv, InitSteps
    <2>2. UNCHANGED <<asked, before, reloaded, torn>> /\ paraValue' \in [Para -> Word]
      BY <1>0, <1>2 DEF GetRecord, TypeOK
    <2> QED
      BY <2>1, <2>2 DEF Contract!Load
  <1>3. ASSUME SystemReady
        PROVE  Contract!Disturb \/ UNCHANGED Contract!vars
    BY <1>0, <1>3 DEF SystemReady, TypeOK, Contract!Disturb
  <1>4. ASSUME NEW p \in Para, NEW word \in Requested, SetParamUlongValue(p, word)
        PROVE  \E w \in Word : Contract!Set(p, w)
    BY <1>4, ConfigurationAssumption
    DEF SetParamUlongValue, Serving, Contract!Set
  <1>5. ASSUME BeginCommit
        PROVE  Contract!Begin
    BY <1>0, <1>5 DEF BeginCommit, Begin, Serving, TypeOK, Contract!Begin
  <1>6. ASSUME CommitSkip
        PROVE  UNCHANGED Contract!vars
    BY <1>0, <1>6 DEF CommitSkip, Advance, TypeOK
  <1>7. ASSUME CommitSwap \/ RollbackRestore
        PROVE  Contract!Work
    <2>1. /\ step["bus"] \in Transacting /\ step'["bus"] \in Transacting
          /\ UNCHANGED <<asked, before, reloaded, torn, Phase>>
      BY <1>0, <1>7 DEF CommitSwap, RollbackRestore, TypeOK
    <2>2. paraValue' \in [Para -> Word]
      BY <1>0 DEF TypeOK
    <2>3. ~torn /\ ~reloaded => \A p \in Para : paraValue'[p] \in {before[p], asked[p]}
      BY <2>1 DEF TimerIsOldOrNew, GetParamUlongValue
    <2> QED
      BY <2>1, <2>2, <2>3 DEF Contract!Work
  <1>8. ASSUME CommitSave
        PROVE  Contract!TurnBack \/ UNCHANGED Contract!vars
    BY <1>0, <1>8
    DEF CommitSave, Advance, Begin, TypeOK, Contract!TurnBack
  <1>9. ASSUME EndCommit
        PROVE  Contract!End
    <2>1. ~torn /\ ~reloaded => paraValue = Contract!AsWanted
      BY <1>9, ExactCommit DEF EndCommit, CommitIsExact, Contract!AsWanted
    <2> QED
      BY <1>0, <1>9, <2>1
      DEF EndCommit, EndTransaction, Begin, TypeOK, Contract!End
  <1>10. ASSUME BeginRollback
        PROVE  Contract!Begin \/ UNCHANGED Contract!vars
    BY <1>0, <1>10
    DEF BeginRollback, Begin, Serving, TypeOK, Contract!Begin
  <1>11. ASSUME RollbackSkip
        PROVE  UNCHANGED Contract!vars
    BY <1>0, <1>11 DEF RollbackSkip, Advance, TypeOK
  <1>12. ASSUME RollbackSave
        PROVE  Contract!Break \/ UNCHANGED Contract!vars
    BY <1>0, <1>12
    DEF RollbackSave, EndTransaction, Advance, Begin, TypeOK, Contract!Break
  <1>13. ASSUME EndRollback
        PROVE  Contract!End
    <2>1. ~torn => paraValue = before
      BY <1>13, ExactRollback DEF EndRollback, RollbackRestores
    <2> QED
      BY <1>0, <1>13, <2>1
      DEF EndRollback, EndTransaction, Begin, TypeOK, Contract!End
  <1>14. ASSUME Crash
        PROVE  Contract!Restart
    BY <1>14 DEF Crash, StartUp, Contract!Restart, Contract!Init
  <1>15. ASSUME UNCHANGED vars
        PROVE  UNCHANGED Contract!vars
    BY <1>15 DEF vars
  <1> QED
    BY <1>1, <1>2, <1>3, <1>4, <1>5, <1>6, <1>7, <1>8, <1>9, <1>10, <1>11,
       <1>12, <1>13, <1>14, <1>15 DEF Next, Contract!Next

\* Configuration implements the contract of the timers, for any number of
\* parameters, any values and any widths: loads, sets, commits and rollbacks on
\* two threads, with a PSM that refuses, and restarts.
THEOREM TimersKeepContract == Spec => KeepsTimerContract
  <1>1. ExactInv /\ TypeOK' /\ TimerIsOldOrNew' /\ [Next]_vars
           => [Contract!Next]_(Contract!vars)
    BY ContractNext
  <1> QED
    BY <1>1, ContractInit, TypeCorrect, ReadsOldOrNew, ExactInvariant, PTL
    DEF Spec, KeepsTimerContract, Contract!Spec

=============================================================================
