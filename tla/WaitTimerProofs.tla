-------------------------- MODULE WaitTimerProofs --------------------------
(***************************************************************************)
(* Proofs about WaitTimer, for any integer widths: a wait is never longer  *)
(* than the parameter said, and as long as that if the number fits.        *)
(***************************************************************************)
EXTENDS WaitTimer, TLAPS

-----------------------------------------------------------------------------

\* A conversion to int stays in the range of int, and never grows.
LEMMA ToIntBounds ==
    ASSUME NEW word \in Nat
    PROVE  /\ ToInt(word) \in Int
           /\ -IntModulus <= 2 * ToInt(word) /\ 2 * ToInt(word) < IntModulus
           /\ ToInt(word) <= word
           /\ 2 * word < IntModulus => ToInt(word) = word
  <1> DEFINE int == word % IntModulus
  <1>1. int \in Nat /\ int < IntModulus /\ int <= word
    BY WaitTimerAssumption
  <1>2. 2 * word < IntModulus => int = word
    BY WaitTimerAssumption
  <1>3. ToInt(word) = IF 2 * int < IntModulus THEN int ELSE int - IntModulus
    BY DEF ToInt
  <1> HIDE DEF int
  <1> QED
    BY <1>1, <1>2, <1>3, WaitTimerAssumption

\* The number of turns is an int, stands for no more than the seconds it was
\* computed from, and for just as many if they fit.
LEMMA LoopCountBounds ==
    ASSUME NEW word \in Word
    PROVE  /\ LoopCount(word) \in Int
           /\ -IntModulus <= 2 * LoopCount(word)
           /\ 2 * LoopCount(word) < IntModulus
           /\ LoopCount(word) * 50 <= word * 1000
           /\ Fits(word) => LoopCount(word) = word * 20
  <1> DEFINE product == (word * 1000) % LongModulus
             turns   == product \div 50
  <1>1. word \in Nat
    BY WaitTimerAssumption DEF Word
  <1>2. product \in Nat /\ product <= word * 1000
    BY <1>1, WaitTimerAssumption
  <1>3. word * 1000 < LongModulus => product = word * 1000
    BY <1>1, WaitTimerAssumption
  <1>4. LoopCount(word) = ToInt(turns)
    BY DEF LoopCount
  <1> HIDE DEF product
  <1>5. turns \in Nat /\ turns * 50 <= product
    BY <1>2
  <1>6. product = word * 1000 => turns = word * 20
    BY <1>1
  <1> HIDE DEF turns
  <1>7. LoopCount(word) * 50 <= word * 1000
    BY <1>1, <1>2, <1>4, <1>5, ToIntBounds
  <1>8. Fits(word) => LoopCount(word) = word * 20
    BY <1>1, <1>3, <1>4, <1>5, <1>6, ToIntBounds DEF Fits
  <1> QED
    BY <1>4, <1>5, <1>7, <1>8, ToIntBounds

\* A process starts outside any wait.
LEMMA InitEstablishes == Init => WaitInv
  <1> SUFFICES ASSUME Init PROVE WaitInv
    OBVIOUS
  <1>1. IntModulus \in Nat \ {0} /\ seconds \in Nat
    BY WaitTimerAssumption DEF Init, Word
  <1>2. loop_cnt \in Int /\ k \in Nat
    BY DEF Init
  <1>3. -IntModulus <= 2 * loop_cnt /\ 2 * loop_cnt < IntModulus
    BY <1>1 DEF Init
  <1>4. 2 * k < IntModulus
    BY <1>1 DEF Init
  <1>5. TypeOK
    BY <1>2, <1>3, <1>4, WaitTimerAssumption, Zenon DEF Init, TypeOK
  <1>6. loop_cnt * 50 <= seconds * 1000 /\ k * 50 <= seconds * 1000
    BY <1>1 DEF Init
  <1> QED
    BY <1>5, <1>6, Zenon DEF Init, WaitInv, NeverTooLong

\* The thread's steps keep to the count the wait began with; the bus thread
\* changes neither that nor what the wait began from.
LEMMA StepPreserves == WaitInv /\ [Next]_vars => WaitInv'
  <1> SUFFICES ASSUME WaitInv, [Next]_vars
               PROVE  WaitInv'
    OBVIOUS
  <1>0. IntModulus \in Nat \ {0} /\ Word \subseteq Nat
    BY WaitTimerAssumption DEF Word
  <1> USE DEF WaitInv, TypeOK, NeverTooLong
  <1>1. CASE SetupTimer
    <2>1. LoopCount(CriticalWaitTime) * 50 <= CriticalWaitTime * 1000
      BY LoopCountBounds
    <2>2. TypeOK'
      BY <1>0, <1>1, LoopCountBounds DEF SetupTimer
    <2> QED
      BY <1>0, <1>1, <2>1, <2>2 DEF SetupTimer
  <1>2. CASE Turn
    <2>1. k + 1 <= loop_cnt
      BY <1>2 DEF Turn, Limit
    <2>2. (k + 1) * 50 <= seconds * 1000 /\ 2 * (k + 1) < IntModulus
      BY <1>0, <2>1
    <2> QED
      BY <1>2, <2>1, <2>2 DEF Turn
  <1>3. CASE WaitOver
    BY <1>3 DEF WaitOver
  <1>4. ASSUME NEW word \in Stored, SetCriticalWaitTime(word) PROVE WaitInv'
    BY <1>4, WaitTimerAssumption DEF SetCriticalWaitTime, local
  <1>5. CASE ValueChangedCB
    BY <1>5 DEF ValueChangedCB, local
  <1>6. CASE UNCHANGED vars
    BY <1>6 DEF vars, local
  <1> QED
    BY <1>1, <1>2, <1>3, <1>4, <1>5, <1>6 DEF Next

\* How the count, the turns and the seconds of a wait relate at any time.
THEOREM WaitInvariant == Spec => []WaitInv
  BY InitEstablishes, StepPreserves, PTL DEF Spec

\* The counters of a wait stay within an int, the timer within a ULONG.
THEOREM TypeCorrect == Spec => []TypeOK
  BY WaitInvariant, PTL DEF WaitInv

\* No overflow makes a wait longer than CriticalWaitTime was when it began.
THEOREM WaitIsBounded == Spec => []NeverTooLong
  BY WaitInvariant, PTL DEF WaitInv

\* A wait that ends while the event goes on lasted CriticalWaitTime seconds, if
\* nothing overflowed.
THEOREM WaitIsInFull == Spec => WaitsInFull
  <1>1. WaitInv /\ [Next]_vars =>
          [WaitOver /\ bOngingCriticalEvent /\ Fits(seconds)
             => k * 50 = seconds * 1000]_vars
    <2> SUFFICES ASSUME WaitInv, WaitOver, bOngingCriticalEvent, Fits(seconds)
                 PROVE  k * 50 = seconds * 1000
      OBVIOUS
    <2>1. seconds \in Nat /\ loop_cnt \in Int /\ k \in Nat
      BY WaitTimerAssumption DEF WaitInv, TypeOK, Word
    <2>2. loop_cnt = seconds * 20
      BY LoopCountBounds DEF WaitInv, TypeOK, WaitOver
    <2>3. k >= loop_cnt /\ (k = 0 \/ k <= loop_cnt)
      BY <2>1 DEF WaitInv, WaitOver, Limit
    <2> QED
      BY <2>1, <2>2, <2>3
  <1> QED
    BY <1>1, WaitInvariant, PTL DEF Spec, WaitsInFull

=============================================================================
