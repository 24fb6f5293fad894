------------------------- MODULE RebootObjectProofs -------------------------
(***************************************************************************)
(* Proofs about RebootObject: a success means what it says, and the        *)
(* monitor thread sees one request that is never taken back.               *)
(***************************************************************************)
EXTENDS RebootObject, TLAPS

-----------------------------------------------------------------------------

\* The object starts with nothing staged, asked or requested.
LEMMA InitEstablishes == Init => RequestInv
  BY DEF Init, RequestInv, TypeOK, StagedAgrees, Statuses

\* Every step of the bus thread and of the monitor thread keeps the invariant:
\* a set stages what it asks for, and a commit puts it in force.
LEMMA StepPreserves == RequestInv /\ [Next]_vars => RequestInv'
  <1> SUFFICES ASSUME RequestInv, [Next]_vars
               PROVE  RequestInv'
    OBVIOUS
  <1> USE DEF RequestInv, TypeOK, StagedAgrees, Statuses, object, monitor,
              history, reader
  <1>1. ASSUME NEW value \in BOOLEAN, SetParamBoolValue(value)
        PROVE  RequestInv'
    BY <1>1 DEF SetParamBoolValue, Open, Allowed, Stage
  <1>2. ASSUME NEW value \in {None, FALSE}, RefuseSet(value)
        PROVE  RequestInv'
    BY <1>2 DEF RefuseSet, Open
  <1>3. CASE Commit
    BY <1>3 DEF Commit
  <1>4. CASE CommitStatus
    BY <1>4 DEF CommitStatus
  <1>5. CASE Succeed
    BY <1>5 DEF Succeed
  <1>6. CASE OtherFails
    BY <1>6 DEF OtherFails
  <1>7. CASE Rollback
    BY <1>7 DEF Rollback, LeaveFlag
  <1>8. CASE GetParamBoolValue \/ GetParamStringValue
    BY <1>8 DEF GetParamBoolValue, GetParamStringValue
  <1>9. CASE Take
    BY <1>9 DEF Take
  <1>10. CASE WriteStatus
    BY <1>10 DEF WriteStatus
  <1>11. CASE UNCHANGED vars
    BY <1>11 DEF vars
  <1> QED
    BY <1>1, <1>2, <1>3, <1>4, <1>5, <1>6, <1>7, <1>8, <1>9, <1>10, <1>11
    DEF Next

\* Enable is staged, asked for and in force as RequestInv relates them, at
\* every step of Reboot_Set..., Reboot_Commit and Reboot_Rollback.
THEOREM RequestInvariant == Spec => []RequestInv
  BY InitEstablishes, StepPreserves, PTL DEF Spec

\* Every variable of the Reboot object keeps to its values.
THEOREM TypeCorrect == Spec => []TypeOK
  BY RequestInvariant, PTL DEF RequestInv

\* A success of Reboot_Commit means that Enable is what was asked for.
THEOREM SuccessIsHonest == Spec => SuccessMeansAsked
  <1>1. RequestInv /\ [Next]_vars => [Succeed => bRebootEnabled = asked]_vars
    BY DEF RequestInv, Succeed
  <1> QED
    BY <1>1, RequestInvariant, PTL DEF Spec, SuccessMeansAsked

\* While Enable is TRUE it is staged as TRUE, so that Reboot_Commit, which checks
\* what Reboot_SetParamBoolValue checked before it, never refuses.
THEOREM StagedAgree == Spec => []StagedAgrees
  BY RequestInvariant, PTL DEF RequestInv

\* The commit that is between the flag and the status, the monitor thread, and
\* every status but the first one stand for a request.
RaisedInv ==
    /\ started \/ step = "status" \/ sRebootStatus # "none" => bRebootEnabled
    /\ ReadStaysTrue

\* Neither a rollback nor a later commit takes back what a reader was shown.
LEMMA RaisedNext == TypeOK /\ RaisedInv /\ [Next]_vars => RaisedInv'
  <1> SUFFICES ASSUME TypeOK, RaisedInv, [Next]_vars
               PROVE  RaisedInv'
    OBVIOUS
  <1> USE DEF TypeOK, RaisedInv, ReadStaysTrue, object, monitor, history, reader
  <1>1. ASSUME NEW value \in BOOLEAN, SetParamBoolValue(value)
        PROVE  RaisedInv'
    BY <1>1 DEF SetParamBoolValue, Open
  <1>2. ASSUME NEW value \in {None, FALSE}, RefuseSet(value)
        PROVE  RaisedInv'
    BY <1>2 DEF RefuseSet, Open
  <1>3. CASE Commit
    BY <1>3 DEF Commit
  <1>4. CASE CommitStatus
    BY <1>4 DEF CommitStatus
  <1>5. CASE Succeed \/ OtherFails
    BY <1>5 DEF Succeed, OtherFails
  <1>6. CASE Rollback
    BY <1>6 DEF Rollback, LeaveFlag
  <1>7. CASE GetParamBoolValue
    BY <1>7 DEF GetParamBoolValue
  <1>8. CASE GetParamStringValue
    BY <1>8 DEF GetParamStringValue, Statuses
  <1>9. CASE Take \/ WriteStatus
    BY <1>9 DEF Take, WriteStatus
  <1>10. CASE UNCHANGED vars
    BY <1>10 DEF vars
  <1> QED
    BY <1>1, <1>2, <1>3, <1>4, <1>5, <1>6, <1>7, <1>8, <1>9, <1>10 DEF Next

\* What a caller has read of Enable and Status stays true.
THEOREM ReadersAreRight == Spec => []ReadStaysTrue
  <1>1. Init => RaisedInv
    BY NoneAssumption DEF Init, RaisedInv, ReadStaysTrue, Statuses
  <1>2. RequestInv => TypeOK
    BY DEF RequestInv
  <1>3. RaisedInv => ReadStaysTrue
    BY DEF RaisedInv
  <1> QED
    BY <1>1, <1>2, <1>3, RaisedNext, RequestInvariant, PTL DEF Spec

LEMMA LatchInit == Init => Latch!Init
  BY DEF Init, Latch!Init

\* Every step of the object is a step of the latch, or leaves it alone.
LEMMA LatchNext == RequestInv /\ [Next]_vars => [Latch!Next]_(Latch!vars)
  <1> SUFFICES ASSUME RequestInv, [Next]_vars
               PROVE  [Latch!Next]_(Latch!vars)
    OBVIOUS
  <1>1. CASE Commit
    <2>1. CASE ~bRebootEnabled /\ bRebootEnabledtemp
      BY <1>1, <2>1 DEF Commit, Latch!Next, Latch!Raise
    <2>2. CASE bRebootEnabled \/ ~bRebootEnabledtemp
      BY <1>1, <2>2 DEF Commit, Latch!vars, RequestInv, TypeOK
    <2> QED
      BY <2>1, <2>2
  <1>2. CASE CommitStatus
    BY <1>2 DEF CommitStatus, object, Latch!Next, Latch!Report
  <1>3. CASE \E value \in BOOLEAN : SetParamBoolValue(value)
    BY <1>3 DEF SetParamBoolValue, Open, Latch!vars
  <1>4. CASE \E value \in {None, FALSE} : RefuseSet(value)
    BY <1>4 DEF RefuseSet, Open, object, Latch!vars
  <1>5. CASE Succeed \/ OtherFails \/ Rollback
    BY <1>5 DEF Succeed, OtherFails, Rollback, LeaveFlag, object, Latch!vars
  <1>6. CASE GetParamBoolValue \/ GetParamStringValue
    BY <1>6 DEF GetParamBoolValue, GetParamStringValue, object, Latch!vars
  <1>7. CASE Take \/ WriteStatus \/ UNCHANGED vars
    BY <1>7 DEF Take, WriteStatus, vars, object, Latch!vars
  <1> QED
    BY <1>1, <1>2, <1>3, <1>4, <1>5, <1>6, <1>7 DEF Next

\* The request the monitor thread polls is raised once and never taken back.
THEOREM LatchIsKept == Spec => KeepsLatch
  BY LatchInit, LatchNext, RequestInvariant, PTL
  DEF Spec, KeepsLatch, Latch!Spec

=============================================================================
