--------------------------- MODULE Configuration ---------------------------
(***************************************************************************)
(* The data-model object com.cisco.spvtg.ccsp.rm.Configuration of          *)
(* source/DataModelBackEnd/cosa_apis_configuration.c: the timers of the    *)
(* Reboot Manager, staged and committed by its callers, and stored in the  *)
(* PSM, a process of its own that may refuse a call or miss its answer.    *)
(*                                                                         *)
(* Two threads run its code.  The main thread loads the parameters in      *)
(* COSA_Init, before the object is registered.  The bus thread serves the  *)
(* callers, and loads the parameters again on the system-ready signal,     *)
(* whose callback is registered before COSA_Init runs.  A step ends at     *)
(* each PSM call.  C's parameter index n is n + 1 here.                    *)
(***************************************************************************)
EXTENDS Integers

CONSTANTS
    N,            \* RM_CONFIGURATION_NumULongPara, 3 in the code
    Default,      \* the compiled-in value of each parameter
    Requested,    \* the values callers ask for
    IntModulus,   \* 2^(width of int)
    LongModulus,  \* 2^(width of ULONG)
    None          \* no record, no request, no promise

Para == 1 .. N
Word == 0 .. (LongModulus - 1)

ASSUME ConfigurationAssumption ==
    /\ N \in Nat \ {0}
    /\ IntModulus \in Nat \ {0} /\ LongModulus \in Nat \ {0}
    /\ Default \in [Para -> Word]
    /\ Requested \subseteq Word
    /\ None \notin Int

VARIABLES
    paraValue,    \* rmConfig.ulULongParaValue
    paraBackup,   \* rmConfig.ulULongParaValueBackup
    paraState,    \* rmConfig.eULongParaState
    recordName,   \* the parameter named in pConfigurationPsmRecordName
    psm,          \* the PSM's record of each parameter: a decimal text
    step, at,     \* per thread: what it does next, and at which parameter
    asked,        \* history: what the callers set in this transaction
    before,       \* history: paraValue when its commit or rollback began
    promised,     \* history: values reported as stored, not touched since
    reloaded,     \* history: the signal came during this transaction
    torn          \* history: a rollback failed, and left states behind

config  == <<paraValue, paraBackup, paraState>>
control == <<step, at>>
history == <<asked, before, promised, reloaded, torn>>
vars == <<config, recordName, psm, control, history>>

Nothing == [p \in Para |-> None]
Clean   == [p \in Para |-> "CAN_NEITHER"]

Thread    == {"main", "bus"}
InitSteps == {"name", "get"}
BusSteps == {"idle", "commit", "commitSave", "refused", "rollback",
             "rollbackSave"} \cup InitSteps

TypeOK ==
    /\ paraValue \in [Para -> Word] /\ paraBackup \in [Para -> Word]
    /\ paraState \in [Para -> {"CAN_COMMIT", "CAN_ROLLBACK", "CAN_NEITHER"}]
    /\ recordName \in Para \cup {None}
    /\ psm \in [Para -> Int \cup {None}]
    /\ step \in [Thread -> BusSteps]
    /\ at \in [Thread -> 1 .. (N + 1)]
    /\ asked \in [Para -> Word \cup {None}]
    /\ before \in [Para -> Word]
    /\ promised \in [Para -> Word \cup {None}]
    /\ reloaded \in BOOLEAN /\ torn \in BOOLEAN

-----------------------------------------------------------------------------
(* The conversions between a parameter and the text of its record: itoa     *)
(* takes an int, atoi returns one, the parameter is an unsigned long.       *)

Itoa(word) ==
    LET int == word % IntModulus
    IN  IF 2 * int < IntModulus THEN int ELSE int - IntModulus

\* Variant with a bug: the sign survives the conversion.
AtoiSigned(text) == text

Atoi(text) == text % LongModulus

\* The outcomes of PSM_Set_Record_Value2: stored and reported, or reported as
\* a failure and stored or not.
Store(p, word, reported) ==
    \/ psm' = [psm EXCEPT ![p] = Itoa(word)]
    \/ ~reported /\ UNCHANGED psm

\* Configuration_SavePsmValueRecord after it wrote the record's name.  It
\* returns -1 when the PSM reports a failure; when it does not, control runs
\* off the end of the function and the caller reads an arbitrary result.
SavePsmValueRecord(word, success) ==
    \E reported \in BOOLEAN :
        /\ success => reported
        /\ Store(recordName, word, reported)

-----------------------------------------------------------------------------
(* Configuration_Parameters_Init, on the main or on the bus thread.         *)

StartUp == [t \in Thread |-> IF t = "main" THEN "name" ELSE "idle"]
AtFirst == [t \in Thread |-> 1]

Init ==
    /\ paraValue = Default
    /\ paraBackup = [p \in Para |-> 0]
    /\ paraState = Clean
    /\ recordName = None
    /\ psm \in [Para -> {Itoa(w) : w \in Requested} \cup {None}]
    /\ step = StartUp /\ at = AtFirst
    /\ asked = Nothing /\ before = Default
    /\ promised = Nothing
    /\ reloaded = FALSE /\ torn = FALSE

NameRecord(t) ==
    /\ step[t] = "name"
    /\ recordName' = at[t]
    /\ step' = [step EXCEPT ![t] = "get"]
    /\ UNCHANGED <<config, psm, at, history>>

\* The value keeps its compiled-in, or its last, value when the PSM is not up,
\* does not answer or has no such record.
GetRecord(t) ==
    /\ step[t] = "get"
    /\ \/ /\ psm[recordName] # None
          /\ paraValue' = [paraValue EXCEPT ![at[t]] = Atoi(psm[recordName])]
       \/ UNCHANGED paraValue
    /\ paraState' = [paraState EXCEPT ![at[t]] = "CAN_NEITHER"]
    /\ IF at[t] < N
       THEN /\ at' = [at EXCEPT ![t] = at[t] + 1]
            /\ step' = [step EXCEPT ![t] = "name"]
       ELSE /\ at' = [at EXCEPT ![t] = 1]
            /\ step' = [step EXCEPT ![t] = "idle"]
    /\ UNCHANGED <<paraBackup, recordName, psm, history>>

\* CcspRebootManagerSysReadySignalCB: any time the bus thread is between calls.
SystemReady ==
    /\ step["bus"] = "idle"
    /\ step' = [step EXCEPT !["bus"] = "name"]
    /\ at' = [at EXCEPT !["bus"] = 1]
    /\ reloaded' = (reloaded \/ asked # Nothing)
    /\ UNCHANGED <<config, recordName, psm, asked, before, promised, torn>>

-----------------------------------------------------------------------------
(* The callers' transactions, served by the bus thread once COSA_Init is    *)
(* over: sets, and then a commit or - when another object's validation      *)
(* failed, or the commit did - a rollback.                                  *)

\* The library sets no timer, and ends no transaction that did, while COSA_Init
\* still loads: an assumption about the library, which calls COSA_Init itself.
Serving == step["main"] = "idle" /\ step["bus"] = "idle"

SetParamUlongValue(p, word) ==
    /\ Serving
    /\ paraBackup' = [paraBackup EXCEPT ![p] = word]
    /\ paraState' = [paraState EXCEPT ![p] = "CAN_COMMIT"]
    /\ asked' = [asked EXCEPT ![p] = word]
    /\ UNCHANGED <<paraValue, recordName, psm, control, before, promised,
                   reloaded, torn>>

Begin(operation) ==
    /\ step' = [step EXCEPT !["bus"] = operation]
    /\ at' = [at EXCEPT !["bus"] = 1]

\* Variant with a bug: the loop does not move on.
Again(operation) ==
    /\ step' = [step EXCEPT !["bus"] = operation]
    /\ UNCHANGED at

Advance(operation) ==
    /\ step' = [step EXCEPT !["bus"] = operation]
    /\ at' = [at EXCEPT !["bus"] = at["bus"] + 1]

BeginCommit ==
    /\ Serving /\ asked # Nothing
    /\ Begin("commit")
    /\ before' = paraValue
    /\ UNCHANGED <<config, recordName, psm, asked, promised, reloaded, torn>>

\* Nothing is staged for the parameter.
CommitSkip ==
    LET p == at["bus"] IN
    /\ step["bus"] = "commit" /\ p <= N
    /\ paraState[p] # "CAN_COMMIT"
    /\ paraState' = [paraState EXCEPT ![p] = "CAN_NEITHER"]
    /\ Advance("commit")
    /\ UNCHANGED <<paraValue, paraBackup, recordName, psm, history>>

\* Variants with a bug: the old value is lost; the buffer keeps its old name.
Overwrite(p) ==
    paraValue' = [paraValue EXCEPT ![p] = paraBackup[p]] /\ UNCHANGED paraBackup
KeepName(p) == UNCHANGED recordName

Exchange(p) ==
    /\ paraValue' = [paraValue EXCEPT ![p] = paraBackup[p]]
    /\ paraBackup' = [paraBackup EXCEPT ![p] = paraValue[p]]

\* The first lines of Configuration_SavePsmValueRecord.
NameSavedRecord(p) == recordName' = p

\* Value and backup change places, and the record is about to be saved.
CommitSwap ==
    LET p == at["bus"] IN
    /\ step["bus"] = "commit" /\ p <= N
    /\ paraState[p] = "CAN_COMMIT"
    /\ Exchange(p)
    /\ paraState' = [paraState EXCEPT ![p] = "CAN_ROLLBACK"]
    /\ NameSavedRecord(p)
    /\ promised' = [promised EXCEPT ![p] = None]
    /\ step' = [step EXCEPT !["bus"] = "commitSave"]
    /\ UNCHANGED <<psm, at, asked, before, reloaded, torn>>

\* The first failure ends the commit; the parameters after it stay staged.
CommitSave ==
    /\ step["bus"] = "commitSave"
    /\ \/ /\ SavePsmValueRecord(paraValue[at["bus"]], TRUE)
          /\ Advance("commit")
       \/ /\ SavePsmValueRecord(paraValue[at["bus"]], FALSE)
          /\ Begin("refused")
    /\ UNCHANGED <<config, recordName, history>>

EndTransaction ==
    /\ Begin("idle")
    /\ asked' = Nothing
    /\ reloaded' = FALSE

\* Variant with a bug: the states are left as they are.
StatesKept == UNCHANGED paraState

StatesCleared == paraState' = Clean

EndCommit ==
    /\ step["bus"] = "commit" /\ at["bus"] = N + 1
    /\ EndTransaction
    /\ StatesCleared
    /\ promised' = [p \in Para |-> IF paraState[p] = "CAN_ROLLBACK"
                                   THEN paraValue[p] ELSE promised[p]]
    /\ torn' = FALSE
    /\ UNCHANGED <<paraValue, paraBackup, recordName, psm, before>>

BeginRollback ==
    /\ \/ /\ step["bus"] = "refused"
          /\ UNCHANGED before
       \/ /\ Serving /\ asked # Nothing
          /\ before' = paraValue
    /\ Begin("rollback")
    /\ UNCHANGED <<config, recordName, psm, asked, promised, reloaded, torn>>

\* Variant with a bug: what was staged stays staged.
KeepStaged(p) == UNCHANGED paraState

DropStaged(p) == paraState' = [paraState EXCEPT ![p] = "CAN_NEITHER"]

\* What was staged and never committed is dropped.
RollbackSkip ==
    LET p == at["bus"] IN
    /\ step["bus"] = "rollback" /\ p <= N
    /\ paraState[p] # "CAN_ROLLBACK"
    /\ DropStaged(p)
    /\ Advance("rollback")
    /\ UNCHANGED <<paraValue, paraBackup, recordName, psm, history>>

RollbackRestore ==
    LET p == at["bus"] IN
    /\ step["bus"] = "rollback" /\ p <= N
    /\ paraState[p] = "CAN_ROLLBACK"
    /\ paraValue' = [paraValue EXCEPT ![p] = paraBackup[p]]
    /\ NameSavedRecord(p)
    /\ step' = [step EXCEPT !["bus"] = "rollbackSave"]
    /\ UNCHANGED <<paraBackup, paraState, psm, at, history>>

RollbackSave ==
    LET p == at["bus"] IN
    /\ step["bus"] = "rollbackSave"
    /\ \/ /\ SavePsmValueRecord(paraValue[p], TRUE)
          /\ Advance("rollback")
          /\ paraState' = [paraState EXCEPT ![p] = "CAN_NEITHER"]
          /\ promised' = [promised EXCEPT ![p] = paraValue[p]]
          /\ UNCHANGED <<asked, reloaded, torn>>
       \/ /\ SavePsmValueRecord(paraValue[p], FALSE)
          /\ EndTransaction
          /\ torn' = TRUE
          /\ UNCHANGED <<paraState, promised>>
    /\ UNCHANGED <<paraValue, paraBackup, recordName, before>>

EndRollback ==
    /\ step["bus"] = "rollback" /\ at["bus"] = N + 1
    /\ EndTransaction
    /\ torn' = FALSE
    /\ UNCHANGED <<config, recordName, psm, before, promised>>

-----------------------------------------------------------------------------
(* The process exits and is started again; only the PSM keeps its records.  *)
Crash ==
    /\ paraValue' = Default
    /\ paraBackup' = [p \in Para |-> 0]
    /\ paraState' = Clean
    /\ recordName' = None
    /\ step' = StartUp /\ at' = AtFirst
    /\ asked' = Nothing /\ before' = Default
    /\ reloaded' = FALSE /\ torn' = FALSE
    /\ UNCHANGED <<psm, promised>>

Next ==
    \/ \E t \in Thread : NameRecord(t) \/ GetRecord(t)
    \/ SystemReady
    \/ \E p \in Para, word \in Requested : SetParamUlongValue(p, word)
    \/ BeginCommit \/ CommitSkip \/ CommitSwap \/ CommitSave \/ EndCommit
    \/ BeginRollback \/ RollbackSkip \/ RollbackRestore \/ RollbackSave
    \/ EndRollback
    \/ Crash

Spec == Init /\ [][Next]_vars

-----------------------------------------------------------------------------
(* What holds.                                                              *)

\* The value is below the sign bit of an int, or an int is as wide as a ULONG:
\* any other is loaded as another value than was committed.
Fits(word) == IntModulus = LongModulus \/ 2 * word < IntModulus

\* A value whose commit - or whose restoration - was reported as a success is
\* the value the next load reads from the PSM, whatever happens to other
\* parameters, to later transactions that do not reach this one, or to the
\* process.
DurableCommit ==
    \A p \in Para : promised[p] # None /\ Fits(promised[p]) =>
        psm[p] # None /\ Atoi(psm[p]) = promised[p]

\* A commit that is about to return success has applied exactly what was set in
\* its transaction - provided that no system-ready signal came in between, and
\* that no earlier rollback failed.
CommitIsExact ==
    step["bus"] = "commit" /\ at["bus"] = N + 1 /\ ~reloaded /\ ~torn =>
        paraValue = [p \in Para |-> IF asked[p] = None THEN before[p]
                                    ELSE asked[p]]

\* A rollback that is about to return success has undone all its commit did -
\* unless an earlier rollback failed.
RollbackRestores ==
    step["bus"] = "rollback" /\ at["bus"] = N + 1 /\ ~torn => paraValue = before

Transacting == {"commit", "commitSave", "refused", "rollback", "rollbackSave"}
Saving == {"commitSave", "rollbackSave"}

\* What a caller gets, and what the monitor thread reads.
GetParamUlongValue(p) == paraValue[p]

\* The monitor thread reads a timer without asking what the bus thread is doing
\* to it.  In the middle of a commit or of a rollback it meets the old value or
\* the one that was asked for, never what an earlier transaction left in the
\* backup - under the provisos of CommitIsExact.
TimerIsOldOrNew ==
    step["bus"] \in Transacting /\ ~reloaded /\ ~torn =>
        \A p \in Para : GetParamUlongValue(p) \in {before[p], asked[p]}

-----------------------------------------------------------------------------
(* What the object promises, and that it keeps it.                          *)

Phase == IF step["bus"] \in {"commit", "commitSave"} THEN "applying"
         ELSE IF step["bus"] \in Transacting THEN "undoing" ELSE "idle"

Contract == INSTANCE TimerContract
    WITH timers <- paraValue, wanted <- asked, old <- before,
         phase <- Phase, whole <- ~torn /\ ~reloaded

\* The swaps, saves and restorations of Configuration_Commit and _Rollback, with
\* the loads on two threads, the refusals of the PSM and the restarts in
\* between, keep the contract of the timers.
KeepsTimerContract == Contract!Spec

-----------------------------------------------------------------------------
(* The inductive invariant behind DurableCommit.                            *)

\* Where each thread is, and that only the bus thread is at work in a commit or
\* a rollback: the name it writes is then the name it saves under.
ControlInv ==
    /\ step["main"] \in InitSteps \cup {"idle"}
    /\ \A t \in Thread : step[t] \in InitSteps => at[t] <= N
    /\ \A t \in Thread : step[t] = "get" => recordName \in Para
    /\ step["bus"] \in Transacting => step["main"] = "idle"
    /\ step["bus"] \in Saving =>
          /\ at["bus"] <= N /\ recordName = at["bus"]
          /\ paraState[at["bus"]] = "CAN_ROLLBACK"

\* A record that may be written holds no promise, and what a commit has gone
\* through is stored.
StoreInv ==
    /\ \A p \in Para : paraState[p] = "CAN_ROLLBACK" => promised[p] = None
    /\ step["bus"] \in {"commit", "commitSave"} =>
          \A p \in Para : p < at["bus"] /\ paraState[p] = "CAN_ROLLBACK"
                             => psm[p] = Itoa(paraValue[p])

\* What was promised is in the PSM, in the form it is written in.
Recorded == \A p \in Para : promised[p] # None => psm[p] = Itoa(promised[p])

DurableInv == TypeOK /\ ControlInv /\ StoreInv /\ Recorded

-----------------------------------------------------------------------------
(* The inductive invariant behind CommitIsExact, RollbackRestores and       *)
(* TimerIsOldOrNew.                                                         *)

\* How far a loop has come, and that loads and sets exclude each other.
ProgressInv ==
    /\ step["bus"] \in {"rollback", "rollbackSave"} =>
          \A p \in Para : p < at["bus"] => paraState[p] = "CAN_NEITHER"
    /\ step["bus"] \in {"commit", "commitSave"} =>
          \A p \in Para : p < at["bus"] => paraState[p] # "CAN_COMMIT"
    /\ step["bus"] \in {"commit", "commitSave"} /\ ~torn =>
          \A p \in Para : p > at["bus"] => paraState[p] # "CAN_ROLLBACK"
    /\ step["bus"] = "commit" /\ ~torn /\ at["bus"] <= N =>
          paraState[at["bus"]] # "CAN_ROLLBACK"
    /\ step["bus"] = "rollbackSave" =>
          paraValue[at["bus"]] = paraBackup[at["bus"]]
    /\ step["main"] # "idle" => asked = Nothing
    /\ step["bus"] \in InitSteps /\ ~reloaded => asked = Nothing

\* What a rollback restores is what was there when the commit began.
Undoable(p) ==
    IF step["bus"] \notin Transacting THEN paraState[p] # "CAN_ROLLBACK"
    ELSE IF paraState[p] = "CAN_ROLLBACK" THEN paraBackup[p] = before[p]
    ELSE paraValue[p] = before[p]

\* The state tells what the transaction did: staged it, exchanged it, or did
\* not set it.
Staged(p) ==
    /\ paraState[p] = "CAN_COMMIT" =>
          asked[p] # None /\ paraBackup[p] = asked[p]
    /\ paraState[p] = "CAN_ROLLBACK" =>
          /\ asked[p] # None
          /\ paraValue[p] \in {before[p], asked[p]}
          /\ step["bus"] \in {"commit", "commitSave"} => paraValue[p] = asked[p]
    /\ paraState[p] = "CAN_NEITHER" =>
          step["bus"] \in {"rollback", "rollbackSave"} \/ asked[p] = None

ExactInv ==
    /\ TypeOK /\ ControlInv /\ ProgressInv
    /\ ~torn => \A p \in Para : Undoable(p)
    /\ ~torn /\ ~reloaded => \A p \in Para : Staged(p)

-----------------------------------------------------------------------------
(* What the comments in the source say and the code does not do.            *)

TransactionEnds ==
    asked # Nothing /\ asked' = Nothing /\ step'["main"] = "idle"

\* Changes are applied all together or not at all, and nothing else is: neither
\* a part of them, nor what an earlier, failed transaction asked for.
AllOrNothing ==
    [][TransactionEnds =>
          \/ paraValue' = before
          \/ paraValue' = [p \in Para |-> IF asked[p] = None THEN before[p]
                                          ELSE asked[p]]]_vars

\* Changes that were not applied are answered by a fault.
SuccessMeansApplied ==
    [][EndCommit => \A p \in Para : asked[p] # None
                                      => paraValue[p] = asked[p]]_vars

\* A parameter is loaded from its own record.
LoadsItsOwnRecord ==
    [][\A t \in Thread : GetRecord(t) /\ paraValue' # paraValue
                                    => recordName = at[t]]_vars

=============================================================================
