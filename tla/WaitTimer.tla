----------------------------- MODULE WaitTimer -----------------------------
(***************************************************************************)
(* The wait for a critical event in GracefullyRebootSystem, turn by turn:  *)
(* the parameter CriticalWaitTime, in seconds, becomes a number of turns   *)
(* of 50 ms each, in the widths C computes it in.  GracefulReboot leaves   *)
(* that number open.                                                       *)
(*                                                                         *)
(* The monitor thread waits again and again.  The bus thread may load or   *)
(* commit another CriticalWaitTime at any time, or run the value-changed   *)
(* callback, which - GracefulReboot shows - leaves the flag alone as long  *)
(* as it is given the wrong name; here it may clear it.                    *)
(***************************************************************************)
EXTENDS Integers

CONSTANTS
    DEFAUT_CRITICAL_WAIT_TIME,  \* spelt as in the header; 2 in the code
    Stored,        \* the values the parameter is set to or loaded with
    IntModulus,    \* 2^(width of int)
    LongModulus    \* 2^(width of ULONG)

Word == 0 .. (LongModulus - 1)

ASSUME WaitTimerAssumption ==
    /\ IntModulus \in Nat \ {0} /\ LongModulus \in Nat \ {0}
    /\ DEFAUT_CRITICAL_WAIT_TIME \in Word
    /\ Stored \subseteq Word

VARIABLES
    CriticalWaitTime,    \* rmConfig.ulULongParaValue[0]
    bOngingCriticalEvent,
    loop_cnt, k,         \* how many turns to wait, how many were waited
    waiting,             \* the thread is in its loop
    seconds              \* history: CriticalWaitTime when the wait began

local == <<loop_cnt, k, waiting, seconds>>
vars == <<CriticalWaitTime, bOngingCriticalEvent, local>>

ToInt(word) ==
    LET int == word % IntModulus
    IN  IF 2 * int < IntModulus THEN int ELSE int - IntModulus

\* Variants with a bug: the count is not brought into an int; a turn is taken
\* for a tenth of a second.
Unconverted(word) == ((word * 1000) % LongModulus) \div 50
HalfAsMany(word) == ToInt(((word * 1000) % LongModulus) \div 100)

LoopCount(word) == ToInt(((word * 1000) % LongModulus) \div 50)

TypeOK ==
    /\ CriticalWaitTime \in Word /\ seconds \in Word
    /\ bOngingCriticalEvent \in BOOLEAN /\ waiting \in BOOLEAN
    /\ loop_cnt \in Int /\ k \in Nat
    /\ -IntModulus <= 2 * loop_cnt /\ 2 * loop_cnt < IntModulus
    /\ 2 * k < IntModulus

Init ==
    /\ CriticalWaitTime = DEFAUT_CRITICAL_WAIT_TIME
    /\ bOngingCriticalEvent = FALSE
    /\ loop_cnt = 0 /\ k = 0
    /\ waiting = FALSE /\ seconds = DEFAUT_CRITICAL_WAIT_TIME

\* A component answered that it is busy, which set the flag; the timer is set up.
SetupTimer ==
    /\ ~waiting
    /\ bOngingCriticalEvent' = TRUE
    /\ loop_cnt' = LoopCount(CriticalWaitTime) /\ k' = 0
    /\ waiting' = TRUE /\ seconds' = CriticalWaitTime
    /\ UNCHANGED CriticalWaitTime

\* Variant with a bug: the parameter is converted anew at each turn.
LimitNow == LoopCount(CriticalWaitTime)

Limit == loop_cnt

Turn ==
    /\ waiting /\ bOngingCriticalEvent /\ k < Limit
    /\ k' = k + 1
    /\ UNCHANGED <<CriticalWaitTime, bOngingCriticalEvent, loop_cnt, waiting,
                   seconds>>

WaitOver ==
    /\ waiting /\ ~(bOngingCriticalEvent /\ k < Limit)
    /\ waiting' = FALSE
    /\ UNCHANGED <<CriticalWaitTime, bOngingCriticalEvent, loop_cnt, k, seconds>>

\* Configuration_Parameters_Init, Configuration_Commit, Configuration_Rollback.
SetCriticalWaitTime(word) ==
    /\ CriticalWaitTime' = word
    /\ UNCHANGED <<bOngingCriticalEvent, local>>

ValueChangedCB ==
    /\ waiting
    /\ bOngingCriticalEvent' = FALSE
    /\ UNCHANGED <<CriticalWaitTime, local>>

Next ==
    \/ SetupTimer \/ Turn \/ WaitOver
    \/ \E word \in Stored : SetCriticalWaitTime(word)
    \/ ValueChangedCB

Spec == Init /\ [][Next]_vars

-----------------------------------------------------------------------------

\* Neither the multiplication nor the conversion loses anything.
Fits(word) ==
    /\ word * 1000 < LongModulus
    /\ 2 * (word * 20) < IntModulus

\* A wait is as long as the parameter said when it began, whatever it is set to
\* meanwhile: it ends early only for the event, or because the arithmetic lost
\* part of the number.
WaitsInFull ==
    [][WaitOver /\ bOngingCriticalEvent /\ Fits(seconds)
          => k * 50 = seconds * 1000]_vars

\* Whatever the arithmetic loses, no wait is longer than the parameter said: a
\* reboot is not held up by a number that wrapped around.
NeverTooLong == k * 50 <= seconds * 1000

\* The inductive invariant behind both.
WaitInv ==
    /\ TypeOK
    /\ loop_cnt * 50 <= seconds * 1000
    /\ k = 0 \/ k <= loop_cnt
    /\ NeverTooLong
    /\ waiting => loop_cnt = LoopCount(seconds)

=============================================================================
