# TLA+ models of the CCSP Reboot Manager

This directory models and verifies the Reboot Manager of this repository
(`source/`): the daemon that takes a request to reboot, waits until no component
of the box is in the middle of something critical, announces the reboot, and
resets the system.

- [The system](#the-system)
- [The modules](#the-modules)
- [What is checked](#what-is-checked)
- [What the checks found](#what-the-checks-found)
- [What is proved](#what-is-proved)
- [What is not modelled](#what-is-not-modelled)
- [Plan](#plan)

## The system

One process with three threads that share global variables without any lock.

| Component | Source | State | Operations |
|---|---|---|---|
| Monitor thread | `RmSsp/ssp_action.c:304-686` | `bOngingCriticalEvent`, `paramToWatchFor`, `sRebootStatus`, the component list, the loop counters | poll for the request; discover; disable, query and, when a component is busy, watch, re-enable, wait and start over; announce; reset |
| Reboot object | `DataModelBackEnd/cosa_apis_reboot.c` | `bRebootEnabled`, `bRebootEnabledtemp`, `sRebootStatus` | Get, Set, Validate, Commit, Rollback of `Enable` and `Status` |
| Configuration object | `DataModelBackEnd/cosa_apis_configuration.c` | `rmConfig` (values, backups, states), the record-name buffer | load from the PSM; Get, Set, Validate, Commit, Rollback of three timers |
| Process lifecycle | `RmSsp/ssp_main.c`, `ssp_action.c:128-302`, `688-841`, `ssp_messagebus_interface.c` | `g_pComponent_COMMON_Rm`, `pRmCcdIf`, `pDslhCpeController`, health and logging | console commands, create, engage, cancel, Finalize, FreeResources, common-component parameters |
| System-ready callback, `COSA_Init` | `rm_util.c:66-76`, `plugin_main.c:73-119` | `BackEndInitDone` | load the parameters, raise the flag |
| Signal handler | `ssp_main.c:208-237` | - | exit |

Around it, and only seen through the CCSP library: the message bus, the blocking
components (processes that support the namespace `RebootService.BlockingEvent`
with the parameters `AllowCriticalEvents` and `OngoingCriticalEvent`), the
component registrar, and the PSM, which stores the timers as decimal texts.

How they interact:

- The **bus thread** runs everything that comes in: data-model calls, the
  value-change callback, the system-ready callback, Finalize. It serves one call
  at a time.
- The **main thread** starts the process (`COSA_Init` runs inside
  `ssp_engage`) and then sleeps, or reads commands when started on a console.
- The **monitor thread** polls `BackEndInitDone` and `bRebootEnabled`, which the
  other two write, and shares `bOngingCriticalEvent` and `paramToWatchFor` with
  the value-change callback and `sRebootStatus` with `Reboot_Commit`.

What is hard: the three threads interleave at every remote call, sleep and
shared variable; components die, restart, do not answer, or answer a call they
carried out with a failure; a pass over the components gives up on one and goes
on with the next, and lets components that were already checked take on events
again; the PSM fails in the middle of a commit, and again in the middle of its
rollback; the system-ready signal comes between a set and its commit. The list
of these, each at its line, is under `hazards` in `PROJECT.json`.

What makes each part correct:

- Monitor thread: the system is reset only when no component that answered is in
  a critical event or could start one; status and state agree; a component is
  not left refusing events while the thread waits; a request is decided.
- Reboot object: a request is raised once, only by who asked, and never taken
  back; an answer means what it says.
- Configuration object: a commit applies all that was asked or nothing, a
  rollback undoes it, and what was reported as stored is stored.
- Lifecycle: the process has all its objects or none, claims to be initialised
  only when it is registered, and logs what its parameters say.

## The modules

| Module | What it is |
|---|---|
| `RebootContract` | What the Reboot Manager promises: decide on a request only, announce only when nothing holds the reboot back, reset only after the announcement. |
| `GracefulReboot` | The monitor thread, the callback, the exit of the process, and the blocking components. Implements `RebootContract`. |
| `GracefulRebootProofs` | Its theorems. |
| `MCGracefulReboot` | Its instances for TLC. |
| `WaitTimer`, `WaitTimerProofs` | The arithmetic of one wait: seconds in a ULONG, turns of 50 ms in an `int`. |
| `RequestLatch` | What the monitor relies on of the data model: a request raised once, reported once, never taken back. |
| `RebootObject` | The Reboot object in its transactions. Implements `RequestLatch`. |
| `RebootObjectProofs` | Its theorems. |
| `TimerContract` | What the timers promise: outside transactions only a load changes them; inside one a reader meets old and new values; a commit ends with all that was wanted, a rollback with none of it. |
| `Configuration` | The Configuration object, the two threads that load it, and the PSM. Implements `TimerContract`. |
| `ConfigurationProofs`, `MCConfiguration` | Its theorems, its instance for TLC. |
| `RebootManager` | `Configuration` and `RebootObject` composed: transactions over both, and the monitor thread that takes the request. |
| `RebootManagerProofs`, `MCRebootManager` | Its theorems, its instance for TLC. |
| `SspLifecycle` | The main and the bus thread connecting, creating, using and cancelling the objects of the process, and the system-ready signal. |
| `SspLifecycleProofs` | Its theorems. |
| `RankOrder`, `RankOrderProofs` | The order of the ranks by which `GracefulReboot` and `RebootManager` measure progress, and that it ends. |

### GracefulReboot

`pc` is the step the thread takes next, and each step ends where another thread
or process can act. The correspondence with `GracefullyRebootSystem`:

| Action | Lines of `ssp_action.c` | |
|---|---|---|
| `AwaitBackEnd`, `AwaitRequest` | 306-324, 361 | the two polls, the first status |
| `Discover` | 364-405 | either subsystem's discovery may fail, and then finds nothing |
| `Prepare`, `FinishPass` | 407-417, 599-610 | the head of the loop; its end, and the status "safe" |
| `Disable`, `Query` with `RetryOrSkip` | 416-472 | up to `Attempts` tries, then the component is skipped |
| `Record`, `Test` | 474, 478 | the flag is written, and read again |
| `Watch`, `TurnOn` | 483-522 | register for the signal, turn the notification on |
| `Reenable` | 525-553 | one try for each position up to the current one |
| `Wait`, `WaitOver` | 555-565 | |
| `Unwatch`, `TurnOff` | 567-595 | and start over |
| `SendSignal`, `Grace`, `GraceOver`, `ResetSystem` | 612-669 | a signal that cannot be sent, or a reset that fails, ends the thread (`GaveUp`) |

A name handed over as `pFullNames[n]` is the address of a row, not the name:
`RowAddress` and `FullName` are different values. A remote set that reports
success reached a running component; one that reports a failure may have reached
it too. A component that restarts allows events again and has its notification
off. `told` and `skipped` are history variables: what a component last answered
to, and who was given up in this pass. A component is *excused* when it was
skipped in this pass or started (again) after its last word; the code cannot
know better, and `SafeToReset` says nothing about it. Once the process is gone,
or the box reset, the world stands still: nothing later concerns this code.

At the start, any component may be disabled, busy or notifying: an earlier run
of the process, or another agent, may have left it so.

### WaitTimer

What `GracefulReboot` leaves open, the length of a wait: `LoopCount` is
`ssp_action.c:553` in the widths of C (the product wraps around, the conversion
may change the sign), `Turn` and `WaitOver` the loop at `:558`. The parameter
may be set or loaded anew, and the callback run, at any time of a wait.
`WaitTimer` shares no module with `GracefulReboot`: there the count is any of
`LoopCounts`, so its results hold for every count computed here.

### Configuration

`step` and `at` say for each thread which function it is in and at which
parameter. Values are words of `LongModulus`, records the decimal texts of
`int`s: `Itoa` and `Atoi` are the two conversions with their change of sign. The
PSM may refuse a write, or carry it out and report a failure.
`Configuration_SavePsmValueRecord` has no `return` after a success: what its
caller then reads is arbitrary, and so `SavePsmValueRecord` may fail although
the PSM reported success. The library calls the object only after `COSA_Init`
returned; the system-ready callback is registered before, so it may run while
`COSA_Init` still loads. A commit that failed is followed by a rollback: the
comment on `cosa_apis_configuration.c:678` and the state `CAN_ROLLBACK`, which
only a commit sets, have no other use. `reloaded` and `torn` are history: the
signal came during this transaction; the last rollback failed. What a caller
reads (`GetParamUlongValue`) is what the monitor thread reads at
`ssp_action.c:553`.

### RebootObject

One transaction at a time (the component takes part in the bus's sessions, one
of which owns the data model). The other objects of a transaction are one choice
between success and failure, before or after this object's commit. The monitor
thread takes the request, and writes statuses, at any time. `before` and `asked`
are history.

### RebootManager

`Conf` and `Object` are instances of the two modules above, over their own
variables; every action but `RefuseTimer`, `Validate` and `AnswerFault`, which
are the library's, is an action of one of the two and leaves the other alone.
`phase` is where the library is: sets (`"open"`), commits, or - after the first
set or commit that fails - rollbacks. Which object is committed, or rolled back,
first is the library's choice and not in this repository, so both orders happen.
What the modules left open is closed here: the "other object" that makes
`RebootObject` fail is `Configuration`, with its PSM, and the call of
`Configuration_Rollback` without a commit of its own is a refused set, or a
commit of Reboot that came first and failed.

`COSA_Init` registers the functions of both objects (`plugin_main.c:91-113`)
before it loads the timers (`:116`) and raises `BackEndInitDone` (`:117`). So
Enable may be set, committed, or refused while it still loads, and the
system-ready callback may come in between with a load, and a raising of the flag,
of its own. That the request is taken only after a load is the doing of that order
of two statements (`RaiseWhenLoaded`) and of the monitor thread's poll
(`BackEndPolled`, `ssp_action.c:306-318`), and `TakenAfterLoad` checks it.
`main` also creates the monitor thread only after `cmd_dispatch('e')` returned;
that is not used, because the library calls `COSA_Init`, and when it does so is not
in this repository. The VEN501 build raises the flag inside the poll, which
makes it no obstacle at all; it is left out. A *timer*, in contrast, is set only after
`COSA_Init` returned, which remains an assumption about the library (`Serving` of
`Configuration`): a load that meets a set, which the system-ready signal does
bring about, is the subject of `SuccessMeansApplied`.

`Monitor` takes the request, and writes statuses, at any time after its poll. The
readers of `RebootObject` change nothing and are left out; a crash, of which
`Configuration` shows the effect on the records, starts a new behaviour. `wanted`
and `disturbed` are history: what the transaction set, and whether a load came in
its way, or a rollback that failed, its own or an earlier one's. `loaded` is
history, too: the timers that a load has been through with.

### SspLifecycle

`Connect`, `RegisterPath`, `RegisterEvents` and `SetCallback2` are the calls of
`ssp_Mbi_MessageBusEngage`, each of which the bus may refuse; the function then
returns, and `cmd_dispatch` goes on without looking at the result. The
system-ready signal is sent once, before the process starts or at any time of
its life, and is dropped unless the callback is set. `Register` is
`RegisterCcspDataModel`, in which `COSA_Init` loads the parameters. What a load
does in detail is `Configuration`'s; here it only matters whether there was one
after the PSM came up.

A pointer is null, live or dangling. A null pointer crashes the process (the
handler of SIGSEGV exits); a dangling one may. The bus delivers the
common-component calls only while some controller is engaged, and Finalize and
FreeResources as soon as `ssp_Mbi_MessageBusEngage` got that far. A daemon is
the case in which nothing is typed, so one instance covers both ways to start.

## What is checked

`tlc -config <run>.cfg <module>.tla`. Deadlock is checked in every run.

| Run (configuration) | Properties | Shows |
|---|---|---|
| `GracefulReboot` | `TypeOK`, `SafeToReset`, `StatusIsHonest`, `ReenabledWhileWaiting`, `SafetyInv`, `KeepsContract`, `DecisionComesNearer`, `OnlyEventsDelay` | The safety of the monitor thread, and that it implements the contract; that each of its steps but the start of a new pass brings the decision nearer, and that only a component that is busy when asked makes it wait. |
| `GracefulRebootLiveness` | `RequestIsDecided` | If events come to an end, a requested reboot is decided: the thread does not wait for ever. |
| `Configuration` | `TypeOK`, `DurableCommit`, `CommitIsExact`, `RollbackRestores`, `TimerIsOldOrNew`, `DurableInv`, `ExactInv`, `KeepsTimerContract` | What was reported as stored, and fits an `int`, stays stored; a commit is exact unless the signal came in between or an earlier rollback failed; a rollback that succeeds restores, unless an earlier one failed; whoever reads a timer meanwhile reads the old value or the one asked for, under the same provisos as for a commit; and the object implements its contract. |
| `RebootObject` | `TypeOK`, `StagedAgrees`, `ReadStaysTrue`, `RequestInv`, `SuccessMeansAsked`, `KeepsLatch` | A success means what it says, what callers read stays true, and the monitor sees one request. |
| `RebootManager` | `TypeOK`, `TakenAfterLoad`, `ManagerInv`, `SuccessMeansBoth`, `FaultKeepsTimers`, `AnswerComesNearer`, `TransactionAnswered` | Unless a load or a failed rollback came in the way, a success is in force in both objects, whichever is committed first, and a fault leaves the timers as they were; every step of the bus thread brings the answer nearer, and every transaction is answered; no request is taken before a load was through with the timers, although one may be committed. |
| `SspLifecycle` | `TypeOK`, `CrashHasACause`, `WholeOrNothing`, `GreenIsRegistered`, `LoggingInForce`, `GreenHasLoaded`, `LifecycleInv` | The causes of a crash are exactly three; all objects or none, health and logging are honest, each up to the excuse it names; a component that says it is fully initialized has loaded its parameters since the system was ready. |
| `WaitTimer` | `NeverTooLong`, `WaitInv` (which includes `TypeOK`), `WaitsInFull` | No wait is longer than was asked, and none whose number fits is cut short. |
| `NotificationEndsWait`, `AllOrNothing`, `SuccessMeansApplied`, `LoadsItsOwnRecord`, `FaultHasNoEffect` | one each | Violated: see below. |

**Bounds.** `GracefulReboot`: one component in each subsystem, so that either
discovery can fail by itself and there is a component before the one waited for,
which the wait re-enables; `Attempts = 2` (10 in the code) has a retry and a
last try; `LoopCounts = {0, 1}` a wait that times out at once and one that lasts;
one component restart, at any point. The code treats positions alike, so a third
component adds no new case: `told`, `allow` and `busy` of one are not compared
with those of another. The liveness run has both components in one subsystem,
one try and one tick, which leaves each loop of the code its exit and its
repetition (the restart of the pass). `Configuration`: two parameters, so that a
commit can fail after one was stored and before another was reached; an `int` of
two bits and a ULONG of three, as the ULONG may be wider in the code, with a
request on either side of the sign bit: 1 fits, and 3 is stored as -1 and loaded
as 7, so that `Fits` is true of one and false of the other. The defaults are 0 and
7. `RebootManager`:
two parameters as well, and one word to request: it differs from both defaults, and
the conversions are `Configuration`'s subject; both values of Enable are set.
This is the longest run but for `GracefulReboot`, which takes two minutes.
`SspLifecycle`:
two controllers at a time (`MaxEngaged`), two levels: the setter stores and applies
any ULONG unchecked, and the model leaves out the numbers that are no level.
`RebootObject` is finite as
it stands. `WaitTimer`: an `int` of 7 bits and a ULONG of 13, with values that
fit (0, 1, 2, 3), turn negative (4), and wrap around (9, and 8191, which a record
of -1 is loaded as).

**Fairness.** `FairSpec` assumes `WF_vars(Monitor)`: a runnable thread is
scheduled. It is not assumed that a call succeeds, that a callback runs, that a
component answers, or that an event ends; `RequestIsDecided` has the last one as
its premise (`EventsCease`), because components that take turns with events do
keep the reboot waiting for ever. Decided
(`Ended`) means: reset, given up, or exited; the thread gives up when the
announcement cannot be sent or the command that resets the system fails.
In `RebootManager`, `FairSpec` assumes `WF_vars(BusThread)`: the bus thread is
scheduled and the library's loop over the objects goes on; each call of the PSM
returns, if only by the timeout of the bus, with any outcome. Neither sets,
validations, signals nor the monitor thread are assumed to happen.

**Mutants.** Each property of a passing run has, under `mutants`, a change of one
definition that a plausible mistake in the code would be (an index, a missing
reset, a dropped check, a swapped value), under which TLC finds it violated. The
mutated forms stand before the definitions they replace, marked as variants.

## What the checks found

- **Every wait lasts until its timer expires** (`NotificationEndsWait`).
  `ssp_action.c:485` copies the address where the name was meant, and `:508` asks
  for the notification of that. Passing the name alone would not be a repair:
  with `RowAddress` replaced by `FullName` TLC violates `SafetyInv`, in its part
  `NothingMatches`, as soon as a component is watched. That part is what the
  argument for `SafeToReset` rests on: without it a late signal could clear the
  flag between `:474` and `:478`, and the thread would take a busy component for an
  idle one.
- **Commits are not atomic** (`AllOrNothing`): a rollback
  stops at the first record it cannot save, and what it leaves staged is applied
  by somebody else's commit.
- **A commit reports success and applies nothing** (`SuccessMeansApplied`) when
  the system-ready signal came after the set.
- **A timer is loaded from another timer's record** (`LoadsItsOwnRecord`) when
  the signal comes while `COSA_Init` runs.
- **A transaction that failed still reboots** (`FaultHasNoEffect`): when
  `Reboot_Commit` came first and the PSM refuses a timer, `Reboot_Rollback` does
  nothing and the request stays.

The last one has a twin that does *not* happen: `Configuration_Commit` clears its
states, so nothing could undo it if `Reboot_Commit` came second and failed. It
never fails, because the set that would make it fail is refused before
(`StagedAgrees`), and the transaction with it; `FaultKeepsTimers` holds, and the
mutant that accepts such a set violates it. It is not a claim that every fault
spares the timers: a load that came in the way, or a rollback that failed - this
transaction's own, as in `AllOrNothing`, or an earlier one - is excused
(`disturbed`).

Further facts came out of properties that hold with an excuse: a
`CriticalWaitTime` above 2^32/1000 (or, with a 64-bit ULONG, from 2^31/20
on) gives a shorter wait than asked or none (`WaitsInFull`, `Fits`); creating the
common object anew while logging is off leaves it claiming that logging is on,
with no way to turn it on by setting it to on (`LoggingInForce`, `silenced`); a
component whose call of the bus was refused turns green without listening for the
system-ready signal (`GreenHasLoaded`, `refused`), so that it may keep its
compiled-in timers, against the comment at `plugin_main.c:115`; a timer above the
sign bit of an `int` is loaded as another value than was committed
(`DurableCommit`, `Fits`); and when the announcement cannot be sent, or the command
that resets the system fails, the thread ends and the request is lost for good,
which `RequestIsDecided` counts as decided. What a property excuses, it does not
catch: such hazards name no property in `PROJECT.json`, and say so.

## What is proved

With TLAPS, for every value of the constants (`tlapm <module>.tla`):

| Theorem | States |
|---|---|
| `GracefulRebootProofs!TypeCorrect` | `TypeOK`, and the ranges of the loop counters |
| `GracefulRebootProofs!SafetyInvariant`, `ResetIsSafe` | `[]SafetyInv`, and hence `[]SafeToReset` |
| `GracefulRebootProofs!WaitLetsEventsBegin`, `StatusHonest` | `[]ReenabledWhileWaiting`, `[]StatusIsHonest` |
| `GracefulRebootProofs!Refinement` | `Spec => KeepsContract` |
| `GracefulRebootProofs!RankIsNatural`, `DecisionIsNearer`, `OnlyEventsHoldUp` | `[]RankOK`, `DecisionComesNearer`, `OnlyEventsDelay` |
| `GracefulRebootProofs!RequestIsTheLatch`, `LatchIsTheRequest` | what the thread sees of `Reboot_Commit` is `RequestLatch`, no less and no more |
| `ConfigurationProofs!DurableInvariant`, `CommitIsDurable`, `TypeCorrect` | `[]DurableInv`, and hence `[]DurableCommit`, `[]TypeOK` |
| `ConfigurationProofs!ExactInvariant`, `CommitsExactly`, `RollsBackExactly`, `ReadsOldOrNew` | `[]ExactInv`, and hence `[]CommitIsExact`, `[]RollbackRestores`, `[]TimerIsOldOrNew` |
| `ConfigurationProofs!TimersKeepContract` | `Spec => KeepsTimerContract` |
| `RebootObjectProofs!RequestInvariant`, `TypeCorrect`, `StagedAgree`, `SuccessIsHonest`, `ReadersAreRight`, `LatchIsKept` | `[]RequestInv`, `[]TypeOK`, `[]StagedAgrees`, `SuccessMeansAsked`, `[]ReadStaysTrue`, `Spec => KeepsLatch` |
| `RebootManagerProofs!RunsConfiguration`, `RunsRebootObject` | the composition implements each of its two parts |
| `RebootManagerProofs!KeepsBothContracts` | and with them `TimerContract` and `RequestLatch` |
| `RebootManagerProofs!ManagerInvariant`, `TypeCorrect`, `NothingBeforeTheLoad`, `SuccessIsBoth`, `FaultSparesTimers` | `[]ManagerInv`, `[]TypeOK`, `[]TakenAfterLoad`, `SuccessMeansBoth`, `FaultKeepsTimers` |
| `RebootManagerProofs!AnswerIsNearer` | `AnswerComesNearer`, and that its rank is of natural numbers |
| `RankOrderProofs!NearerEnds` | no infinite sequence of ranks comes nearer |
| `SspLifecycleProofs!LifecycleInvariant`, `TypeCorrect`, `CrashesHaveACause`, `ObjectsAreWhole`, `GreenMeansRegistered`, `LoggingAgrees`, `GreenIsLoaded` | `[]LifecycleInv`, and hence each invariant of the run `SspLifecycle` |
| `WaitTimerProofs!WaitInvariant`, `TypeCorrect`, `WaitIsBounded`, `WaitIsInFull` | `[]WaitInv`, `[]TypeOK`, `[]NeverTooLong`, `WaitsInFull` |

They rest on the assumptions the modules name: a discovery finds no component
twice (`DiscoveryAssumption`), at least one try (`BoundsAssumption`), words and
defaults of the stated width (`ConfigurationAssumption`, `WaitTimerAssumption`),
`None` is none of the values it stands beside (`NoneAssumption`), and there is a
lowest trace level and room for one controller (`LevelAssumption`,
`EngagedAssumption`).

*The monitor thread.* `SafeToReset` is not inductive: it says nothing before the
announcement. `SafetyInv` adds what each step of a visit knows (`VisitInv`: the
positions before `i` are cleared; after the query, either the answer was "busy" or
position `i` is cleared), why nobody can undo it (`OrdersHold`: a component that
answered an order to refuse events keeps it until it restarts, so it cannot
become busy), and why the flag cannot be cleared behind the thread's back
(`NothingMatches`). The lemmas treat the thread, the callback and the components
one action at a time; a frame lemma covers the steps that leave a component's
position cleared or not as it was. The refinement maps `pc` to the phases of the
contract and the uncleared components to its `holders`; the step to "announced"
is where `VisitInv` is needed.

`StatusIsHonest` needs to know who may write a status when: before the request is
taken `Reboot_Commit` may overwrite it, afterwards only the thread does, and the
texts differ (`StatusInv`). `ReenabledWhileWaiting` needs how far the loop that
re-enables has come (`ReenableInv`).

*Configuration.* `DurableCommit` needs `ControlInv` (only the bus thread is at
work in a commit, so the name in the buffer is the name of the record that is
saved) and `StoreInv` (a record that may be written holds no promise; what the
commit has passed is stored). `ExactInv` says of each parameter, by its state,
what is staged in its backup (`Staged`), that a rollback would find the old value
(`Undoable`), and by `at` which states the loop has left behind (`ProgressInv`) -
all this as long as no load discarded the set and no rollback was torn.

`TimerContract` says the same without staging, states, records or backups. The
refinement maps the values to the contract's `timers`, `asked` and `before` to what
was wanted and what was there, and the steps of the bus thread to its phases;
`whole`, the promise being in force, is `~torn /\ ~reloaded`. A swap and a
restoration are steps of `Work`, which needs `TimerIsOldOrNew` after the step; the
end of a commit and of a rollback need `CommitIsExact` and `RollbackRestores`;
`GetRecord` is a `Load`, allowed because `ProgressInv` says that nothing is wanted
while a load goes on, unless the signal came in between.

*Reboot object.* `RequestInv` relates what is staged, what was asked and what is
in force at each step of a transaction; the emptiness of `Reboot_Rollback` does
no harm to successful transactions because every commit follows a set.

`ReadStaysTrue` needs that a flag that is up stays up (`RaisedInv`).

*The two together.* `RunsConfiguration` and `RunsRebootObject` show that every
step of `RebootManager` is a step or a stutter of each part, so the invariants
above hold of it; the lemmas `Same...` carry them to the instances. `ManagerInv`
adds which steps of the parts a phase admits (`PhaseInv`) and, at each of them,
either that `Configuration` still has to deal with exactly what the transaction
set (`Pending`) or that it is through with the outcome to be answered (`Ended`);
and how far each load has come, and that the flag is up, or a request taken, only
after one (`LoadInv`). `TakenAfterLoad` is not inductive without it: two threads
load, and either may raise the flag while the other is still at it.
Both `SuccessMeansBoth` and `FaultKeepsTimers` follow from the outcome at the
answer, where nothing disturbed the transaction; `StagedAgrees` rules out the fault
that comes after a successful `Configuration_Commit`.

The contracts join the modules: `KeepsBothContracts` carries them from the two
objects to their composition, and `RequestIsTheLatch` with `LatchIsTheRequest` shows that the two steps by
which `GracefulReboot` lets a request arrive are exactly those of the latch, so
that nothing about the monitor thread rests on a request the object would not
raise, and none that it would is left out.

*Progress.* A liveness property that rests on weak fairness of one thread has a
safety part, and this one is proved. `Rank` measures what the thread has left:
parts of the function, positions of the pass, steps of a visit, turns of the loop
it is in. It is a tuple of natural numbers (`RankIsNatural`; the tries that are
left need the invariant that no loop runs past its limit, `TriesInv`), and each
step of the thread makes it smaller at the first place where it changes
(`DecisionIsNearer`), which happens finitely often (`NearerEnds`). The only step
that is excepted is `TurnOff`, which starts the pass over, and that is reached
only after a component answered that it was busy, in this visit
(`OnlyEventsHoldUp`): a timer that ran out leaves `bOngingCriticalEvent` set, and
it is assigned anew before it is tested again. `AnswerIsNearer` has no exception:
whatever the PSM answers, a transaction is answered after finitely many steps of
the bus thread.

*Lifecycle.* None of the invariants is inductive alone. `LifecycleInv` says what
each step of a start or a cancel finds of the three objects while no two threads
are at work (`ObjectsInv`), how many controllers are then engaged and that every
pointer that is used is live (`CalmInv`), that a green component that is not
registered is on its way to be cleared (`GreenInv`), that there is room for the
controller to come (`RoomInv`), and that the signal is heard from the
registration of its callback on (`LoadInv`). The proofs take one action at a
time; `HistoryStays` and `ConnectStep` collect what many of them share.

*Wait.* `WaitInv` ties the count to the seconds the wait began with. The lemmas
`ToIntBounds` and `LoopCountBounds` say what the conversions can lose: the
result never exceeds what went in, and equals it when it fits.

Only model-checked: the two liveness properties, `RequestIsDecided` and
`TransactionAnswered`, of which the step from "each step of the thread comes nearer"
to "it arrives" needs fairness and `ENABLED`, which are out of the prover's reach.
(And, of course, the violations.) Every invariant and every action property of the
passing runs, and every refinement, is a theorem. The texts and conversions are
abstracted or computed without recursion, so no module has a `RECURSIVE` operator.

## What is not modelled

- Texts, logging, memory figures, the backtrace file, daemonizing, the arguments.
- `RebootManager_CloneString` and `MergeString`: the names they build are members
  of a set in the models.
- The HAL hook is empty on all platforms; the XML files are data.
- The registration of the back-end functions by name; what the CCSP library, the
  bus, the registrar and the PSM do inside. They are environment, as permissive
  as the way `source/` uses them allows.
- The sizes of the fixed arrays (128 components, 128 bytes of status).
- Torn reads of the status text while another thread writes it.

## Plan

1. *(done)* The core: `RebootContract`, `GracefulReboot` with its proofs.
2. *(done)* `Configuration` with its findings and `CommitIsDurable`.
3. *(done)* `RequestLatch`, `RebootObject` with its proofs; `SspLifecycle`.
4. *(done)* `WaitTimer` with its proofs.
5. *(done)* `RebootManager` with its proofs: `Configuration` and `RebootObject`
   under one transaction, and the monitor thread's reading of what they leave.
6. *(done)* The registration of the system-ready callback, in `SspLifecycle`.
7. *(done)* Proofs of every safety property that a run checks, of `TimerContract`
   and `RequestLatch` for the parts and for their composition, and of the ranks
   behind the two liveness properties.
8. The monitor thread's whole pass inside `RebootManager`, in place of `Monitor`:
   `GracefulReboot` already takes any timer, status and request, so what is left
   is to state which of them one transaction asked for. TLC would need smaller
   instances of both.
