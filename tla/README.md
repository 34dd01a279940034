# A TLA+ model of EDK II firmware services

EDK II is the reference implementation of UEFI and PI firmware. This directory
holds TLA+ modules for the parts of it whose correctness depends on
interleaving, ordering and failure, TLC configurations that check them on
small instances, and TLAPS proofs for all instances.

All paths below are relative to `src/edk2/`.

## 1. Inventory

| Component | State | Operations | What is hard | Correct means |
|---|---|---|---|---|
| DXE events, TPL, timers (`MdeModulePkg/Core/Dxe/Event`, `.../Library/Library.c`) | current TPL, notification queues and pending mask, list of all signal events, timer list and its lock, system time, `IEVENT`s | Create/Close/Signal/Check/WaitForEvent, SetTimer, Raise/RestoreTPL, timer tick, CoreCheckTimers, CoreDispatchEventNotifies | one processor, but the timer interrupt nests on any code below `TPL_HIGH_LEVEL` and dispatches notifications there | TPLs restored, notifications never re-enter, no signal or timer lost, no early timer, freed events unreachable |
| Timer driver (`OvmfPkg/8254TimerDxe`) | – | interrupt handler | runs on top of any code | as above |
| Handle database (`MdeModulePkg/Core/Dxe/Hand`) | handles, protocol interfaces, open entries, notify registrations | install, reinstall, uninstall, open, close, locate, connect | notifications and driver callbacks re-enter the database in mid-operation | no stale interface, every registration sees every install once |
| DXE dispatcher (`.../Dispatcher`) | driver list and states, schedule queue | discover, evaluate depex, schedule, dispatch | drivers install protocols while the loop runs | each driver started at most once, after its dependencies |
| GCD, page and pool allocators (`.../Gcd`, `.../Mem`) | memory map, free lists | allocate, free, convert, add/remove ranges | the allocator allocates its own descriptors | ranges disjoint and complete |
| Fault tolerant write (`MdeModulePkg/Universal/FaultTolerantWriteDxe`) | working, spare and target blocks of flash | allocate, write, restart, abort, recovery at start | power failure between any two flash operations | old or new contents always recoverable |
| Variable driver (`.../Variable/RuntimeDxe`) | variable store, cache, state bits | get, set, enumerate, reclaim | partial writes, reclaim through fault tolerant write | a variable is never lost, at most one valid copy is visible |
| SMM rendezvous (`UefiCpuPkg/PiSmmCpuDxeSmm/MpService.c`) | semaphores, present and busy flags | enter, elect BSP, wait for arrival, start procedures, exit | true concurrency, late and missing processors, timeouts | one BSP, no processor left behind, no deadlock |
| Multiprocessor library (`UefiCpuPkg/Library/MpInitLib`) | AP states, wake-up signals | start, finish, time out, enable, disable | concurrency, timeouts racing completions | every AP that is started ends in a known state |
| PEI core, SMM core | PPI and handler lists | install, notify, dispatch | callbacks, memory migration | no stale pointer |
| Drivers, network, shell, HII, BDS, build tools, cryptography, platforms | various | various | mostly data formats and device registers | not in the scope of state-based models, or later candidates (VirtioLib, TCP) |

Components interact by calls, by protocols looked up in the handle database
and by event notifications; the timer interrupt is the only source of
concurrency on the boot processor. Every hazard found is listed in
`PROJECT.json` with the properties that would catch it.

## 2. Plan

1. `DxeEvent` – events, TPL and timers, composed with the interrupt handler.
   **Done**: model, runs, proofs of every safety property.
2. `Ftw` – fault tolerant write with a crash before every flash operation and
   recovery at start; `AtomicStore`, an abstract block store that it
   implements. **Done**: model, runs, proofs of every safety property and of
   the refinement. Left: the boot block path.
3. `SmmRendezvous` – the SMM entry and exit protocol for 2–3 processors.
   **Done**: model, runs, proofs of every safety property. Left: hot-plug.
4. `VariableStore` – the variable driver, with a Reclaim that relies on what
   step 2 shows, itself an implementation of `AtomicStore`. **Done**: model,
   runs, proofs of every invariant. Left: variables from HOBs, hardware error
   records, a proof of its refinement for platforms with one fault.
5. `HandleDb` with protocol notifications, then `Dispatcher` with depex.
6. `PageAllocator` / GCD interval arithmetic against a reference definition.

Which module uses which: `Ftw` and `VariableStore` each instantiate
`AtomicStore` under a refinement mapping; `VariableStore` takes the update of a
block through `Ftw` as one step, which is what the refinement of `Ftw` allows.
The proofs about `DxeEvent` are in `DxeEventProofs` (the stack), `DxeListProofs`
(the queues and the timer list) and `DxeSignalProofs` (times and signals), each
extending the one before; those about `Ftw` in `FtwProofs`; those about
`VariableStore` in `VariableProofs`; those about `SmmRendezvous` in `SmmProofs` (the protocol) and `SmmHandlerProofs` (what it means for the SMI
handlers). `ListLemmas` has what several of them need. An `MC…` module
extends one of the others and defines its instances: sets of *platforms*
(records of configuration and bounds), one of which is chosen in the initial
state, so that one run covers several configurations.

## 3. DxeEvent: events, task priority levels and timers

### Processor and interrupts

There is one processor and one call stack (`stack`). A frame is an activation
that can be interrupted. Its `pc` names the next step, `lvl` the TPL it set
last, `new` the TPL its caller runs at, `ev` and `num` its locals. The
interrupt handler and the notification functions it dispatches run on top of
the interrupted frame: `TimerInterrupt` is enabled in every state with
`gEfiCurrentTpl < TPL_HIGH_LEVEL`, which is exactly when `CoreSetInterruptState`
leaves interrupts enabled. Code that runs at `TPL_HIGH_LEVEL` is one step;
everything else is cut wherever it reads or writes state an interrupt can
change. For example `CoreRestoreTpl` called from `TPL_HIGH_LEVEL` tests the
pending mask with interrupts off (`RestoreFromHigh`), while called from below
its test, its choice of `PendingTpl` and its assignments are the steps
`TestPending`, `PickPending`, `EnterPending`, `SetNewTpl`.

| Code | Model |
|---|---|
| `gEventQueue[t]`, `gEventPending` | sequences per TPL, the set of bits |
| `gEventSignalQueue`, `gRuntime->EventHead` | sequences |
| `mEfiTimerList`, `mEfiTimerLock`, `mEfiSystemTime` | sequence, record, number |
| `IEVENT` | record; `Signature = FALSE` is freed memory |
| `CoreRestoreTpl`, `CoreRaiseTpl` | `RestoreFromHigh`, `TestPending` … `SetNewTpl`, `RaiseTpl`, `RestoreTpl` |
| `CoreDispatchEventNotifies` | `DispatchNext`, `CallNotifyFunction` |
| `CoreSignalEvent`, `CoreNotifySignalList`, `CoreNotifyEvent` | `CoreSignalEvent`, `NotifyList…`, `SignalRelock`, `CoreNotifyEvent` |
| `CoreTimerTick`, `TimerInterruptHandler` | `TimerInterrupt` |
| `CoreCheckTimers`, `CoreSetTimer`, `CoreInsertEventTimer` | `CheckTimers…`, `SetTimer…`, `TimerSlot` |
| `CoreCheckEvent`, `CoreWaitForEvent` | `CheckEvent…`, `Wait…` |
| `CoreCreateEventEx`, `CoreCloseEvent` | `CreateEvent` (with `ValidRequest`, `ConvertedType`, `ConvertedGroup`), `Close…` |

Clients are the application at the bottom of the stack and the notification
functions; both may call any service allowed by `AppCalls` and `NotifyCalls`
any number of times. `due` is an auxiliary variable: the time, without
wrap-around, the last `SetTimer` asked for.

Two constants say what the proofs assume. `SingleLoad`: the compiler loads
`gEventPending` once per iteration of the loop in `CoreRestoreTpl` (it is not
volatile, so two loads are also a legal translation, see below).
`RespectClose` is a discipline of the clients, as with any memory that is
freed: nobody calls a service with an event another activation is closing
(`MayUse`), and nobody closes an event that a service it has interrupted was
called with (`MayClose`). It restricts only what clients call (`ClientStep`): the
services themselves check the Signature and nothing else, like the code. It says
nothing of the dispatcher, whose use of an event a client cannot know of.

### Runs

Every run has the core's two events and two client events `a` and `b`; TPLs 8,
16 and 30. A tick adds `TickPeriod` to the clock, which stops at `MaxTime`: a
tick is still possible at every step then, only the time does not advance, so
expiry, rearming and the race of every instruction with a tick are all reached.
Two events at two TPLs are enough for nesting three deep (application, 8, 16,
and the core's own event at 30). In `dxe_events` a tick is longer than the
delay of the timers, so that they are overdue when it comes; `dxe_live` has also the
delay 0 (at once, or every tick).

| Run | Shows |
|---|---|
| `dxe_events` | all services, called by the application and by notification functions, on polled events, timers and members of a group that are closed and created again at the same address, in a build that loads `gEventPending` twice: `TypeOK`, `CallerTplRestored`, `NoReentrancy`, `TimerLockExclusive`, `TimerListSorted`, `NoEarlyExpiry`, `QueuesWellFormed`, `SignalledIsQueued`, `ClosedUnlinked`, `WaitConsumes` (WaitForEvent returns only by consuming a signal, also when notification functions check the same event), and no deadlock |
| `dxe_live` | `NotifyEventually`, `TimerEventually`, `WaitReturns` |
| `dxe_closing` | a violation of `NotifyAtOwnTpl`, see below |

Fairness: the core's own steps are weakly fair (the processor keeps
executing). The timer interrupt is strongly fair: the hardware keeps ticking,
and a tick that finds interrupts disabled stays pending in the interrupt
controller until they are enabled. `RestoreTpl` and `NotifyReturn` are strongly
fair, because a client that raised the TPL or was called back must get done,
whatever else it calls meanwhile. Clients need not call anything; in `dxe_live`
notification functions do not signal, since one that signals its own event
each time it runs can keep the dispatcher busy for ever.

### Disagreements with comments and assertions

* `CoreRestoreTpl` says "If the new priority unmasks events at a higher priority,
  they are dispatched" (`MdeModulePkg/Core/Dxe/Event/Tpl.c:87`). Below
  `TPL_HIGH_LEVEL` a tick between the last test of `gEventPending` and the
  assignment of `gEfiCurrentTpl` (line 134) queues a notification that nobody
  looks for until the next tick. TLC shows it when `NoUnmaskedPending` is
  made an invariant of the instance of `dxe_events`; `dxe_live` shows that the
  notification is delivered all the same.
* `dxe_closing`: `CoreCloseEvent` says "If the event is queued somewhere, remove it"
  (`.../Event/Event.c:741`). An event that `CoreDispatchEventNotifies` has
  dequeued and not yet called (lines 188 to 194) is queued nowhere: closed by a
  notification function of higher TPL at that point, it is called all the
  same, and `NotifyAtOwnTpl` fails. The clients of this run keep to
  `RespectClose`: the event is in no client's hands.

Changing the instance of `dxe_events` shows more:

* `MaxTime = 3`: the second load of `gEventPending` finds an empty mask, the TPL
  becomes -1, and the check in `CoreRaiseTpl` stops (TLC reports a deadlock); with
  `SingleLoad` there is none;
* `TimeModulus = 8` and `Delays = {1,7}`: a delay that overflows with the current
  time (64 bits in the code) fires at once and `NoEarlyExpiry` fails;
* `RespectClose = FALSE`: an event can be rearmed between being unlinked and losing
  its Signature (`Event.c:766`), it is freed while on the timer list, and
  `ClosedUnlinked` fails.

CreateEventEx also accepts, for a type without notification in the group of
ExitBootServices, any NotifyTpl: the group conversion happens after the check.

### Proofs

Every safety property of `dxe_events` is proved, for every set of events, every
set of notification TPLs between 5 and 30 that contains 16 and 30, every tick
period and clock bound and every choice of client services:

| Module | Theorems about | Assuming |
|---|---|---|
| `DxeEventProofs` | `TypeOK`, `CallerTplRestored`, `NoReentrancy`, `TimerLockExclusive` | `SingleLoad` |
| `DxeListProofs` | `QueuesWellFormed`, `TimerListSorted`, `ClosedUnlinked` | and `RespectClose` |
| `DxeSignalProofs` | `SignalledIsQueued`, `WaitConsumes` (an action property) | and `RespectClose` |
| `DxeSignalProofs` | `NoEarlyExpiry` | and `RespectClose`, `NoWrap` |

The changed instances above show what each assumption is for: a build with two
loads can set the TPL to -1, a client that rearms an event under its
CloseEvent breaks `ClosedUnlinked`, and a delay that overflows breaks
`NoEarlyExpiry`. `NoWrap` says that the clock, up to its bound, and a delay add
up to less than `TimeModulus`, 2^64 units of 100 ns in the code.

**The stack.** None of the first four is inductive: each depends on what lies *below* the running
frame. `IInv` (in `DxeEvent`) therefore describes every frame (`FrameOK`: it
runs at or above its caller's TPL, dispatches strictly above it, holds the
timer lock only at TPL 30), every pair of frames (`StackOK`: each returns to
the TPL of the one below, TPLs never decrease up the stack, a notification
function sits directly on a dispatcher) and the lock word (`LockOK`: above
the holder there is nothing but CoreSignalEvent). The argument: a dispatcher is
pushed only for a pending TPL above the current one and never above 30, so it
cannot be on top of a holder of the lock, whose TPL is 30; hence whoever wants
the lock finds it free. Between two notification functions there is a
dispatcher that was entered strictly above the lower one; hence they nest at
increasing TPLs.

The stack lemmas (`PushFrame`, `UpdateFrame`, `PopFrame`, `AcquireInPlace`,
`AcquireInCall`, `ReleaseInPlace`, `RestoreKeepsStack`) are stated for any
stack and cited by one lemma per group of actions. `ListLemmas` has the facts
on `RemoveAt`, `InsertAt`, `Front`/`Last` and least and greatest members.

**The lists.** What a list holds depends on the activations that are about to
change it, so `LInv` links three things: the IEVENTs and the lists
(`EventLink`, `QueuesOK`, `NamesOK`, `TimersOK`), each activation and the event
it works on (`FrameLink`: the event is not freed, is off the timer list while
its trigger time is being set, is off every list when it is about to be freed),
and every two activations (`PairLink`: who closes an event has it to itself,
except for a dispatcher that dequeued the event before: that one may call it
after it is freed, which is what `dxe_closing` shows, and no list depends on it). `TimerListSorted` then
holds because an event is inserted or has its `TriggerTime` changed only under
the timer lock, of which `IInv` says that there is one holder.

**Times and signals.** `TInv` follows the due time from the argument of
SetTimer through the local variables to `TriggerTime`. `SInv` (of
`DxeSignalProofs`) says that a signal is not lost: the event is queued, or an
activation of CoreNotifySignalList has still to pass it.

Only model-checked: `NotifyEventually`, `TimerEventually` and `WaitReturns`.
Liveness under fairness is out of the prover's reach.

### Not modelled

Allocation failure in CreateEvent (no state changes), the `ExFlag` and
protocol-notify bookkeeping of CloseEvent (it belongs to the handle database),
pointer-level list updates without the lock (`InsertTailList` into
`gRuntime->EventHead`, `Event.c:489`; a notification function that creates a
runtime event in the middle corrupts the list), the interrupt frame between
RestoreTPL and IRET in the handler (`Timer.c:91`; ticks that outpace it nest on
the stack), the period of the hardware timer, debug output.
Notification functions other than CoreCheckTimers are arbitrary clients.

## 4. Ftw: fault tolerant write

### Flash, memory and steps

The driver updates a block of flash through a *spare* block, and keeps a queue
of headers and records in the *work space*, part of the *working block*. The
rest of the working block holds other data, which is itself a block callers
update (`WorkBlk`): then queue and data are replaced together.

| Code | Model |
|---|---|
| target blocks, working block, spare block | `target`, `work`, `spare`; an area is `[data, ws]` |
| `EFI_FAULT_TOLERANT_WORKING_BLOCK_HEADER` | `ws.sig` (signature and CRC match), `ws.valid`, `ws.invalid` |
| write queue: headers and records, 40 bytes each | `ws.q`, one cell each: the state bits, and a body (`NumberOfWrites` of a header, the target of a record) |
| content of a block | `<<block, version>>`, or `Lost` |
| `FtwDevice` and local variables | `d`: the work space in memory, its last header `h` and record `r`, `Offset` (`off`), the `Header` and `Record` taken by FtwWrite (`hd`, `rc`), the buffers |
| calls between functions | `pc` and the labels on `stk`: `Call("refresh", <<"b_check", "i_tail">>)` is FtwAbort, which refreshes and then checks |
| `WorkSpaceRefresh`, `FtwReclaimWorkSpace` | `WorkSpaceRefresh`, `Reread`; `FtwReclaimWorkSpace`, `Reclaim…` |
| `FlushSpareBlockToWorkingBlock`, `…ToTargetBlock` | `Flush…`; `WriteRecordStart`, `FlushSpareBlockToTargetBlock` |
| `FtwAllocate`, `FtwWrite`, `FtwWriteRecord` | `Allocate…`, `Write…`, `WriteRecord…` |
| `FtwRestart`, `FtwAbort`, `FtwGetLastWrite` | `Restart…`, `Abort…`, `FtwGetLastWrite`, `GetLastWriteAborted` |
| `InitFtwProtocol` | `Boot`, `Init…` |

One step makes at most one change to flash, so `PowerLoss` before every step
covers every moment between two operations. Power lost *inside* an operation:
a block that is half written is in the state before the copy as far as the
driver can tell, because the bit that gives the copy a meaning is a later
operation; a header can be torn (`PowerLossInHeader`: allocated bit written,
sizes not), and with `split` a multi-block erasure can stop half way
(`EraseStep`). Other tears of a header or of a record are not modelled.
`Program` is the external rule that flash bits are only ever cleared: a cell
programmed twice with different bodies is `Mixed`. A `Mixed` record leads to no
volume, one of the outcomes its address bits can have; no run reaches one.

`FlashError` ends the service with no effect of the failed operation; an error
after the operation took effect is an error of the next one. Errors while
InitFtwProtocol runs stop the start with an ASSERT and are left out.

### The abstract specification

`AtomicStore` says what callers rely on: a block changes at one moment inside an
update, or not at all; success is reported only after that moment; nothing
else changes a block. `Ftw` implements it under the mapping

* `content[b]` = `Recovered(b)`: what recovery would leave in `b`: the spare
  block if a valid work space has a pending record for `b`, or if `b` is the
  working block and the spare holds the only valid work space; otherwise `b`
  itself;
* `call`, `reply` = the FtwWrite under way; it is `done` once `SPARE_COMPLETED`
  is on flash (`applied`), the step that changes `Recovered`.

So every step of recovery, of reclaiming and of the other services must leave
`Recovered` alone, which is what makes the property hard to satisfy. The
property `WritesAreAtomic` is `AtomicStore`'s specification under this mapping.

### Runs

Two blocks are enough, an ordinary one and the working block, since only one
write is ever pending and the driver distinguishes no others; two versions
tell old from new. The platforms (`config`) give the size of the queue, the
targets, the sizes of allocations, the services called and the bounds. A queue
of 4 cells holds two single writes, so that the third call reclaims and the
fourth uses the new queue; 6 or 7 cells hold two sequences of two. Two power
losses put a crash into the recovery from the first.

| Run | Platforms | Shows |
|---|---|---|
| `ftw_safe` | `PowerFails`: all services, two power losses anywhere; `FlashFails`: allocations of two writes with private data, and one larger than the queue, with a flash error and a power loss | `WritesAreAtomic`; `ReclaimKeepsPending` (the reclaim never holds the only copy in memory); `InitRestartSucceeds` (the ASSERT after the restart in recovery); `WriteNeverRefused` (after recovery the driver is usable; said of behaviours without a flash error, that is of `PowerFails`); `RecoveryEnds`; `TypeOK` |
| `ftw_split` | `SplitErase` | a violation, see below |
| `ftw_sizes` | `TwoSizes` | a violation, see below |

Fairness, for `RecoveryEnds`: weak fairness of `Step`, that is, the processor keeps
executing; power is lost finitely often.

The platforms of `ftw_safe` are restricted exactly where the code fails:
`split` is false, the writes of a sequence go to one target, and the
allocations of a platform have one size and fill the queue but for at most one
cell, so that FtwAllocate itself never has to reclaim. Three more restrictions
concern flash errors in `FlashFails`: a write that failed half way is followed
only by writes to the same target (they use the same record), the caller does
not Abort it (that discards its only copy by request), and `failOps` holds the operations of
Allocate, Write and Restart but not those that replace the working block
(`UpdateWorkingBlock.c:571`). When one of those fails the working block stays
erased and the driver keeps using its blank queue, because only InitFtwProtocol
checks validity; the next write then erases the spare block, the only copy.
With these operations in `failOps`, TLC finds `WritesAreAtomic` violated after
six calls.

What happens without the restrictions:

* `ftw_split`: the working area has several erase blocks, the queue is full, and
  power is lost half way through erasing it. The refresh at the next start
  reclaims from the half erased area before anybody checks that it is valid
  (`UpdateWorkingBlock.c:297`), and the good copy in the spare area is discarded:
  `ContentsAvailable` fails, against "ensuring at all times that either the
  original contents or the modified contents are available"
  (`MdeModulePkg/Include/Protocol/FaultTolerantWrite.h:77`).
* `ftw_sizes`: FtwAllocate computes the offset of its header, then reclaims, and
  writes the header at the old offset (`FaultTolerantWrite.c:110`). An allocation
  of one write, its Abort and an allocation of two are enough: the last one
  returns success, and no later scan of the queue finds it. `AllocationFound`
  fails, against "enables the protocol to ensure that enough space exists to
  track information about the upcoming writes" (`FaultTolerantWrite.c:51`).
* On the platform `TwoTargets` of `MCFtw`, in place of those of `ftw_safe`: power is
  lost after the second record of a header was written and before its data was in
  the spare block; the next write, to another block, programs the same record
  again (`FaultTolerantWrite.c:447`), although
  `MdePkg/Include/Protocol/FirmwareVolumeBlock.h:205` asks that the range be
  erased, and a power loss while its target is erased cannot be recovered from:
  `WritesAreAtomic` fails.

### Proofs

`FtwProofs` proves `TypeOK`, `ReclaimKeepsPending`, `InitRestartSucceeds`,
`WriteNeverRefused`, `ContentsAvailable` and the refinement
`WritesAreAtomic` for every queue of at least two cells, fewer than the
number an erased size field reads as (`AllOnes`), every set of blocks and versions,
and any number of calls, power losses and flash errors. The one hypothesis is
that each platform is `Sound`, which is the list of restrictions above and no more
(nothing is proved of platforms on which FtwAllocate reclaims, see `ftw_sizes`):

* `~split`: an erasure is atomic;
* `Uniform`: the allocations that fit have `n` records, the queue holds such
  allocations with at most one cell left over, a write allocates for itself only if
  `n = 1`, and sequences (`n > 1`) have one target; larger allocations may be
  asked for and are refused;
* where flash operations may fail there is one target and no Abort, and `failOps`
  has no operation of the flush of the working block.

Both platforms of `ftw_safe` are `Sound`, so the hypothesis is not empty. With any
of the restrictions lifted TLC finds one of the properties violated, on the
platforms named above or on variants of `FlashFails` (two targets; with Abort;
writes that allocate one record beside allocations of two; a queue of 8 cells for
allocations of 3).

The inductive invariant `FInv` says where the driver can be (`Position`: `pc` with
the stack and the service), and for each phase (`Refreshing`, `Reclaiming`,
`Flushing`, `Allocating`, `Writing`, `Restarting`, `Starting`) what flash holds and
what the memory of the driver knows of it. The queue of a valid work space is in one
of a few states, with the last header and record that the driver would compute from
it: *vacant* (blank from there on, or without room), *torn* (an allocated bit
without sizes), *open* or *tidy* (allocated, its record not in use, or never
programmed), *written* (destination complete, header not yet) and *pending* (data
complete in the spare block, target perhaps damaged). When the work space is not
valid, either the spare block has the next one (`FromSpare`), or the queue is full
and is about to be reclaimed (`Stale`), or nothing was ever written (`Never`). The
disjunction of all these, `Durable`, is what holds whenever power is lost
(`FlashRecoverable`); the strengthening is needed because none of the properties
says what the spare block holds while the working block is being replaced.
Headers are at multiples of the size of an allocation (`Heads`), from which follows
where the scans for the last header and record end.
Before the proofs TLC checked `TypeOK` and `FInv` on small instances of `Sound`
platforms.

For the refinement each step is shown to be a stutter (`Unseen`) or one of
`Begins`, `Applies`, `Succeeds`, `GivesUp` and `Forgets`, each of which is a step of
`AtomicStore`. That needs `Recovered`, written as a function of the three areas
(`After`), to be the same before and after every step but `WriteSpareCompleted`:
one lemma per state of the queue (`…Same`), with `Durable` for what is on either
side, and `SpareCompletedApplies` for the one step that changes it.

For the proofs `Config` bounds the queue below `AllOnes` (an erased field is read as
that number), and the operators on queues take their bound from the queue itself.

Only model-checked: `RecoveryEnds` (liveness).

### Not modelled

The boot block update through the swap address range (`FtwMisc.c:401`: power lost
while the swap bit is set), the search for the
volumes and the layout arithmetic of `FindFvbForFtw`, the contents of private
data, `EFI_BAD_BUFFER_SIZE` and the other refusals that depend only on the
arguments, memory exhaustion, and the SMM wrappers.

## 5. SmmRendezvous: the processors in System Management Mode

### Processors, words and steps

An SMI brings every processor to `SmiRendezvous` (`MpService.c`). Each signals its
arrival in `Counter`; one becomes the BSP. The BSP waits for the APs for a
limited time, locks `Counter`, leads the APs through two-sided barriers on the
`Run` semaphores, and in between runs the SMI handlers. One step is one access
to a shared word, with two exceptions that no other processor can observe: the
scan for present processors, and the two reads of `BspIndex` in APHandler.

| Code | Model |
|---|---|
| `mSmmMpSyncData`, `CpuData[]` | `Counter`, `InsideSmm`, `AllCpusInSync`, `BspIndex`, `SwitchBsp`, `CandidateBsp`; `Run`, `Busy`, `Present`, `Procedure` |
| locals of a processor, its position | `loc[c]`, `pc[c]` (`"normal"` outside SMM) |
| UINT32 semaphores | numbers modulo `CounterMod`; -1 is `MaxWord` |
| `SmiRendezvous` | `Enter` … `ClearSwitchBsp`, `RunCheck`, `WaitForSync` |
| `BSPHandler`, `SmmWaitForApArrival` | `SetInsideSmm` … `ClearAllCpusInSync` |
| `WaitForAllAPs`, `ReleaseAllAPs` | one turn of the loop per step; `AfterWait` and `AfterRelease` give the order of the barriers |
| `APHandler` | `WaitForBsp` … `ClearApPresent`; `SignalBsp` and `AwaitBsp` are the AP's side of the barriers |
| `IsSyncTimerTimeout` | `SyncTimerTimeout`, see below |
| `InternalSmmStartupThisAp`, `SmmSwitchBsp`, `SmmCpuUpdate` | actions of the same names, called by the SMI handlers up to `MaxCalls` times |
| MTRRs | `mtrr`: the OS's or SMM's, shared by the threads of a core |
| chipset | `smiStatus`, `smiPending`, `blocked`; a processor that is blocked executes nothing and takes its SMI later |

The platform (`config`) chooses the sync mode, whether MTRRs are configured,
BSP election, whether an SMI goes to all processors or to one, local machine
checks, which processors may be late, and `longTimeout`. With `longTimeout` the
time limit is as long as the comment in `SmmWaitForApArrival` asks of the
platform: it expires only when everybody else can do nothing but wait. Without
it the limit may expire at any moment.

Apart from those two exceptions no accesses are taken together. At two places the code lets other
processors come in between a test or store and the store that belongs to it: an
AP that gives up (`giveUp`, `MpService.c:644` and 648) and the end of a run
(`endSync`, lines 585 and 586). The history variable `races` records when one of
these was overtaken *with an effect*: an AP took itself out of the counter after
the BSP had locked it, or AllCpusInSync was cleared after the next BSP had set
it. It influences nothing; the properties that only hold up to such a moment
name it, and the others hold in spite of it.

### Runs

Three processors are the fewest with two APs that share a core and one that
does not, and with an AP that is counted beside one that is late. Two SMIs show
what one run leaves to the next. Two processors are enough for relaxed mode and
for liveness.

| Run | Shows |
|---|---|
| `smm_sync` | `OneBsp`, `RunIsClosed`, `RunDrained` (the ASSERT at the end of SmiRendezvous), `NoNormalModeCode` (what SmmWaitForApArrival promises, up to a race), `MtrrsSavedAndRestored`, `HandlersUseSmmMtrrs`, `TypeOK`, and no deadlock |
| `smm_live` | `EveryCpuLeavesUnlessDeserted`, `SmiServed`, `ProceduresComplete` on six platforms |
| `smm_giveup`, `smm_reopen` | violations of `EveryCpuLeaves` and `HeldInSmm`, see below |

Fairness: each processor in SMM keeps executing (weak fairness of `CpuStep`) and
a blocked one is released some day (weak fairness of `Unblock`). SMIs need not
occur. A handler returns: `HandlersReturn` stays enabled while its bounded calls
last. The system may rest: SMIs are bounded, and a state in which all processors
execute normal mode code, or wait for an AP that gave up, is no deadlock
(`Quiescent`). With a late candidate of
SmmSwitchBsp an SMI stays unserved, which `SmiServed` excepts (`CpuService.c:70`
promises "BSP will be switched in next SMI."; when the candidate is late nobody
is elected, and all give up).

### Disagreements with comments

* `smm_giveup`: an AP tests `InsideSmm` after its second time limit and then takes
  itself out of `Counter` (`MpService.c:644–649`). A BSP that arrives in between
  locks the counter with the AP in it; the AP turns -1 into -2 and leaves, and
  the BSP waits for ever: `EveryCpuLeaves` fails. `EveryCpuLeavesUnlessDeserted`
  says that this is the only way. If another processor takes the vacant place the
  run goes on, and `RunIsClosed` and the other invariants hold all the same.
* `smm_reopen`: after `Counter = 0` (`MpService.c:585`, "Allow APs to check in from
  this point on") the next BSP can be elected, set `AllCpusInSync` and gather its
  run in relaxed mode before the old one clears the flag (line 586). Processors
  turned away from the new run wait on it ("Wait for BSP's signal to finish SMI",
  line 1150) and leave SMM before the run ends: `HeldInSmm` fails.

`NoNormalModeCode` does not survive the first of these: an AP that gave up in that
window returns to normal mode while another one takes its place.

### Proofs

All safety properties are proved, for every number of processors, every
assignment of processors to cores, every platform and every number of SMIs and
calls: `TypeOK`, `OneBsp`, `RunIsClosed`, `RunDrained`, `ProceduresComplete` in
`SmmProofs`, and `NoNormalModeCode`, `MtrrsSavedAndRestored`,
`HandlersUseSmmMtrrs` in `SmmHandlerProofs`. There is no hypothesis but the
assumption on the constants; both races are steps of the model.

None of them is inductive, since each says what some processors do when the
others are done. The inductive invariant `SInv` of `SmmProofs` says:

* there is no *leader*, and everybody who has checked in is waiting for one
  (`Idle`), or there is exactly one (`Led`), a processor between its election
  and the end of BSPHandler;
* the leader's position determines the words of `mSmmMpSyncData` (`Words`), and
  the *stage* of the run: arrive, backup, program, run, exit, restore, reset, end;
* the stage and the index of the leader's release loop determine where every
  other processor that has checked in can be, and whether its `Run` semaphore
  holds a signal (`Place`); so also when it may hold its Busy lock;
* the processors that have yet to signal the leader in this stage, plus the
  signals it has not consumed, are as many as it still waits for (`Tally`); while
  the leader gathers its APs, those that gave up when they were already counted
  are vacancies, which the locked counter shows (-2, -3, …) and latecomers fill. This
  count is what the barriers rest on: when WaitForAllAPs has taken its last
  signal, nobody is left in the stage, and everybody is at the gate of the next.

`NInv` adds for `NoNormalModeCode` that once the leader has sent the SMI IPIs, or
has found everybody arrived, until it clears `InsideSmm`, a processor in normal
mode has an SMI pending, and one about to leave SMM has too or is held by
`AllCpusInSync`; all this as long as `races` is empty. `NoNormalModeCode` does
not depend on the length of the time limits, so it is stated for platforms with
and without `longTimeout`. `MInv` adds for the MTRRs that the stage and the
position determine the registers of a participant, that the threads of a core
see the same, and that SMM's values are only on cores of participants: the
barrier after *backup* is what keeps one thread from saving what its sibling has
already programmed.

Before the proofs TLC checked `SInv`, `NInv` and `MInv` as invariants, with two
processors on ten platforms (three SMIs, two calls) and with three on five
platforms (two SMIs, one call).

Only model-checked: `EveryCpuLeavesUnlessDeserted` and `SmiServed` (liveness), and the absence
of deadlock in `smm_sync` (ENABLED).

### Not modelled

Hot-plug, a platform hook that elects the BSP itself (the library's returns
EFI_NOT_READY), processors the chipset reports as blocked or SMI-disabled (the
library reports none), page tables, the SMM profile, the debug agent, SMBASE
relocation, the roll-over arithmetic of the timer, and memory ordering weaker
than the order of the accesses.

## 6. VariableStore: the variable driver

### Logs, flash and steps

A store is a log of records. An update marks the old record
`VAR_IN_DELETED_TRANSITION`, writes a new one in four writes and marks the old
one `VAR_DELETED`. Reads use `mNvVariableCache`, a copy in memory. `Reclaim`
writes what is still wanted to the start of the store through the fault
tolerant write protocol.

| Code | Model |
|---|---|
| non-volatile store on flash, `mNvVariableCache`, volatile store | `flash`, `cache`, `volatile`: sequences of records |
| bytes that are not 0xff behind the last record | `high`, the number of units programmed |
| `NonVolatileLastVariableOffset`, `CommonVariableTotalSize` | `last`, `total` |
| sizes in bytes with padding | units: 1 for header and name, 1 per element of data |
| State byte | `blank`, `headerValid`, `added`, `inDeleted`, `deleted`; each clears more bits |
| `FindVariableEx`, `FindVariable` | operators of the same names |
| `VariableServiceSetVariable` up to its first write | `SetVariable`, with `ExistingPc` and `NewPc` for the early returns |
| `UpdateVariable`, non-volatile | `MarkOld`, `CheckSpace`, `WriteHeader`, `SetHeaderValid`, `WriteData`, `SetAdded`, `DeleteTransition`, `DeleteCurrent`, and `WriteFails` at each of them |
| `UpdateVariable`, volatile | `VolatileUpdate`, `VolatileDelete`, `VolatileReclaim`: memory only, one step |
| `Reclaim` | `ReclaimBuffer`, `PromotedFirst`; `StoreReplaced`, `StoreReread`, `ReclaimOutOfResources` |
| `ReclaimForOS`, `VariableWriteServiceInitialize` | `ReclaimForOS…`, `WriteService…` |
| `InitNonVolatileVariableStore` after a reset | `Restart` |
| `VariableServiceGetNextVariableInternal` | `FirstVariable`, `NextVariable`, `Returned`, `Listing` |

Power may fail before every step, and inside the write of a header
(`Restart(TRUE)`: bytes are programmed that make no header). A write of the
name and data that is interrupted leaves a `headerValid` record, which nobody
reads. One assumption: `FtwVariableSpace` replaces the store at once or not at
all, which is `WritesAreAtomic` of `Ftw`.

A write that *fails* (`FlashError`, `WriteFails`) ends the call; part of a header or
of the data may be programmed (`Attempted`). NonVolatileLastVariableOffset stays,
so the next SetVariable writes its record over those bytes (`Variable.c:2602`).
Flash only clears bits. When the new bytes do nothing but clear more of them
(a retry of the same update, for example) the record comes out as
written, with the state byte it had (`WriteHeader` with `Unfinished`). Otherwise
flash holds a mixture of two records, of which
`MdePkg/Include/Protocol/FirmwareVolumeBlock.h:207` says "the result will be
unpredictable", while the cache gets the new record and SetVariable reports
success. That is the step `ProgramOver`: the model stops there, and no property or
theorem says anything of what follows.

### The abstract specification

`VariableStore` implements `AtomicStore` with variables for blocks:
`content[k]` is the value FindVariableEx would find for `k` on flash, that is,
what a reader gets after a restart. So the value changes in exactly one step of
a SetVariable (`op.done`), to what the caller asked for; success is returned only
after it; and no interrupted or failed call, no Reclaim and no restart changes
any value. `VariablesAreAtomic` is that refinement.

### Runs

Three names, so that Reclaim moves other variables across the one being
updated; data of length 0 to 2 (append reaches 2, the maximum). Names and data
are interchangeable, which makes the symmetry sound: no property names one, and
none is a liveness property. The platforms of `SingleFault` differ in the space
(5 to 12 units: too small for all variables, or room for several dead
records), in the attributes callers use, in whether an operating system is
started, and in the fault: one restart, one flash error, or a flash error while
the driver cleans up after a restart.

| Run | Shows |
|---|---|
| `var_store` | `VariablesAreAtomic`, `CacheMatchesFlash`, `SizesKept`, `OneAddedRecord`, `ProgramsErasedFlash`, `OneStorePerName`, `AddedListedOnce`, `TypeOK` |
| `var_promote` | `VariablesAreAtomic` fails with two restarts |

In `var_promote` the first restart comes between VAR_ADDED of a new record and
VAR_DELETED of the old one, the second after the next SetVariable has put the
new record in transition as well. `FindVariableEx` takes the last record in
transition, and Reclaim keeps the first (`Variable.c:1104`): the variable goes
back to a value that had been replaced. "Reinstall all in delete transition
variables." says `Variable.c:1074`. For the same reason a deletion that finds
two records in transition marks only the last one and brings the older value
back.

Four limits of the guarantees, which the properties state. After a flash *error*
in the middle of a record the next SetVariable writes at the same offset, over
bytes that are not erased (`ProgramOver`); only the next start cleans the
area. `ProgramsErasedFlash` shows that it takes such an error, and all properties
speak of the time before the unpredictable write. And
GetNextVariableName begins at the first VAR_ADDED record (`Variable.c:1273`): a
variable that an interrupted update left only in transition *before* that one is
readable and not listed until the next Reclaim, so `AddedListedOnce` speaks of
variables with a VAR_ADDED record. And FindVariableEx reports at most two old
records of a variable; a Reclaim that makes room for a new one promotes a further
record in transition beside it (`Twins`), and the name then has two VAR_ADDED
records. The history variable
`twin` records that this has happened: it has no effect on the model, and
`OneAddedRecord` says that up to then there is one VAR_ADDED record of each name,
and that it takes a restart or a flash error to get there. And two updates of one
variable interrupted by restarts can leave it with two records in transition and no
new one (`Stranded`): GetNextVariableName returns the first of them, but continues
behind the one FindVariableEx finds, the last (`Variable.c:2920`), and a variable
between the two is passed over. `AddedListedOnce` excepts that state, and still
says that nothing is listed twice.

### Proofs

`VariableProofs` proves `TypeOK`, `SizesKept`, `ProgramsErasedFlash`,
`CacheMatchesFlash`, `OneStorePerName`, `OneAddedRecord` and `AddedListedOnce` for
every set of names and data, every platform and any number of calls, restarts and flash
errors, up to a `ProgramOver`, from no assumption but `VariableAssumption`.

The inductive invariant is `VInv`:

* `StoreOK` – the log on flash and its copy agree up to `last`, `total` is the
  size of that part, at most one unfinished record is behind it, and everything fits
  the store; stated of any log (`Consistent`), with one lemma per kind of write
  (mark, begin, add, replace);
* `Clean` – how far flash is programmed at each point of a SetVariable, before
  the first flash error;
* `Pointers` – the positions that a call found before its first write still are
  records of its variable at each later write;
* `DataOK` – types.

`OneStorePerName` needs besides that a variable being written to one log has no
live record in the other (`Apart`). `OneAddedRecord` needs that between
marking the old record and completing the new one there is no VAR_ADDED record
(`AInv`), and that without a fault there is never more than one live record
besides the one being replaced (`FInv`), so that `Twins` cannot happen.

`AddedListedOnce` rests on three of these (a name has a live record in one store
only, one VAR_ADDED record on flash, and the cache is flash) and on `LInv`: the
volatile store has one live record of a name. Then the positions GetNextVariableName
answers with strictly increase (`ListingOrdered`), a name that has a VAR_ADDED
record is returned only there (`ReturnedOnce`), which bounds the number of times by
one, and an answer continues behind its own record unless its name is `Stranded`
(`FollowsAnswer`), so no record is passed over. The first attempt at this proof
failed at the last fact, and TLC then found the log n1, n2 (in transition), n3, n2
(in transition) after five calls and two restarts, which the platforms of
`SingleFault` do not reach; the exception for `Stranded` was added to the property
for it. The corrected property was checked on that instance too.

Sizes of logs and the loop of Reclaim are recursive. They are written as
functions over an interval of positions; `ListLemmas` has `IntervalInduction`
and `IntervalRecursion`, which stand in for the induction theorems of the
library and are proved from the least element of a set of numbers. A proof
attempt also showed that some CASE expressions of the model had overlapping
guards (TLC takes the first, TLA+ does not say which); they are nested IFs now,
in the order of the code.

Before the proofs TLC checked the invariants with two restarts and a flash error.
Only model-checked: `VariablesAreAtomic`, which `var_promote` refutes in general and
which therefore holds only for the platforms of `SingleFault`.

### Not modelled

Variables from HOBs, authenticated variables, hardware error records, the quota
for user variables and VarErrorFlag, VarCheck, the MOR lock, the language
variables, the emulated store, SetVariable before the write service is ready,
its re-entry from an MCA, INIT or NMI handler at runtime (`Variable.c:3339`), the
SMM wrappers, and memory exhaustion.

## 7. What is left out, and why

Of the parts listed in `PROJECT.json` as not modelled, the handle database, the
dispatcher, the page allocator and the multiprocessor library are within reach
and are the next modules of the plan. The bus, network and user interface
drivers, the shell, the build tools, the cryptography and the platform packages
make up most of the repository's lines; they are data formats, device registers
and string processing, where a state-based model would restate the code.
