------------------------------ MODULE DxeEvent ------------------------------
(***************************************************************************)
(* Events, task priority levels and timers of the DXE core:                *)
(*   MdeModulePkg/Core/Dxe/Event/Event.c, Tpl.c, Timer.c                   *)
(*   MdeModulePkg/Core/Dxe/Library/Library.c (EFI_LOCK)                    *)
(*   OvmfPkg/8254TimerDxe/Timer.c (the timer interrupt handler)            *)
(*                                                                         *)
(* One processor runs one call stack.  A frame is a function activation    *)
(* that can be interrupted; the interrupt handler, and the notification    *)
(* functions it leads to, run on top of the interrupted frame.  Interrupts *)
(* are enabled exactly when gEfiCurrentTpl < TPL_HIGH_LEVEL, so code that  *)
(* runs at TPL_HIGH_LEVEL is one step, and all other code is cut wherever  *)
(* it reads or writes state an interrupt can change.                       *)
(***************************************************************************)
EXTENDS Integers, SequencesExt

TPL_APPLICATION == 4
TPL_CALLBACK    == 8
TPL_NOTIFY      == 16
TPL_HIGH_LEVEL  == 31

CONSTANTS
  Event,                \* addresses of IEVENT structures
  mEfiCheckTimerEvent,  \* the two events the core creates for itself
  gIdleLoopEvent,
  NoEvent,
  NotifyTpls,           \* the priorities of the notification queues in use
  Requests,             \* Requests[e]: the arguments CreateEventEx may get for e
  Delays,               \* TriggerTime arguments of SetTimer
  TickPeriod,           \* what gTimer->GetTimerPeriod returns, and a tick's Duration
  MaxTime,              \* bound: the clock stays at MaxTime once it gets there
  TimeModulus,          \* 2^64 in the code: UINT64 sums are taken modulo this
  UserEvents,           \* the array given to WaitForEvent
  RaiseTpls,            \* NewTpl arguments of RaiseTPL
  AppCalls,             \* the services application code calls
  NotifyCalls,          \* the services notification functions call
  SingleLoad,           \* TRUE: the build loads gEventPending once per test
  RespectClose          \* TRUE: clients do not use an event while another one
                        \* closes it (see MayUse and MayClose)

NoGroup == "none"
IdleLoopGroup == "gIdleLoopEventGuid"
ExitBootServicesGroup == "gEfiEventExitBootServicesGuid"
VirtualAddressChangeGroup == "gEfiEventVirtualAddressChangeGuid"

(* UINTN value of HighBitSet64 (0), which returns -1: larger than any TPL. *)
NoBit == 255

ASSUME EventAssumption ==
  /\ {mEfiCheckTimerEvent, gIdleLoopEvent} \subseteq Event
  /\ mEfiCheckTimerEvent # gIdleLoopEvent
  /\ NoEvent \notin Event
ASSUME TplAssumption ==
  /\ NotifyTpls \subseteq (TPL_APPLICATION + 1)..(TPL_HIGH_LEVEL - 1)
  /\ {TPL_NOTIFY, TPL_HIGH_LEVEL - 1} \subseteq NotifyTpls
  /\ RaiseTpls \subseteq TPL_APPLICATION..TPL_HIGH_LEVEL
ASSUME TimeAssumption ==
  /\ Delays \subseteq Nat
  /\ TickPeriod \in Nat \ {0}
  /\ MaxTime \in Nat
  /\ TimeModulus \in Nat \ {0}
ASSUME ClientAssumption ==
  /\ UserEvents \in Seq(Event)
  /\ \A e \in DOMAIN Requests : \A r \in Requests[e] :
        r.NotifyTpl \in NotifyTpls \cup {0, TPL_APPLICATION}
  /\ DOMAIN Requests = Event \ {mEfiCheckTimerEvent, gIdleLoopEvent}
  /\ SingleLoad \in BOOLEAN
  /\ RespectClose \in BOOLEAN

VARIABLES
  gEfiCurrentTpl,
  gEventQueue,        \* gEventQueue[t]: events whose notification is due at t
  gEventPending,      \* the bit mask, as the set of its bit numbers
  gEventSignalQueue,  \* all EVT_NOTIFY_SIGNAL events, newest first
  RuntimeEventHead,   \* gRuntime->EventHead
  mEfiTimerList,      \* armed timers, earliest first
  mEfiTimerLock,      \* an EFI_LOCK at TPL_HIGH_LEVEL - 1
  mEfiSystemTime,
  IEvent,             \* the IEVENT structures
  due,                \* auxiliary: when SetTimer's caller wants e, unwrapped
  stack               \* the call stack, innermost activation last

vars == <<gEfiCurrentTpl, gEventQueue, gEventPending, gEventSignalQueue,
          RuntimeEventHead, mEfiTimerList, mEfiTimerLock, mEfiSystemTime,
          IEvent, due, stack>>
queues == <<gEventQueue, gEventPending>>
timers == <<mEfiTimerList, mEfiTimerLock, mEfiSystemTime, due>>
lists  == <<gEventSignalQueue, RuntimeEventHead>>

-----------------------------------------------------------------------------
(* Event types: EVT_* flags; the last two carry a distinguishing low bit. *)
EVT_EXIT == {"SIGNAL", "EXIT"}
EVT_VIRT == {"SIGNAL", "RUNTIME", "VIRT"}
mEventTable == {{"TIMER", "SIGNAL"}, {"TIMER"}, {"WAIT"}, {"SIGNAL"},
                EVT_EXIT, EVT_VIRT, {}, {"TIMER", "WAIT"}}

(* An IEVENT.  Signature = FALSE is freed memory. *)
NewEvent(type, tpl, group) ==
  [Signature |-> TRUE, Type |-> type, SignalCount |-> 0, NotifyTpl |-> tpl,
   EventGroup |-> group, TriggerTime |-> 0, Period |-> 0]

(***************************************************************************)
(* Stack frames.  pc is the next step of the activation, lvl the TPL it    *)
(* set last and so expects to run at, new the TPL its caller runs at.  The *)
(* code keeps new as NewTpl in CoreRestoreTpl, as the client's OldTpl      *)
(* after RaiseTPL and as gEventQueueLock.OwnerTpl in CoreNotifySignalList; *)
(* elsewhere it is auxiliary.  ev and num are the activation's locals.     *)
(***************************************************************************)
Frame(pc, lvl, new, ev, num) ==
  [pc |-> pc, lvl |-> lvl, new |-> new, ev |-> ev, num |-> num]

Top == Last(stack)
SetTop(s, f) == [s EXCEPT ![Len(s)] = f]
Update(f) == SetTop(stack, f)
Goto(pc) == Update([Top EXCEPT !.pc = pc])
Call(s, pc, ev, num) == Append(s, Frame(pc, gEfiCurrentTpl, gEfiCurrentTpl, ev, num))

(* RemoveEntryList: takes e off list s if it is linked there. *)
Unlink(s, e) ==
  IF \E i \in DOMAIN s : s[i] = e
  THEN RemoveAt(s, CHOOSE i \in DOMAIN s : s[i] = e)
  ELSE s

Is(e, flag) == flag \in IEvent[e].Type
Queued(e) == \E t \in NotifyTpls : e \in ToSet(gEventQueue[t])

-----------------------------------------------------------------------------
(* Tpl.c and Library.c *)

HighBitSet64(mask) ==
  IF mask = {} THEN NoBit ELSE CHOOSE p \in mask : \A q \in mask : q <= p

(* CoreRestoreTpl (t) from TPL_HIGH_LEVEL, as CoreReleaseLock calls it for a
   lock at that level: the test of the pending mask runs with interrupts off,
   so either nothing above t is pending and the TPL is t at once, or the
   highest pending queue is about to be dispatched with interrupts on.  s is
   the stack the caller continues with. *)
RestoreFromHigh(t, s) ==
  IF \E p \in gEventPending' : p > t
  THEN LET p == HighBitSet64(gEventPending')
       IN /\ gEfiCurrentTpl' = p
          /\ stack' = Append(s, Frame("acquire", p, t, NoEvent, p))
  ELSE /\ gEfiCurrentTpl' = t
       /\ stack' = s

(* The loop of CoreRestoreTpl when it runs with interrupts on.  num is
   PendingTpl. *)
TestPending ==
  /\ Top.pc = "test"
  /\ IF gEventPending = {}
     THEN stack' = Goto("set")
     ELSE IF SingleLoad
          THEN stack' = Update([Top EXCEPT !.pc = "compare", !.num = HighBitSet64(gEventPending)])
          ELSE stack' = Goto("pick")
  /\ UNCHANGED <<gEfiCurrentTpl, queues, lists, timers, IEvent>>

PickPending ==
  /\ Top.pc = "pick"
  /\ stack' = Update([Top EXCEPT !.pc = "compare", !.num = HighBitSet64(gEventPending)])
  /\ UNCHANGED <<gEfiCurrentTpl, queues, lists, timers, IEvent>>

(* Mutant: the loop breaks only below NewTpl, not at it. *)
EnterPendingAtNewTpl ==
  /\ Top.pc = "compare"
  /\ IF Top.num < Top.new
     THEN /\ stack' = Goto("set")
          /\ UNCHANGED gEfiCurrentTpl
     ELSE /\ gEfiCurrentTpl' = Top.num
          /\ stack' = Update([Top EXCEPT !.pc = "acquire", !.lvl = Top.num])
  /\ UNCHANGED <<queues, lists, timers, IEvent>>

EnterPending ==
  /\ Top.pc = "compare"
  /\ IF Top.num <= Top.new
     THEN /\ stack' = Goto("set")
          /\ UNCHANGED gEfiCurrentTpl
     ELSE /\ gEfiCurrentTpl' = Top.num
          /\ stack' = Update([Top EXCEPT !.pc = "acquire", !.lvl = Top.num])
  /\ UNCHANGED <<queues, lists, timers, IEvent>>

(* Mutant: the new value is never set. *)
SetNewTplForgotten ==
  /\ Top.pc = "set"
  /\ stack' = Front(stack)
  /\ UNCHANGED <<gEfiCurrentTpl, queues, lists, timers, IEvent>>

SetNewTpl ==
  /\ Top.pc = "set"
  /\ gEfiCurrentTpl' = Top.new
  /\ stack' = Front(stack)
  /\ UNCHANGED <<queues, lists, timers, IEvent>>

-----------------------------------------------------------------------------
(* Event.c: queueing and dispatching notifications *)

(* Mutant: the SIGNAL status of a dispatched event is not cleared. *)
DispatchNextKeepsSignal ==
  /\ Top.pc = "acquire"
  /\ gEfiCurrentTpl <= TPL_HIGH_LEVEL
  /\ LET q == gEventQueue[Top.num]
     IN IF q = <<>>
        THEN /\ gEventPending' = gEventPending \ {Top.num}
             /\ RestoreFromHigh(gEfiCurrentTpl, Goto("test"))
             /\ UNCHANGED gEventQueue
        ELSE /\ gEventQueue' = [gEventQueue EXCEPT ![Top.num] = Tail(q)]
             /\ UNCHANGED gEventPending
             /\ RestoreFromHigh(gEfiCurrentTpl,
                  Update([Top EXCEPT !.pc = "notify", !.ev = Head(q)]))
  /\ UNCHANGED <<lists, timers, IEvent>>

(* CoreDispatchEventNotifies (Priority = num): takes the next event off the
   queue, or clears the pending bit when there is none.  CoreRaiseTpl asserts
   that the TPL was not above TPL_HIGH_LEVEL. *)
DispatchNext ==
  /\ Top.pc = "acquire"
  /\ gEfiCurrentTpl <= TPL_HIGH_LEVEL
  /\ LET q == gEventQueue[Top.num]
         e == Head(q)
     IN IF q = <<>>
        THEN /\ gEventPending' = gEventPending \ {Top.num}
             /\ RestoreFromHigh(gEfiCurrentTpl, Goto("test"))
             /\ UNCHANGED <<gEventQueue, IEvent>>
        ELSE /\ gEventQueue' = [gEventQueue EXCEPT ![Top.num] = Tail(q)]
             /\ IEvent' = IF Is(e, "SIGNAL")
                          THEN [IEvent EXCEPT ![e].SignalCount = 0] ELSE IEvent
             /\ UNCHANGED gEventPending
             /\ RestoreFromHigh(gEfiCurrentTpl,
                  Update([Top EXCEPT !.pc = "notify", !.ev = e]))
  /\ UNCHANGED <<lists, timers>>

(* Event->NotifyFunction (Event, Event->NotifyContext) *)
CallNotifyFunction ==
  /\ Top.pc = "notify"
  /\ stack' = Call(Update([Top EXCEPT !.pc = "acquire", !.ev = NoEvent]),
                   IF Top.ev = mEfiCheckTimerEvent THEN "ct_lock" ELSE "client",
                   Top.ev, 0)
  /\ UNCHANGED <<gEfiCurrentTpl, queues, lists, timers, IEvent>>

(* Mutants: the event is not taken off the queue first; the mask is not set. *)
CoreNotifyEventTwice(e) ==
  LET t == IEvent[e].NotifyTpl
  IN /\ gEventQueue' = [gEventQueue EXCEPT ![t] = Append(@, e)]
     /\ gEventPending' = gEventPending \cup {t}
CoreNotifyEventUnmarked(e) ==
  LET t == IEvent[e].NotifyTpl
  IN /\ gEventQueue' = [gEventQueue EXCEPT ![t] = Append(Unlink(@, e), e)]
     /\ UNCHANGED gEventPending

(* CoreNotifyEvent: (re)queues e at the tail of its queue. *)
CoreNotifyEvent(e) ==
  LET t == IEvent[e].NotifyTpl
  IN /\ gEventQueue' = [gEventQueue EXCEPT ![t] = Append(Unlink(@, e), e)]
     /\ gEventPending' = gEventPending \cup {t}

(* Mutant: SignalCount is incremented whatever its value. *)
CoreSignalEventCounts(e, s) ==
  /\ IEvent' = [IEvent EXCEPT ![e].SignalCount = @ + 1]
  /\ IF Is(e, "SIGNAL") THEN CoreNotifyEvent(e) ELSE UNCHANGED queues
  /\ RestoreFromHigh(gEfiCurrentTpl, s)

(* CoreSignalEvent (e) by an activation that continues with stack s.  For a
   member of a group the lock is dropped before the group is notified. *)
CoreSignalEvent(e, s) ==
  IF IEvent[e].SignalCount = 0
  THEN /\ IEvent' = [IEvent EXCEPT ![e].SignalCount = 1]
       /\ IF ~ Is(e, "SIGNAL")
          THEN UNCHANGED queues /\ RestoreFromHigh(gEfiCurrentTpl, s)
          ELSE IF IEvent[e].EventGroup # NoGroup
               THEN UNCHANGED queues /\ RestoreFromHigh(gEfiCurrentTpl,
                      Call(Call(s, "sig_relock", NoEvent, 0), "sig_list", e, 0))
               ELSE CoreNotifyEvent(e) /\ RestoreFromHigh(gEfiCurrentTpl, s)
  ELSE /\ UNCHANGED <<IEvent, queues>>
       /\ RestoreFromHigh(gEfiCurrentTpl, s)

(* CoreNotifySignalList (&ev->EventGroup): one step per link, all of them at
   TPL_HIGH_LEVEL.  Back in CoreSignalEvent the lock is taken and dropped. *)
NotifyListAcquire ==
  /\ Top.pc = "sig_list"
  /\ gEfiCurrentTpl' = TPL_HIGH_LEVEL
  /\ stack' = Update([Top EXCEPT !.pc = "sig_loop", !.lvl = TPL_HIGH_LEVEL, !.num = 1])
  /\ UNCHANGED <<queues, lists, timers, IEvent>>

NotifyListLink ==
  /\ Top.pc = "sig_loop"
  /\ Top.num <= Len(gEventSignalQueue)
  /\ LET e == gEventSignalQueue[Top.num]
     IN IF IEvent[e].EventGroup = IEvent[Top.ev].EventGroup
        THEN CoreNotifyEvent(e)
        ELSE UNCHANGED queues
  /\ stack' = Update([Top EXCEPT !.num = @ + 1])
  /\ UNCHANGED <<gEfiCurrentTpl, lists, timers, IEvent>>

NotifyListRelease ==
  /\ Top.pc = "sig_loop"
  /\ Top.num > Len(gEventSignalQueue)
  /\ UNCHANGED <<queues, lists, timers, IEvent>>
  /\ RestoreFromHigh(Top.new, Front(stack))

SignalRelock ==
  /\ Top.pc = "sig_relock"
  /\ UNCHANGED <<queues, lists, timers, IEvent>>
  /\ RestoreFromHigh(gEfiCurrentTpl, Front(stack))

-----------------------------------------------------------------------------
(* Timer.c *)

(* Mutant: the timer lock at the TPL of ordinary notifications. *)
TimerLockTplNotify == TPL_NOTIFY

(* EFI_INITIALIZE_LOCK_VARIABLE (TPL_HIGH_LEVEL - 1) *)
TimerLockTpl == TPL_HIGH_LEVEL - 1

(* CoreAcquireLock and CoreReleaseLock (&mEfiTimerLock), without their
   assertions (TimerLockExclusive states them); the release goes on as
   CoreRestoreTpl (OwnerTpl) with interrupts on. *)
AcquireTimerLock ==
  /\ mEfiTimerLock' = [Lock |-> "Acquired", OwnerTpl |-> gEfiCurrentTpl]
  /\ gEfiCurrentTpl' = TimerLockTpl

ReleaseTimerLock ==
  /\ mEfiTimerLock' = [mEfiTimerLock EXCEPT !.Lock = "Released"]
  /\ stack' = Update(Frame("test", gEfiCurrentTpl, mEfiTimerLock.OwnerTpl, NoEvent, 0))

(* Mutant: timers are appended without regard to their trigger time. *)
TimerSlotLast(e) == Len(mEfiTimerList) + 1

(* Where CoreInsertEventTimer links e: before the first later timer. *)
TimerSlot(e) ==
  CHOOSE i \in 1..(Len(mEfiTimerList) + 1) :
    /\ \A j \in 1..(i - 1) : IEvent[mEfiTimerList[j]].TriggerTime <= IEvent[e].TriggerTime
    /\ i <= Len(mEfiTimerList) => IEvent[mEfiTimerList[i]].TriggerTime > IEvent[e].TriggerTime

CoreInsertEventTimer(e) == mEfiTimerList' = InsertAt(mEfiTimerList, TimerSlot(e), e)

(* Mutant: a timer counts as expired one unit early. *)
ExpiredEarly(now) == /\ mEfiTimerList # <<>>
                     /\ IEvent[Head(mEfiTimerList)].TriggerTime <= now + 1

Expired(now) == /\ mEfiTimerList # <<>>
                /\ IEvent[Head(mEfiTimerList)].TriggerTime <= now

(* The clock after a tick, whose Duration is the timer period. *)
TickTime == IF mEfiSystemTime + TickPeriod < MaxTime THEN mEfiSystemTime + TickPeriod ELSE MaxTime

(* Mutant: only a timer that expires exactly now is noticed. *)
TimerInterruptExact ==
  /\ gEfiCurrentTpl < TPL_HIGH_LEVEL
  /\ mEfiSystemTime' = TickTime
  /\ IF mEfiTimerList # <<>> /\ IEvent[Head(mEfiTimerList)].TriggerTime = mEfiSystemTime'
                             /\ mEfiSystemTime < MaxTime
     THEN CoreSignalEvent(mEfiCheckTimerEvent, stack)
     ELSE UNCHANGED <<IEvent, queues>> /\ RestoreFromHigh(gEfiCurrentTpl, stack)
  /\ UNCHANGED <<lists, mEfiTimerList, mEfiTimerLock, due>>

(* TimerInterruptHandler with CoreTimerTick: runs at TPL_HIGH_LEVEL on top of
   whatever it interrupts and returns through RestoreTPL. *)
TimerInterrupt ==
  /\ gEfiCurrentTpl < TPL_HIGH_LEVEL
  /\ mEfiSystemTime' = TickTime
  /\ IF Expired(mEfiSystemTime')
     THEN CoreSignalEvent(mEfiCheckTimerEvent, stack)
     ELSE UNCHANGED <<IEvent, queues>> /\ RestoreFromHigh(gEfiCurrentTpl, stack)
  /\ UNCHANGED <<lists, mEfiTimerList, mEfiTimerLock, due>>

(* CoreCheckTimers, the notification function of mEfiCheckTimerEvent.  num is
   SystemTime. *)
CheckTimersAcquire ==
  /\ Top.pc = "ct_lock"
  /\ AcquireTimerLock
  /\ stack' = Update([Top EXCEPT !.pc = "ct_time", !.lvl = TimerLockTpl])
  /\ UNCHANGED <<queues, lists, mEfiTimerList, mEfiSystemTime, due, IEvent>>

CheckTimersReadTime ==
  /\ Top.pc = "ct_time"
  /\ UNCHANGED <<queues, lists, timers, IEvent>>
  /\ RestoreFromHigh(gEfiCurrentTpl, Update([Top EXCEPT !.pc = "ct_loop", !.num = mEfiSystemTime]))

CheckTimersRemove ==
  /\ Top.pc = "ct_loop"
  /\ Expired(Top.num)
  /\ mEfiTimerList' = Tail(mEfiTimerList)
  /\ stack' = Update([Top EXCEPT !.pc = "ct_signal", !.ev = Head(mEfiTimerList)])
  /\ UNCHANGED <<gEfiCurrentTpl, queues, lists, mEfiTimerLock, mEfiSystemTime, due, IEvent>>

CheckTimersSignal ==
  /\ Top.pc = "ct_signal"
  /\ CoreSignalEvent(Top.ev, Goto("ct_period"))
  /\ UNCHANGED <<lists, timers>>

CheckTimersPeriod ==
  /\ Top.pc = "ct_period"
  /\ LET e    == Top.ev
         next == (IEvent[e].TriggerTime + IEvent[e].Period) % TimeModulus
         late == next <= Top.num
     IN IF IEvent[e].Period = 0
        THEN stack' = Goto("ct_loop") /\ UNCHANGED <<IEvent, due>>
        ELSE /\ IEvent' = [IEvent EXCEPT ![e].TriggerTime = IF late THEN Top.num ELSE next]
             /\ due' = [due EXCEPT ![e] = IF @ + IEvent[e].Period <= Top.num
                                          THEN Top.num ELSE @ + IEvent[e].Period]
             /\ stack' = Goto(IF late THEN "ct_again" ELSE "ct_insert")
  /\ UNCHANGED <<gEfiCurrentTpl, queues, lists, mEfiTimerList, mEfiTimerLock, mEfiSystemTime>>

CheckTimersAgain ==
  /\ Top.pc = "ct_again"
  /\ CoreSignalEvent(mEfiCheckTimerEvent, Goto("ct_insert"))
  /\ UNCHANGED <<lists, timers>>

CheckTimersInsert ==
  /\ Top.pc = "ct_insert"
  /\ CoreInsertEventTimer(Top.ev)
  /\ stack' = Goto("ct_loop")
  /\ UNCHANGED <<gEfiCurrentTpl, queues, lists, mEfiTimerLock, mEfiSystemTime, due, IEvent>>

CheckTimersRelease ==
  /\ Top.pc = "ct_loop"
  /\ ~ Expired(Top.num)
  /\ ReleaseTimerLock
  /\ UNCHANGED <<gEfiCurrentTpl, queues, lists, mEfiTimerList, mEfiSystemTime, due, IEvent>>

(* CoreSetTimer after the parameter checks and CoreAcquireLock; s is the stack
   the caller continues with, the pc says the timer type, num is TriggerTime. *)
CoreSetTimer(s, e, type, delay) ==
  /\ AcquireTimerLock
  /\ stack' = Append(s, Frame(type, TimerLockTpl, gEfiCurrentTpl, e, delay))

SetTimerRemove ==
  /\ Top.pc \in {"TimerCancel", "TimerPeriodic", "TimerRelative"}
  /\ LET period == IF Top.num = 0 THEN TickPeriod ELSE Top.num
     IN /\ IEvent' = [IEvent EXCEPT ![Top.ev].TriggerTime = 0,
                                    ![Top.ev].Period = IF Top.pc = "TimerPeriodic"
                                                       THEN period ELSE 0]
        /\ stack' = Update([Top EXCEPT !.pc = IF @ = "TimerCancel"
                                                     THEN "st_release" ELSE "st_time", !.num = IF Top.pc = "TimerPeriodic"
                                                      THEN period ELSE @])
  /\ mEfiTimerList' = Unlink(mEfiTimerList, Top.ev)
  /\ UNCHANGED <<gEfiCurrentTpl, queues, lists, mEfiTimerLock, mEfiSystemTime, due>>

SetTimerReadTime ==
  /\ Top.pc = "st_time"
  /\ IEvent' = [IEvent EXCEPT ![Top.ev].TriggerTime = (mEfiSystemTime + Top.num) % TimeModulus]
  /\ due' = [due EXCEPT ![Top.ev] = mEfiSystemTime + Top.num]
  /\ UNCHANGED <<queues, lists, mEfiTimerList, mEfiTimerLock, mEfiSystemTime>>
  /\ RestoreFromHigh(gEfiCurrentTpl, Goto("st_insert"))

SetTimerInsert ==
  /\ Top.pc = "st_insert"
  /\ CoreInsertEventTimer(Top.ev)
  /\ stack' = Goto(IF Top.num = 0 THEN "st_kick" ELSE "st_release")
  /\ UNCHANGED <<gEfiCurrentTpl, queues, lists, mEfiTimerLock, mEfiSystemTime, due, IEvent>>

SetTimerKick ==
  /\ Top.pc = "st_kick"
  /\ CoreSignalEvent(mEfiCheckTimerEvent, Goto("st_release"))
  /\ UNCHANGED <<lists, timers>>

SetTimerRelease ==
  /\ Top.pc = "st_release"
  /\ ReleaseTimerLock
  /\ UNCHANGED <<gEfiCurrentTpl, queues, lists, mEfiTimerList, mEfiSystemTime, due, IEvent>>

-----------------------------------------------------------------------------
(***************************************************************************)
(* Clients: the application at the bottom of the stack ("app"), the        *)
(* notification functions ("client"), and code of either between RaiseTPL  *)
(* and RestoreTPL ("raised").  A client may call any service its constant  *)
(* allows, any number of times.                                            *)
(***************************************************************************)
ClientPcs == {"app", "client", "raised"}
InNotify == \E i \in DOMAIN stack : stack[i].pc = "client"
MayCall(service) ==
  /\ Top.pc \in ClientPcs
  /\ service \in (IF InNotify THEN NotifyCalls ELSE AppCalls)

ClientEvent == Event \ {mEfiCheckTimerEvent, gIdleLoopEvent}

(* The discipline of clients that RespectClose says they keep.  The services
   check nothing but the Signature: one client may not hand e to a service
   while another one's CloseEvent (e) is under way, nor close e while a service
   another one called with e is.  The dispatcher's own use of an event it has
   taken off its queue is nothing a client can know of, and is not protected. *)
Closing(e) == \E i \in DOMAIN stack : stack[i].pc \in {"cl_unlink", "cl_free"} /\ stack[i].ev = e
InUse(e) == \E i \in DOMAIN stack :
  \/ stack[i].pc \notin ClientPcs \cup {"notify"} /\ stack[i].ev = e
  \/ stack[i].pc = "wait" /\ e \in ToSet(UserEvents)
MayUse(e) == RespectClose => ~ Closing(e)
MayClose(e) == RespectClose => ~ InUse(e)

(* CoreRaiseTpl; raising to the TPL one already has changes nothing and is left
   out. *)
RaiseTpl(t) ==
  /\ MayCall("raise")
  /\ gEfiCurrentTpl < t
  /\ gEfiCurrentTpl' = t
  /\ stack' = Append(stack, Frame("raised", t, gEfiCurrentTpl, NoEvent, 0))
  /\ UNCHANGED <<queues, lists, timers, IEvent>>

RestoreTpl ==
  /\ Top.pc = "raised"
  /\ UNCHANGED <<queues, lists, timers, IEvent>>
  /\ IF gEfiCurrentTpl = TPL_HIGH_LEVEL
     THEN RestoreFromHigh(Top.new, Front(stack))
     ELSE stack' = Goto("test") /\ UNCHANGED gEfiCurrentTpl

NotifyReturn ==
  /\ Top.pc = "client"
  /\ stack' = Front(stack)
  /\ UNCHANGED <<gEfiCurrentTpl, queues, lists, timers, IEvent>>

SignalEvent(e) ==
  /\ MayCall("signal")
  /\ IEvent[e].Signature
  /\ CoreSignalEvent(e, stack)
  /\ UNCHANGED <<lists, timers>>

(* CoreNotifySignalList on behalf of the core itself (CoreExitBootServices and
   the like): the group is that of e, which need not be signalled. *)
SignalGroup(e) ==
  /\ MayCall("group")
  /\ IEvent[e].Signature
  /\ IEvent[e].EventGroup # NoGroup
  /\ stack' = Call(stack, "sig_list", e, 0)
  /\ UNCHANGED <<gEfiCurrentTpl, queues, lists, timers, IEvent>>

(* CoreCheckEvent by an activation that continues with stack s; called only
   for an event that is not EVT_NOTIFY_SIGNAL.  A return to CoreWaitForEvent
   makes that return too, or go on to the next event. *)
CoreCheckEvent(e, s) ==
  Call(s, IF IEvent[e].SignalCount = 0 /\ Is(e, "WAIT") THEN "chk_queue" ELSE "chk_read", e, 0)

ReturnFromCheck(ready) ==
  LET s == Front(stack)
  IN IF Last(s).pc # "wait" THEN s
     ELSE IF ready THEN Front(s) ELSE SetTop(s, [Last(s) EXCEPT !.num = @ + 1])

CheckEvent(e) ==
  /\ MayCall("check")
  /\ IEvent[e].Signature
  /\ ~ Is(e, "SIGNAL")
  /\ stack' = CoreCheckEvent(e, stack)
  /\ UNCHANGED <<gEfiCurrentTpl, queues, lists, timers, IEvent>>

CheckEventQueue ==
  /\ Top.pc = "chk_queue"
  /\ IF IEvent[Top.ev].SignalCount = 0 THEN CoreNotifyEvent(Top.ev) ELSE UNCHANGED queues
  /\ RestoreFromHigh(gEfiCurrentTpl, Goto("chk_read"))
  /\ UNCHANGED <<lists, timers, IEvent>>

CheckEventRead ==
  /\ Top.pc = "chk_read"
  /\ stack' = IF IEvent[Top.ev].SignalCount # 0 THEN Goto("chk_clear")
              ELSE ReturnFromCheck(FALSE)
  /\ UNCHANGED <<gEfiCurrentTpl, queues, lists, timers, IEvent>>

(* Mutant: the signal is not looked at again under the lock. *)
CheckEventClearUnchecked ==
  /\ Top.pc = "chk_clear"
  /\ IEvent' = [IEvent EXCEPT ![Top.ev].SignalCount = 0]
  /\ UNCHANGED <<queues, lists, timers>>
  /\ RestoreFromHigh(gEfiCurrentTpl, ReturnFromCheck(TRUE))

CheckEventClear ==
  /\ Top.pc = "chk_clear"
  /\ IEvent' = [IEvent EXCEPT ![Top.ev].SignalCount = 0]
  /\ UNCHANGED <<queues, lists, timers>>
  /\ RestoreFromHigh(gEfiCurrentTpl, ReturnFromCheck(IEvent[Top.ev].SignalCount # 0))

(* CoreWaitForEvent; num is Index, from 1. *)
WaitForEvent ==
  /\ MayCall("wait")
  /\ gEfiCurrentTpl = TPL_APPLICATION
  /\ UserEvents # <<>>
  /\ stack' = Call(stack, "wait", NoEvent, 1)
  /\ UNCHANGED <<gEfiCurrentTpl, queues, lists, timers, IEvent>>

WaitCheck ==
  /\ Top.pc = "wait"
  /\ Top.num <= Len(UserEvents)
  /\ LET e == UserEvents[Top.num]
     IN stack' = IF IEvent[e].Signature /\ ~ Is(e, "SIGNAL")
                 THEN CoreCheckEvent(e, stack) ELSE Front(stack)
  /\ UNCHANGED <<gEfiCurrentTpl, queues, lists, timers, IEvent>>

(* Mutant: the events are scanned once only. *)
WaitIdleForEver ==
  /\ Top.pc = "wait"
  /\ Top.num > Len(UserEvents)
  /\ CoreSignalEvent(gIdleLoopEvent, stack)
  /\ UNCHANGED <<lists, timers>>

WaitIdle ==
  /\ Top.pc = "wait"
  /\ Top.num > Len(UserEvents)
  /\ CoreSignalEvent(gIdleLoopEvent, Update([Top EXCEPT !.num = 1]))
  /\ UNCHANGED <<lists, timers>>

(* gBS->SetTimer; above TimerLockTpl CoreRaiseTpl would assert. *)
SetTimer(e, type, delay) ==
  /\ MayCall("timer")
  /\ gEfiCurrentTpl <= TimerLockTpl
  /\ IEvent[e].Signature
  /\ Is(e, "TIMER")
  /\ CoreSetTimer(stack, e, type, delay)
  /\ UNCHANGED <<queues, lists, mEfiTimerList, mEfiSystemTime, due, IEvent>>

(* CoreCreateEventEx and CoreCreateEventInternal.  A request is a record of
   Type, NotifyTpl and EventGroup (NoGroup: the NULL of CreateEvent). *)
NotifyType(type) == type \cap {"WAIT", "SIGNAL"} # {}
ConvertedType(r) ==
  CASE r.EventGroup = ExitBootServicesGroup     -> EVT_EXIT
    [] r.EventGroup = VirtualAddressChangeGroup -> EVT_VIRT
    [] OTHER                                    -> r.Type
ConvertedGroup(r) ==
  CASE r.Type = EVT_EXIT -> ExitBootServicesGroup
    [] r.Type = EVT_VIRT -> VirtualAddressChangeGroup
    [] OTHER             -> r.EventGroup
ValidRequest(r) ==
  /\ NotifyType(r.Type) => r.NotifyTpl \in {TPL_APPLICATION, TPL_CALLBACK, TPL_NOTIFY}
  /\ r.Type \in mEventTable
  /\ r.EventGroup # NoGroup => r.Type \notin {EVT_EXIT, EVT_VIRT}
  /\ NotifyType(ConvertedType(r)) => r.NotifyTpl \in (TPL_APPLICATION + 1)..(TPL_HIGH_LEVEL - 1)

CreateEvent(e, r) ==
  /\ MayCall("create")
  /\ ~ IEvent[e].Signature
  /\ ValidRequest(r)
  /\ LET type == ConvertedType(r)
     IN /\ IEvent' = [IEvent EXCEPT ![e] =
                        NewEvent(type, IF NotifyType(type) THEN r.NotifyTpl ELSE 0, ConvertedGroup(r))]
        /\ RuntimeEventHead' = IF "RUNTIME" \in type THEN Append(RuntimeEventHead, e)
                               ELSE RuntimeEventHead
        /\ gEventSignalQueue' = IF "SIGNAL" \in type THEN <<e>> \o gEventSignalQueue
                                ELSE gEventSignalQueue
  /\ UNCHANGED <<queues, timers>>
  /\ RestoreFromHigh(gEfiCurrentTpl, stack)

(* Mutant: an armed timer is not cancelled. *)
CloseEventArmed(e) ==
  /\ MayCall("close")
  /\ IEvent[e].Signature
  /\ stack' = Call(stack, "cl_unlink", e, 0)
  /\ UNCHANGED <<gEfiCurrentTpl, queues, lists, timers, IEvent>>

(* CoreCloseEvent: cancels the timer, unlinks e, and only then frees it. *)
CloseEvent(e) ==
  /\ MayCall("close")
  /\ IEvent[e].Signature
  /\ IF Is(e, "TIMER")
     THEN /\ gEfiCurrentTpl <= TimerLockTpl
          /\ CoreSetTimer(Call(stack, "cl_unlink", e, 0), e, "TimerCancel", 0)
     ELSE /\ stack' = Call(stack, "cl_unlink", e, 0)
          /\ UNCHANGED <<gEfiCurrentTpl, mEfiTimerLock>>
  /\ UNCHANGED <<queues, lists, mEfiTimerList, mEfiSystemTime, due, IEvent>>

CloseUnlink ==
  /\ Top.pc = "cl_unlink"
  /\ RuntimeEventHead' = Unlink(RuntimeEventHead, Top.ev)
  /\ gEventQueue' = [t \in NotifyTpls |-> Unlink(gEventQueue[t], Top.ev)]
  /\ gEventSignalQueue' = Unlink(gEventSignalQueue, Top.ev)
  /\ UNCHANGED <<gEventPending, timers, IEvent>>
  /\ RestoreFromHigh(gEfiCurrentTpl, Goto("cl_free"))

CloseFree ==
  /\ Top.pc = "cl_free"
  /\ IEvent' = [IEvent EXCEPT ![Top.ev].Signature = FALSE]
  /\ stack' = Front(stack)
  /\ UNCHANGED <<gEfiCurrentTpl, queues, lists, timers>>

-----------------------------------------------------------------------------
(* CoreInitializeEventServices and CoreInitializeTimer have run. *)
Init ==
  /\ gEfiCurrentTpl = TPL_APPLICATION
  /\ gEventQueue = [t \in NotifyTpls |-> <<>>]
  /\ gEventPending = {}
  /\ gEventSignalQueue = <<gIdleLoopEvent, mEfiCheckTimerEvent>>
  /\ RuntimeEventHead = <<>>
  /\ mEfiTimerList = <<>>
  /\ mEfiTimerLock = [Lock |-> "Released", OwnerTpl |-> TPL_APPLICATION]
  /\ mEfiSystemTime = 0
  /\ IEvent = [e \in Event |->
       CASE e = mEfiCheckTimerEvent -> NewEvent({"SIGNAL"}, TPL_HIGH_LEVEL - 1, NoGroup)
         [] e = gIdleLoopEvent      -> NewEvent({"SIGNAL"}, TPL_NOTIFY, IdleLoopGroup)
         [] OTHER                   -> [NewEvent({}, 0, NoGroup) EXCEPT !.Signature = FALSE]]
  /\ due = [e \in Event |-> 0]
  /\ stack = <<Frame("app", TPL_APPLICATION, TPL_APPLICATION, NoEvent, 0)>>

(* The core's own steps: what an activation does next, with no choice. *)
RestoreStep == TestPending \/ PickPending \/ EnterPending \/ SetNewTpl
               \/ DispatchNext \/ CallNotifyFunction
SignalStep == NotifyListAcquire \/ NotifyListLink \/ NotifyListRelease \/ SignalRelock
CheckTimersStep == CheckTimersAcquire \/ CheckTimersReadTime \/ CheckTimersRemove
                   \/ CheckTimersSignal \/ CheckTimersPeriod \/ CheckTimersAgain
                   \/ CheckTimersInsert \/ CheckTimersRelease
SetTimerStep == SetTimerRemove \/ SetTimerReadTime \/ SetTimerInsert
                \/ SetTimerKick \/ SetTimerRelease
WaitStep == CheckEventQueue \/ CheckEventRead \/ CheckEventClear \/ WaitCheck \/ WaitIdle
CloseStep == CloseUnlink \/ CloseFree
CoreStep == RestoreStep \/ SignalStep \/ CheckTimersStep \/ SetTimerStep \/ WaitStep \/ CloseStep

ClientStep ==
  \/ \E t \in RaiseTpls : RaiseTpl(t)
  \/ WaitForEvent
  \/ \E e \in ClientEvent :
       \/ /\ MayUse(e)
          /\ \/ SignalEvent(e)
             \/ SignalGroup(e)
             \/ CheckEvent(e)
             \/ \E d \in Delays, type \in {"TimerPeriodic", "TimerRelative"} : SetTimer(e, type, d)
             \/ SetTimer(e, "TimerCancel", 0)
       \/ \E r \in Requests[e] : CreateEvent(e, r)
       \/ MayClose(e) /\ CloseEvent(e)

Next == CoreStep \/ ClientStep \/ RestoreTpl \/ NotifyReturn \/ TimerInterrupt

(* The processor keeps executing, the timer keeps ticking and an interrupt that
   is masked stays pending, and a client that raised the TPL or was called as a
   notification function gets done. *)
Fairness ==
  /\ WF_vars(CoreStep)
  /\ SF_vars(TimerInterrupt)
  /\ SF_vars(RestoreTpl)
  /\ SF_vars(NotifyReturn)

Spec == Init /\ [][Next]_vars
FairSpec == Spec /\ Fairness

-----------------------------------------------------------------------------
(* Properties *)

RestorePcs == {"test", "pick", "compare", "set", "acquire", "notify"}
SignalPcs == {"sig_list", "sig_loop", "sig_relock"}
LockedCheckPcs == {"ct_time", "ct_loop", "ct_signal", "ct_period", "ct_again", "ct_insert"}
LockedSetPcs == {"TimerCancel", "TimerPeriodic", "TimerRelative",
                 "st_time", "st_insert", "st_kick", "st_release"}
LockedPcs == LockedCheckPcs \cup LockedSetPcs
OtherPcs == {"ct_lock", "chk_queue", "chk_read", "chk_clear", "wait", "cl_unlink", "cl_free"}
NotifyPcs == LockedCheckPcs \cup {"client", "ct_lock"}
Pcs == ClientPcs \cup RestorePcs \cup SignalPcs \cup LockedPcs \cup OtherPcs

Tpls == TPL_APPLICATION..TPL_HIGH_LEVEL \cup {NoBit}
Frames == [pc : Pcs, lvl : Tpls, new : Tpls, ev : Event \cup {NoEvent}, num : Nat]
EventGroups ==
  {NoGroup, IdleLoopGroup, ExitBootServicesGroup, VirtualAddressChangeGroup}
    \cup UNION {{r.EventGroup : r \in Requests[e]} : e \in DOMAIN Requests}
IEvents == [Signature : BOOLEAN, Type : mEventTable, SignalCount : 0..1,
            NotifyTpl : NotifyTpls \cup {0}, EventGroup : EventGroups,
            TriggerTime : Nat, Period : Nat]

(* Every variable keeps the type its C declaration intends; bit 0 of the mask
   would be that of an event without a notification function. *)
TypeOK ==
  /\ gEfiCurrentTpl \in Tpls
  /\ gEventQueue \in [NotifyTpls -> Seq(Event)]
  /\ gEventPending \subseteq NotifyTpls \cup {0}
  /\ gEventSignalQueue \in Seq(Event)
  /\ RuntimeEventHead \in Seq(Event)
  /\ mEfiTimerList \in Seq(Event)
  /\ mEfiTimerLock \in [Lock : {"Released", "Acquired"}, OwnerTpl : Tpls]
  /\ mEfiSystemTime \in Nat
  /\ IEvent \in [Event -> IEvents]
  /\ due \in [Event -> Nat]
  /\ stack \in Seq(Frames) /\ stack # <<>>

(* Whatever a call, an interrupt or a nested dispatch did, the code it returns
   to finds the TPL it had itself set: no path through CoreRestoreTpl or
   CoreReleaseLock leaks a TPL. *)
CallerTplRestored == gEfiCurrentTpl = Top.lvl

(* Notification functions nest only at strictly increasing TPLs: none is ever
   interrupted by one of its own or of a lower priority. *)
NotifyFrame(i) == stack[i].pc \in NotifyPcs
NoReentrancy ==
  \A i, j \in DOMAIN stack :
    i < j /\ NotifyFrame(i) /\ NotifyFrame(j) => stack[i].lvl < stack[j].lvl

(* mEfiTimerLock excludes although it only raises the TPL: at most one
   activation is inside, the lock word says so, and CoreCheckTimers never finds
   it taken (the ASSERT of CoreAcquireLock). *)
Holds(i) == stack[i].pc \in LockedPcs
TimerLockExclusive ==
  /\ \A i, j \in DOMAIN stack : Holds(i) /\ Holds(j) => i = j
  /\ mEfiTimerLock.Lock = "Acquired" <=> \E i \in DOMAIN stack : Holds(i)
  /\ Top.pc = "ct_lock" => mEfiTimerLock.Lock = "Released"

(* A non-empty queue has its bit in gEventPending, an event waits in at most
   one place, and that is the queue of its NotifyTpl. *)
QueuesWellFormed ==
  \A t \in NotifyTpls :
    /\ gEventQueue[t] # <<>> => t \in gEventPending
    /\ \A i, j \in DOMAIN gEventQueue[t] : gEventQueue[t][i] = gEventQueue[t][j] => i = j
    /\ \A i \in DOMAIN gEventQueue[t] : IEvent[gEventQueue[t][i]].NotifyTpl = t

(* A SIGNAL event in the signalled state will be notified: it is queued, or its
   group is about to be.  CoreSignalEvent ignores further signals in that state,
   so otherwise the event would be dead for ever. *)
SignalledIsQueued ==
  \A e \in ToSet(gEventSignalQueue) :
    IEvent[e].SignalCount = 1 =>
      \/ Queued(e)
      \/ \E i \in DOMAIN stack : stack[i].pc = "sig_list" /\ stack[i].ev = e
      \/ /\ Top.pc = "sig_loop" /\ Top.ev = e
         /\ \E k \in Top.num..Len(gEventSignalQueue) : gEventSignalQueue[k] = e

(* The timer list is in ascending order without repetition, as the tick, which
   looks at its head only, relies on. *)
TimerListSorted ==
  \A i, j \in DOMAIN mEfiTimerList : i < j =>
    /\ mEfiTimerList[i] # mEfiTimerList[j]
    /\ IEvent[mEfiTimerList[i]].TriggerTime <= IEvent[mEfiTimerList[j]].TriggerTime

(* No timer is signalled before the time its last SetTimer asked for, however
   ticks, rearming and cancelling interleave. *)
NoEarlyExpiry == Top.pc = "ct_signal" => due[Top.ev] <= mEfiSystemTime

(* A freed event is on no list of the core. *)
ClosedUnlinked ==
  \A e \in Event : ~ IEvent[e].Signature =>
    /\ ~ Queued(e)
    /\ e \notin ToSet(gEventSignalQueue) \cup ToSet(RuntimeEventHead) \cup ToSet(mEfiTimerList)

(* CoreCloseEvent's "If the event is queued somewhere, remove it": a notification
   function is called at the NotifyTpl of its event, and never for an event that
   has been closed.  It does not hold, although no client misbehaves: the
   dispatcher drops its lock between taking an event off the queue and calling
   its function, and a function of a higher TPL may close the event there. *)
NotifyAtOwnTpl ==
  Top.pc = "notify" => /\ IEvent[Top.ev].Signature
                       /\ IEvent[Top.ev].NotifyTpl = gEfiCurrentTpl

(* "If the new priority unmasks events at a higher priority, they are
   dispatched": client code never runs with a queue above its TPL waiting. *)
NoUnmaskedPending ==
  Top.pc \in ClientPcs => \A t \in NotifyTpls : gEventQueue[t] # <<>> => t <= gEfiCurrentTpl

(* Every queued notification is delivered, although a tick may leave one
   behind unmasked. *)
NotifyEventually == \A e \in Event : Queued(e) ~> ~ Queued(e)

(* Every armed timer leaves the list: it expires or a client resets it. *)
TimerEventually ==
  \A e \in ClientEvent :
    (e \in ToSet(mEfiTimerList) /\ IEvent[e].TriggerTime <= MaxTime)
      ~> ~ (e \in ToSet(mEfiTimerList) /\ IEvent[e].TriggerTime <= MaxTime)

Waiting == \E i \in DOMAIN stack : stack[i].pc = "wait"

(* WaitForEvent returns success only by consuming a signal of one of its events:
   the signal it saw may have been consumed by a notification function before
   it takes the lock.  (A return from "wait" itself is EFI_INVALID_PARAMETER.) *)
WaitConsumes ==
  [][Waiting /\ ~ Waiting' /\ Top.pc # "wait" =>
       \E e \in ToSet(UserEvents) :
         IEvent[e].SignalCount = 1 /\ IEvent'[e].SignalCount = 0]_vars

(* WaitForEvent returns once one of its events is signalled. *)
WaitReturns ==
  \A e \in ToSet(UserEvents) :
    (Waiting /\ IEvent[e].Signature /\ IEvent[e].SignalCount = 1) ~> ~ Waiting

-----------------------------------------------------------------------------
(***************************************************************************)
(* The inductive invariant behind TypeOK, CallerTplRestored, NoReentrancy  *)
(* and TimerLockExclusive, for a build with SingleLoad.                    *)
(***************************************************************************)
DataOK ==
  /\ gEventQueue \in [NotifyTpls -> Seq(Event)]
  /\ gEventPending \subseteq NotifyTpls \cup {0}
  /\ gEventSignalQueue \in Seq(Event)
  /\ RuntimeEventHead \in Seq(Event)
  /\ mEfiTimerList \in Seq(Event)
  /\ mEfiTimerLock \in [Lock : {"Released", "Acquired"}, OwnerTpl : Tpls]
  /\ mEfiSystemTime \in Nat
  /\ IEvent \in [Event -> IEvents]
  /\ due \in [Event -> Nat]

(* Activations that leave the TPL as they found it, and that use ev. *)
CallerTplPcs == {"app", "client", "ct_lock", "sig_list", "sig_relock", "chk_queue",
                 "chk_read", "chk_clear", "wait", "cl_unlink", "cl_free"}
EventPcs == {"notify", "sig_list", "sig_loop", "ct_signal", "ct_period", "ct_again", "ct_insert",
             "chk_queue", "chk_read", "chk_clear", "cl_unlink", "cl_free"} \cup LockedSetPcs

(* A frame by itself: it runs at or above its caller's TPL, dispatches only
   above it, and holds the timer lock only at that lock's TPL. *)
FrameOK(f) ==
  /\ f \in Frames
  /\ f.new <= f.lvl
  /\ f.lvl <= TPL_HIGH_LEVEL
  /\ f.pc \in CallerTplPcs => f.lvl = f.new
  /\ f.pc \in RestorePcs \cup LockedPcs \cup NotifyPcs => f.lvl < TPL_HIGH_LEVEL
  /\ f.pc \in {"acquire", "notify"} => f.lvl = f.num /\ f.new < f.num /\ f.num \in NotifyTpls
  /\ f.pc = "compare" => f.num \in NotifyTpls \cup {0}
  /\ f.pc \in LockedPcs => f.lvl = TimerLockTpl
  /\ f.pc = "sig_loop" => f.lvl = TPL_HIGH_LEVEL
  /\ f.pc \in {"sig_loop", "wait"} => f.num # 0
  /\ f.pc \in EventPcs => f.ev \in Event
  /\ f.pc # "pick"

(* The frames of a stack s that runs at tpl: each goes back to the TPL of the
   one below, TPLs never decrease, and notification functions are called by
   the dispatcher only. *)
StackOK(s, tpl) ==
  /\ s \in Seq(Frames)
  /\ s # <<>>
  /\ s[Len(s)].lvl = tpl
  /\ \A i \in 1..Len(s) : FrameOK(s[i]) /\ (s[i].pc = "app" <=> i = 1)
  /\ \A i \in 2..Len(s) : /\ s[i].new = s[i - 1].lvl
                          /\ s[i].pc \in NotifyPcs => s[i - 1].pc = "acquire"
  /\ \A i, j \in 1..Len(s) : i < j => s[i].lvl <= s[j].new

(* Above the holder of the timer lock there is nothing but CoreSignalEvent. *)
LockOK(s, lock) ==
  /\ \A i \in 1..Len(s) : s[i].pc \in LockedPcs =>
                             lock.Lock = "Acquired" /\ lock.OwnerTpl = s[i].new
  /\ lock.Lock = "Acquired" => \E i \in 1..Len(s) : s[i].pc \in LockedPcs
  /\ \A i, j \in 1..Len(s) : i < j /\ s[i].pc \in LockedPcs => s[j].pc \in SignalPcs

StackInv(s, tpl, lock) == StackOK(s, tpl) /\ LockOK(s, lock)
IInv == DataOK /\ StackInv(stack, gEfiCurrentTpl, mEfiTimerLock)

=============================================================================
