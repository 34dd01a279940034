--------------------------- MODULE DxeSignalProofs ---------------------------
(* Proofs about signals and times of DxeEvent: no signal is lost, no timer is
   early and WaitForEvent consumes what it returns for, under the same
   conditions on the build and the clients as in DxeListProofs. *)
EXTENDS DxeListProofs

-----------------------------------------------------------------------------
(* The activations of a stack *)

(* Those at one of the pcs P, wherever they are on the stack. *)
Acts(s, P) == {f \in ToSet(s) : f.pc \in P}

(* A step of the innermost activation replaces it. *)
LEMMA SetTopAppend ==
  ASSUME NEW S, NEW s \in Seq(S), s # <<>>, NEW f
  PROVE  SetTop(s, f) = Append(Front(s), f)
<1> DEFINE n == Len(s)
           t == SetTop(s, f)
           u == Append(Front(s), f)
<1>1. /\ Front(s) \in Seq(S) /\ n \in Nat \ {0} /\ Len(Front(s)) = n - 1
      /\ \A i \in 1..(n - 1) : Front(s)[i] = s[i]
  BY FrontProperties
<1>2. /\ u \in Seq(S \cup {f}) /\ Len(u) = Len(Front(s)) + 1 /\ u[Len(Front(s)) + 1] = f
      /\ \A i \in 1..Len(Front(s)) : u[i] = Front(s)[i]
  BY <1>1, AppendShape DEF Pushed
<1>3. s \in Seq(S \cup {f})
  OBVIOUS
<1>4. t \in Seq(S \cup {f}) /\ Len(t) = n /\ \A i \in 1..n : t[i] = IF i = n THEN f ELSE s[i]
  BY <1>1, <1>3 DEF SetTop
<1> HIDE DEF n, t, u
<1>5. Len(u) = n /\ \A i \in 1..n : u[i] = t[i]
  BY <1>1, <1>2, <1>4
<1>6. t = u
  BY <1>2, <1>4, <1>5, SeqEqual
<1> QED BY <1>6 DEF t, u

(* A return undoes a call. *)
LEMMA FrontOfAppend ==
  ASSUME NEW S, NEW s \in Seq(S), NEW f
  PROVE  Front(Append(s, f)) = s
<1> DEFINE u == Append(s, f)
           n == Len(s)
<1>1. /\ u \in Seq(S \cup {f}) /\ u # <<>> /\ n \in Nat /\ Len(u) = n + 1 /\ \A i \in 1..n : u[i] = s[i]
      /\ s \in Seq(S \cup {f})
  BY AppendShape DEF Pushed
<1> HIDE DEF u
<1>2. /\ Front(u) \in Seq(S \cup {f}) /\ Len(Front(u)) = Len(u) - 1
      /\ \A i \in 1..(Len(u) - 1) : Front(u)[i] = u[i]
  BY <1>1, FrontProperties
<1>3. Len(Front(u)) = n /\ \A i \in 1..n : Front(u)[i] = s[i]
  BY <1>1, <1>2
<1> QED BY <1>1, <1>2, <1>3, SeqEqual DEF u

(* What calls, steps and returns do to the activations at P. *)
LEMMA StackActs ==
  ASSUME NEW S, NEW s \in Seq(S), NEW f, NEW P
  PROVE  /\ f.pc \notin P => Acts(Append(s, f), P) = Acts(s, P)
         /\ f.pc \in P => Acts(Append(s, f), P) = Acts(s, P) \cup {f}
         /\ s # <<>> => /\ Last(s).pc \notin P => Acts(Front(s), P) = Acts(s, P)
                        /\ Last(s).pc \in P => Acts(s, P) = Acts(Front(s), P) \cup {Last(s)}
                        /\ f.pc \notin P => Acts(SetTop(s, f), P) = Acts(Front(s), P)
                        /\ f.pc \in P => Acts(SetTop(s, f), P) = Acts(Front(s), P) \cup {f}
<1>1. ASSUME NEW T, NEW u \in Seq(T), NEW g PROVE ToSet(Append(u, g)) = ToSet(u) \cup {g}
  <2>1. u \in Seq(T \cup {g})
    OBVIOUS
  <2> QED BY <2>1, AppendList
<1>2. ToSet(Append(s, f)) = ToSet(s) \cup {f}
  BY <1>1
<1>3. ASSUME s # <<>> PROVE /\ ToSet(s) = ToSet(Front(s)) \cup {Last(s)}
                            /\ ToSet(SetTop(s, f)) = ToSet(Front(s)) \cup {f}
  <2>1. Front(s) \in Seq(S)
    BY <1>3, FrontProperties
  <2>2. SetTop(s, f) = Append(Front(s), f)
    BY <1>3, SetTopAppend
  <2>3. s = SetTop(s, Last(s))
    <3>1. Len(s) \in Nat \ {0} /\ Last(s) = s[Len(s)]
      BY <1>3, FrontProperties
    <3> QED BY <3>1 DEF SetTop
  <2>4. s = Append(Front(s), Last(s))
    BY <1>3, <2>3, SetTopAppend
  <2>5. ToSet(Append(Front(s), Last(s))) = ToSet(Front(s)) \cup {Last(s)}
    BY <1>1, <2>1
  <2> QED BY <1>1, <2>1, <2>2, <2>4, <2>5
<1> QED BY <1>2, <1>3 DEF Acts

(* Activations of CoreCheckTimers and CoreSetTimer with a time at hand, and those
   of CoreNotifySignalList. *)
AskedPcs == {"TimerCancel", "TimerPeriodic", "TimerRelative", "st_time"}
TimedPcs == (LockedCheckPcs \ {"ct_time"}) \cup AskedPcs \cup {"st_insert"}
WatchedPcs == TimedPcs \cup {"sig_list", "sig_loop"}

(* CoreRestoreTpl from TPL_HIGH_LEVEL adds an activation of the dispatcher only. *)
LEMMA RestoreActs ==
  ASSUME NEW S, NEW s \in Seq(S), NEW t, RestoreFromHigh(t, s), NEW P, "acquire" \notin P
  PROVE  Acts(stack', P) = Acts(s, P)
<1>1. CASE ~ \E p \in gEventPending' : p > t
  BY <1>1 DEF RestoreFromHigh
<1>2. CASE \E p \in gEventPending' : p > t
  <2> DEFINE p == HighBitSet64(gEventPending')
             f == Frame("acquire", p, t, NoEvent, p)
  <2>1. stack' = Append(s, f) /\ f.pc \notin P
    BY <1>2 DEF RestoreFromHigh, Frame
  <2> HIDE DEF f
  <2> QED BY <2>1, StackActs
<1> QED BY <1>1, <1>2

(* CoreSignalEvent by an activation that goes on with stack s: either one of
   CoreNotifySignalList is added or none that is watched. *)
LEMMA SignalActs ==
  ASSUME NEW S, NEW s \in Seq(S), NEW e, CoreSignalEvent(e, s),
         NEW P, {"acquire", "sig_relock"} \cap P = {}
  PROVE  \/ Acts(stack', P) = Acts(s, P)
         \/ /\ IEvent[e].EventGroup # NoGroup /\ Is(e, "SIGNAL")
            /\ \E f : /\ f.pc = "sig_list" /\ f.ev = e
                      /\ Acts(stack', P) = IF "sig_list" \in P THEN Acts(s, P) \cup {f} ELSE Acts(s, P)
<1> DEFINE f == Frame("sig_relock", gEfiCurrentTpl, gEfiCurrentTpl, NoEvent, 0)
           g == Frame("sig_list", gEfiCurrentTpl, gEfiCurrentTpl, e, 0)
           r == Append(s, f)
           u == Append(r, g)
<1>1. \/ RestoreFromHigh(gEfiCurrentTpl, s)
      \/ IEvent[e].EventGroup # NoGroup /\ Is(e, "SIGNAL") /\ RestoreFromHigh(gEfiCurrentTpl, u)
  BY DEF CoreSignalEvent, Call
<1>2. f.pc = "sig_relock" /\ g.pc = "sig_list" /\ g.ev = e
  BY DEF Frame
<1> HIDE DEF f, g
<1>3. r \in Seq(S \cup {f}) /\ u \in Seq(S \cup {f} \cup {g})
  BY AppendShape
<1>4. Acts(r, P) = Acts(s, P)
  BY <1>2, StackActs
<1>5. Acts(u, P) = IF "sig_list" \in P THEN Acts(s, P) \cup {g} ELSE Acts(s, P)
  <2> HIDE DEF r
  <2>1. /\ g.pc \notin P => Acts(u, P) = Acts(r, P)
        /\ g.pc \in P => Acts(u, P) = Acts(r, P) \cup {g}
    BY <1>3, StackActs
  <2> QED BY <1>2, <1>4, <2>1
<1> HIDE DEF u
<1>6. CASE RestoreFromHigh(gEfiCurrentTpl, s)
  BY <1>6, RestoreActs
<1>7. CASE IEvent[e].EventGroup # NoGroup /\ Is(e, "SIGNAL") /\ RestoreFromHigh(gEfiCurrentTpl, u)
  <2>1. Acts(stack', P) = Acts(u, P)
    BY <1>3, <1>7, RestoreActs
  <2> QED BY <1>2, <1>5, <1>7, <2>1
<1> QED BY <1>1, <1>6, <1>7

(* The innermost activation goes on, calls or returns, and neither it nor what
   it becomes is watched. *)
LEMMA TopActs ==
  ASSUME IInv, LInv, NEW P
  PROVE  /\ Top.pc \notin P => Acts(Front(stack), P) = Acts(stack, P)
         /\ \A f : Top.pc \notin P /\ f.pc \notin P => Acts(SetTop(stack, f), P) = Acts(stack, P)
         /\ \A f : f.pc \notin P => Acts(Append(stack, f), P) = Acts(stack, P)
         /\ \A f : SetTop(stack, f) \in Seq(Frames \cup {f})
         /\ Front(stack) \in Seq(Frames) /\ stack \in Seq(Frames)
<1>1. stack \in Seq(Frames) /\ stack # <<>> /\ Top = Last(stack)
  BY ListTypes
<1> QED BY <1>1, StackActs, SetTopSeq, FrontProperties

(* Steps that watched activations and CoreWaitForEvent have no part in. *)
QuietStep ==
  \/ RestoreStep \/ SignalRelock \/ CheckEventQueue \/ CloseStep \/ RestoreTpl \/ NotifyReturn
  \/ CheckTimersAcquire
  \/ \E t \in RaiseTpls : RaiseTpl(t)
  \/ \E e \in ClientEvent : CheckEvent(e) \/ \E r \in Requests[e] : CreateEvent(e, r)

(* Such a step leaves the watched activations as they are. *)
LEMMA QuietActs ==
  ASSUME SingleLoad, IInv, LInv, QuietStep, NEW P, P \subseteq WatchedPcs \cup {"wait"}
  PROVE  Acts(stack', P) = Acts(stack, P)
<1>0. /\ stack \in Seq(Frames) /\ Top \in Frames /\ FrameOK(Top)
      /\ {"app", "client", "raised", "ct_lock", "ct_time", "sig_relock"} \cap P = {}
      /\ RestorePcs \cap P = {} /\ CheckPcs \cap P = {} /\ ClosePcs \cap P = {}
  BY ListTypes DEF WatchedPcs, TimedPcs, AskedPcs, LockedCheckPcs, RestorePcs, CheckPcs, ClosePcs
<1>1. ASSUME NEW pc, NEW n, NEW l, NEW v, pc \in RestorePcs \cup CheckPcs \cup ClosePcs \cup {"ct_time"}
      PROVE  /\ [Top EXCEPT !.pc = pc].pc \notin P
             /\ [Top EXCEPT !.pc = pc, !.num = n].pc \notin P
             /\ [Top EXCEPT !.pc = pc, !.lvl = l].pc \notin P
             /\ [Top EXCEPT !.pc = pc, !.ev = v].pc \notin P
  BY <1>0, <1>1, FrameFields
<1>2. ASSUME NEW t, NEW s, s \in {stack, Front(stack)} \/ \E f : s = SetTop(stack, f),
             RestoreFromHigh(t, s)
      PROVE  Acts(stack', P) = Acts(s, P)
  <2>1. PICK S : s \in Seq(S)
    BY <1>2, TopActs
  <2>2. "acquire" \notin P
    BY <1>0 DEF RestorePcs
  <2> QED BY <1>2, <2>1, <2>2, RestoreActs
<1>3. CASE TestPending \/ PickPending \/ EnterPending \/ SetNewTpl
  <2>1. Top.pc \notin P
    BY <1>0, <1>3 DEF TestPending, PickPending, EnterPending, SetNewTpl, RestorePcs
  <2>2. stack' = Front(stack) \/ \E f : f.pc \notin P /\ stack' = SetTop(stack, f)
    BY <1>1, <1>3 DEF TestPending, PickPending, EnterPending, SetNewTpl, Goto, Update, RestorePcs
  <2> QED BY <2>1, <2>2, TopActs
<1>4. CASE DispatchNext
  <2>1. Top.pc \notin P
    BY <1>0, <1>4 DEF DispatchNext, RestorePcs
  <2>2. \E f : f.pc \notin P /\ RestoreFromHigh(gEfiCurrentTpl, SetTop(stack, f))
    BY <1>1, <1>4 DEF DispatchNext, Goto, Update, RestorePcs
  <2> QED BY <1>2, <2>1, <2>2, TopActs
<1>5. CASE CallNotifyFunction
  <2> DEFINE f == [Top EXCEPT !.pc = "acquire", !.ev = NoEvent]
             g == Frame(IF Top.ev = mEfiCheckTimerEvent THEN "ct_lock" ELSE "client",
                        gEfiCurrentTpl, gEfiCurrentTpl, Top.ev, 0)
  <2>1. Top.pc \notin P /\ f.pc \notin P /\ g.pc \notin P
    BY <1>0, <1>1, <1>5 DEF CallNotifyFunction, RestorePcs, Frame
  <2>2. stack' = Append(SetTop(stack, f), g)
    BY <1>5 DEF CallNotifyFunction, Call, Update
  <2> HIDE DEF f, g
  <2>3. Acts(SetTop(stack, f), P) = Acts(stack, P) /\ SetTop(stack, f) \in Seq(Frames \cup {f})
    BY <2>1, TopActs
  <2> QED BY <2>1, <2>2, <2>3, StackActs
<1>6. CASE SignalRelock \/ CheckEventQueue \/ CloseUnlink
  <2>1. Top.pc \notin P
    BY <1>0, <1>6 DEF SignalRelock, CheckEventQueue, CloseUnlink, CheckPcs, ClosePcs
  <2>2. \E t : \/ RestoreFromHigh(t, Front(stack))
               \/ \E f : f.pc \notin P /\ RestoreFromHigh(t, SetTop(stack, f))
    BY <1>1, <1>6 DEF SignalRelock, CheckEventQueue, CloseUnlink, CheckPcs, ClosePcs, Goto, Update
  <2> QED BY <1>2, <2>1, <2>2, TopActs
<1>7. CASE CloseFree \/ NotifyReturn
  <2>1. Top.pc \notin P /\ stack' = Front(stack)
    BY <1>0, <1>7 DEF CloseFree, NotifyReturn, ClosePcs
  <2> QED BY <2>1, TopActs
<1>8. CASE RestoreTpl
  <2>1. Top.pc \notin P
    BY <1>0, <1>8 DEF RestoreTpl
  <2>2. RestoreFromHigh(Top.new, Front(stack)) \/ \E f : f.pc \notin P /\ stack' = SetTop(stack, f)
    BY <1>1, <1>8 DEF RestoreTpl, RestorePcs, Goto, Update
  <2> QED BY <1>2, <2>1, <2>2, TopActs
<1>9. CASE CheckTimersAcquire
  <2>1. Top.pc \notin P
    BY <1>0, <1>9 DEF CheckTimersAcquire
  <2>2. \E f : f.pc \notin P /\ stack' = SetTop(stack, f)
    BY <1>1, <1>9 DEF CheckTimersAcquire, Update
  <2> QED BY <2>1, <2>2, TopActs
<1>10. ASSUME NEW t, RaiseTpl(t) PROVE Acts(stack', P) = Acts(stack, P)
  <2>1. \E f : f.pc = "raised" /\ stack' = Append(stack, f)
    BY <1>10 DEF RaiseTpl, Frame
  <2> QED BY <1>0, <2>1, TopActs
<1>11. ASSUME NEW e, CheckEvent(e) PROVE Acts(stack', P) = Acts(stack, P)
  <2>1. \E f : f.pc \in CheckPcs /\ stack' = Append(stack, f)
    BY <1>11 DEF CheckEvent, CoreCheckEvent, Call, Frame, CheckPcs
  <2> QED BY <1>0, <2>1, TopActs
<1>12. ASSUME NEW e, NEW r, CreateEvent(e, r) PROVE Acts(stack', P) = Acts(stack, P)
  BY <1>2, <1>12 DEF CreateEvent
<1> QED BY <1>3, <1>4, <1>5, <1>6, <1>7, <1>8, <1>9, <1>10, <1>11, <1>12
        DEF QuietStep, RestoreStep, CloseStep

(* The return from CoreCheckEvent, to CoreWaitForEvent or through it. *)
LEMMA ReturnActs ==
  ASSUME IInv, LInv, Top.pc \in {"chk_read", "chk_clear"}, NEW ready \in BOOLEAN,
         NEW P, P \subseteq WatchedPcs
  PROVE  Acts(ReturnFromCheck(ready), P) = Acts(stack, P)
<1> DEFINE s == Front(stack)
           f == [Last(s) EXCEPT !.num = @ + 1]
<1>1. \/ ReturnFromCheck(ready) = s
      \/ Last(s).pc = "wait" /\ ReturnFromCheck(ready) = Front(s)
      \/ Last(s).pc = "wait" /\ ReturnFromCheck(ready) = SetTop(s, f)
  BY DEF ReturnFromCheck
<1>2. s \in Seq(Frames) /\ s # <<>>
  BY PopTop
<1>3. Top.pc \notin P /\ "wait" \notin P
  BY DEF WatchedPcs, TimedPcs, AskedPcs, LockedCheckPcs
<1>4. Acts(s, P) = Acts(stack, P)
  BY <1>3, TopActs
<1> HIDE DEF s
<1>5. ASSUME Last(s).pc = "wait" PROVE f.pc = "wait"
  <2>1. Last(s) \in Frames
    BY <1>2, FrontProperties
  <2> QED BY <1>5, <2>1 DEF Frames
<1> HIDE DEF f
<1>6. ASSUME Last(s).pc = "wait" PROVE Acts(Front(s), P) = Acts(s, P) /\ Acts(SetTop(s, f), P) = Acts(s, P)
  BY <1>2, <1>3, <1>5, <1>6, StackActs
<1> QED BY <1>1, <1>4, <1>6

(* CoreWaitForEvent and the checks it makes, until it signals gIdleLoopEvent. *)
LEMMA WaitActs ==
  ASSUME IInv, LInv, CheckEventRead \/ CheckEventClear \/ WaitCheck \/ WaitForEvent,
         NEW P, P \subseteq WatchedPcs
  PROVE  Acts(stack', P) = Acts(stack, P)
<1>0. Top \in Frames /\ CheckPcs \cap P = {} /\ "wait" \notin P /\ "acquire" \notin P
  BY ListTypes DEF WatchedPcs, TimedPcs, AskedPcs, LockedCheckPcs, CheckPcs
<1>1. CASE CheckEventRead
  <2>1. /\ Top.pc = "chk_read"
        /\ stack' = SetTop(stack, [Top EXCEPT !.pc = "chk_clear"]) \/ stack' = ReturnFromCheck(FALSE)
    BY <1>1 DEF CheckEventRead, Goto, Update
  <2>2. [Top EXCEPT !.pc = "chk_clear"].pc \notin P /\ Top.pc \notin P
    BY <1>0, <2>1, FrameFields DEF CheckPcs
  <2> QED BY <2>1, <2>2, TopActs, ReturnActs
<1>2. CASE CheckEventClear
  <2> DEFINE ready == IEvent[Top.ev].SignalCount # 0
  <2>1. Top.pc = "chk_clear" /\ RestoreFromHigh(gEfiCurrentTpl, ReturnFromCheck(ready)) /\ ready \in BOOLEAN
    BY <1>2 DEF CheckEventClear
  <2> HIDE DEF ready
  <2>2. ReturnFromCheck(ready) \in Seq(Frames) /\ Acts(ReturnFromCheck(ready), P) = Acts(stack, P)
    BY <2>1, ListTypes, ReturnLink, ReturnActs
  <2> QED BY <1>0, <2>1, <2>2, RestoreActs
<1>3. CASE WaitCheck
  <2>1. /\ Top.pc = "wait"
        /\ stack' = Front(stack) \/ \E f : f.pc \in CheckPcs /\ stack' = Append(stack, f)
    BY <1>3 DEF WaitCheck, CoreCheckEvent, Call, Frame, CheckPcs
  <2> QED BY <1>0, <2>1, TopActs
<1>4. CASE WaitForEvent
  <2>1. \E f : f.pc = "wait" /\ stack' = Append(stack, f)
    BY <1>4 DEF WaitForEvent, Call, Frame
  <2> QED BY <1>0, <2>1, TopActs
<1> QED BY <1>1, <1>2, <1>3, <1>4

-----------------------------------------------------------------------------
(* Times *)

(* No sum of the clock and a delay leaves the 64 bits of a UINT64. *)
Periods == Delays \cup {TickPeriod}
NoWrap == \A d \in Periods : MaxTime + d < TimeModulus

(* What an activation knows of the time, when now is mEfiSystemTime: SystemTime
   is not ahead of the clock, and a timer is signalled only once its trigger
   time, which is no earlier than it is due, has come. *)
FrameTime(f, ie, d, now) ==
  /\ f.pc \in LockedCheckPcs \ {"ct_time"} => f.num <= now
  /\ f.pc \in AskedPcs => f.num \in Periods \cup {0}
  /\ f.pc \in DueTimerPcs \cup {"st_insert"} => d[f.ev] <= ie[f.ev].TriggerTime
  /\ f.pc \in {"ct_signal", "ct_period"} => ie[f.ev].TriggerTime <= f.num

TimeData(ie, d, now, armed) ==
  /\ now <= MaxTime
  /\ \A e \in Event : ie[e].Period \in Periods \cup {0}
  /\ \A e \in armed : d[e] <= ie[e].TriggerTime
StackTime(s, ie, d, now) == \A f \in Acts(s, TimedPcs) : FrameTime(f, ie, d, now)

TInv == /\ TimeData(IEvent, due, mEfiSystemTime, Armed)
        /\ StackTime(stack, IEvent, due, mEfiSystemTime)

(* The IEVENTs keep their times. *)
SameTimes(ie, ie2) ==
  \A e \in Event : ie2[e].TriggerTime = ie[e].TriggerTime /\ ie2[e].Period = ie[e].Period

(* Activations are on the stack, and innermost ones are the innermost. *)
LEMMA ActFrames ==
  ASSUME IInv, LInv, NEW P
  PROVE  /\ \A f \in Acts(stack, P) : FrameOK(f) /\ f \in Frames
         /\ Top.pc \in P => Top \in Acts(stack, P)
<1>1. StackOK(stack, gEfiCurrentTpl) /\ stack \in Seq(Frames) /\ Top = stack[Len(stack)] /\ Len(stack) \in Nat \ {0}
  BY ListTypes
<1>2. \A f : f \in ToSet(stack) <=> \E i \in 1..Len(stack) : stack[i] = f
  BY <1>1, ToSetMember
<1>3. Len(stack) \in 1..Len(stack)
  BY <1>1
<1> QED BY <1>1, <1>2, <1>3 DEF Acts, StackOK, FrameOK

(* An activation that is right about the time. *)
TimedFrame(f) ==
  /\ FrameTime(f, IEvent, due, mEfiSystemTime)
  /\ f.num \in Nat
  /\ f.pc \in DueTimerPcs \cup {"st_insert"} => f.ev \in Event

(* All of them are. *)
LEMMA ActsTimed ==
  ASSUME IInv, LInv, TInv, NEW f \in Acts(stack, TimedPcs)
  PROVE  TimedFrame(f)
<1>1. FrameOK(f) /\ f.num \in Nat /\ FrameTime(f, IEvent, due, mEfiSystemTime)
  BY ActFrames, FrameTypes DEF TInv, StackTime
<1>2. f.pc \in DueTimerPcs \cup {"st_insert"} => f.ev \in Event
  BY <1>1 DEF FrameOK, EventPcs, DueTimerPcs, LockedSetPcs
<1> QED BY <1>1, <1>2 DEF TimedFrame

(* While the times stay and the clock goes on, they remain so. *)
LEMMA TimesStay ==
  ASSUME IInv, LInv, TInv, SameTimes(IEvent, IEvent'), due' = due,
         mEfiSystemTime' \in Nat, mEfiSystemTime <= mEfiSystemTime', mEfiSystemTime' <= MaxTime,
         Armed' \subseteq Armed,
         \A f \in Acts(stack', TimedPcs) : TimedFrame(f)
  PROVE  TInv'
<1> DEFINE ie == IEvent'
           now == mEfiSystemTime'
           armed == Armed'
<1>1. mEfiSystemTime \in Nat /\ Armed \subseteq Event
  BY ListTypes DEF IInv, DataOK
<1>2. TimeData(ie, due, now, armed)
  <2>1. TimeData(IEvent, due, mEfiSystemTime, Armed)
    BY DEF TInv
  <2>2. armed \subseteq Armed /\ SameTimes(IEvent, ie) /\ now <= MaxTime
    OBVIOUS
  <2> HIDE DEF ie, now, armed
  <2> QED BY <1>1, <2>1, <2>2 DEF TimeData, SameTimes
<1>3. ASSUME NEW f, TimedFrame(f) PROVE FrameTime(f, ie, due, now)
  <2>1. /\ f.num \in Nat /\ FrameTime(f, IEvent, due, mEfiSystemTime)
        /\ f.pc \in DueTimerPcs \cup {"st_insert"} => f.ev \in Event
    BY <1>3 DEF TimedFrame
  <2>2. /\ SameTimes(IEvent, ie) /\ now \in Nat /\ mEfiSystemTime <= now
        /\ {"ct_signal", "ct_period"} \subseteq DueTimerPcs
    BY DEF DueTimerPcs
  <2> HIDE DEF ie, now
  <2>3. f.pc \in LockedCheckPcs \ {"ct_time"} => f.num <= now
    BY <1>1, <2>1, <2>2 DEF FrameTime
  <2> QED BY <2>1, <2>2, <2>3 DEF FrameTime, SameTimes
<1>4. StackTime(stack', ie, due, now)
  BY <1>3 DEF StackTime
<1> QED BY <1>2, <1>4 DEF TInv

(* Changes of SignalCount and Signature keep the times. *)
LEMMA CountTimes ==
  ASSUME IEvent \in [Event -> IEvents], NEW e \in Event, NEW c, NEW ie2,
         \/ ie2 = IEvent
         \/ ie2 = [IEvent EXCEPT ![e].SignalCount = c]
         \/ ie2 = [IEvent EXCEPT ![e].Signature = c]
  PROVE  SameTimes(IEvent, ie2)
<1>1. CASE ie2 = IEvent
  BY <1>1 DEF SameTimes
<1>2. CASE ie2 = [IEvent EXCEPT ![e].SignalCount = c] \/ ie2 = [IEvent EXCEPT ![e].Signature = c]
  BY <1>2 DEF SameTimes, IEvents
<1> QED BY <1>1, <1>2

(* The clock, and what stands still with it. *)
LEMMA ClockStill ==
  ASSUME IInv, LInv, TInv, mEfiSystemTime' = mEfiSystemTime
  PROVE  /\ mEfiSystemTime' \in Nat /\ mEfiSystemTime <= mEfiSystemTime' /\ mEfiSystemTime' <= MaxTime
BY TimeAssumption DEF IInv, DataOK, TInv, TimeData

(* CoreSignalEvent by an activation that goes on with stack s. *)
LEMMA SignalTime ==
  ASSUME IInv, LInv, TInv, NEW e \in Event, NEW S, NEW s \in Seq(S), CoreSignalEvent(e, s),
         mEfiTimerList' = mEfiTimerList, due' = due,
         mEfiSystemTime' \in Nat, mEfiSystemTime <= mEfiSystemTime', mEfiSystemTime' <= MaxTime,
         \A f \in Acts(s, TimedPcs) : TimedFrame(f)
  PROVE  TInv'
<1>1. IEvent' = [IEvent EXCEPT ![e].SignalCount = 1] \/ IEvent' = IEvent
  BY DEF CoreSignalEvent
<1>2. SameTimes(IEvent, IEvent')
  BY <1>1, ListTypes, CountTimes
<1>3. {"acquire", "sig_relock"} \cap TimedPcs = {} /\ "sig_list" \notin TimedPcs
  BY DEF TimedPcs, AskedPcs, LockedCheckPcs
<1>4. Acts(stack', TimedPcs) = Acts(s, TimedPcs)
  BY <1>3, SignalActs
<1>5. Armed' = Armed
  BY DEF Armed
<1> QED BY <1>2, <1>4, <1>5, TimesStay

(* The steps without a part in timing, except CoreCreateEventEx. *)
LEMMA QuietTime ==
  ASSUME SingleLoad, IInv, LInv, TInv,
         \/ QuietStep /\ ~ \E e \in ClientEvent : \E r \in Requests[e] : CreateEvent(e, r)
         \/ CheckEventRead \/ CheckEventClear \/ WaitCheck \/ WaitForEvent
  PROVE  TInv'
<1>1. Acts(stack', TimedPcs) = Acts(stack, TimedPcs)
  BY QuietActs, WaitActs DEF WatchedPcs
<1>2. /\ mEfiTimerList' = mEfiTimerList /\ due' = due /\ mEfiSystemTime' = mEfiSystemTime
  BY DEF QuietStep, RestoreStep, SignalRelock, CheckEventQueue, CloseStep, RestoreTpl, NotifyReturn,
         CheckTimersAcquire, RaiseTpl, CheckEvent, CheckEventRead, CheckEventClear, WaitCheck, WaitForEvent,
         TestPending, PickPending, EnterPending, SetNewTpl, DispatchNext, CallNotifyFunction,
         CloseUnlink, CloseFree, timers
<1>3. SameTimes(IEvent, IEvent')
  <2>0. IEvent \in [Event -> IEvents] /\ FrameOK(Top) /\ gEventQueue \in [NotifyTpls -> Seq(Event)]
    BY ListTypes
  <2>1. CASE CheckEventClear \/ CloseFree
    <3>1. Top.ev \in Event
      BY <2>0, <2>1 DEF CheckEventClear, CloseFree, FrameOK, EventPcs
    <3>2. \E c : \/ IEvent' = [IEvent EXCEPT ![Top.ev].SignalCount = c]
               \/ IEvent' = [IEvent EXCEPT ![Top.ev].Signature = c]
      BY <2>1 DEF CheckEventClear, CloseFree
    <3> QED BY <2>0, <3>1, <3>2, CountTimes
  <2>2. CASE DispatchNext
    <3> DEFINE q == gEventQueue[Top.num]
    <3>1. q \in Seq(Event)
      BY <2>0, <2>2 DEF DispatchNext, FrameOK
    <3>2. IEvent' = IEvent \/ (q # <<>> /\ IEvent' = [IEvent EXCEPT ![Head(q)].SignalCount = 0])
      BY <2>2 DEF DispatchNext
    <3> HIDE DEF q
    <3>3. q # <<>> => Head(q) \in Event
      BY <3>1
    <3>4. CASE IEvent' = IEvent
      BY <3>4 DEF SameTimes
    <3>5. CASE q # <<>> /\ IEvent' = [IEvent EXCEPT ![Head(q)].SignalCount = 0]
      BY <2>0, <3>3, <3>5, CountTimes
    <3> QED BY <3>2, <3>4, <3>5
  <2>3. CASE ~ (CheckEventClear \/ CloseFree \/ DispatchNext)
    <3>1. IEvent' = IEvent
      BY <2>3 DEF QuietStep, RestoreStep, SignalRelock, CheckEventQueue, CloseStep, RestoreTpl,
         NotifyReturn, CheckTimersAcquire, RaiseTpl, CheckEvent, CheckEventRead, WaitCheck, WaitForEvent,
         TestPending, PickPending, EnterPending, SetNewTpl, CallNotifyFunction, CloseUnlink
    <3> QED BY <3>1 DEF SameTimes
  <2> QED BY <2>1, <2>2, <2>3
<1>4. Armed' = Armed
  BY <1>2 DEF Armed
<1> QED BY <1>1, <1>2, <1>3, <1>4, ActsTimed, ClockStill, TimesStay

(* CoreNotifySignalList, the interrupt, and the signals of clients and of
   CoreWaitForEvent. *)
LEMMA SignalsTime ==
  ASSUME RespectClose, IInv, LInv, TInv,
         \/ NotifyListAcquire \/ NotifyListLink \/ NotifyListRelease
         \/ TimerInterrupt \/ WaitIdle
         \/ \E e \in ClientEvent : SignalEvent(e) \/ SignalGroup(e)
  PROVE  TInv'
<1>0. /\ stack \in Seq(Frames) /\ Top \in Frames /\ mEfiSystemTime \in Nat
      /\ \A f \in Acts(stack, TimedPcs) : TimedFrame(f)
      /\ {"acquire", "sig_list", "sig_loop", "sig_relock", "wait"} \cap TimedPcs = {}
  BY ListTypes, ActsTimed DEF IInv, DataOK, TimedPcs, AskedPcs, LockedCheckPcs
<1>1. CASE NotifyListAcquire \/ NotifyListLink
  <2>1. /\ Top.pc \notin TimedPcs
        /\ \E f : f.pc = "sig_loop" /\ stack' = SetTop(stack, f)
        /\ IEvent' = IEvent /\ due' = due /\ mEfiSystemTime' = mEfiSystemTime /\ mEfiTimerList' = mEfiTimerList
    BY <1>0, <1>1 DEF NotifyListAcquire, NotifyListLink, Update, timers, Frames
  <2>2. Acts(stack', TimedPcs) = Acts(stack, TimedPcs)
    BY <1>0, <2>1, TopActs
  <2>3. SameTimes(IEvent, IEvent') /\ Armed' = Armed
    BY <2>1 DEF SameTimes, Armed
  <2> QED BY <1>0, <2>1, <2>2, <2>3, ClockStill, TimesStay
<1>2. CASE NotifyListRelease
  <2>1. /\ Top.pc \notin TimedPcs /\ RestoreFromHigh(Top.new, Front(stack))
        /\ IEvent' = IEvent /\ due' = due /\ mEfiSystemTime' = mEfiSystemTime /\ mEfiTimerList' = mEfiTimerList
    BY <1>0, <1>2 DEF NotifyListRelease, timers
  <2>2. Acts(stack', TimedPcs) = Acts(stack, TimedPcs)
    BY <1>0, <2>1, TopActs, RestoreActs
  <2>3. SameTimes(IEvent, IEvent') /\ Armed' = Armed
    BY <2>1 DEF SameTimes, Armed
  <2> QED BY <1>0, <2>1, <2>2, <2>3, ClockStill, TimesStay
<1>3. CASE TimerInterrupt
  <2>1. /\ mEfiSystemTime' \in Nat /\ mEfiSystemTime <= mEfiSystemTime' /\ mEfiSystemTime' <= MaxTime
    <3>1. mEfiSystemTime <= MaxTime /\ MaxTime \in Nat /\ TickPeriod \in Nat
          /\ mEfiSystemTime' = TickTime
      BY <1>3, TimeAssumption DEF TInv, TimeData, TimerInterrupt
    <3> QED BY <1>0, <3>1 DEF TickTime
  <2>2. /\ due' = due /\ mEfiTimerList' = mEfiTimerList
        /\ \/ CoreSignalEvent(mEfiCheckTimerEvent, stack)
           \/ UNCHANGED <<IEvent, queues>> /\ RestoreFromHigh(gEfiCurrentTpl, stack)
    BY <1>3 DEF TimerInterrupt
  <2>3. CASE CoreSignalEvent(mEfiCheckTimerEvent, stack)
    BY <1>0, <2>1, <2>2, <2>3, EventAssumption, SignalTime
  <2>4. CASE UNCHANGED <<IEvent, queues>> /\ RestoreFromHigh(gEfiCurrentTpl, stack)
    <3>1. Acts(stack', TimedPcs) = Acts(stack, TimedPcs)
      BY <1>0, <2>4, RestoreActs
    <3>2. SameTimes(IEvent, IEvent') /\ Armed' = Armed
      BY <2>2, <2>4 DEF SameTimes, Armed
    <3> QED BY <1>0, <2>1, <2>2, <3>1, <3>2, TimesStay
  <2> QED BY <2>2, <2>3, <2>4
<1>4. CASE WaitIdle
  <2> DEFINE f == [Top EXCEPT !.num = 1]
  <2>1. /\ Top.pc = "wait" /\ CoreSignalEvent(gIdleLoopEvent, SetTop(stack, f))
        /\ due' = due /\ mEfiSystemTime' = mEfiSystemTime /\ mEfiTimerList' = mEfiTimerList
    BY <1>4 DEF WaitIdle, Update, timers
  <2>2. f.pc = "wait"
    BY <1>0, <2>1, FrameFields
  <2> HIDE DEF f
  <2>3. SetTop(stack, f) \in Seq(Frames \cup {f}) /\ Acts(SetTop(stack, f), TimedPcs) = Acts(stack, TimedPcs)
    BY <1>0, <2>1, <2>2, TopActs
  <2> QED BY <1>0, <2>1, <2>3, ClockStill, EventAssumption, SignalTime
<1>5. ASSUME NEW e \in ClientEvent, SignalEvent(e) PROVE TInv'
  <2>1. /\ CoreSignalEvent(e, stack) /\ e \in Event
        /\ due' = due /\ mEfiSystemTime' = mEfiSystemTime /\ mEfiTimerList' = mEfiTimerList
    BY <1>5 DEF SignalEvent, timers, ClientEvent
  <2> QED BY <1>0, <2>1, ClockStill, SignalTime
<1>6. ASSUME NEW e \in ClientEvent, SignalGroup(e) PROVE TInv'
  <2>1. /\ \E f : f.pc = "sig_list" /\ stack' = Append(stack, f)
        /\ IEvent' = IEvent /\ due' = due /\ mEfiSystemTime' = mEfiSystemTime /\ mEfiTimerList' = mEfiTimerList
    BY <1>6 DEF SignalGroup, Call, Frame, timers
  <2>2. Acts(stack', TimedPcs) = Acts(stack, TimedPcs)
    BY <1>0, <2>1, TopActs
  <2>3. SameTimes(IEvent, IEvent') /\ Armed' = Armed
    BY <2>1 DEF SameTimes, Armed
  <2> QED BY <1>0, <2>1, <2>2, <2>3, ClockStill, TimesStay
<1> QED BY <1>1, <1>2, <1>3, <1>4, <1>5, <1>6

(* The times of one event change that is not on the timer list. *)
LEMMA OneTime ==
  ASSUME IInv, LInv, TInv, NEW e \in Event, mEfiSystemTime' = mEfiSystemTime,
         \A x \in Event : x # e => /\ IEvent'[x].TriggerTime = IEvent[x].TriggerTime
                                   /\ IEvent'[x].Period = IEvent[x].Period
                                   /\ due'[x] = due[x],
         IEvent'[e].Period \in Periods \cup {0},
         Armed' \subseteq Armed, e \notin Armed',
         \A f \in Acts(stack', TimedPcs) :
            \/ f \in Acts(stack, TimedPcs) /\ f.ev # e
            \/ FrameTime(f, IEvent', due', mEfiSystemTime)
  PROVE  TInv'
<1> DEFINE ie == IEvent'
           d == due'
           now == mEfiSystemTime
           armed == Armed'
<1>1. /\ Armed \subseteq Event /\ TimeData(IEvent, due, now, Armed)
      /\ \A x \in Event : x # e => /\ ie[x].TriggerTime = IEvent[x].TriggerTime
                                   /\ ie[x].Period = IEvent[x].Period
                                   /\ d[x] = due[x]
      /\ ie[e].Period \in Periods \cup {0} /\ armed \subseteq Armed /\ e \notin armed
  BY ListTypes DEF TInv
<1>2. ASSUME NEW f \in Acts(stack, TimedPcs), f.ev # e PROVE FrameTime(f, ie, d, now)
  <2>1. /\ FrameTime(f, IEvent, due, now)
        /\ f.pc \in DueTimerPcs \cup {"st_insert"} => f.ev \in Event
    BY ActsTimed DEF TimedFrame
  <2>2. {"ct_signal", "ct_period"} \subseteq DueTimerPcs
    BY DEF DueTimerPcs
  <2> HIDE DEF ie, d, now, armed
  <2>3. f.pc \in DueTimerPcs \cup {"st_insert"} =>
          ie[f.ev].TriggerTime = IEvent[f.ev].TriggerTime /\ d[f.ev] = due[f.ev]
    BY <1>1, <1>2, <2>1
  <2> QED BY <2>1, <2>2, <2>3 DEF FrameTime
<1>3. StackTime(stack', ie, d, now)
  BY <1>2 DEF StackTime
<1> HIDE DEF ie, d, now, armed
<1>4. TimeData(ie, d, now, armed)
  BY <1>1 DEF TimeData
<1> QED BY <1>3, <1>4 DEF TInv, ie, d, now, armed

(* CoreSetTimer is called by clients and by CoreCloseEvent, with a delay of its
   caller's or none. *)
LEMMA CallTime ==
  ASSUME IInv, LInv, TInv, NEW e \in ClientEvent,
         \/ \E d \in Delays, type \in {"TimerPeriodic", "TimerRelative"} : SetTimer(e, type, d)
         \/ SetTimer(e, "TimerCancel", 0)
         \/ CloseEvent(e)
  PROVE  TInv'
<1>0. /\ stack \in Seq(Frames) /\ \A f \in Acts(stack, TimedPcs) : TimedFrame(f)
      /\ "cl_unlink" \notin TimedPcs
  BY ListTypes, ActsTimed DEF TimedPcs, AskedPcs, LockedCheckPcs
<1>1. /\ IEvent' = IEvent /\ due' = due /\ mEfiSystemTime' = mEfiSystemTime /\ mEfiTimerList' = mEfiTimerList
  BY DEF SetTimer, CloseEvent
<1>2. ASSUME NEW s, NEW S, s \in Seq(S), Acts(s, TimedPcs) = Acts(stack, TimedPcs),
             NEW type \in {"TimerCancel", "TimerPeriodic", "TimerRelative"}, NEW n \in Delays \cup {0},
             CoreSetTimer(s, e, type, n)
      PROVE  \A f \in Acts(stack', TimedPcs) : TimedFrame(f)
  <2> DEFINE f == Frame(type, TimerLockTpl, gEfiCurrentTpl, e, n)
  <2>1. stack' = Append(s, f) /\ f.pc = type /\ f.num = n
    BY <1>2 DEF CoreSetTimer, Frame
  <2> HIDE DEF f
  <2>2. TimedFrame(f)
    <3>1. f.num \in Nat /\ f.num \in Periods \cup {0}
      BY <2>1, TimeAssumption DEF Periods
    <3> QED BY <2>1, <3>1 DEF TimedFrame, FrameTime, LockedCheckPcs, DueTimerPcs
  <2>3. f.pc \in TimedPcs
    BY <2>1 DEF TimedPcs, AskedPcs
  <2>4. Acts(stack', TimedPcs) = Acts(s, TimedPcs) \cup {f}
    BY <1>2, <2>1, <2>3, StackActs
  <2> QED BY <1>0, <1>2, <2>2, <2>4
<1>3. \A f \in Acts(stack', TimedPcs) : TimedFrame(f)
  <2>1. CASE \E d \in Delays, type \in {"TimerPeriodic", "TimerRelative"} : SetTimer(e, type, d)
    BY <1>0, <1>2, <2>1 DEF SetTimer
  <2>2. CASE SetTimer(e, "TimerCancel", 0)
    BY <1>0, <1>2, <2>2 DEF SetTimer
  <2>3. CASE CloseEvent(e)
    <3> DEFINE g == Frame("cl_unlink", gEfiCurrentTpl, gEfiCurrentTpl, e, 0)
               s == Append(stack, g)
    <3>1. g.pc = "cl_unlink" /\ (stack' = s \/ CoreSetTimer(s, e, "TimerCancel", 0))
      BY <2>3 DEF CloseEvent, Call, Frame
    <3> HIDE DEF g
    <3>2. s \in Seq(Frames \cup {g}) /\ Acts(s, TimedPcs) = Acts(stack, TimedPcs)
      BY <1>0, <3>1, AppendShape, StackActs
    <3> HIDE DEF s
    <3>3. CASE stack' = s
      BY <1>0, <3>2, <3>3
    <3>4. CASE CoreSetTimer(s, e, "TimerCancel", 0)
      BY <1>2, <3>2, <3>4
    <3> QED BY <3>1, <3>3, <3>4
  <2> QED BY <2>1, <2>2, <2>3
<1>4. SameTimes(IEvent, IEvent') /\ Armed' = Armed
  BY <1>1 DEF SameTimes, Armed
<1> QED BY <1>1, <1>3, <1>4, ClockStill, TimesStay

(* CoreCreateEventEx: an IEVENT that was free is on no list and in no use. *)
LEMMA CreateTime ==
  ASSUME SingleLoad, IInv, LInv, TInv, NEW e \in ClientEvent, NEW r \in Requests[e], CreateEvent(e, r)
  PROVE  TInv'
<1>0. /\ e \in Event /\ ~ IEvent[e].Signature /\ stack \in Seq(Frames) /\ IEvent \in [Event -> IEvents]
      /\ Armed' = Armed /\ due' = due /\ mEfiSystemTime' = mEfiSystemTime
  BY ListTypes DEF CreateEvent, ClientEvent, timers, Armed
<1>1. /\ \A x \in Event : x # e => IEvent'[x] = IEvent[x]
      /\ IEvent'[e].Period = 0
  BY <1>0 DEF CreateEvent, NewEvent
<1>2. e \notin Armed
  BY <1>0 DEF LInv, EventLink
<1>3. Acts(stack', TimedPcs) = Acts(stack, TimedPcs)
  BY QuietActs DEF QuietStep, WatchedPcs
<1>4. ASSUME NEW f \in Acts(stack, TimedPcs) PROVE f.ev # e
  <2>1. PICK i \in 1..Len(stack) : stack[i] = f
    BY <1>0, ToSetMember DEF Acts
  <2>2. f.pc \notin ClientPcs \cup {"notify"}
    BY DEF Acts, TimedPcs, AskedPcs, LockedCheckPcs, ClientPcs
  <2> QED BY <1>0, <2>1, <2>2, FreeUnused DEF Uses
<1> QED BY <1>0, <1>1, <1>2, <1>3, <1>4, OneTime

(* The holder of the timer lock is the only activation with a time at hand. *)
LEMMA HolderActs ==
  ASSUME IInv, LInv, Top.pc \in LockedPcs, NEW f
  PROVE  /\ Acts(SetTop(stack, f), TimedPcs) \subseteq {f}
         /\ f.pc \notin TimedPcs => Acts(SetTop(stack, f), TimedPcs) = {}
         /\ SetTop(stack, f) \in Seq(Frames \cup {f})
<1>1. stack \in Seq(Frames) /\ stack # <<>>
  BY ListTypes
<1>2. TimedPcs \subseteq LockedPcs /\ Top.pc \notin SignalPcs
  BY DEF TimedPcs, AskedPcs, LockedPcs, LockedCheckPcs, LockedSetPcs, SignalPcs
<1>3. Acts(Front(stack), TimedPcs) = {}
  <2> SUFFICES ASSUME NEW g \in Acts(Front(stack), TimedPcs) PROVE FALSE
    OBVIOUS
  <2>1. /\ Front(stack) \in Seq(Frames) /\ Len(stack) \in Nat \ {0} /\ Len(Front(stack)) = Len(stack) - 1
        /\ \A j \in 1..(Len(stack) - 1) : Front(stack)[j] = stack[j]
    BY <1>1, FrontProperties
  <2>2. PICK i \in 1..Len(Front(stack)) : Front(stack)[i] = g
    BY <2>1, ToSetMember DEF Acts
  <2>3. i \in 1..Len(stack) /\ i # Len(stack) /\ stack[i] = g
    BY <2>1, <2>2
  <2>4. g.pc \in LockedPcs
    BY <1>2 DEF Acts
  <2> QED BY <1>2, <2>3, <2>4, OneHolder
<1> QED BY <1>1, <1>3, StackActs, SetTopSeq

(* CoreInsertEventTimer. *)
LEMMA InsertTime ==
  ASSUME IInv, LInv, TInv, Top.pc \in {"ct_insert", "st_insert"}, CoreInsertEventTimer(Top.ev),
         NEW f, f.pc \in {"ct_loop", "st_kick", "st_release"}, f.num = Top.num,
         f.pc = "ct_loop" => Top.pc = "ct_insert", stack' = SetTop(stack, f),
         IEvent' = IEvent, due' = due, mEfiSystemTime' = mEfiSystemTime
  PROVE  TInv'
<1>1. /\ Top.pc \in LockedPcs /\ Top.pc \in TimedPcs
      /\ Top.pc \in SetTimePcs \cup DueTimerPcs /\ Top.pc \in EventPcs
      /\ Top.pc \in DueTimerPcs \cup {"st_insert"}
      /\ Top.pc = "ct_insert" => Top.pc \in LockedCheckPcs \ {"ct_time"}
  BY DEF LockedPcs, LockedCheckPcs, LockedSetPcs, TimedPcs, SetTimePcs, DueTimerPcs, EventPcs
<1>2. Top.ev \in Event /\ Top.ev \notin Armed
  BY <1>1, ListTypes DEF FrameOK, FrameLink
<1>3. Armed' = Armed \cup {Top.ev}
  BY <1>2, InsertTimers
<1>4. FrameTime(Top, IEvent, due, mEfiSystemTime)
  BY <1>1, ActFrames DEF TInv, StackTime
<1>5. FrameTime(f, IEvent, due, mEfiSystemTime)
  BY <1>1, <1>4 DEF FrameTime, AskedPcs, DueTimerPcs, LockedCheckPcs
<1>6. StackTime(stack', IEvent, due, mEfiSystemTime)
  BY <1>1, <1>5, HolderActs, ZenonT(40) DEF StackTime
<1>7. due[Top.ev] <= IEvent[Top.ev].TriggerTime
  BY <1>1, <1>4 DEF FrameTime
<1>8. TimeData(IEvent, due, mEfiSystemTime, Armed \cup {Top.ev})
  BY <1>7 DEF TInv, TimeData
<1> QED BY <1>3, <1>6, <1>8 DEF TInv

(* A step of the holder of the lock that changes no time. *)
LEMMA HolderTime ==
  ASSUME IInv, LInv, TInv, Top.pc \in LockedPcs,
         NEW f, f.pc \in TimedPcs => TimedFrame(f),
         \/ stack' = SetTop(stack, f)
         \/ RestoreFromHigh(gEfiCurrentTpl, SetTop(stack, f)),
         IEvent' = IEvent, due' = due, mEfiSystemTime' = mEfiSystemTime, Armed' \subseteq Armed
  PROVE  TInv'
<1>1. "acquire" \notin TimedPcs
  BY DEF TimedPcs, AskedPcs, LockedCheckPcs
<1>2. Acts(stack', TimedPcs) = Acts(SetTop(stack, f), TimedPcs)
  BY <1>1, HolderActs, RestoreActs
<1>3. \A g \in Acts(stack', TimedPcs) : TimedFrame(g)
  BY <1>2, HolderActs
<1>4. SameTimes(IEvent, IEvent')
  BY DEF SameTimes
<1> QED BY <1>3, <1>4, ClockStill, TimesStay

(* A signal by the holder of the lock. *)
LEMMA HolderSignal ==
  ASSUME IInv, LInv, TInv, Top.pc \in LockedPcs, NEW e \in Event,
         NEW f, f.pc \in TimedPcs => TimedFrame(f),
         CoreSignalEvent(e, SetTop(stack, f)), UNCHANGED timers
  PROVE  TInv'
<1>1. \A g \in Acts(SetTop(stack, f), TimedPcs) : TimedFrame(g)
  BY HolderActs
<1>2. due' = due /\ mEfiSystemTime' = mEfiSystemTime /\ mEfiTimerList' = mEfiTimerList
  BY DEF timers
<1> QED BY <1>1, <1>2, HolderActs, ClockStill, SignalTime

(* The sums of Timer.c do not wrap. *)
LEMMA PlainSum ==
  ASSUME NoWrap, NEW n \in Nat, n <= MaxTime, NEW d \in Periods \cup {0}
  PROVE  d \in Nat /\ n + d \in Nat /\ (n + d) % TimeModulus = n + d
<1>1. MaxTime \in Nat /\ TimeModulus \in Nat \ {0} /\ Periods \subseteq Nat /\ TickPeriod \in Periods
  BY TimeAssumption DEF Periods
<1>2. MaxTime + TickPeriod < TimeModulus /\ (d # 0 => MaxTime + d < TimeModulus)
  BY <1>1 DEF NoWrap
<1>3. d \in Nat /\ TickPeriod \in Nat
  BY <1>1
<1>4. n + d < TimeModulus
  BY <1>1, <1>2, <1>3
<1> QED BY <1>1, <1>3, <1>4

(* CoreCheckTimers rearms a periodic timer no earlier than it is due. *)
LEMMA PeriodTime == ASSUME NoWrap, IInv, LInv, TInv, CheckTimersPeriod PROVE TInv'
<1> DEFINE e == Top.ev
           old == IEvent[e].TriggerTime
           per == IEvent[e].Period
           next == (old + per) % TimeModulus
           late == next <= Top.num
           time == IF late THEN Top.num ELSE next
           want == IF due[e] + per <= Top.num THEN Top.num ELSE due[e] + per
           pc == IF per = 0 THEN "ct_loop" ELSE IF late THEN "ct_again" ELSE "ct_insert"
           f == [Top EXCEPT !.pc = pc]
<1>1. /\ Top.pc = "ct_period" /\ Top \in Frames /\ FrameOK(Top)
      /\ IEvent \in [Event -> IEvents] /\ due \in [Event -> Nat] /\ mEfiSystemTime \in Nat
      /\ Top.pc \in LockedPcs /\ Top.pc \in TimedPcs
  BY ListTypes DEF CheckTimersPeriod, IInv, DataOK, LockedPcs, LockedCheckPcs, TimedPcs
<1>2. e \in Event /\ e \notin Armed
  BY <1>1, ListTypes DEF FrameOK, FrameLink, EventPcs, DueTimerPcs
<1>3. /\ Top.num \in Nat /\ Top.num <= mEfiSystemTime /\ due[e] <= old /\ old <= Top.num
      /\ mEfiSystemTime <= MaxTime /\ MaxTime \in Nat /\ per \in Periods \cup {0}
      /\ old \in Nat /\ per \in Nat /\ due[e] \in Nat
  <2>1. FrameTime(Top, IEvent, due, mEfiSystemTime) /\ Top.num \in Nat
    BY <1>1, ActFrames, FrameTypes DEF TInv, StackTime
  <2>2. Top.num <= mEfiSystemTime /\ due[e] <= old /\ old <= Top.num
    BY <1>1, <2>1 DEF FrameTime, LockedCheckPcs, DueTimerPcs
  <2>3. old \in Nat /\ per \in Nat /\ due[e] \in Nat
    BY <1>1, <1>2 DEF IEvents
  <2>4. mEfiSystemTime <= MaxTime /\ MaxTime \in Nat /\ per \in Periods \cup {0}
    BY <1>2, TimeAssumption DEF TInv, TimeData
  <2> QED BY <2>1, <2>2, <2>3, <2>4
<1>4. next = old + per
  <2>1. old <= MaxTime
    BY <1>1, <1>3
  <2> QED BY <1>3, <2>1, PlainSum
<1>5. time \in Nat /\ want <= time
  <2> HIDE DEF next, old, per
  <2> QED BY <1>3, <1>4
<1>6. f.pc = pc /\ f.ev = e /\ f.num = Top.num
  BY <1>1, FrameFields
<1>7. /\ stack' = SetTop(stack, f)
      /\ mEfiTimerList' = mEfiTimerList /\ mEfiSystemTime' = mEfiSystemTime /\ Armed' = Armed
      /\ per = 0 => IEvent' = IEvent /\ due' = due
      /\ per # 0 => IEvent' = [IEvent EXCEPT ![e].TriggerTime = time] /\ due' = [due EXCEPT ![e] = want]
  BY DEF CheckTimersPeriod, Goto, Update, Armed
<1>8. CASE per = 0
  <2>1. f.pc = "ct_loop"
    BY <1>6, <1>8
  <2>2. TimedFrame(f)
    BY <1>3, <1>6, <2>1 DEF TimedFrame, FrameTime, LockedCheckPcs, DueTimerPcs, AskedPcs
  <2> HIDE DEF f
  <2> QED BY <1>1, <1>7, <1>8, <2>2, HolderTime
<1>9. CASE per # 0
  <2>1. f.pc \in {"ct_again", "ct_insert"}
    BY <1>6, <1>9
  <2> HIDE DEF f, time, want, pc
  <2>2. /\ \A x \in Event : x # e => /\ IEvent'[x].TriggerTime = IEvent[x].TriggerTime
                                     /\ IEvent'[x].Period = IEvent[x].Period
                                     /\ due'[x] = due[x]
        /\ IEvent'[e].Period = per /\ IEvent'[e].TriggerTime = time /\ due'[e] = want
    BY <1>1, <1>2, <1>7, <1>9 DEF IEvents
  <2>3. FrameTime(f, IEvent', due', mEfiSystemTime)
    BY <1>3, <1>5, <1>6, <2>1, <2>2 DEF FrameTime, LockedCheckPcs, DueTimerPcs, AskedPcs
  <2>4. \A g \in Acts(stack', TimedPcs) : FrameTime(g, IEvent', due', mEfiSystemTime)
    BY <1>1, <1>7, <2>3, HolderActs
  <2> HIDE DEF e, per
  <2> QED BY <1>2, <1>3, <1>7, <2>2, <2>4, OneTime
<1> QED BY <1>8, <1>9

(* CoreCheckTimers. *)
LEMMA CheckTimersTime == ASSUME SingleLoad, NoWrap, IInv, LInv, TInv, CheckTimersStep PROVE TInv'
<1>0. /\ Top \in Frames /\ FrameOK(Top) /\ Top.num \in Nat /\ mEfiSystemTime \in Nat
      /\ Top.pc \in LockedCheckPcs => Top.pc \in LockedPcs
      /\ IEvent \in [Event -> IEvents]
  BY ListTypes, FrameTypes DEF IInv, DataOK, LockedPcs
<1>1. ASSUME Top.pc \in TimedPcs PROVE TimedFrame(Top)
  BY <1>1, ActFrames, ActsTimed
<1>2. CASE CheckTimersReadTime
  <2> DEFINE f == [Top EXCEPT !.pc = "ct_loop", !.num = mEfiSystemTime]
  <2>1. f.pc = "ct_loop" /\ f.num = mEfiSystemTime
    BY <1>0, FrameFields
  <2>2. TimedFrame(f)
    BY <1>0, <2>1 DEF TimedFrame, FrameTime, LockedCheckPcs, DueTimerPcs, AskedPcs
  <2>3. /\ Top.pc = "ct_time" /\ RestoreFromHigh(gEfiCurrentTpl, SetTop(stack, f))
        /\ IEvent' = IEvent /\ due' = due /\ mEfiSystemTime' = mEfiSystemTime /\ Armed' = Armed
    BY <1>2 DEF CheckTimersReadTime, Update, timers, Armed
  <2> HIDE DEF f
  <2> QED BY <1>0, <2>2, <2>3, HolderTime DEF LockedCheckPcs
<1>3. CASE CheckTimersRemove
  <2> DEFINE e == Head(mEfiTimerList)
             f == [Top EXCEPT !.pc = "ct_signal", !.ev = e]
  <2>1. f.pc = "ct_signal" /\ f.ev = e /\ f.num = Top.num
    BY <1>0, FrameFields
  <2>2. /\ Top.pc = "ct_loop" /\ mEfiTimerList # <<>> /\ IEvent[e].TriggerTime <= Top.num
        /\ mEfiTimerList' = Tail(mEfiTimerList) /\ stack' = SetTop(stack, f)
        /\ IEvent' = IEvent /\ due' = due /\ mEfiSystemTime' = mEfiSystemTime
    BY <1>3 DEF CheckTimersRemove, Expired, Update
  <2>3. e \in Event /\ e \in Armed /\ Armed' \subseteq Armed
    <3>1. mEfiTimerList \in Seq(Event) /\ IsInjective(mEfiTimerList)
      BY ListTypes, TimersSublist DEF LInv
    <3> QED BY <2>2, <3>1, TailList DEF Armed
  <2> HIDE DEF e, f
  <2>4. due[e] <= IEvent[e].TriggerTime
    BY <2>3 DEF TInv, TimeData
  <2>5. Top.num <= mEfiSystemTime
    BY <1>1, <2>2 DEF TimedFrame, FrameTime, TimedPcs, LockedCheckPcs
  <2>6. TimedFrame(f)
    BY <1>0, <2>1, <2>2, <2>3, <2>4, <2>5 DEF TimedFrame, FrameTime, LockedCheckPcs, DueTimerPcs, AskedPcs
  <2> QED BY <1>0, <2>2, <2>3, <2>6, HolderTime DEF LockedCheckPcs
<1>4. CASE CheckTimersSignal \/ CheckTimersAgain
  <2> DEFINE pc == IF Top.pc = "ct_signal" THEN "ct_period" ELSE "ct_insert"
             e == IF Top.pc = "ct_signal" THEN Top.ev ELSE mEfiCheckTimerEvent
             f == [Top EXCEPT !.pc = pc]
  <2>1. f.pc = pc /\ f.ev = Top.ev /\ f.num = Top.num
    BY <1>0, FrameFields
  <2>2. /\ Top.pc \in {"ct_signal", "ct_again"} /\ UNCHANGED timers
        /\ CoreSignalEvent(e, SetTop(stack, f))
    BY <1>4 DEF CheckTimersSignal, CheckTimersAgain, Goto, Update
  <2>3. e \in Event
    BY <1>0, <2>2, EventAssumption DEF FrameOK, EventPcs
  <2>4. TimedFrame(Top)
    BY <1>1, <2>2 DEF TimedPcs, LockedCheckPcs
  <2>5. TimedFrame(f)
    BY <2>1, <2>2, <2>4 DEF TimedFrame, FrameTime, LockedCheckPcs, DueTimerPcs, AskedPcs
  <2> HIDE DEF e, f
  <2> QED BY <1>0, <2>2, <2>3, <2>5, HolderSignal DEF LockedCheckPcs
<1>5. CASE CheckTimersInsert
  <2> DEFINE f == [Top EXCEPT !.pc = "ct_loop"]
  <2>1. f.pc = "ct_loop" /\ f.num = Top.num
    BY <1>0, FrameFields
  <2>2. /\ Top.pc = "ct_insert" /\ CoreInsertEventTimer(Top.ev) /\ stack' = SetTop(stack, f)
        /\ IEvent' = IEvent /\ due' = due /\ mEfiSystemTime' = mEfiSystemTime
    BY <1>5 DEF CheckTimersInsert, Goto, Update
  <2> HIDE DEF f
  <2> QED BY <2>1, <2>2, InsertTime
<1>6. CASE CheckTimersRelease
  <2>1. /\ Top.pc = "ct_loop" /\ \E f : f.pc = "test" /\ stack' = SetTop(stack, f)
        /\ IEvent' = IEvent /\ due' = due /\ mEfiSystemTime' = mEfiSystemTime /\ Armed' = Armed
    BY <1>6 DEF CheckTimersRelease, ReleaseTimerLock, Update, Frame, Armed
  <2>2. "test" \notin TimedPcs /\ "ct_loop" \in LockedCheckPcs
    BY DEF TimedPcs, AskedPcs, LockedCheckPcs
  <2> QED BY <1>0, <2>1, <2>2, HolderTime
<1>7. CASE CheckTimersAcquire
  <2>1. QuietStep
    BY <1>7 DEF QuietStep
  <2>2. ~ \E e \in ClientEvent : \E r \in Requests[e] : CreateEvent(e, r)
    BY <1>7 DEF CheckTimersAcquire, CreateEvent, MayCall, ClientPcs
  <2> QED BY <2>1, <2>2, QuietTime
<1> QED BY <1>2, <1>3, <1>4, <1>5, <1>6, <1>7, PeriodTime DEF CheckTimersStep

(* CoreSetTimer. *)
LEMMA SetTimerTime == ASSUME NoWrap, IInv, LInv, TInv, SetTimerStep PROVE TInv'
<1>0. /\ Top \in Frames /\ FrameOK(Top) /\ Top.num \in Nat /\ mEfiSystemTime \in Nat
      /\ IEvent \in [Event -> IEvents] /\ due \in [Event -> Nat]
  BY ListTypes, FrameTypes DEF IInv, DataOK
<1>1. Top.pc \in LockedSetPcs /\ Top.pc \in LockedPcs /\ Top.ev \in Event
      /\ (Top.pc \in SetTimePcs => Top.ev \notin Armed)
  <2>1. Top.pc \in LockedSetPcs
    BY DEF SetTimerStep, SetTimerRemove, SetTimerReadTime, SetTimerInsert, SetTimerKick,
           SetTimerRelease, LockedSetPcs
  <2> QED BY <1>0, <2>1, ListTypes DEF FrameOK, EventPcs, FrameLink, LockedPcs
<1>2. ASSUME Top.pc \in AskedPcs PROVE Top.num \in Periods \cup {0}
  <2>1. Top.pc \in TimedPcs
    BY <1>2 DEF TimedPcs
  <2> QED BY <1>2, <2>1, ActFrames, ActsTimed DEF TimedFrame, FrameTime
<1>3. CASE SetTimerRemove
  <2> DEFINE e == Top.ev
             period == IF Top.num = 0 THEN TickPeriod ELSE Top.num
             p == IF Top.pc = "TimerPeriodic" THEN period ELSE 0
             pc == IF Top.pc = "TimerCancel" THEN "st_release" ELSE "st_time"
             num == IF Top.pc = "TimerPeriodic" THEN period ELSE Top.num
             f == [Top EXCEPT !.pc = pc, !.num = num]
  <2>1. f.pc = pc /\ f.num = num
    BY <1>0, FrameFields
  <2>2. /\ Top.pc \in {"TimerCancel", "TimerPeriodic", "TimerRelative"}
        /\ stack' = SetTop(stack, f) /\ mEfiTimerList' = Unlink(mEfiTimerList, e)
        /\ due' = due /\ mEfiSystemTime' = mEfiSystemTime
        /\ IEvent' = [IEvent EXCEPT ![e].TriggerTime = 0, ![e].Period = p]
    BY <1>3 DEF SetTimerRemove, Update
  <2>3. Top.num \in Periods \cup {0} /\ p \in Periods \cup {0} /\ num \in Periods \cup {0}
    <3>1. Top.num \in Periods \cup {0} /\ TickPeriod \in Periods
      BY <1>2, <2>2 DEF AskedPcs, Periods
    <3> QED BY <3>1
  <2> HIDE DEF e, p, num, f
  <2>4. /\ \A x \in Event : x # e => /\ IEvent'[x].TriggerTime = IEvent[x].TriggerTime
                                     /\ IEvent'[x].Period = IEvent[x].Period
                                     /\ due'[x] = due[x]
        /\ IEvent'[e].Period = p
    BY <1>0, <1>1, <2>2 DEF IEvents, e
  <2>5. Armed' = Armed \ {e}
    <3>1. mEfiTimerList \in Seq(Event) /\ IsInjective(mEfiTimerList)
      BY ListTypes, TimersSublist DEF LInv
    <3> QED BY <2>2, <3>1, UnlinkList DEF Armed
  <2>6. FrameTime(f, IEvent', due', mEfiSystemTime)
    BY <2>1, <2>3 DEF FrameTime, LockedCheckPcs, DueTimerPcs, AskedPcs
  <2>7. \A g \in Acts(stack', TimedPcs) : FrameTime(g, IEvent', due', mEfiSystemTime)
    BY <1>1, <2>2, <2>6, HolderActs
  <2>8. e \in Event
    BY <1>1 DEF e
  <2> QED BY <2>2, <2>3, <2>4, <2>5, <2>7, <2>8, OneTime
<1>4. CASE SetTimerReadTime
  <2> DEFINE e == Top.ev
             time == (mEfiSystemTime + Top.num) % TimeModulus
             f == [Top EXCEPT !.pc = "st_insert"]
  <2>1. f.pc = "st_insert" /\ f.ev = e
    BY <1>0, FrameFields
  <2>2. /\ Top.pc = "st_time" /\ RestoreFromHigh(gEfiCurrentTpl, SetTop(stack, f))
        /\ Armed' = Armed /\ mEfiSystemTime' = mEfiSystemTime
        /\ IEvent' = [IEvent EXCEPT ![e].TriggerTime = time]
        /\ due' = [due EXCEPT ![e] = mEfiSystemTime + Top.num]
    BY <1>4 DEF SetTimerReadTime, Goto, Update, Armed
  <2>3. e \in Event /\ e \notin Armed
    BY <1>1, <2>2 DEF SetTimePcs
  <2>4. time = mEfiSystemTime + Top.num /\ time \in Nat
    <3>1. mEfiSystemTime <= MaxTime /\ Top.num \in Periods \cup {0}
      BY <1>2, <2>2 DEF TInv, TimeData, AskedPcs
    <3> QED BY <1>0, <3>1, PlainSum
  <2>5. IEvent[e].Period \in Periods \cup {0}
    BY <2>3 DEF TInv, TimeData
  <2> HIDE DEF e, time, f
  <2>6. /\ \A x \in Event : x # e => /\ IEvent'[x].TriggerTime = IEvent[x].TriggerTime
                                     /\ IEvent'[x].Period = IEvent[x].Period
                                     /\ due'[x] = due[x]
        /\ IEvent'[e].Period = IEvent[e].Period
        /\ IEvent'[e].TriggerTime = time /\ due'[e] = time
    BY <1>0, <2>2, <2>3, <2>4 DEF IEvents
  <2>7. FrameTime(f, IEvent', due', mEfiSystemTime)
    BY <2>1, <2>4, <2>6 DEF FrameTime, LockedCheckPcs, DueTimerPcs, AskedPcs
  <2>8. \A g \in Acts(stack', TimedPcs) : FrameTime(g, IEvent', due', mEfiSystemTime)
    <3>1. "acquire" \notin TimedPcs
      BY DEF TimedPcs, AskedPcs, LockedCheckPcs
    <3>2. Acts(stack', TimedPcs) = Acts(SetTop(stack, f), TimedPcs)
      BY <1>1, <2>2, <3>1, HolderActs, RestoreActs
    <3> QED BY <1>1, <2>7, <3>2, HolderActs
  <2> QED BY <2>2, <2>3, <2>5, <2>6, <2>8, OneTime
<1>5. CASE SetTimerInsert
  <2> DEFINE f == [Top EXCEPT !.pc = IF Top.num = 0 THEN "st_kick" ELSE "st_release"]
  <2>1. f.pc \in {"st_kick", "st_release"} /\ f.num = Top.num
    BY <1>0, FrameFields
  <2>2. /\ Top.pc = "st_insert" /\ CoreInsertEventTimer(Top.ev) /\ stack' = SetTop(stack, f)
        /\ IEvent' = IEvent /\ due' = due /\ mEfiSystemTime' = mEfiSystemTime
    BY <1>5 DEF SetTimerInsert, Goto, Update
  <2> HIDE DEF f
  <2> QED BY <2>1, <2>2, InsertTime
<1>6. CASE SetTimerKick
  <2> DEFINE f == [Top EXCEPT !.pc = "st_release"]
  <2>1. f.pc = "st_release"
    BY <1>0, FrameFields
  <2>2. UNCHANGED timers /\ CoreSignalEvent(mEfiCheckTimerEvent, SetTop(stack, f))
    BY <1>6 DEF SetTimerKick, Goto, Update
  <2> HIDE DEF f
  <2>3. f.pc \notin TimedPcs
    BY <2>1 DEF TimedPcs, AskedPcs, LockedCheckPcs
  <2> QED BY <1>1, <2>2, <2>3, EventAssumption, HolderSignal
<1>7. CASE SetTimerRelease
  <2>1. /\ \E f : f.pc = "test" /\ stack' = SetTop(stack, f)
        /\ IEvent' = IEvent /\ due' = due /\ mEfiSystemTime' = mEfiSystemTime /\ Armed' = Armed
    BY <1>7 DEF SetTimerRelease, ReleaseTimerLock, Update, Frame, Armed
  <2>2. "test" \notin TimedPcs
    BY DEF TimedPcs, AskedPcs, LockedCheckPcs
  <2> QED BY <1>1, <2>1, <2>2, HolderTime
<1> QED BY <1>3, <1>4, <1>5, <1>6, <1>7 DEF SetTimerStep

(* At boot nothing is armed. *)
LEMMA InitTime == ASSUME Init PROVE TInv
<1> DEFINE f == Frame("app", TPL_APPLICATION, TPL_APPLICATION, NoEvent, 0)
<1>1. /\ mEfiTimerList = <<>> /\ stack = <<f>> /\ mEfiSystemTime = 0
  BY DEF Init
<1>2. \A e \in Event : IEvent[e].Period = 0
  <2>1. ASSUME NEW e \in Event PROVE IEvent[e].Period = 0
    <3>1. IEvent[e] = IF e = mEfiCheckTimerEvent THEN NewEvent({"SIGNAL"}, TPL_HIGH_LEVEL - 1, NoGroup)
                      ELSE IF e = gIdleLoopEvent THEN NewEvent({"SIGNAL"}, TPL_NOTIFY, IdleLoopGroup)
                      ELSE [NewEvent({}, 0, NoGroup) EXCEPT !.Signature = FALSE]
      BY EventAssumption DEF Init
    <3> QED BY <3>1 DEF NewEvent
  <2> QED BY <2>1
<1>3. f.pc = "app" /\ "app" \notin TimedPcs
  BY DEF Frame, TimedPcs, AskedPcs, LockedCheckPcs
<1> HIDE DEF f
<1>4. Armed = {} /\ ToSet(stack) = {f}
  BY <1>1 DEF Armed, ToSet
<1>5. Acts(stack, TimedPcs) = {}
  BY <1>3, <1>4 DEF Acts
<1> QED BY <1>1, <1>2, <1>4, <1>5, TimeAssumption DEF TInv, TimeData, StackTime

(* Every step keeps the times right. *)
LEMMA NextTime ==
  ASSUME SingleLoad, RespectClose, NoWrap
  PROVE  IInv /\ LInv /\ TInv /\ [Next]_vars => TInv'
<1> SUFFICES ASSUME IInv, LInv, TInv, [Next]_vars PROVE TInv'
  OBVIOUS
<1>1. CASE \E e \in ClientEvent : \E r \in Requests[e] : CreateEvent(e, r)
  BY <1>1, CreateTime
<1>2. CASE QuietStep \/ CheckEventRead \/ CheckEventClear \/ WaitCheck \/ WaitForEvent
  BY <1>1, <1>2, QuietTime
<1>3. CASE \/ NotifyListAcquire \/ NotifyListLink \/ NotifyListRelease \/ TimerInterrupt \/ WaitIdle
           \/ \E e \in ClientEvent : SignalEvent(e) \/ SignalGroup(e)
  BY <1>3, SignalsTime
<1>4. ASSUME NEW e \in ClientEvent,
             \/ \E d \in Delays, type \in {"TimerPeriodic", "TimerRelative"} : SetTimer(e, type, d)
             \/ SetTimer(e, "TimerCancel", 0)
             \/ CloseEvent(e)
      PROVE  TInv'
  BY <1>4, CallTime
<1>5. CASE CheckTimersStep \/ SetTimerStep
  BY <1>5, CheckTimersTime, SetTimerTime
<1>6. CASE UNCHANGED vars
  BY <1>6 DEF vars, TInv, Armed
<1>7. CASE ClientStep
  BY <1>1, <1>2, <1>3, <1>4, <1>7 DEF ClientStep, QuietStep
<1>8. CASE CoreStep \/ RestoreTpl \/ NotifyReturn \/ TimerInterrupt
  BY <1>2, <1>3, <1>5, <1>8 DEF CoreStep, QuietStep, SignalStep, WaitStep
<1> QED BY <1>6, <1>7, <1>8 DEF Next

(* For the builds and clients of DxeListProofs, and as long as no sum of the
   clock and a delay exceeds a UINT64, the trigger times are right. *)
THEOREM TimesInductive == SingleLoad /\ RespectClose /\ NoWrap => (Spec => []TInv)
<1> SUFFICES ASSUME SingleLoad, RespectClose, NoWrap PROVE Spec => []TInv
  OBVIOUS
<1>1. Init => TInv
  BY InitTime
<1>2. IInv /\ LInv /\ TInv /\ [Next]_vars => TInv'
  BY NextTime
<1> QED BY <1>1, <1>2, Inductive, ListsInductive, PTL DEF Spec

(* CoreCheckTimers never signals a timer before the time SetTimer asked for,
   however ticks, rearming, cancelling and closing interleave. *)
THEOREM NeverEarly == SingleLoad /\ RespectClose /\ NoWrap => (Spec => []NoEarlyExpiry)
<1> SUFFICES ASSUME SingleLoad, RespectClose, NoWrap PROVE Spec => []NoEarlyExpiry
  OBVIOUS
<1>1. IInv /\ LInv /\ TInv => NoEarlyExpiry
  <2> SUFFICES ASSUME IInv, LInv, TInv, Top.pc = "ct_signal" PROVE due[Top.ev] <= mEfiSystemTime
    BY DEF NoEarlyExpiry
  <2>1. TimedFrame(Top) /\ FrameOK(Top)
    <3>1. Top.pc \in TimedPcs
      BY DEF TimedPcs, LockedCheckPcs
    <3> QED BY <3>1, ActFrames, ActsTimed, ListTypes
  <2>2. /\ Top.num <= mEfiSystemTime /\ due[Top.ev] <= IEvent[Top.ev].TriggerTime
        /\ IEvent[Top.ev].TriggerTime <= Top.num
    BY <2>1 DEF TimedFrame, FrameTime, LockedCheckPcs, DueTimerPcs
  <2>3. Top.ev \in Event /\ Top.num \in Nat
    BY <2>1 DEF TimedFrame, DueTimerPcs
  <2>4. due[Top.ev] \in Nat /\ IEvent[Top.ev].TriggerTime \in Nat /\ mEfiSystemTime \in Nat
    BY <2>3 DEF IInv, DataOK, IEvents
  <2> QED BY <2>2, <2>3, <2>4
<1> QED BY <1>1, Inductive, ListsInductive, TimesInductive, PTL

-----------------------------------------------------------------------------
(* Signals *)

ListPcs == {"sig_list"}
LoopPcs == {"sig_loop"}

(* An activation f of CoreNotifySignalList that has still to pass e on list sq. *)
WillPass(f, e, sq) == f.ev = e /\ \E k \in f.num..Len(sq) : sq[k] = e

(* The signal of e is not lost: e is queued or its group is about to be. *)
NotLost(e, q, s, sq) ==
  \/ InQueue(q, e)
  \/ \E f \in Acts(s, ListPcs) : f.ev = e
  \/ \E f \in Acts(s, LoopPcs) : WillPass(f, e, sq)

(* CoreNotifySignalList goes through its list with interrupts off, so it is
   innermost then, and no signal is lost. *)
SInv ==
  /\ Acts(Front(stack), LoopPcs) = {}
  /\ \A e \in ToSet(gEventSignalQueue) :
       IEvent[e].SignalCount = 1 => NotLost(e, gEventQueue, stack, gEventSignalQueue)

(* From one state to the next e keeps its place: it was signalled before, and
   still is queued if it was. *)
KeepsSignal(e) ==
  /\ e \in ToSet(gEventSignalQueue) /\ IEvent[e].SignalCount = 1
  /\ InQueue(gEventQueue, e) => InQueue(gEventQueue', e)

(* A signalled event that was, or has got, a place. *)
Placed(e) ==
  \/ KeepsSignal(e)
  \/ InQueue(gEventQueue', e)
  \/ \E f \in Acts(stack', ListPcs) : f.ev = e

(* Outside the loop of CoreNotifySignalList there is no activation in it. *)
LEMMA NoLoop ==
  ASSUME IInv, LInv, SInv, Top.pc # "sig_loop"
  PROVE  Acts(stack, LoopPcs) = {}
<1>1. Acts(Front(stack), LoopPcs) = Acts(stack, LoopPcs)
  BY TopActs DEF LoopPcs
<1> QED BY <1>1 DEF SInv

(* A step outside that loop. *)
LEMMA KeepSignals ==
  ASSUME IInv, LInv, SInv, IInv', Top.pc # "sig_loop",
         Acts(stack, ListPcs) \subseteq Acts(stack', ListPcs), Acts(stack', LoopPcs) \subseteq Acts(stack, LoopPcs),
         \A e \in ToSet(gEventSignalQueue') : IEvent'[e].SignalCount = 1 => Placed(e)
  PROVE  SInv'
<1>1. Acts(stack, LoopPcs) = {} /\ Acts(stack', LoopPcs) = {}
  BY NoLoop
<1>2. Acts(Front(stack'), LoopPcs) = {}
  <2> DEFINE s == stack'
  <2>1. s \in Seq(Frames) /\ s # <<>>
    BY DEF IInv, StackInv, StackOK
  <2>2. Acts(s, LoopPcs) = {}
    BY <1>1
  <2> HIDE DEF s
  <2>3. Acts(Front(s), LoopPcs) \subseteq Acts(s, LoopPcs)
    BY <2>1, StackActs
  <2> QED BY <2>2, <2>3 DEF s
<1>3. ASSUME NEW e \in ToSet(gEventSignalQueue'), IEvent'[e].SignalCount = 1
      PROVE  NotLost(e, gEventQueue', stack', gEventSignalQueue')
  <2>1. CASE KeepsSignal(e)
    <3>1. NotLost(e, gEventQueue, stack, gEventSignalQueue)
      BY <2>1 DEF SInv, KeepsSignal
    <3>2. InQueue(gEventQueue, e) \/ \E f \in Acts(stack, ListPcs) : f.ev = e
      BY <1>1, <3>1 DEF NotLost
    <3> QED BY <2>1, <3>2 DEF NotLost, KeepsSignal
  <2>2. CASE InQueue(gEventQueue', e) \/ \E f \in Acts(stack', ListPcs) : f.ev = e
    BY <2>2 DEF NotLost
  <2> QED BY <1>3, <2>1, <2>2 DEF Placed
<1> QED BY <1>2, <1>3 DEF SInv

(* CoreNotifyEvent, on an event with a notification function. *)
LEMMA NotifyPlace ==
  ASSUME IInv, LInv, NEW e \in Event, CoreNotifyEvent(e)
  PROVE  /\ Keeps(gEventQueue, gEventQueue', e)
         /\ "SIGNAL" \in IEvent[e].Type => InQueue(gEventQueue', e)
<1> DEFINE q2 == gEventQueue'
<1>1. \A t \in NotifyTpls :
         q2[t] = IF t = IEvent[e].NotifyTpl THEN Append(Unlink(gEventQueue[t], e), e)
                 ELSE gEventQueue[t]
  BY ListTypes DEF CoreNotifyEvent
<1> HIDE DEF q2
<1>2. gEventQueue \in [NotifyTpls -> Seq(Event)] /\ QueuesOK(gEventQueue, gEventPending, IEvent)
  BY ListTypes DEF LInv
<1>3. /\ Keeps(gEventQueue, q2, e)
      /\ IEvent[e].NotifyTpl \in NotifyTpls => InQueue(q2, e)
  BY <1>1, <1>2, NotifyQueue
<1>4. "SIGNAL" \in IEvent[e].Type => IEvent[e].NotifyTpl \in NotifyTpls
  BY DEF LInv, EventLink, NotifyType
<1> QED BY <1>3, <1>4 DEF q2

(* CoreSignalEvent gives its event a place, and leaves the others theirs. *)
LEMMA SignalPlace ==
  ASSUME IInv, LInv, NEW e \in Event, NEW S, NEW s \in Seq(S), CoreSignalEvent(e, s),
         NEW x \in ToSet(gEventSignalQueue), IEvent'[x].SignalCount = 1
  PROVE  Placed(x)
<1>0. /\ IEvent \in [Event -> IEvents] /\ x \in Event /\ "SIGNAL" \in IEvent[x].Type
  BY ListTypes, ToSetMember DEF LInv, NamesOK
<1>1. CASE IEvent[e].SignalCount # 0
  <2>1. IEvent' = IEvent /\ gEventQueue' = gEventQueue
    BY <1>1 DEF CoreSignalEvent, queues
  <2> QED BY <2>1 DEF Placed, KeepsSignal
<1>2. CASE IEvent[e].SignalCount = 0
  <2>1. IEvent' = [IEvent EXCEPT ![e].SignalCount = 1] /\ (CoreNotifyEvent(e) \/ gEventQueue' = gEventQueue)
    BY <1>2 DEF CoreSignalEvent, queues
  <2>2. CASE x # e
    <3>1. IEvent[x].SignalCount = 1
      BY <1>0, <2>1, <2>2
    <3>2. InQueue(gEventQueue, x) => InQueue(gEventQueue', x)
      BY <2>1, <2>2, NotifyPlace DEF Keeps
    <3> QED BY <3>1, <3>2 DEF Placed, KeepsSignal
  <2>3. CASE x = e /\ IEvent[e].EventGroup = NoGroup
    <3>1. CoreNotifyEvent(e)
      BY <1>0, <1>2, <2>3 DEF CoreSignalEvent, Is
    <3> QED BY <1>0, <2>3, <3>1, NotifyPlace DEF Placed
  <2>4. CASE x = e /\ IEvent[e].EventGroup # NoGroup
    <3> DEFINE f == Frame("sig_relock", gEfiCurrentTpl, gEfiCurrentTpl, NoEvent, 0)
               g == Frame("sig_list", gEfiCurrentTpl, gEfiCurrentTpl, e, 0)
               r == Append(s, f)
               u == Append(r, g)
    <3>1. RestoreFromHigh(gEfiCurrentTpl, u)
      BY <1>0, <1>2, <2>4 DEF CoreSignalEvent, Is, Call
    <3>2. g.pc \in ListPcs /\ g.ev = e /\ "acquire" \notin ListPcs
      BY DEF Frame, ListPcs
    <3> HIDE DEF f, g
    <3>3. r \in Seq(S \cup {f}) /\ u \in Seq(S \cup {f} \cup {g})
      BY AppendShape
    <3> HIDE DEF r
    <3>4. g \in Acts(u, ListPcs)
      BY <3>2, <3>3, StackActs
    <3> HIDE DEF u
    <3>5. g \in Acts(stack', ListPcs)
      BY <3>1, <3>2, <3>3, <3>4, RestoreActs
    <3> QED BY <2>4, <3>2, <3>5 DEF Placed
  <2> QED BY <2>2, <2>3, <2>4
<1> QED BY <1>1, <1>2

(* The activations of CoreNotifySignalList and CoreWaitForEvent. *)
CallerPcs == {"sig_list", "sig_loop", "wait"}

(* Steps of timers, and calls of services that signal, arm or close. *)
WorkStep ==
  \/ CheckTimersStep \/ SetTimerStep \/ TimerInterrupt
  \/ \E e \in ClientEvent :
       \/ SignalEvent(e) \/ SignalGroup(e)
       \/ \E d \in Delays, type \in {"TimerPeriodic", "TimerRelative"} : SetTimer(e, type, d)
       \/ SetTimer(e, "TimerCancel", 0)
       \/ CloseEvent(e)

(* None is lost, and only CoreNotifySignalList is entered. *)
MoreActs(P) ==
  /\ Acts(stack, P) \subseteq Acts(stack', P)
  /\ "sig_list" \notin P => Acts(stack', P) = Acts(stack, P)

(* The innermost activation goes on with stack s, or signals an event. *)
LEMMA Onward ==
  ASSUME NEW P, P \subseteq CallerPcs, NEW S, NEW s \in Seq(S), Acts(s, P) = Acts(stack, P),
         NEW t, NEW e, stack' = s \/ RestoreFromHigh(t, s) \/ CoreSignalEvent(e, s)
  PROVE  MoreActs(P)
<1>1. {"acquire", "sig_relock"} \cap P = {} /\ "acquire" \notin P
  BY DEF CallerPcs
<1>2. CASE stack' = s
  BY <1>2 DEF MoreActs
<1>3. CASE RestoreFromHigh(t, s)
  BY <1>1, <1>3, RestoreActs DEF MoreActs
<1>4. CASE CoreSignalEvent(e, s)
  <2>1. \/ Acts(stack', P) = Acts(s, P)
        \/ \E f : Acts(stack', P) = IF "sig_list" \in P THEN Acts(s, P) \cup {f} ELSE Acts(s, P)
    BY <1>1, <1>4, SignalActs
  <2> QED BY <2>1 DEF MoreActs
<1> QED BY <1>2, <1>3, <1>4

(* The same after a move of the innermost activation, or a call by it. *)
LEMMA OnwardTop ==
  ASSUME IInv, LInv, NEW P, P \subseteq CallerPcs, NEW f, f.pc \notin P, NEW t, NEW e,
         NEW s, (s = SetTop(stack, f) /\ Top.pc \notin P) \/ s = Append(stack, f) \/ s = stack,
         stack' = s \/ RestoreFromHigh(t, s) \/ CoreSignalEvent(e, s)
  PROVE  MoreActs(P)
<1>0. stack \in Seq(Frames)
  BY ListTypes
<1>1. Acts(s, P) = Acts(stack, P) /\ s \in Seq(Frames \cup {f})
  <2>1. CASE s = SetTop(stack, f) /\ Top.pc \notin P
    BY <2>1, TopActs
  <2>2. CASE s = Append(stack, f)
    BY <1>0, <2>2, TopActs, AppendShape
  <2>3. CASE s = stack
    <3>1. stack \in Seq(Frames \cup {f})
      BY <1>0
    <3> QED BY <2>3, <3>1
  <2> QED BY <2>1, <2>2, <2>3
<1> QED BY <1>1, Onward

(* What these steps do to the activations of the two. *)
LEMMA WorkActs ==
  ASSUME IInv, LInv, WorkStep, NEW P, P \subseteq CallerPcs
  PROVE  MoreActs(P)
<1>0. /\ stack \in Seq(Frames) /\ Top \in Frames
      /\ LockedPcs \cap P = {} /\ {"test", "ct_lock", "cl_unlink"} \cap P = {}
  BY ListTypes DEF CallerPcs, LockedPcs, LockedCheckPcs, LockedSetPcs
<1>1. ASSUME NEW pc, NEW n, NEW l, NEW v, pc \in LockedPcs
      PROVE  /\ [Top EXCEPT !.pc = pc].pc \notin P
             /\ [Top EXCEPT !.pc = pc, !.num = n].pc \notin P
             /\ [Top EXCEPT !.pc = pc, !.lvl = l].pc \notin P
             /\ [Top EXCEPT !.pc = pc, !.ev = v].pc \notin P
  BY <1>0, <1>1, FrameFields
<1>2. CASE CheckTimersStep
  <2>1. Top.pc \notin P
    BY <1>0, <1>2 DEF CheckTimersStep, CheckTimersAcquire, CheckTimersReadTime, CheckTimersRemove,
       CheckTimersSignal, CheckTimersPeriod, CheckTimersAgain, CheckTimersInsert, CheckTimersRelease,
       LockedPcs, LockedCheckPcs
  <2>2. \E f : /\ f.pc \notin P
               /\ \/ stack' = SetTop(stack, f)
                  \/ RestoreFromHigh(gEfiCurrentTpl, SetTop(stack, f))
                  \/ \E e : CoreSignalEvent(e, SetTop(stack, f))
    <3>1. CASE CheckTimersAcquire \/ CheckTimersReadTime \/ CheckTimersRemove
      BY <1>1, <3>1 DEF CheckTimersAcquire, CheckTimersReadTime, CheckTimersRemove, Update,
         LockedPcs, LockedCheckPcs
    <3>2. CASE CheckTimersSignal \/ CheckTimersAgain
      BY <1>1, <3>2 DEF CheckTimersSignal, CheckTimersAgain, Goto, Update, LockedPcs, LockedCheckPcs
    <3>3. CASE CheckTimersPeriod \/ CheckTimersInsert
      BY <1>1, <3>3 DEF CheckTimersPeriod, CheckTimersInsert, Goto, Update, LockedPcs, LockedCheckPcs
    <3>4. CASE CheckTimersRelease
      BY <1>0, <3>4 DEF CheckTimersRelease, ReleaseTimerLock, Update, Frame
    <3> QED BY <1>2, <3>1, <3>2, <3>3, <3>4 DEF CheckTimersStep
  <2> QED BY <2>1, <2>2, OnwardTop
<1>3. CASE SetTimerStep
  <2>1. Top.pc \notin P
    BY <1>0, <1>3 DEF SetTimerStep, SetTimerRemove, SetTimerReadTime, SetTimerInsert, SetTimerKick,
       SetTimerRelease, LockedPcs, LockedSetPcs
  <2>2. \E f : /\ f.pc \notin P
               /\ \/ stack' = SetTop(stack, f)
                  \/ RestoreFromHigh(gEfiCurrentTpl, SetTop(stack, f))
                  \/ \E e : CoreSignalEvent(e, SetTop(stack, f))
    <3>1. CASE SetTimerRemove
      <4> DEFINE f == [Top EXCEPT !.pc = IF @ = "TimerCancel" THEN "st_release" ELSE "st_time",
                                  !.num = IF Top.pc = "TimerPeriodic"
                                          THEN IF Top.num = 0 THEN TickPeriod ELSE Top.num ELSE @]
      <4>1. stack' = SetTop(stack, f)
        BY <3>1 DEF SetTimerRemove, Update
      <4>2. f.pc \in {"st_release", "st_time"}
        BY <1>0 DEF Frames
      <4> HIDE DEF f
      <4> QED BY <1>0, <4>1, <4>2 DEF LockedPcs, LockedSetPcs
    <3>2. CASE SetTimerReadTime \/ SetTimerInsert \/ SetTimerKick
      BY <1>1, <3>2 DEF SetTimerReadTime, SetTimerInsert, SetTimerKick, Goto, Update, LockedPcs, LockedSetPcs
    <3>3. CASE SetTimerRelease
      BY <1>0, <3>3 DEF SetTimerRelease, ReleaseTimerLock, Update, Frame
    <3> QED BY <1>3, <3>1, <3>2, <3>3 DEF SetTimerStep
  <2> QED BY <2>1, <2>2, OnwardTop
<1>4. ASSUME TimerInterrupt \/ \E e : SignalEvent(e)
      PROVE  MoreActs(P)
  <2>1. RestoreFromHigh(gEfiCurrentTpl, stack) \/ \E e : CoreSignalEvent(e, stack)
    BY <1>4 DEF TimerInterrupt, SignalEvent
  <2> QED BY <1>0, <2>1, Onward
<1>5. ASSUME NEW e, SignalGroup(e) PROVE MoreActs(P)
  <2>1. \E f : f.pc = "sig_list" /\ stack' = Append(stack, f)
    BY <1>5 DEF SignalGroup, Call, Frame
  <2> QED BY <1>0, <2>1, StackActs DEF MoreActs
<1>6. ASSUME NEW e, NEW d, NEW type \in {"TimerCancel", "TimerPeriodic", "TimerRelative"}, SetTimer(e, type, d)
      PROVE  MoreActs(P)
  <2>1. \E f : f.pc = type /\ stack' = Append(stack, f)
    BY <1>6 DEF SetTimer, CoreSetTimer, Frame
  <2>2. type \notin P
    BY <1>0 DEF LockedPcs, LockedSetPcs
  <2> QED BY <2>1, <2>2, OnwardTop
<1>7. ASSUME NEW e, CloseEvent(e) PROVE MoreActs(P)
  <2> DEFINE g == Frame("cl_unlink", gEfiCurrentTpl, gEfiCurrentTpl, e, 0)
             s == Append(stack, g)
  <2>1. g.pc \notin P /\ (stack' = s \/ \E f : f.pc = "TimerCancel" /\ stack' = Append(s, f))
    BY <1>0, <1>7 DEF CloseEvent, CoreSetTimer, Call, Frame
  <2> HIDE DEF g
  <2>2. s \in Seq(Frames \cup {g}) /\ Acts(s, P) = Acts(stack, P) /\ "TimerCancel" \notin P
    BY <1>0, <2>1, AppendShape, StackActs DEF LockedPcs, LockedSetPcs
  <2> HIDE DEF s
  <2>3. Acts(stack', P) = Acts(stack, P)
    <3>1. CASE stack' = s
      BY <2>2, <3>1
    <3>2. ASSUME NEW f, f.pc = "TimerCancel", stack' = Append(s, f) PROVE Acts(stack', P) = Acts(stack, P)
      BY <2>2, <3>2, StackActs
    <3> QED BY <2>1, <3>1, <3>2
  <2> QED BY <2>3 DEF MoreActs
<1> QED BY <1>2, <1>3, <1>4, <1>5, <1>6, <1>7 DEF WorkStep

(* No SIGNAL event becomes signalled unnoticed, and none is taken off its queue. *)
LEMMA SameSignals ==
  ASSUME IInv, LInv, gEventSignalQueue' = gEventSignalQueue, gEventQueue' = gEventQueue,
         \A e \in Event : IEvent'[e].SignalCount = IEvent[e].SignalCount,
         NEW e \in ToSet(gEventSignalQueue'), IEvent'[e].SignalCount = 1
  PROVE  Placed(e)
<1>1. e \in Event
  BY ListTypes, ToSetMember
<1> QED BY <1>1 DEF Placed, KeepsSignal

(* Timers and services signal, or leave the signals and the queues alone. *)
LEMMA WorkPlace ==
  ASSUME IInv, LInv, WorkStep
  PROVE  /\ gEventSignalQueue' = gEventSignalQueue
         /\ Top.pc # "sig_loop"
         /\ \/ \E e \in Event : \E S, s : s \in Seq(S) /\ CoreSignalEvent(e, s)
            \/ /\ gEventQueue' = gEventQueue
               /\ \A e \in Event : IEvent'[e].SignalCount = IEvent[e].SignalCount
<1> DEFINE Signals == \E e \in Event : \E S, s : s \in Seq(S) /\ CoreSignalEvent(e, s)
           Quiet == /\ gEventQueue' = gEventQueue
                    /\ \A e \in Event : IEvent'[e].SignalCount = IEvent[e].SignalCount
<1>0. IEvent \in [Event -> IEvents] /\ FrameOK(Top) /\ stack \in Seq(Frames) /\ Top \in Frames
  BY ListTypes
<1>1. gEventSignalQueue' = gEventSignalQueue
  BY DEF WorkStep, CheckTimersStep, CheckTimersAcquire, CheckTimersReadTime, CheckTimersRemove,
     CheckTimersSignal, CheckTimersPeriod, CheckTimersAgain, CheckTimersInsert, CheckTimersRelease,
     SetTimerStep, SetTimerRemove, SetTimerReadTime, SetTimerInsert, SetTimerKick, SetTimerRelease,
     TimerInterrupt, SignalEvent, SignalGroup, SetTimer, CloseEvent, lists
<1>2. Top.pc # "sig_loop"
  <2>1. CASE TimerInterrupt
    <3>1. gEfiCurrentTpl < TPL_HIGH_LEVEL /\ gEfiCurrentTpl = Top.lvl
      BY <2>1, ListTypes DEF TimerInterrupt, StackOK
    <3> QED BY <1>0, <3>1 DEF FrameOK, TPL_HIGH_LEVEL
  <2>2. CASE ~ TimerInterrupt
    BY <2>2 DEF WorkStep, CheckTimersStep, CheckTimersAcquire, CheckTimersReadTime, CheckTimersRemove,
       CheckTimersSignal, CheckTimersPeriod, CheckTimersAgain, CheckTimersInsert, CheckTimersRelease,
       SetTimerStep, SetTimerRemove, SetTimerReadTime, SetTimerInsert, SetTimerKick, SetTimerRelease,
       SignalEvent, SignalGroup, SetTimer, CloseEvent, MayCall, ClientPcs
  <2> QED BY <2>1, <2>2
<1>3. ASSUME NEW f PROVE SetTop(stack, f) \in Seq(Frames \cup {f})
  BY TopActs
<1>4. CASE CheckTimersSignal \/ CheckTimersAgain \/ SetTimerKick
  <2>1. CASE CheckTimersSignal
    <3>1. Top.ev \in Event /\ CoreSignalEvent(Top.ev, SetTop(stack, [Top EXCEPT !.pc = "ct_period"]))
      BY <1>0, <2>1 DEF CheckTimersSignal, Goto, Update, FrameOK, EventPcs
    <3> QED BY <1>1, <1>2, <1>3, <3>1
  <2>2. CASE CheckTimersAgain \/ SetTimerKick
    <3>1. \E f : CoreSignalEvent(mEfiCheckTimerEvent, SetTop(stack, f))
      BY <2>2 DEF CheckTimersAgain, SetTimerKick, Goto, Update
    <3>2. mEfiCheckTimerEvent \in Event
      BY EventAssumption
    <3> QED BY <1>1, <1>2, <1>3, <3>1, <3>2
  <2> QED BY <1>4, <2>1, <2>2
<1>5. CASE TimerInterrupt
  <2>1. CASE CoreSignalEvent(mEfiCheckTimerEvent, stack)
    BY <1>0, <1>1, <1>2, <2>1, EventAssumption
  <2>2. CASE UNCHANGED <<IEvent, queues>>
    BY <1>1, <1>2, <2>2 DEF queues
  <2> QED BY <1>5, <2>1, <2>2 DEF TimerInterrupt
<1>6. ASSUME NEW e \in ClientEvent, SignalEvent(e) PROVE Signals
  <2>1. e \in Event /\ CoreSignalEvent(e, stack)
    BY <1>6 DEF SignalEvent, ClientEvent
  <2> QED BY <1>0, <2>1
<1>7. CASE CheckTimersPeriod \/ SetTimerRemove \/ SetTimerReadTime
  <2>1. Top.ev \in Event
    BY <1>0, <1>7 DEF CheckTimersPeriod, SetTimerRemove, SetTimerReadTime, FrameOK, EventPcs, LockedSetPcs
  <2>2. gEventQueue' = gEventQueue
    BY <1>7 DEF CheckTimersPeriod, SetTimerRemove, SetTimerReadTime, queues
  <2>3. PICK t, p : \/ IEvent' = IEvent
                 \/ IEvent' = [IEvent EXCEPT ![Top.ev].TriggerTime = t]
                 \/ IEvent' = [IEvent EXCEPT ![Top.ev].TriggerTime = t, ![Top.ev].Period = p]
    BY <1>7 DEF CheckTimersPeriod, SetTimerRemove, SetTimerReadTime
  <2>4. \A e \in Event : IEvent'[e].SignalCount = IEvent[e].SignalCount
    <3>1. CASE IEvent' = IEvent
      BY <3>1
    <3>2. CASE IEvent' = [IEvent EXCEPT ![Top.ev].TriggerTime = t]
      BY <1>0, <2>1, <3>2 DEF IEvents
    <3>3. CASE IEvent' = [IEvent EXCEPT ![Top.ev].TriggerTime = t, ![Top.ev].Period = p]
      BY <1>0, <2>1, <3>3 DEF IEvents
    <3> QED BY <2>3, <3>1, <3>2, <3>3
  <2> QED BY <1>1, <1>2, <2>2, <2>4
<1>8. CASE \/ CheckTimersAcquire \/ CheckTimersReadTime \/ CheckTimersRemove \/ CheckTimersInsert
           \/ CheckTimersRelease \/ SetTimerInsert \/ SetTimerRelease
           \/ \E e \in ClientEvent :
                \/ SignalGroup(e) \/ CloseEvent(e)
                \/ \E d, type : SetTimer(e, type, d)
  <2>1. gEventQueue' = gEventQueue /\ IEvent' = IEvent
    BY <1>8 DEF CheckTimersAcquire, CheckTimersReadTime, CheckTimersRemove, CheckTimersInsert,
       CheckTimersRelease, SetTimerInsert, SetTimerRelease, SignalGroup, SetTimer, CloseEvent, queues
  <2> QED BY <1>1, <1>2, <2>1
<1> QED BY <1>1, <1>2, <1>4, <1>5, <1>6, <1>7, <1>8 DEF WorkStep, CheckTimersStep, SetTimerStep

(* The steps of timers and the calls of services lose no signal. *)
LEMMA WorkSignals == ASSUME IInv, LInv, SInv, IInv', WorkStep PROVE SInv'
<1>1. ListPcs \subseteq CallerPcs /\ LoopPcs \subseteq CallerPcs /\ "sig_list" \notin LoopPcs
  BY DEF ListPcs, LoopPcs, CallerPcs
<1>2. /\ Acts(stack, ListPcs) \subseteq Acts(stack', ListPcs)
      /\ Acts(stack', LoopPcs) \subseteq Acts(stack, LoopPcs)
  BY <1>1, WorkActs DEF MoreActs
<1>3. \A e \in ToSet(gEventSignalQueue') : IEvent'[e].SignalCount = 1 => Placed(e)
  BY WorkPlace, SignalPlace, SameSignals
<1> QED BY <1>2, <1>3, WorkPlace, KeepSignals

(* Steps that CoreNotifySignalList has no part in are not taken inside it. *)
LEMMA QuietTop ==
  ASSUME QuietStep \/ CheckEventRead \/ CheckEventClear \/ WaitCheck \/ WaitIdle \/ WaitForEvent
  PROVE  Top.pc # "sig_loop"
BY DEF QuietStep, RestoreStep, SignalRelock, CheckEventQueue, CloseStep, RestoreTpl, NotifyReturn,
   CheckTimersAcquire, RaiseTpl, CheckEvent, CreateEvent, CheckEventRead, CheckEventClear, WaitCheck,
   WaitIdle, WaitForEvent, TestPending, PickPending, EnterPending, SetNewTpl, DispatchNext,
   CallNotifyFunction, CloseUnlink, CloseFree, MayCall, ClientPcs

(* The dispatcher clears the signal of the event it takes off its queue. *)
LEMMA DispatchPlace ==
  ASSUME IInv, LInv, DispatchNext, NEW x \in ToSet(gEventSignalQueue'), IEvent'[x].SignalCount = 1
  PROVE  Placed(x)
<1> DEFINE q == gEventQueue[Top.num]
           e == Head(q)
           q2 == gEventQueue'
<1>0. /\ IEvent \in [Event -> IEvents] /\ x \in Event /\ "SIGNAL" \in IEvent[x].Type
      /\ x \in ToSet(gEventSignalQueue) /\ Top.num \in NotifyTpls
      /\ gEventQueue \in [NotifyTpls -> Seq(Event)]
      /\ QueuesOK(gEventQueue, gEventPending, IEvent)
  <2>1. gEventSignalQueue' = gEventSignalQueue /\ Top.num \in NotifyTpls
    BY ListTypes DEF DispatchNext, lists, FrameOK
  <2> QED BY <2>1, ListTypes, ToSetMember DEF LInv, NamesOK
<1>1. CASE q = <<>>
  <2>1. IEvent' = IEvent /\ gEventQueue' = gEventQueue
    BY <1>1 DEF DispatchNext
  <2> QED BY <1>0, <2>1 DEF Placed, KeepsSignal
<1>2. CASE q # <<>>
  <2>1. IEvent' = IF Is(e, "SIGNAL") THEN [IEvent EXCEPT ![e].SignalCount = 0] ELSE IEvent
    BY <1>0, <1>2 DEF DispatchNext
  <2>2. e \in Event /\ Keeps(gEventQueue, q2, e)
    <3> DEFINE T == Top.num
    <3>0. T \in NotifyTpls /\ gEventQueue[T] # <<>>
      BY <1>0, <1>2
    <3>1. \A t \in NotifyTpls : q2[t] = IF t = T THEN Tail(gEventQueue[T]) ELSE gEventQueue[t]
      BY <1>0, <1>2 DEF DispatchNext
    <3> HIDE DEF q2, T, q, e
    <3>2. gEventQueue \in [NotifyTpls -> Seq(Event)] /\ QueuesOK(gEventQueue, gEventPending, IEvent)
      BY <1>0
    <3>3. /\ QueuesOK(q2, gEventPending, IEvent)
          /\ Head(gEventQueue[T]) \in Event /\ InQueue(gEventQueue, Head(gEventQueue[T]))
          /\ IEvent[Head(gEventQueue[T])].NotifyTpl = T
          /\ Gains(gEventQueue, q2, NoEvent) /\ Keeps(gEventQueue, q2, Head(gEventQueue[T]))
      BY <3>0, <3>1, <3>2, DispatchQueue
    <3> QED BY <3>3 DEF T, q, e
  <2> HIDE DEF q2
  <2> HIDE DEF e, q
  <2>3. x # e /\ IEvent[x].SignalCount = 1
    BY <1>0, <2>1, <2>2 DEF Is
  <2>4. InQueue(gEventQueue, x) => InQueue(q2, x)
    BY <2>2, <2>3 DEF Keeps
  <2> QED BY <1>0, <2>3, <2>4 DEF Placed, KeepsSignal, q2
<1> QED BY <1>1, <1>2

(* CoreCloseEvent takes its event off all lists, and frees it afterwards. *)
LEMMA ClosePlace ==
  ASSUME IInv, LInv, CloseStep, NEW x \in ToSet(gEventSignalQueue'), IEvent'[x].SignalCount = 1
  PROVE  Placed(x)
<1>0. /\ IEvent \in [Event -> IEvents] /\ FrameOK(Top) /\ gEventSignalQueue \in Seq(Event)
      /\ IsInjective(gEventSignalQueue)
      /\ gEventQueue \in [NotifyTpls -> Seq(Event)]
      /\ QueuesOK(gEventQueue, gEventPending, IEvent)
      /\ Top.ev \in Event
  <2>1. Top.ev \in Event
    BY ListTypes DEF CloseStep, CloseUnlink, CloseFree, FrameOK, EventPcs
  <2> QED BY <2>1, ListTypes DEF LInv, NamesOK
<1>1. CASE CloseFree
  <2>1. /\ IEvent' = [IEvent EXCEPT ![Top.ev].Signature = FALSE]
        /\ gEventQueue' = gEventQueue /\ gEventSignalQueue' = gEventSignalQueue
    BY <1>1 DEF CloseFree, queues, lists
  <2>2. x \in Event
    BY <1>0, <2>1, ToSetMember
  <2>3. IEvent'[x].SignalCount = IEvent[x].SignalCount
    BY <1>0, <2>1, <2>2 DEF IEvents
  <2> QED BY <2>1, <2>3 DEF Placed, KeepsSignal
<1>2. CASE CloseUnlink
  <2> DEFINE q2 == gEventQueue'
  <2>1. /\ gEventSignalQueue' = Unlink(gEventSignalQueue, Top.ev) /\ IEvent' = IEvent
        /\ \A t \in NotifyTpls : q2[t] = Unlink(gEventQueue[t], Top.ev)
    BY <1>2 DEF CloseUnlink
  <2> HIDE DEF q2
  <2>2. Keeps(gEventQueue, q2, Top.ev)
    BY <1>0, <2>1, UnlinkQueue
  <2>3. x \in ToSet(gEventSignalQueue) /\ x # Top.ev
    BY <1>0, <2>1, UnlinkList
  <2>4. InQueue(gEventQueue, x) => InQueue(q2, x)
    BY <2>2, <2>3 DEF Keeps
  <2> QED BY <2>1, <2>3, <2>4 DEF Placed, KeepsSignal, q2
<1> QED BY <1>1, <1>2 DEF CloseStep

(* CoreCreateEventEx: the new event is not signalled. *)
LEMMA CreatePlace ==
  ASSUME IInv, LInv, NEW e \in ClientEvent, NEW r, CreateEvent(e, r),
         NEW x \in ToSet(gEventSignalQueue'), IEvent'[x].SignalCount = 1
  PROVE  Placed(x)
<1>0. /\ IEvent \in [Event -> IEvents] /\ gEventSignalQueue \in Seq(Event) /\ e \in Event
      /\ gEventQueue' = gEventQueue
  BY ListTypes DEF ClientEvent, CreateEvent, queues
<1>1. IEvent'[e].SignalCount = 0 /\ \A y \in Event : y # e => IEvent'[y] = IEvent[y]
  BY <1>0 DEF CreateEvent, NewEvent
<1>2. ToSet(gEventSignalQueue') \subseteq ToSet(gEventSignalQueue) \cup {e}
  <2>1. gEventSignalQueue' = gEventSignalQueue \/ gEventSignalQueue' = <<e>> \o gEventSignalQueue
    BY DEF CreateEvent
  <2>2. CASE gEventSignalQueue' = <<e>> \o gEventSignalQueue
    BY <1>0, <2>2, ConsList
  <2> QED BY <2>1, <2>2
<1>3. x \in ToSet(gEventSignalQueue) /\ x # e /\ x \in Event
  BY <1>0, <1>1, <1>2, ToSetMember
<1> QED BY <1>0, <1>1, <1>3 DEF Placed, KeepsSignal

(* CoreCheckEvent queues or clears an event without losing a signal of others. *)
LEMMA CheckPlace ==
  ASSUME IInv, LInv, CheckEventQueue \/ CheckEventClear,
         NEW x \in ToSet(gEventSignalQueue'), IEvent'[x].SignalCount = 1
  PROVE  Placed(x)
<1>0. /\ IEvent \in [Event -> IEvents] /\ gEventSignalQueue' = gEventSignalQueue /\ Top.ev \in Event
      /\ x \in Event /\ "SIGNAL" \in IEvent[x].Type
  <2>1. gEventSignalQueue' = gEventSignalQueue /\ Top.ev \in Event
    BY ListTypes DEF CheckEventQueue, CheckEventClear, lists, FrameOK, EventPcs
  <2> QED BY <2>1, ListTypes, ToSetMember DEF LInv, NamesOK
<1>1. CASE CheckEventClear
  <2>1. IEvent' = [IEvent EXCEPT ![Top.ev].SignalCount = 0] /\ gEventQueue' = gEventQueue
    BY <1>1 DEF CheckEventClear, queues
  <2>2. IEvent[x].SignalCount = 1
    BY <1>0, <2>1
  <2> QED BY <1>0, <2>1, <2>2 DEF Placed, KeepsSignal
<1>2. CASE CheckEventQueue
  <2>1. IEvent' = IEvent /\ (CoreNotifyEvent(Top.ev) \/ gEventQueue' = gEventQueue)
    BY <1>2 DEF CheckEventQueue, queues
  <2>2. CASE gEventQueue' = gEventQueue
    BY <1>0, <2>1, <2>2 DEF Placed, KeepsSignal
  <2>3. CASE CoreNotifyEvent(Top.ev)
    <3>1. /\ Keeps(gEventQueue, gEventQueue', Top.ev)
          /\ "SIGNAL" \in IEvent[Top.ev].Type => InQueue(gEventQueue', Top.ev)
      BY <1>0, <2>3, NotifyPlace
    <3> QED BY <1>0, <2>1, <3>1 DEF Placed, KeepsSignal, Keeps
  <2> QED BY <2>1, <2>2, <2>3
<1> QED BY <1>1, <1>2

(* The steps that CoreNotifySignalList has no part in lose no signal. *)
LEMMA QuietSignals ==
  ASSUME SingleLoad, IInv, LInv, SInv, IInv',
         QuietStep \/ CheckEventRead \/ CheckEventClear \/ WaitCheck \/ WaitForEvent
  PROVE  SInv'
<1>1. Acts(stack', ListPcs) = Acts(stack, ListPcs) /\ Acts(stack', LoopPcs) = Acts(stack, LoopPcs)
  <2>1. ListPcs \subseteq WatchedPcs /\ LoopPcs \subseteq WatchedPcs
    BY DEF ListPcs, LoopPcs, WatchedPcs
  <2> QED BY <2>1, QuietActs, WaitActs
<1>2. CASE \/ DispatchNext \/ CloseStep \/ CheckEventQueue \/ CheckEventClear
           \/ \E e \in ClientEvent : \E r \in Requests[e] : CreateEvent(e, r)
  <2>1. \A x \in ToSet(gEventSignalQueue') : IEvent'[x].SignalCount = 1 => Placed(x)
    BY <1>2, DispatchPlace, ClosePlace, CheckPlace, CreatePlace
  <2> QED BY <1>1, <2>1, QuietTop, KeepSignals
<1>3. CASE ~ (\/ DispatchNext \/ CloseStep \/ CheckEventQueue \/ CheckEventClear
              \/ \E e \in ClientEvent : \E r \in Requests[e] : CreateEvent(e, r))
  <2>1. gEventQueue' = gEventQueue /\ gEventSignalQueue' = gEventSignalQueue /\ IEvent' = IEvent
    BY <1>3 DEF QuietStep, RestoreStep, SignalRelock, RestoreTpl, NotifyReturn,
       CheckTimersAcquire, RaiseTpl, CheckEvent, CheckEventRead, WaitCheck, WaitForEvent,
       TestPending, PickPending, EnterPending, SetNewTpl, CallNotifyFunction, queues, lists
  <2>2. \A x \in ToSet(gEventSignalQueue') : IEvent'[x].SignalCount = 1 => Placed(x)
    BY <2>1 DEF Placed, KeepsSignal
  <2> QED BY <1>1, <2>2, QuietTop, KeepSignals
<1> QED BY <1>2, <1>3

(* CoreWaitForEvent signals gIdleLoopEvent. *)
LEMMA IdleSignals == ASSUME IInv, LInv, SInv, IInv', WaitIdle PROVE SInv'
<1> DEFINE f == [Top EXCEPT !.num = 1]
           s == SetTop(stack, f)
<1>1. /\ Top.pc = "wait" /\ CoreSignalEvent(gIdleLoopEvent, s)
      /\ gEventSignalQueue' = gEventSignalQueue
  BY DEF WaitIdle, Update, lists
<1>2. f.pc = "wait"
  BY <1>1, ListTypes, FrameFields
<1>3. "wait" \notin ListPcs /\ "wait" \notin LoopPcs /\ ListPcs \subseteq CallerPcs
      /\ LoopPcs \subseteq CallerPcs /\ "sig_list" \notin LoopPcs
  BY DEF ListPcs, LoopPcs, CallerPcs
<1> HIDE DEF f
<1>4. s \in Seq(Frames \cup {f})
  BY TopActs
<1>5. MoreActs(ListPcs) /\ MoreActs(LoopPcs)
  BY <1>1, <1>2, <1>3, OnwardTop
<1> HIDE DEF s
<1>6. \A x \in ToSet(gEventSignalQueue') : IEvent'[x].SignalCount = 1 => Placed(x)
  BY <1>1, <1>4, EventAssumption, SignalPlace
<1> QED BY <1>1, <1>3, <1>5, <1>6, KeepSignals DEF MoreActs

(* CoreNotifySignalList takes the lock: it is about to pass the whole list. *)
LEMMA EnterSignals == ASSUME IInv, LInv, SInv, NotifyListAcquire PROVE SInv'
<1> DEFINE f == [Top EXCEPT !.pc = "sig_loop", !.lvl = TPL_HIGH_LEVEL, !.num = 1]
           s == Front(stack)
           sq == gEventSignalQueue
<1>0. /\ Top \in Frames /\ stack \in Seq(Frames) /\ stack # <<>> /\ Top = Last(stack) /\ sq \in Seq(Event)
      /\ s \in Seq(Frames)
  BY ListTypes, FrontProperties
<1>1. /\ Top.pc = "sig_list" /\ stack' = SetTop(stack, f)
      /\ sq' = sq /\ IEvent' = IEvent /\ gEventQueue' = gEventQueue
  BY DEF NotifyListAcquire, Update, lists, queues
<1>2. f.pc = "sig_loop" /\ f.ev = Top.ev /\ f.num = 1
  BY <1>0 DEF Frames
<1> HIDE DEF f
<1>3. stack' = Append(s, f)
  BY <1>0, <1>1, SetTopAppend
<1>4. Acts(s, LoopPcs) = {} /\ Front(stack') = s
  <2>1. Front(Append(s, f)) = s
    <3>1. s \in Seq(Frames \cup {f})
      BY <1>0
    <3> QED BY <3>1, FrontOfAppend
  <2> QED BY <1>3, <2>1 DEF SInv
<1>5. /\ Acts(stack', LoopPcs) = {f}
      /\ Acts(stack', ListPcs) = Acts(s, ListPcs)
      /\ Acts(stack, ListPcs) = Acts(s, ListPcs) \cup {Top}
      /\ Acts(stack, LoopPcs) = {}
  <2>1. f.pc \in LoopPcs /\ f.pc \notin ListPcs /\ Top.pc \in ListPcs
    BY <1>1, <1>2 DEF LoopPcs, ListPcs
  <2>2. Acts(stack, LoopPcs) = {}
    BY <1>1, NoLoop
  <2> QED BY <1>0, <1>3, <1>4, <2>1, <2>2, StackActs
<1> HIDE DEF s, sq
<1>6. ASSUME NEW e \in ToSet(sq), NotLost(e, gEventQueue, stack, sq)
      PROVE  NotLost(e, gEventQueue, stack', sq)
  <2>1. CASE InQueue(gEventQueue, e)
    BY <2>1 DEF NotLost
  <2>2. CASE \E g \in Acts(s, ListPcs) : g.ev = e
    BY <1>5, <2>2 DEF NotLost
  <2>3. CASE Top.ev = e
    <3>1. PICK k \in 1..Len(sq) : sq[k] = e
      BY <1>0, ToSetMember
    <3>2. WillPass(f, e, sq)
      BY <1>2, <2>3, <3>1 DEF WillPass
    <3> QED BY <1>5, <3>2 DEF NotLost
  <2> QED BY <1>5, <1>6, <2>1, <2>2, <2>3 DEF NotLost
<1>7. ASSUME NEW e \in ToSet(sq), IEvent[e].SignalCount = 1 PROVE NotLost(e, gEventQueue, stack', sq)
  BY <1>6, <1>7 DEF SInv, sq
<1> QED BY <1>1, <1>4, <1>7 DEF SInv, sq

(* One link of the list: its event is queued if it is the one signalled. *)
LEMMA LoopSignals == ASSUME IInv, LInv, SInv, NotifyListLink PROVE SInv'
<1> DEFINE f == [Top EXCEPT !.num = @ + 1]
           s == Front(stack)
           sq == gEventSignalQueue
           q2 == gEventQueue'
           n == Top.num
           c == sq[n]
<1>0. /\ Top \in Frames /\ stack \in Seq(Frames) /\ stack # <<>> /\ Top = Last(stack) /\ sq \in Seq(Event)
      /\ s \in Seq(Frames) /\ n \in Nat /\ n # 0 /\ FrameOK(Top)
      /\ \A x \in ToSet(sq) : "SIGNAL" \in IEvent[x].Type
  <2>1. n \in Nat /\ n # 0
    BY ListTypes DEF NotifyListLink, FrameOK, Frames
  <2> QED BY <2>1, ListTypes, FrontProperties DEF LInv, NamesOK
<1>1. /\ Top.pc = "sig_loop" /\ stack' = SetTop(stack, f) /\ n <= Len(sq)
      /\ sq' = sq /\ IEvent' = IEvent
      /\ \/ CoreNotifyEvent(c)
         \/ IEvent[c].EventGroup # IEvent[Top.ev].EventGroup /\ q2 = gEventQueue
  BY DEF NotifyListLink, Update, lists, queues
<1>2. f.pc = "sig_loop" /\ f.ev = Top.ev /\ f.num = n + 1
  BY <1>0, <1>1 DEF Frames
<1>3. c \in Event /\ c \in ToSet(sq) /\ n \in 1..Len(sq)
  <2>1. n \in 1..Len(sq)
    BY <1>0, <1>1
  <2> QED BY <1>0, <2>1, ToSetMember
<1> HIDE DEF f
<1>4. stack' = Append(s, f)
  BY <1>0, <1>1, SetTopAppend
<1>5. Acts(s, LoopPcs) = {} /\ Front(stack') = s
  <2>1. Front(Append(s, f)) = s
    <3>1. s \in Seq(Frames \cup {f})
      BY <1>0
    <3> QED BY <3>1, FrontOfAppend
  <2> QED BY <1>4, <2>1 DEF SInv
<1>6. /\ Acts(stack', LoopPcs) = {f} /\ Acts(stack, LoopPcs) = {Top}
      /\ Acts(stack', ListPcs) = Acts(stack, ListPcs)
  <2>1. f.pc \in LoopPcs /\ f.pc \notin ListPcs /\ Top.pc \in LoopPcs /\ Top.pc \notin ListPcs
    BY <1>1, <1>2 DEF LoopPcs, ListPcs
  <2> QED BY <1>0, <1>4, <1>5, <2>1, StackActs
<1>7. /\ \A x : InQueue(gEventQueue, x) /\ x # c => InQueue(q2, x)
      /\ InQueue(gEventQueue, c) \/ IEvent[c].EventGroup = IEvent[Top.ev].EventGroup => InQueue(q2, c)
  <2>1. CASE CoreNotifyEvent(c)
    <3>1. Keeps(gEventQueue, q2, c) /\ InQueue(q2, c)
      BY <1>0, <1>3, <2>1, NotifyPlace
    <3> QED BY <3>1 DEF Keeps
  <2>2. CASE IEvent[c].EventGroup # IEvent[Top.ev].EventGroup /\ q2 = gEventQueue
    BY <2>2
  <2> QED BY <1>1, <2>1, <2>2
<1> HIDE DEF s, sq, q2, n
<1>8. ASSUME NEW e \in ToSet(sq), NotLost(e, gEventQueue, stack, sq)
      PROVE  NotLost(e, q2, stack', sq)
  <2>1. CASE InQueue(gEventQueue, e)
    BY <1>7, <2>1 DEF NotLost
  <2>2. CASE \E g \in Acts(stack, ListPcs) : g.ev = e
    BY <1>6, <2>2 DEF NotLost
  <2>3. CASE WillPass(Top, e, sq)
    <3>1. PICK k \in n..Len(sq) : sq[k] = e /\ e = Top.ev
      BY <2>3 DEF WillPass, n
    <3>2. CASE k = n
      <4>1. c = e
        BY <3>1, <3>2
      <4> QED BY <1>7, <3>1, <4>1 DEF NotLost
    <3>3. CASE k # n
      <4>1. k \in (n + 1)..Len(sq)
        BY <1>0, <3>3
      <4>2. WillPass(f, e, sq)
        BY <1>2, <3>1, <4>1 DEF WillPass
      <4> QED BY <1>6, <4>2 DEF NotLost
    <3> QED BY <3>2, <3>3
  <2> QED BY <1>6, <1>8, <2>1, <2>2, <2>3 DEF NotLost
<1>9. ASSUME NEW e \in ToSet(sq), IEvent[e].SignalCount = 1 PROVE NotLost(e, q2, stack', sq)
  BY <1>8, <1>9 DEF SInv, sq
<1> QED BY <1>1, <1>5, <1>9 DEF SInv, sq, q2

(* The end of the list: everything signalled has been queued. *)
LEMMA LeaveSignals == ASSUME IInv, LInv, SInv, IInv', NotifyListRelease PROVE SInv'
<1> DEFINE s == Front(stack)
           sq == gEventSignalQueue
           n == Top.num
<1>0. /\ Top \in Frames /\ stack \in Seq(Frames) /\ stack # <<>> /\ Top = Last(stack)
      /\ s \in Seq(Frames) /\ n \in Nat /\ Len(sq) \in Nat
  <2>1. n \in Nat
    BY ListTypes DEF Frames
  <2> QED BY <2>1, ListTypes, FrontProperties
<1>1. /\ Top.pc = "sig_loop" /\ n > Len(sq) /\ RestoreFromHigh(Top.new, s)
      /\ sq' = sq /\ IEvent' = IEvent /\ gEventQueue' = gEventQueue
  BY DEF NotifyListRelease, lists, queues
<1>2. Acts(s, LoopPcs) = {} /\ Acts(stack, LoopPcs) = {Top} /\ Acts(s, ListPcs) = Acts(stack, ListPcs)
  <2>1. Acts(s, LoopPcs) = {} /\ Top.pc \in LoopPcs /\ Top.pc \notin ListPcs
    BY <1>1 DEF SInv, LoopPcs, ListPcs
  <2> QED BY <1>0, <2>1, StackActs
<1>3. Acts(stack', LoopPcs) = {} /\ Acts(stack', ListPcs) = Acts(stack, ListPcs)
  <2>1. "acquire" \notin LoopPcs /\ "acquire" \notin ListPcs
    BY DEF LoopPcs, ListPcs
  <2> QED BY <1>0, <1>1, <1>2, <2>1, RestoreActs
<1>4. Acts(Front(stack'), LoopPcs) = {}
  <2> DEFINE u == stack'
  <2>1. u \in Seq(Frames) /\ u # <<>> /\ Acts(u, LoopPcs) = {}
    BY <1>3 DEF IInv, StackInv, StackOK
  <2> HIDE DEF u
  <2>2. Acts(Front(u), LoopPcs) \subseteq Acts(u, LoopPcs)
    BY <2>1, StackActs
  <2> QED BY <2>1, <2>2 DEF u
<1>5. ASSUME NEW e PROVE ~ WillPass(Top, e, sq)
  BY <1>0, <1>1 DEF WillPass
<1>6. ASSUME NEW e \in ToSet(sq), IEvent[e].SignalCount = 1 PROVE NotLost(e, gEventQueue, stack', sq)
  <2>1. NotLost(e, gEventQueue, stack, sq)
    BY <1>6 DEF SInv
  <2> HIDE DEF sq
  <2> QED BY <1>2, <1>3, <1>5, <2>1 DEF NotLost
<1> QED BY <1>1, <1>4, <1>6 DEF SInv

(* No signal is lost at the start. *)
LEMMA InitSignals == ASSUME Init PROVE SInv
<1> DEFINE f == Frame("app", TPL_APPLICATION, TPL_APPLICATION, NoEvent, 0)
<1>1. stack = <<f>> /\ gEventSignalQueue = <<gIdleLoopEvent, mEfiCheckTimerEvent>>
  BY DEF Init
<1>2. \A e \in Event : IEvent[e].SignalCount = 0
  <2>1. ASSUME NEW e \in Event PROVE IEvent[e].SignalCount = 0
    <3>1. IEvent[e] = IF e = mEfiCheckTimerEvent THEN NewEvent({"SIGNAL"}, TPL_HIGH_LEVEL - 1, NoGroup)
                      ELSE IF e = gIdleLoopEvent THEN NewEvent({"SIGNAL"}, TPL_NOTIFY, IdleLoopGroup)
                      ELSE [NewEvent({}, 0, NoGroup) EXCEPT !.Signature = FALSE]
      BY EventAssumption DEF Init
    <3> QED BY <3>1 DEF NewEvent
  <2> QED BY <2>1
<1>3. ToSet(gEventSignalQueue) \subseteq Event
  BY <1>1, EventAssumption DEF ToSet
<1>4. Acts(Front(stack), LoopPcs) = {}
  <2>1. stack \in Seq({f}) /\ stack # <<>> /\ Len(stack) = 1
    BY <1>1
  <2> HIDE DEF f
  <2>2. Front(stack) \in Seq({f}) /\ Len(Front(stack)) = 0
    BY <2>1, FrontProperties
  <2>3. ToSet(Front(stack)) = {}
    BY <2>2 DEF ToSet
  <2> QED BY <2>3 DEF Acts
<1> QED BY <1>2, <1>3, <1>4 DEF SInv

(* No step loses a signal. *)
LEMMA NextSignals ==
  ASSUME SingleLoad
  PROVE  IInv /\ LInv /\ SInv /\ IInv' /\ [Next]_vars => SInv'
<1> SUFFICES ASSUME IInv, LInv, SInv, IInv', [Next]_vars PROVE SInv'
  OBVIOUS
<1>1. CASE QuietStep \/ CheckEventRead \/ CheckEventClear \/ WaitCheck \/ WaitForEvent
  BY <1>1, QuietSignals
<1>2. CASE WorkStep
  BY <1>2, WorkSignals
<1>3. CASE NotifyListAcquire \/ NotifyListLink \/ NotifyListRelease \/ WaitIdle
  BY <1>3, EnterSignals, LoopSignals, LeaveSignals, IdleSignals
<1>4. CASE UNCHANGED vars
  BY <1>4 DEF vars, SInv
<1>5. CASE ClientStep
  BY <1>1, <1>2, <1>5 DEF ClientStep, QuietStep, WorkStep
<1>6. CASE CoreStep \/ RestoreTpl \/ NotifyReturn \/ TimerInterrupt
  BY <1>1, <1>2, <1>3, <1>6 DEF CoreStep, QuietStep, WorkStep, SignalStep, WaitStep
<1> QED BY <1>4, <1>5, <1>6 DEF Next

(* For the builds and clients of DxeListProofs, CoreNotifySignalList is innermost
   while it goes through its list, and no signal is lost. *)
THEOREM SignalsInductive == SingleLoad /\ RespectClose => (Spec => []SInv)
<1> SUFFICES ASSUME SingleLoad, RespectClose PROVE Spec => []SInv
  OBVIOUS
<1>1. Init => SInv
  BY InitSignals
<1>2. IInv /\ LInv /\ SInv /\ IInv' /\ [Next]_vars => SInv'
  BY NextSignals
<1> QED BY <1>1, <1>2, Inductive, ListsInductive, PTL DEF Spec

(* An event with a notification function that is in the signalled state, in which
   CoreSignalEvent ignores it, is queued or about to be: no event is dead. *)
THEOREM SignalledAlwaysQueued == SingleLoad /\ RespectClose => (Spec => []SignalledIsQueued)
<1> SUFFICES ASSUME SingleLoad, RespectClose PROVE Spec => []SignalledIsQueued
  OBVIOUS
<1>1. IInv /\ LInv /\ SInv => SignalledIsQueued
  <2> SUFFICES ASSUME IInv, LInv, SInv,
                      NEW e \in ToSet(gEventSignalQueue), IEvent[e].SignalCount = 1
               PROVE  \/ Queued(e)
                      \/ \E i \in DOMAIN stack : stack[i].pc = "sig_list" /\ stack[i].ev = e
                      \/ /\ Top.pc = "sig_loop" /\ Top.ev = e
                         /\ \E k \in Top.num..Len(gEventSignalQueue) : gEventSignalQueue[k] = e
    BY DEF SignalledIsQueued
  <2>1. NotLost(e, gEventQueue, stack, gEventSignalQueue)
    BY DEF SInv
  <2>2. CASE InQueue(gEventQueue, e)
    BY <2>2 DEF InQueue, Queued
  <2>3. CASE \E f \in Acts(stack, ListPcs) : f.ev = e
    <3>1. PICK f \in ToSet(stack) : f.pc = "sig_list" /\ f.ev = e
      BY <2>3 DEF Acts, ListPcs
    <3>2. PICK i \in DOMAIN stack : stack[i] = f
      BY DEF ToSet
    <3> QED BY <3>1, <3>2
  <2>4. CASE \E f \in Acts(stack, LoopPcs) : WillPass(f, e, gEventSignalQueue)
    <3>1. Top.pc = "sig_loop"
      BY <2>4, NoLoop
    <3>2. Acts(stack, LoopPcs) = {Top}
      <4>1. stack \in Seq(Frames) /\ stack # <<>> /\ Top = Last(stack) /\ Top.pc \in LoopPcs
        BY <3>1, ListTypes DEF LoopPcs
      <4> QED BY <4>1, StackActs DEF SInv
    <3> QED BY <2>4, <3>1, <3>2 DEF WillPass
  <2> QED BY <2>1, <2>2, <2>3, <2>4 DEF NotLost
<1> QED BY <1>1, Inductive, ListsInductive, SignalsInductive, PTL

-----------------------------------------------------------------------------
(* CoreWaitForEvent *)

WaitPcs == {"wait"}

(* Waiting is to have an activation of CoreWaitForEvent. *)
LEMMA WaitingActs == Waiting <=> Acts(stack, WaitPcs) # {}
<1>1. Waiting <=> \E f \in ToSet(stack) : f.pc = "wait"
  BY DEF Waiting, ToSet
<1> QED BY <1>1 DEF Acts, WaitPcs

(* CoreCheckEvent returns to CoreWaitForEvent, and through it with success only. *)
LEMMA ReturnWaits ==
  ASSUME IInv, LInv, Top.pc \in {"chk_read", "chk_clear"}, NEW ready \in BOOLEAN,
         Acts(stack, WaitPcs) # {}
  PROVE  \/ Acts(ReturnFromCheck(ready), WaitPcs) # {}
         \/ ready /\ Top.ev \in ToSet(UserEvents)
<1> DEFINE s == Front(stack)
           n == Len(stack)
           f == [Last(s) EXCEPT !.num = @ + 1]
<1>1. /\ stack \in Seq(Frames) /\ stack # <<>> /\ n \in Nat \ {0} /\ Top = stack[n]
      /\ s \in Seq(Frames) /\ s # <<>> /\ Len(s) = n - 1 /\ Last(s) = s[Len(s)] /\ Last(s) \in Frames
      /\ \A i \in 1..(n - 1) : s[i] = stack[i]
      /\ StackLink(stack, IEvent, Linked, Armed)
  BY ListTypes, PopTop, FrontProperties
<1>2. Top.pc \notin WaitPcs /\ Top.pc \in CheckPcs
  BY DEF WaitPcs, CheckPcs
<1>3. Acts(s, WaitPcs) # {}
  BY <1>2, TopActs
<1>4. CASE Last(s).pc # "wait"
  BY <1>3, <1>4 DEF ReturnFromCheck
<1>5. CASE Last(s).pc = "wait" /\ ~ ready
  <2>1. ReturnFromCheck(ready) = SetTop(s, f)
    BY <1>5 DEF ReturnFromCheck
  <2>2. f.pc \in WaitPcs
    BY <1>1, <1>5 DEF Frames, WaitPcs
  <2> HIDE DEF f, s
  <2>3. f \in Acts(SetTop(s, f), WaitPcs)
    BY <1>1, <2>2, StackActs
  <2> QED BY <2>1, <2>3
<1>6. CASE Last(s).pc = "wait" /\ ready
  <2>1. n - 1 \in 1..(n - 1) /\ (n - 1) + 1 = n
    <3>1. Len(s) \in Nat \ {0}
      BY <1>1, FrontProperties
    <3> QED BY <1>1, <3>1
  <2>2. NextLink(stack[n - 1], stack[n], Armed) /\ stack[n - 1] = Last(s)
    BY <1>1, <2>1 DEF StackLink
  <2> QED BY <1>1, <1>2, <1>6, <2>2 DEF NextLink
<1> QED BY <1>4, <1>5, <1>6

(* The steps after which CoreWaitForEvent may have returned. *)
LEMMA StepWaits ==
  ASSUME SingleLoad, IInv, LInv, [Next]_vars, Top.pc # "wait", Acts(stack, WaitPcs) # {}
  PROVE  Acts(stack', WaitPcs) # {} \/ CheckEventRead \/ CheckEventClear
<1>0. stack \in Seq(Frames) /\ Top \in Frames /\ WaitPcs \subseteq CallerPcs
  BY ListTypes DEF WaitPcs, CallerPcs
<1>1. CASE QuietStep
  BY <1>1, QuietActs DEF WaitPcs
<1>2. CASE WorkStep
  BY <1>0, <1>2, WorkActs DEF MoreActs
<1>3. CASE NotifyListAcquire \/ NotifyListLink
  <2>1. Top.pc \notin WaitPcs /\ \E f : f.pc \notin WaitPcs /\ stack' = SetTop(stack, f)
    BY <1>0, <1>3 DEF NotifyListAcquire, NotifyListLink, Update, Frames, WaitPcs
  <2> QED BY <2>1, TopActs
<1>4. CASE NotifyListRelease
  <2>1. Top.pc \notin WaitPcs /\ "acquire" \notin WaitPcs /\ RestoreFromHigh(Top.new, Front(stack))
    BY <1>4 DEF NotifyListRelease, WaitPcs
  <2> QED BY <2>1, TopActs, RestoreActs
<1>5. CASE WaitForEvent
  <2>1. \E f : stack' = Append(stack, f)
    BY <1>5 DEF WaitForEvent, Call
  <2> QED BY <1>0, <2>1, StackActs
<1>6. ~ WaitCheck /\ ~ WaitIdle
  BY DEF WaitCheck, WaitIdle
<1>7. CASE UNCHANGED vars
  BY <1>7 DEF vars
<1>8. CASE ClientStep
  BY <1>1, <1>2, <1>5, <1>8 DEF ClientStep, QuietStep, WorkStep
<1>9. CASE CoreStep \/ RestoreTpl \/ NotifyReturn \/ TimerInterrupt
  BY <1>1, <1>2, <1>3, <1>4, <1>6, <1>9 DEF CoreStep, QuietStep, WorkStep, SignalStep, WaitStep
<1> QED BY <1>7, <1>8, <1>9 DEF Next

(* What CoreWaitForEvent consumes when it returns in one step. *)
LEMMA WaitStepConsumes ==
  ASSUME SingleLoad, IInv, LInv, [Next]_vars, Waiting, ~ Waiting', Top.pc # "wait"
  PROVE  \E e \in ToSet(UserEvents) : IEvent[e].SignalCount = 1 /\ IEvent'[e].SignalCount = 0
<1>1. Acts(stack, WaitPcs) # {}
  BY WaitingActs
<1>2. Acts(stack', WaitPcs) = {}
  <2>1. \A f \in ToSet(stack') : f.pc # "wait"
    BY DEF Waiting, ToSet
  <2> QED BY <2>1 DEF Acts, WaitPcs
<1>3. CASE CheckEventRead
  <2>1. /\ Top.pc = "chk_read"
        /\ \/ stack' = SetTop(stack, [Top EXCEPT !.pc = "chk_clear"])
           \/ stack' = ReturnFromCheck(FALSE)
    BY <1>3 DEF CheckEventRead, Goto, Update
  <2>2. [Top EXCEPT !.pc = "chk_clear"].pc \notin WaitPcs /\ Top.pc \notin WaitPcs
    BY <2>1, ListTypes, FrameFields DEF WaitPcs
  <2> QED BY <1>1, <1>2, <2>1, <2>2, TopActs, ReturnWaits
<1>4. CASE CheckEventClear
  <2> DEFINE ready == IEvent[Top.ev].SignalCount # 0
  <2>1. /\ Top.pc = "chk_clear" /\ RestoreFromHigh(gEfiCurrentTpl, ReturnFromCheck(ready)) /\ ready \in BOOLEAN
        /\ IEvent' = [IEvent EXCEPT ![Top.ev].SignalCount = 0]
    BY <1>4 DEF CheckEventClear
  <2>2. Top.ev \in Event /\ IEvent \in [Event -> IEvents] /\ IEvent[Top.ev].SignalCount \in 0..1
    <3>1. Top.ev \in Event /\ IEvent \in [Event -> IEvents]
      BY <2>1, ListTypes DEF FrameOK, EventPcs
    <3> QED BY <3>1 DEF IEvents
  <2>3. IEvent'[Top.ev].SignalCount = 0
    BY <2>1, <2>2
  <2>4. ready => IEvent[Top.ev].SignalCount = 1
    BY <2>2
  <2> HIDE DEF ready
  <2>5. Acts(stack', WaitPcs) = Acts(ReturnFromCheck(ready), WaitPcs)
    <3>1. ReturnFromCheck(ready) \in Seq(Frames)
      BY <2>1, ListTypes, ReturnLink
    <3>2. "acquire" \notin WaitPcs
      BY DEF WaitPcs
    <3> QED BY <2>1, <3>1, <3>2, RestoreActs
  <2>6. ready /\ Top.ev \in ToSet(UserEvents)
    BY <1>1, <1>2, <2>1, <2>5, ReturnWaits
  <2> QED BY <2>3, <2>4, <2>6
<1> QED BY <1>1, <1>2, <1>3, <1>4, StepWaits

(* CoreWaitForEvent returns success only in a step that clears the signal of one
   of the caller's events, whatever notification functions did meanwhile. *)
THEOREM WaitAlwaysConsumes == SingleLoad /\ RespectClose => (Spec => WaitConsumes)
<1> SUFFICES ASSUME SingleLoad, RespectClose PROVE Spec => WaitConsumes
  OBVIOUS
<1>1. IInv /\ LInv /\ [Next]_vars =>
        [Waiting /\ ~ Waiting' /\ Top.pc # "wait" =>
           \E e \in ToSet(UserEvents) :
             IEvent[e].SignalCount = 1 /\ IEvent'[e].SignalCount = 0]_vars
  BY WaitStepConsumes
<1> QED BY <1>1, Inductive, ListsInductive, PTL DEF Spec, WaitConsumes

=============================================================================
