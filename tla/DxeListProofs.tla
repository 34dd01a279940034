---------------------------- MODULE DxeListProofs ----------------------------
(* Proofs about the lists of DxeEvent: the notification queues, the list of all
   SIGNAL events, the timer list and the activations that work on their members,
   for clients that do not use an event another one is closing. *)
EXTENDS DxeEventProofs

-----------------------------------------------------------------------------
(* The inductive invariant *)

(* Activations that use no event. *)
NoEventPcs == {"raised", "test", "pick", "compare", "set", "acquire", "sig_relock", "wait"}
ClosePcs == {"cl_unlink", "cl_free"}
CheckPcs == {"chk_queue", "chk_read", "chk_clear"}
SetTimePcs == {"st_time", "st_insert"}
DueTimerPcs == {"ct_signal", "ct_period", "ct_again", "ct_insert"}

(* The events on a list other than the timer list, and those on the timer list. *)
InQueue(q, e) == \E t \in NotifyTpls : e \in ToSet(q[t])
LinkedIn(q, sq, rt) == {e \in Event : InQueue(q, e)} \cup ToSet(sq) \cup ToSet(rt)
Linked == LinkedIn(gEventQueue, gEventSignalQueue, RuntimeEventHead)
Armed == ToSet(mEfiTimerList)

(* Activations that keep their event to themselves: all but clients and the
   dispatcher, which nothing protects against a CoreCloseEvent. *)
Uses(f, e) == f.pc \notin ClientPcs \cup {"notify"} /\ f.ev = e

(* An activation and the event it works on, when ie are the IEVENTs, linked the
   events on lists and armed those on the timer list. *)
FrameLink(f, ie, linked, armed) ==
  /\ f.pc \in NoEventPcs => f.ev = NoEvent
  /\ f.pc \notin ClientPcs \cup {"notify"} /\ f.ev \in Event => ie[f.ev].Signature
  /\ f.pc = "raised" => f.new < f.lvl
  /\ f.pc \in ClosePcs => f.ev \in ClientEvent
  /\ f.pc = "cl_free" => f.ev \notin linked
  /\ f.pc \in LockedSetPcs \cup DueTimerPcs => "TIMER" \in ie[f.ev].Type
  /\ f.pc \in SetTimePcs \cup DueTimerPcs => f.ev \notin armed

(* Two activations, f below g: who closes an event has it for itself. *)
PairLink(f, g) ==
  /\ f.pc \in ClosePcs /\ Uses(g, f.ev) =>
       f.pc = "cl_unlink" /\ g.pc \in {"TimerCancel", "st_release"}
  /\ g.pc \in ClosePcs => ~ Uses(f, g.ev)
  /\ f.pc = "wait" /\ g.pc \in ClosePcs => g.ev \notin ToSet(UserEvents)
  /\ g.pc = "wait" /\ f.pc \in ClosePcs => f.ev \notin ToSet(UserEvents)

(* An event that is being closed is on the timer list only while its timer is
   about to be cancelled, and CoreWaitForEvent checks its own events. *)
CloseTimer(f, armed) == f.pc \in ClosePcs => f.ev \notin armed
NextLink(f, g, armed) ==
  /\ CloseTimer(f, armed) \/ (g.pc = "TimerCancel" /\ g.ev = f.ev)
  /\ f.pc = "wait" /\ g.pc \in CheckPcs => g.ev \in ToSet(UserEvents)

StackLink(s, ie, linked, armed) ==
  /\ \A i \in 1..Len(s) : FrameLink(s[i], ie, linked, armed)
  /\ \A i, j \in 1..Len(s) : i < j => PairLink(s[i], s[j])
  /\ \A i \in 1..(Len(s) - 1) : NextLink(s[i], s[i + 1], armed)
  /\ CloseTimer(s[Len(s)], armed)

(* The core's own events are never freed, a freed event is on no list, and only
   timer events are on the timer list. *)
EventLink(ie, linked, armed) ==
  /\ ie[mEfiCheckTimerEvent].Signature /\ ie[gIdleLoopEvent].Signature
  /\ \A e \in Event : NotifyType(ie[e].Type) => ie[e].NotifyTpl \in NotifyTpls
  /\ \A e \in Event : ~ ie[e].Signature => e \notin linked \cup armed
  /\ \A e \in armed : "TIMER" \in ie[e].Type

(* The lists by themselves. *)
QueuesOK(q, pending, ie) ==
  \A t \in NotifyTpls :
    /\ q[t] # <<>> => t \in pending
    /\ IsInjective(q[t])
    /\ \A e \in ToSet(q[t]) : ie[e].NotifyTpl = t
NamesOK(sq, rt, ie) ==
  /\ IsInjective(sq) /\ IsInjective(rt)
  /\ \A e \in ToSet(sq) : "SIGNAL" \in ie[e].Type
TimersOK(tl, ie) ==
  \A i, j \in 1..Len(tl) : i < j => /\ tl[i] # tl[j]
                                    /\ ie[tl[i]].TriggerTime <= ie[tl[j]].TriggerTime

LInv ==
  /\ EventLink(IEvent, Linked, Armed)
  /\ QueuesOK(gEventQueue, gEventPending, IEvent)
  /\ NamesOK(gEventSignalQueue, RuntimeEventHead, IEvent)
  /\ TimersOK(mEfiTimerList, IEvent)
  /\ StackLink(stack, IEvent, Linked, Armed)

-----------------------------------------------------------------------------
(* Stacks *)

(* t is the stack s with f on top. *)
Pushed(t, s, f) ==
  /\ t # <<>> /\ Len(s) \in Nat /\ Len(t) = Len(s) + 1
  /\ \A i \in 1..Len(s) : t[i] = s[i]
  /\ t[Len(s) + 1] = f /\ Last(t) = f

(* What Append makes of a stack. *)
LEMMA AppendShape ==
  ASSUME NEW S, NEW s \in Seq(S), NEW f
  PROVE  Append(s, f) \in Seq(S \cup {f}) /\ Pushed(Append(s, f), s, f)
<1>1. s \in Seq(S \cup {f}) /\ f \in S \cup {f}
  OBVIOUS
<1>2. /\ Append(s, f) \in Seq(S \cup {f})
      /\ Len(s) \in Nat /\ Len(Append(s, f)) = Len(s) + 1
      /\ \A i \in 1..Len(s) : Append(s, f)[i] = s[i]
      /\ Append(s, f)[Len(s) + 1] = f
  BY <1>1, AppendProperties
<1> QED BY <1>2 DEF Last, Pushed

(* All of StackLink but that the innermost activation, when it closes an event,
   has cancelled its timer. *)
BodyLink(s, ie, linked, armed) ==
  /\ \A i \in 1..Len(s) : FrameLink(s[i], ie, linked, armed)
  /\ \A i, j \in 1..Len(s) : i < j => PairLink(s[i], s[j])
  /\ \A i \in 1..(Len(s) - 1) : NextLink(s[i], s[i + 1], armed)

(* A call. *)
LEMMA PushBody ==
  ASSUME NEW S, NEW s \in Seq(S), s # <<>>, NEW f, NEW ie, NEW linked, NEW armed,
         BodyLink(s, ie, linked, armed),
         FrameLink(f, ie, linked, armed), NextLink(Last(s), f, armed),
         \A i \in 1..Len(s) : PairLink(s[i], f)
  PROVE  BodyLink(Append(s, f), ie, linked, armed)
<1> DEFINE t == Append(s, f)
           n == Len(s)
<1>1. /\ n \in Nat \ {0} /\ Len(t) = n + 1
      /\ \A i \in 1..n : t[i] = s[i]
      /\ t[n + 1] = f
      /\ Last(s) = s[n]
  BY AppendShape DEF Pushed, Last
<1> HIDE DEF t, n
<1>2. /\ \A i \in 1..n : FrameLink(s[i], ie, linked, armed)
      /\ \A i, j \in 1..n : i < j => PairLink(s[i], s[j])
      /\ \A i \in 1..(n - 1) : NextLink(s[i], s[i + 1], armed)
  BY DEF BodyLink, n
<1>3. \A i \in 1..(n + 1) : FrameLink(t[i], ie, linked, armed)
  BY <1>1, <1>2
<1>4. \A i, j \in 1..(n + 1) : i < j => PairLink(t[i], t[j])
  <2> SUFFICES ASSUME NEW i \in 1..(n + 1), NEW j \in 1..(n + 1), i < j PROVE PairLink(t[i], t[j])
    OBVIOUS
  <2>1. t[i] = s[i] /\ i \in 1..n
    BY <1>1
  <2>2. CASE j = n + 1
    BY <1>1, <2>1, <2>2 DEF n
  <2>3. CASE j \in 1..n
    BY <1>1, <1>2, <2>1, <2>3
  <2> QED BY <1>1, <2>2, <2>3
<1>5. \A i \in 1..n : NextLink(t[i], t[i + 1], armed)
  <2> SUFFICES ASSUME NEW i \in 1..n PROVE NextLink(t[i], t[i + 1], armed)
    OBVIOUS
  <2>1. CASE i = n
    <3>1. t[i] = s[n] /\ t[i + 1] = f
      BY <1>1, <2>1
    <3> QED BY <1>1, <3>1
  <2>2. CASE i \in 1..(n - 1)
    <3>1. i + 1 \in 1..n
      BY <1>1, <2>2
    <3> QED BY <1>1, <1>2, <2>2, <3>1
  <2> QED BY <1>1, <2>1, <2>2
<1>6. n = (n + 1) - 1
  BY <1>1
<1> QED BY <1>1, <1>3, <1>4, <1>5, <1>6 DEF BodyLink, t

(* The two parts of StackLink. *)
LEMMA LinkParts ==
  ASSUME NEW s, NEW ie, NEW linked, NEW armed
  PROVE  StackLink(s, ie, linked, armed) <=>
           BodyLink(s, ie, linked, armed) /\ CloseTimer(s[Len(s)], armed)
BY DEF StackLink, BodyLink

(* A call by an activation that is not about to cancel a timer for its caller. *)
LEMMA PushLink ==
  ASSUME NEW S, NEW s \in Seq(S), s # <<>>, NEW f, NEW ie, NEW linked, NEW armed,
         StackLink(s, ie, linked, armed),
         FrameLink(f, ie, linked, armed), CloseTimer(f, armed),
         \A i \in 1..Len(s) : PairLink(s[i], f),
         Last(s).pc = "wait" /\ f.pc \in CheckPcs => f.ev \in ToSet(UserEvents)
  PROVE  StackLink(Append(s, f), ie, linked, armed)
<1>1. BodyLink(s, ie, linked, armed) /\ CloseTimer(s[Len(s)], armed)
  BY LinkParts
<1>2. Last(s) = s[Len(s)]
  BY DEF Last
<1>3. NextLink(Last(s), f, armed)
  BY <1>1, <1>2 DEF NextLink
<1>4. BodyLink(Append(s, f), ie, linked, armed)
  BY <1>1, <1>3, PushBody
<1>5. Append(s, f)[Len(Append(s, f))] = f
  BY AppendShape DEF Pushed
<1> QED BY <1>4, <1>5, LinkParts

(* A return. *)
LEMMA PopLink ==
  ASSUME NEW S, NEW s \in Seq(S), Len(s) > 1, NEW ie, NEW linked, NEW armed,
         StackLink(s, ie, linked, armed), Last(s).pc # "TimerCancel"
  PROVE  StackLink(Front(s), ie, linked, armed)
<1> DEFINE t == Front(s)
           n == Len(s)
<1>1. Len(s) \in Nat /\ Len(s) > 1 /\ s # <<>>
  <2>1. Len(s) \in Nat /\ Len(s) > 1
    OBVIOUS
  <2> QED BY <2>1
<1>2. /\ n \in Nat /\ n > 1 /\ Len(t) = n - 1
      /\ \A i \in 1..(n - 1) : t[i] = s[i]
      /\ Last(s) = s[n]
  BY <1>1, FrontProperties
<1> HIDE DEF t, n
<1>3. /\ \A i \in 1..n : FrameLink(s[i], ie, linked, armed)
      /\ \A i, j \in 1..n : i < j => PairLink(s[i], s[j])
      /\ \A i \in 1..(n - 1) : NextLink(s[i], s[i + 1], armed)
  BY DEF StackLink, n
<1>4. /\ \A i \in 1..(n - 1) : FrameLink(t[i], ie, linked, armed)
      /\ \A i, j \in 1..(n - 1) : i < j => PairLink(t[i], t[j])
  BY <1>2, <1>3
<1>5. \A i \in 1..(n - 1 - 1) : NextLink(t[i], t[i + 1], armed)
  <2> SUFFICES ASSUME NEW i \in 1..(n - 1 - 1) PROVE NextLink(t[i], t[i + 1], armed)
    OBVIOUS
  <2>1. i \in 1..(n - 1) /\ i + 1 \in 1..(n - 1)
    BY <1>2
  <2> QED BY <1>2, <1>3, <2>1
<1>6. CloseTimer(t[n - 1], armed)
  <2>1. n - 1 \in 1..(n - 1) /\ (n - 1) + 1 = n
    BY <1>2
  <2>2. NextLink(s[n - 1], s[n], armed) /\ t[n - 1] = s[n - 1]
    BY <1>2, <1>3, <2>1
  <2> QED BY <1>2, <2>2 DEF NextLink
<1> QED BY <1>2, <1>4, <1>5, <1>6 DEF StackLink, t

(* The innermost activation goes on. *)
LEMMA UpdateLink ==
  ASSUME NEW S, NEW s \in Seq(S), s # <<>>, NEW f, NEW ie, NEW linked, NEW armed,
         StackLink(s, ie, linked, armed),
         FrameLink(f, ie, linked, armed), CloseTimer(f, armed),
         \A i \in 1..(Len(s) - 1) : PairLink(s[i], f),
         Len(s) > 1 => NextLink(s[Len(s) - 1], f, armed)
  PROVE  StackLink(SetTop(s, f), ie, linked, armed)
<1> DEFINE t == SetTop(s, f)
           n == Len(s)
<1>0. /\ n \in Nat \ {0} /\ Len(t) = n
      /\ \A i \in 1..n : i # n => t[i] = s[i]
      /\ t[n] = f
  <2>1. s \in Seq(S \cup {f}) /\ Len(s) \in Nat \ {0}
    OBVIOUS
  <2> QED BY <2>1 DEF SetTop
<1> HIDE DEF t, n
<1>1. /\ n \in Nat \ {0} /\ Len(t) = n
      /\ \A i \in 1..(n - 1) : t[i] = s[i]
      /\ t[n] = f
  BY <1>0
<1>2. /\ \A i \in 1..n : FrameLink(s[i], ie, linked, armed)
      /\ \A i, j \in 1..n : i < j => PairLink(s[i], s[j])
      /\ \A i \in 1..(n - 1) : NextLink(s[i], s[i + 1], armed)
  BY DEF StackLink, n
<1>3. \A i \in 1..n : FrameLink(t[i], ie, linked, armed)
  <2> SUFFICES ASSUME NEW i \in 1..n PROVE FrameLink(t[i], ie, linked, armed)
    OBVIOUS
  <2>1. i = n \/ i \in 1..(n - 1)
    BY <1>1
  <2> QED BY <1>1, <1>2, <2>1
<1>4. \A i, j \in 1..n : i < j => PairLink(t[i], t[j])
  <2> SUFFICES ASSUME NEW i \in 1..n, NEW j \in 1..n, i < j PROVE PairLink(t[i], t[j])
    OBVIOUS
  <2>1. t[i] = s[i] /\ i \in 1..(n - 1)
    BY <1>1
  <2>2. CASE j = n
    BY <1>1, <2>1, <2>2 DEF n
  <2>3. CASE j \in 1..(n - 1)
    BY <1>1, <1>2, <2>1, <2>3
  <2> QED BY <1>1, <2>2, <2>3
<1>5. \A i \in 1..(n - 1) : NextLink(t[i], t[i + 1], armed)
  <2> SUFFICES ASSUME NEW i \in 1..(n - 1) PROVE NextLink(t[i], t[i + 1], armed)
    OBVIOUS
  <2>1. CASE i = n - 1
    <3>1. t[i] = s[n - 1] /\ t[i + 1] = f /\ n > 1
      BY <1>1, <2>1
    <3> QED BY <3>1 DEF n
  <2>2. CASE i + 1 \in 1..(n - 1)
    BY <1>1, <1>2, <2>2
  <2> QED BY <1>1, <2>1, <2>2
<1> QED BY <1>1, <1>3, <1>4, <1>5 DEF StackLink, t

(* The innermost activation goes on with its event. *)
LEMMA MoveLink ==
  ASSUME NEW S, NEW s \in Seq(S), s # <<>>, NEW f, NEW ie, NEW linked, NEW armed,
         StackLink(s, ie, linked, armed),
         FrameLink(f, ie, linked, armed), CloseTimer(f, armed),
         f.ev = Last(s).ev, Last(s).pc \notin ClientPcs \cup {"notify"},
         f.pc \in ClosePcs => Last(s).pc \in ClosePcs,
         f.pc = "wait" => Last(s).pc = "wait",
         f.pc \in CheckPcs => Last(s).pc \in CheckPcs,
         Last(s).pc = "TimerCancel" => Last(s).ev \notin armed,
         Last(s).pc \in {"TimerCancel", "st_release"} => f.pc \in {"TimerCancel", "st_release"}
  PROVE  StackLink(SetTop(s, f), ie, linked, armed)
<1> DEFINE n == Len(s)
<1>1. n \in Nat \ {0} /\ Last(s) = s[n]
  BY DEF Last
<1> HIDE DEF n
<1>2. /\ \A i, j \in 1..n : i < j => PairLink(s[i], s[j])
      /\ \A i \in 1..(n - 1) : NextLink(s[i], s[i + 1], armed)
  BY DEF StackLink, n
<1>3. ASSUME NEW i \in 1..(n - 1) PROVE PairLink(s[i], f)
  <2>1. PairLink(s[i], Last(s))
    BY <1>1, <1>2
  <2> QED BY <2>1 DEF PairLink, Uses, ClosePcs, ClientPcs
<1>4. ASSUME n > 1 PROVE NextLink(s[n - 1], f, armed)
  <2>1. n - 1 \in 1..(n - 1) /\ (n - 1) + 1 = n
    BY <1>1, <1>4
  <2>2. NextLink(s[n - 1], Last(s), armed)
    BY <1>1, <1>2, <2>1
  <2> QED BY <2>2 DEF NextLink, CloseTimer
<1> QED BY <1>3, <1>4, UpdateLink DEF n

(* The innermost activation goes on, or calls another one, which uses no event
   of a client. *)
LEMMA IdleLink ==
  ASSUME NEW S, NEW s \in Seq(S), s # <<>>, NEW f, NEW ie, NEW linked, NEW armed,
         StackLink(s, ie, linked, armed),
         FrameLink(f, ie, linked, armed),
         f.pc \notin ClosePcs \cup CheckPcs \cup {"wait"},
         f.pc \in ClientPcs \/ f.ev \notin ClientEvent
  PROVE  /\ StackLink(Append(s, f), ie, linked, armed)
         /\ Last(s).pc # "TimerCancel" => StackLink(SetTop(s, f), ie, linked, armed)
<1> DEFINE n == Len(s)
<1>1. n \in Nat \ {0} /\ Last(s) = s[n]
  BY DEF Last
<1> HIDE DEF n
<1>2. /\ \A i \in 1..n : FrameLink(s[i], ie, linked, armed)
      /\ \A i \in 1..(n - 1) : NextLink(s[i], s[i + 1], armed)
  BY DEF StackLink, n
<1>3. ASSUME NEW i \in 1..n PROVE PairLink(s[i], f)
  <2>1. s[i].pc \in ClosePcs => s[i].ev \in ClientEvent
    BY <1>2 DEF FrameLink
  <2> QED BY <2>1 DEF PairLink, Uses
<1>4. ASSUME n > 1, Last(s).pc # "TimerCancel" PROVE NextLink(s[n - 1], f, armed)
  <2>1. n - 1 \in 1..(n - 1) /\ (n - 1) + 1 = n
    BY <1>1, <1>4
  <2>2. NextLink(s[n - 1], Last(s), armed)
    BY <1>1, <1>2, <2>1
  <2> QED BY <1>4, <2>2 DEF NextLink
<1>5. CloseTimer(f, armed)
  BY DEF CloseTimer
<1>6. StackLink(Append(s, f), ie, linked, armed)
  BY <1>3, <1>5, PushLink DEF n
<1>7. ASSUME Last(s).pc # "TimerCancel" PROVE StackLink(SetTop(s, f), ie, linked, armed)
  <2>1. \A i \in 1..(n - 1) : PairLink(s[i], f)
    BY <1>1, <1>3
  <2>2. n > 1 => NextLink(s[n - 1], f, armed)
    BY <1>4, <1>7
  <2> QED BY <1>5, <2>1, <2>2, UpdateLink DEF n
<1> QED BY <1>6, <1>7

(* No activation is closing e, and none is about to free it. *)
NoCloser(s, e) == \A i \in 1..Len(s) : s[i].pc \in ClosePcs => s[i].ev # e
NoFree(s, e) == \A i \in 1..Len(s) : s[i].pc = "cl_free" => s[i].ev # e

(* A call for an event that nobody is closing. *)
LEMMA UseLink ==
  ASSUME NEW S, NEW s \in Seq(S), s # <<>>, NEW f, NEW ie, NEW linked, NEW armed,
         StackLink(s, ie, linked, armed),
         FrameLink(f, ie, linked, armed),
         f.pc \notin ClosePcs \cup {"wait"},
         NoCloser(s, f.ev),
         Last(s).pc = "wait" /\ f.pc \in CheckPcs => f.ev \in ToSet(UserEvents)
  PROVE  StackLink(Append(s, f), ie, linked, armed)
<1>1. ASSUME NEW i \in 1..Len(s) PROVE PairLink(s[i], f)
  BY DEF PairLink, Uses, NoCloser
<1>2. CloseTimer(f, armed)
  BY DEF CloseTimer
<1> QED BY <1>1, <1>2, PushLink

(* An activation of CoreRestoreTpl uses no event. *)
LEMMA AcquireLink ==
  ASSUME NEW f, f.pc \in {"acquire", "test", "compare", "set", "sig_relock"}, f.ev = NoEvent,
         NEW ie, NEW linked, NEW armed
  PROVE  FrameLink(f, ie, linked, armed)
BY EventAssumption DEF FrameLink, ClosePcs, NoEventPcs, LockedSetPcs, SetTimePcs, DueTimerPcs, ClientPcs

(* What CoreRestoreTpl from TPL_HIGH_LEVEL goes on with. *)
LEMMA RestoreLink ==
  ASSUME NEW S, NEW s \in Seq(S), s # <<>>, NEW t, NEW ie, NEW linked, NEW armed,
         StackLink(s, ie, linked, armed), RestoreFromHigh(t, s)
  PROVE  StackLink(stack', ie, linked, armed)
<1>1. CASE ~ \E p \in gEventPending' : p > t
  BY <1>1 DEF RestoreFromHigh
<1>2. CASE \E p \in gEventPending' : p > t
  <2> DEFINE p == HighBitSet64(gEventPending')
             f == Frame("acquire", p, t, NoEvent, p)
  <2>1. stack' = Append(s, f)
    BY <1>2 DEF RestoreFromHigh
  <2>2. f.pc = "acquire" /\ f.ev = NoEvent
    BY DEF Frame
  <2> HIDE DEF f
  <2>3. FrameLink(f, ie, linked, armed)
    BY <2>2, AcquireLink
  <2>4. f.pc \notin ClosePcs \cup CheckPcs \cup {"wait"} /\ f.ev \notin ClientEvent
    BY <2>2, EventAssumption DEF ClosePcs, CheckPcs, ClientEvent
  <2> QED BY <2>1, <2>3, <2>4, IdleLink
<1> QED BY <1>1, <1>2

(* The activations stay as they are while the data change. *)
LEMMA CarryLink ==
  ASSUME NEW s, NEW ie, NEW linked, NEW armed, NEW ie2, NEW linked2, NEW armed2,
         StackLink(s, ie, linked, armed), Len(s) \in Nat \ {0},
         \A i \in 1..Len(s) : FrameLink(s[i], ie2, linked2, armed2),
         \A i \in 1..Len(s) : CloseTimer(s[i], armed) => CloseTimer(s[i], armed2)
  PROVE  StackLink(s, ie2, linked2, armed2)
<1>1. \A i \in 1..(Len(s) - 1) : NextLink(s[i], s[i + 1], armed2)
  BY DEF StackLink, NextLink
<1>2. CloseTimer(s[Len(s)], armed2)
  BY DEF StackLink
<1> QED BY <1>1, <1>2 DEF StackLink

(* The fields of the IEVENTs that activations rely on. *)
SameShape(ie, ie2) ==
  \A e \in Event : /\ ie2[e].Signature = ie[e].Signature
                    /\ ie2[e].Type = ie[e].Type
                    /\ ie2[e].NotifyTpl = ie[e].NotifyTpl

(* Such a change that links at most one more event, which is not about to be
   freed, and arms none. *)
LEMMA ShapeLink ==
  ASSUME NEW s, NEW tpl, NEW ie, NEW linked, NEW armed, NEW ie2, NEW linked2, NEW armed2,
         StackLink(s, ie, linked, armed), StackOK(s, tpl),
         SameShape(ie, ie2), armed2 \subseteq armed,
         NEW e, linked2 \subseteq linked \cup {e}, NoFree(s, e)
  PROVE  StackLink(s, ie2, linked2, armed2)
<1>1. Len(s) \in Nat \ {0}
  BY TopFrame
<1>2. ASSUME NEW i \in 1..Len(s) PROVE FrameLink(s[i], ie2, linked2, armed2)
  <2> DEFINE f == s[i]
  <2>1. FrameLink(f, ie, linked, armed) /\ FrameOK(f) /\ (f.pc = "cl_free" => f.ev # e)
    BY DEF StackLink, StackOK, NoFree
  <2> HIDE DEF f
  <2>2. f.pc \in LockedSetPcs \cup DueTimerPcs \cup {"notify"} => f.ev \in Event
    BY <2>1 DEF FrameOK, EventPcs, DueTimerPcs
  <2>3. FrameLink(f, ie2, linked2, armed2)
    BY <2>1, <2>2 DEF FrameLink, SameShape
  <2> QED BY <2>3 DEF f
<1>3. \A i \in 1..Len(s) : CloseTimer(s[i], armed) => CloseTimer(s[i], armed2)
  BY DEF CloseTimer
<1> QED BY <1>1, <1>2, <1>3, CarryLink

-----------------------------------------------------------------------------
(* Lists *)

(* RemoveEntryList. *)
LEMMA UnlinkList ==
  ASSUME NEW S, NEW s \in Seq(S), IsInjective(s), NEW e
  PROVE  /\ Unlink(s, e) \in Seq(S)
         /\ ToSet(Unlink(s, e)) = ToSet(s) \ {e}
         /\ Sublist(Unlink(s, e), s)
         /\ IsInjective(Unlink(s, e))
<1>1. Unlink(s, e) \in Seq(S)
  BY UnlinkType
<1>2. ToSet(Unlink(s, e)) = ToSet(s) \ {e} /\ Sublist(Unlink(s, e), s)
  <2>1. CASE \E i \in DOMAIN s : s[i] = e
    <3> DEFINE i == CHOOSE k \in DOMAIN s : s[k] = e
    <3>1. i \in 1..Len(s) /\ s[i] = e
      BY <2>1
    <3>2. Unlink(s, e) = RemoveAt(s, i)
      BY <2>1 DEF Unlink
    <3> HIDE DEF i
    <3> QED BY <3>1, <3>2, RemoveAtList
  <2>2. CASE ~ \E i \in DOMAIN s : s[i] = e
    <3>1. Unlink(s, e) = s
      BY <2>2 DEF Unlink
    <3>2. e \notin ToSet(s)
      BY <2>2 DEF ToSet
    <3>3. Sublist(s, s)
      BY DEF Sublist
    <3> QED BY <3>1, <3>2, <3>3
  <2> QED BY <2>1, <2>2
<1> QED BY <1>1, <1>2, SublistInjective

(* From q to q2 at most e is queued, and only e may be taken off. *)
Gains(q, q2, e) == \A x : InQueue(q2, x) => InQueue(q, x) \/ x = e
Keeps(q, q2, e) == \A x : InQueue(q, x) /\ x # e => InQueue(q2, x)

(* CoreNotifyEvent. *)
LEMMA NotifyQueue ==
  ASSUME NEW q \in [NotifyTpls -> Seq(Event)], NEW pending, NEW ie, QueuesOK(q, pending, ie),
         NEW e \in Event, NEW q2,
         \A t \in NotifyTpls :
           q2[t] = IF t = ie[e].NotifyTpl THEN Append(Unlink(q[t], e), e) ELSE q[t]
  PROVE  /\ QueuesOK(q2, pending \cup {ie[e].NotifyTpl}, ie)
         /\ Gains(q, q2, e) /\ Keeps(q, q2, e)
         /\ ie[e].NotifyTpl \in NotifyTpls => InQueue(q2, e)
<1> DEFINE T == ie[e].NotifyTpl
<1>1. ASSUME NEW t \in NotifyTpls
      PROVE  q2[t] = IF t = T THEN Append(Unlink(q[t], e), e) ELSE q[t]
  OBVIOUS
<1>2. ASSUME NEW t \in NotifyTpls
      PROVE  /\ Append(Unlink(q[t], e), e) # <<>>
             /\ ToSet(Append(Unlink(q[t], e), e)) = ToSet(q[t]) \cup {e}
             /\ IsInjective(Append(Unlink(q[t], e), e))
  <2> DEFINE u == Unlink(q[t], e)
  <2>1. q[t] \in Seq(Event) /\ IsInjective(q[t])
    BY DEF QueuesOK
  <2>2. u \in Seq(Event) /\ ToSet(u) = ToSet(q[t]) \ {e} /\ IsInjective(u)
    BY <2>1, UnlinkList
  <2> HIDE DEF u
  <2>3. /\ Append(u, e) # <<>> /\ ToSet(Append(u, e)) = ToSet(u) \cup {e}
        /\ IsInjective(Append(u, e))
    BY <2>2, AppendList
  <2> QED BY <2>2, <2>3 DEF u
<1> HIDE DEF T
<1>3. QueuesOK(q2, pending \cup {T}, ie)
  <2> SUFFICES ASSUME NEW t \in NotifyTpls
               PROVE  /\ q2[t] # <<>> => t \in pending \cup {T}
                      /\ IsInjective(q2[t])
                      /\ \A x \in ToSet(q2[t]) : ie[x].NotifyTpl = t
    BY DEF QueuesOK
  <2>1. /\ q[t] # <<>> => t \in pending
        /\ IsInjective(q[t])
        /\ \A x \in ToSet(q[t]) : ie[x].NotifyTpl = t
    BY DEF QueuesOK
  <2>2. CASE t = T
    <3>1. q2[t] = Append(Unlink(q[t], e), e)
      BY <1>1, <2>2
    <3> QED BY <1>2, <2>1, <2>2, <3>1 DEF T
  <2>3. CASE t # T
    BY <1>1, <2>1, <2>3
  <2> QED BY <2>2, <2>3
<1>4. ASSUME NEW t \in NotifyTpls, NEW x
      PROVE  x \in ToSet(q2[t]) <=> x \in ToSet(q[t]) \/ (t = T /\ x = e)
  <2>1. CASE t = T
    <3>1. q2[t] = Append(Unlink(q[t], e), e)
      BY <1>1, <2>1
    <3> QED BY <1>2, <2>1, <3>1
  <2>2. CASE t # T
    BY <1>1, <2>2
  <2> QED BY <2>1, <2>2
<1> QED BY <1>3, <1>4 DEF InQueue, Gains, Keeps, T

(* CoreDispatchEventNotifies takes the next event. *)
LEMMA DispatchQueue ==
  ASSUME NEW q \in [NotifyTpls -> Seq(Event)], NEW pending, NEW ie, QueuesOK(q, pending, ie),
         NEW T \in NotifyTpls, q[T] # <<>>, NEW q2,
         \A t \in NotifyTpls : q2[t] = IF t = T THEN Tail(q[T]) ELSE q[t]
  PROVE  /\ QueuesOK(q2, pending, ie)
         /\ Head(q[T]) \in Event /\ InQueue(q, Head(q[T])) /\ ie[Head(q[T])].NotifyTpl = T
         /\ Gains(q, q2, NoEvent) /\ Keeps(q, q2, Head(q[T]))
<1> DEFINE e == Head(q[T])
<1>1. ASSUME NEW t \in NotifyTpls
      PROVE  q2[t] = IF t = T THEN Tail(q[T]) ELSE q[t]
  OBVIOUS
<1>2. q[T] \in Seq(Event) /\ IsInjective(q[T]) /\ T \in pending
      /\ \A x \in ToSet(q[T]) : ie[x].NotifyTpl = T
  BY DEF QueuesOK
<1>3. /\ Tail(q[T]) \in Seq(Event) /\ e \in Event
      /\ ToSet(Tail(q[T])) = ToSet(q[T]) \ {e} /\ e \in ToSet(q[T])
      /\ Sublist(Tail(q[T]), q[T])
  BY <1>2, TailList
<1>4. IsInjective(Tail(q[T]))
  BY <1>2, <1>3, SublistInjective
<1> HIDE DEF e
<1>5. QueuesOK(q2, pending, ie)
  <2> SUFFICES ASSUME NEW t \in NotifyTpls
               PROVE  /\ q2[t] # <<>> => t \in pending
                      /\ IsInjective(q2[t])
                      /\ \A x \in ToSet(q2[t]) : ie[x].NotifyTpl = t
    BY DEF QueuesOK
  <2>1. CASE t = T
    <3>1. q2[t] = Tail(q[T])
      BY <1>1, <2>1
    <3> QED BY <1>2, <1>3, <1>4, <2>1, <3>1
  <2>2. CASE t # T
    BY <1>1, <2>2 DEF QueuesOK
  <2> QED BY <2>1, <2>2
<1>6. ASSUME NEW t \in NotifyTpls, NEW x
      PROVE  /\ x \in ToSet(q2[t]) => x \in ToSet(q[t])
             /\ x \in ToSet(q[t]) /\ x # e => x \in ToSet(q2[t])
  <2>1. CASE t = T
    <3>1. q2[t] = Tail(q[T])
      BY <1>1, <2>1
    <3> QED BY <1>3, <2>1, <3>1
  <2>2. CASE t # T
    BY <1>1, <2>2
  <2> QED BY <2>1, <2>2
<1>7. InQueue(q, e) /\ ie[e].NotifyTpl = T
  BY <1>2, <1>3 DEF InQueue
<1> QED BY <1>3, <1>5, <1>6, <1>7 DEF InQueue, Gains, Keeps, e

(* CoreCloseEvent takes its event off the queue. *)
LEMMA UnlinkQueue ==
  ASSUME NEW q \in [NotifyTpls -> Seq(Event)], NEW pending, NEW ie, QueuesOK(q, pending, ie),
         NEW e, NEW q2, \A t \in NotifyTpls : q2[t] = Unlink(q[t], e)
  PROVE  /\ QueuesOK(q2, pending, ie)
         /\ Gains(q, q2, NoEvent) /\ Keeps(q, q2, e) /\ ~ InQueue(q2, e)
<1>1. ASSUME NEW t \in NotifyTpls
      PROVE  /\ IsInjective(q2[t])
             /\ ToSet(q2[t]) = ToSet(q[t]) \ {e}
             /\ q2[t] # <<>> => q[t] # <<>>
             /\ q[t] # <<>> => t \in pending
             /\ \A x \in ToSet(q[t]) : ie[x].NotifyTpl = t
  <2>1. q[t] \in Seq(Event) /\ IsInjective(q[t]) /\ q2[t] = Unlink(q[t], e)
        /\ (q[t] # <<>> => t \in pending)
        /\ \A x \in ToSet(q[t]) : ie[x].NotifyTpl = t
    BY DEF QueuesOK
  <2>2. IsInjective(q2[t]) /\ ToSet(q2[t]) = ToSet(q[t]) \ {e}
    BY <2>1, UnlinkList
  <2>3. q[t] = <<>> => q2[t] = <<>>
    BY <2>1 DEF Unlink
  <2> QED BY <2>1, <2>2, <2>3
<1>2. QueuesOK(q2, pending, ie)
  BY <1>1 DEF QueuesOK
<1>3. Gains(q, q2, NoEvent) /\ Keeps(q, q2, e) /\ ~ InQueue(q2, e)
  BY <1>1 DEF InQueue, Gains, Keeps
<1> QED BY <1>2, <1>3

-----------------------------------------------------------------------------
(* Steps that only move on, and steps that signal or notify *)

(* The parts of the invariants that most steps need. *)
LEMMA ListTypes ==
  ASSUME IInv, LInv
  PROVE  /\ gEventQueue \in [NotifyTpls -> Seq(Event)]
         /\ gEventSignalQueue \in Seq(Event) /\ RuntimeEventHead \in Seq(Event)
         /\ mEfiTimerList \in Seq(Event)
         /\ IEvent \in [Event -> IEvents]
         /\ StackOK(stack, gEfiCurrentTpl) /\ LockOK(stack, mEfiTimerLock)
         /\ stack \in Seq(Frames) /\ stack # <<>> /\ Len(stack) \in Nat \ {0}
         /\ Top = Last(stack) /\ Top = stack[Len(stack)]
         /\ FrameOK(Top) /\ Top \in Frames
         /\ FrameLink(Top, IEvent, Linked, Armed) /\ CloseTimer(Top, Armed)
         /\ StackLink(stack, IEvent, Linked, Armed)
         /\ Armed \subseteq Event
<1>1. /\ gEventQueue \in [NotifyTpls -> Seq(Event)]
      /\ gEventSignalQueue \in Seq(Event) /\ RuntimeEventHead \in Seq(Event)
      /\ mEfiTimerList \in Seq(Event)
      /\ IEvent \in [Event -> IEvents]
      /\ StackOK(stack, gEfiCurrentTpl) /\ LockOK(stack, mEfiTimerLock)
      /\ stack \in Seq(Frames) /\ stack # <<>>
  BY DEF IInv, DataOK, StackInv, StackOK
<1>2. /\ Len(stack) \in Nat \ {0} /\ Top = Last(stack) /\ Top = stack[Len(stack)]
      /\ FrameOK(Top) /\ Top \in Frames
  BY <1>1, TopFrame, Running DEF Top
<1>3. Len(stack) \in 1..Len(stack) /\ StackLink(stack, IEvent, Linked, Armed)
  BY <1>2 DEF LInv
<1>4. FrameLink(Top, IEvent, Linked, Armed) /\ CloseTimer(Top, Armed)
  BY <1>2, <1>3 DEF StackLink
<1>5. Armed \subseteq Event
  BY <1>1, ToSetMember DEF Armed
<1> QED BY <1>1, <1>2, <1>3, <1>4, <1>5

(* A step that changes no list and no IEVENT. *)
LEMMA MoveOnly ==
  ASSUME LInv, UNCHANGED <<queues, lists, mEfiTimerList, IEvent>>,
         StackLink(stack', IEvent, Linked, Armed)
  PROVE  LInv'
<1>1. /\ gEventQueue' = gEventQueue /\ gEventPending' = gEventPending
      /\ gEventSignalQueue' = gEventSignalQueue /\ RuntimeEventHead' = RuntimeEventHead
      /\ mEfiTimerList' = mEfiTimerList /\ IEvent' = IEvent
  BY DEF queues, lists
<1>2. Linked' = Linked /\ Armed' = Armed
  BY <1>1 DEF Linked, Armed
<1> QED BY <1>1, <1>2 DEF LInv

(* The same through CoreRestoreTpl from TPL_HIGH_LEVEL. *)
LEMMA RestoreOnly ==
  ASSUME LInv, UNCHANGED <<queues, lists, mEfiTimerList, IEvent>>,
         NEW S, NEW s \in Seq(S), s # <<>>, StackLink(s, IEvent, Linked, Armed),
         NEW t, RestoreFromHigh(t, s)
  PROVE  LInv'
BY RestoreLink, MoveOnly

(* Changes of SignalCount only. *)
SignalOnly(ie, ie2) ==
  SameShape(ie, ie2) /\ \A e \in Event : ie2[e].TriggerTime = ie[e].TriggerTime

(* What such changes leave as it was. *)
LEMMA ShapeData ==
  ASSUME NEW ie, NEW ie2, SameShape(ie, ie2),
         NEW linked, NEW linked2, NEW armed, armed \subseteq Event, NEW armed2, armed2 \subseteq armed,
         NEW e \in Event, ie[e].Signature, linked2 \subseteq linked \cup {e},
         EventLink(ie, linked, armed)
  PROVE  EventLink(ie2, linked2, armed2)
<1>1. \A x \in Event : NotifyType(ie2[x].Type) => ie2[x].NotifyTpl \in NotifyTpls
  BY DEF EventLink, SameShape
<1>2. \A x \in Event : ~ ie2[x].Signature => x \notin linked2 \cup armed2
  BY DEF EventLink, SameShape
<1>3. \A x \in armed2 : "TIMER" \in ie2[x].Type
  BY DEF EventLink, SameShape
<1>4. ie2[mEfiCheckTimerEvent].Signature /\ ie2[gIdleLoopEvent].Signature
  BY EventAssumption DEF EventLink, SameShape
<1> QED BY <1>1, <1>2, <1>3, <1>4 DEF EventLink

(* The lists rely on the same fields. *)
LEMMA ShapeLists ==
  ASSUME NEW ie, NEW ie2, SameShape(ie, ie2),
         NEW q \in [NotifyTpls -> Seq(Event)], NEW pending,
         NEW sq \in Seq(Event), NEW rt \in Seq(Event)
  PROVE  /\ QueuesOK(q, pending, ie) => QueuesOK(q, pending, ie2)
         /\ NamesOK(sq, rt, ie) => NamesOK(sq, rt, ie2)
<1>1. \A t \in NotifyTpls : ToSet(q[t]) \subseteq Event
  BY ToSetMember
<1>2. ToSet(sq) \subseteq Event
  BY ToSetMember
<1>3. QueuesOK(q, pending, ie) => QueuesOK(q, pending, ie2)
  BY <1>1 DEF QueuesOK, SameShape
<1>4. NamesOK(sq, rt, ie) => NamesOK(sq, rt, ie2)
  BY <1>2 DEF NamesOK, SameShape
<1> QED BY <1>3, <1>4

(* CoreNotifyEvent and changes of SignalCount: the data, and an activation s
   that goes on. *)
LEMMA SignalData ==
  ASSUME IInv, LInv, NEW e \in Event, IEvent[e].Signature,
         CoreNotifyEvent(e) \/ UNCHANGED queues,
         SignalOnly(IEvent, IEvent'), UNCHANGED <<lists, mEfiTimerList>>,
         NEW s, NEW tpl, StackOK(s, tpl), StackLink(s, IEvent, Linked, Armed), NoFree(s, e)
  PROVE  /\ EventLink(IEvent', Linked', Armed')
         /\ QueuesOK(gEventQueue', gEventPending', IEvent')
         /\ NamesOK(gEventSignalQueue', RuntimeEventHead', IEvent')
         /\ TimersOK(mEfiTimerList', IEvent')
         /\ StackLink(s, IEvent', Linked', Armed')
<1>1. /\ gEventSignalQueue' = gEventSignalQueue /\ RuntimeEventHead' = RuntimeEventHead
      /\ mEfiTimerList' = mEfiTimerList /\ Armed' = Armed
  BY DEF lists, Armed
<1>2. SameShape(IEvent, IEvent')
  BY DEF SignalOnly
<1>3. /\ QueuesOK(gEventQueue', gEventPending', IEvent)
      /\ Gains(gEventQueue, gEventQueue', e)
  <2>1. CASE CoreNotifyEvent(e)
    <3> DEFINE q2 == gEventQueue'
    <3>1. /\ \A t \in NotifyTpls :
               q2[t] = IF t = IEvent[e].NotifyTpl THEN Append(Unlink(gEventQueue[t], e), e)
                       ELSE gEventQueue[t]
          /\ gEventPending' = gEventPending \cup {IEvent[e].NotifyTpl}
      BY <2>1, ListTypes DEF CoreNotifyEvent
    <3> HIDE DEF q2
    <3>2. gEventQueue \in [NotifyTpls -> Seq(Event)] /\ QueuesOK(gEventQueue, gEventPending, IEvent)
      BY ListTypes DEF LInv
    <3>3. /\ QueuesOK(q2, gEventPending \cup {IEvent[e].NotifyTpl}, IEvent)
          /\ Gains(gEventQueue, q2, e)
      BY <3>1, <3>2, NotifyQueue
    <3> QED BY <3>1, <3>3 DEF q2
  <2>2. CASE UNCHANGED queues
    BY <2>2 DEF queues, LInv, Gains
  <2> QED BY <2>1, <2>2
<1>4. gEventQueue' \in [NotifyTpls -> Seq(Event)]
  <2>1. CASE CoreNotifyEvent(e)
    BY <2>1, NotifyEventTypes DEF IInv
  <2>2. CASE UNCHANGED queues
    BY <2>2 DEF queues, IInv, DataOK
  <2> QED BY <2>1, <2>2
<1>5. Linked' \subseteq Linked \cup {e}
  BY <1>1, <1>3 DEF Linked, LinkedIn, Gains
<1>6. EventLink(IEvent', Linked', Armed')
  BY <1>1, <1>2, <1>5, ListTypes, ShapeData DEF LInv
<1>7. /\ QueuesOK(gEventQueue', gEventPending', IEvent')
      /\ NamesOK(gEventSignalQueue', RuntimeEventHead', IEvent')
  <2>1. NamesOK(gEventSignalQueue, RuntimeEventHead, IEvent)
    BY DEF LInv
  <2> QED BY <1>1, <1>2, <1>3, <1>4, <2>1, ListTypes, ShapeLists
<1>8. TimersOK(mEfiTimerList', IEvent')
  <2>1. TimersOK(mEfiTimerList, IEvent) /\ mEfiTimerList \in Seq(Event)
    BY ListTypes DEF LInv
  <2>2. \A i \in 1..Len(mEfiTimerList) : mEfiTimerList[i] \in Event
    BY <2>1
  <2> QED BY <1>1, <2>1, <2>2 DEF TimersOK, SignalOnly
<1>9. StackLink(s, IEvent', Linked', Armed')
  BY <1>1, <1>2, <1>5, ShapeLink
<1> QED BY <1>6, <1>7, <1>8, <1>9

(* SignalCount is not a field the lists or the activations depend on. *)
LEMMA CountOnly ==
  ASSUME IEvent \in [Event -> IEvents], NEW e \in Event, NEW c, NEW ie2,
         ie2 = [IEvent EXCEPT ![e].SignalCount = c] \/ ie2 = IEvent
  PROVE  SignalOnly(IEvent, ie2)
<1>1. CASE ie2 = IEvent
  BY <1>1 DEF SignalOnly, SameShape
<1>2. CASE ie2 = [IEvent EXCEPT ![e].SignalCount = c]
  <2>1. ASSUME NEW x \in Event
        PROVE  /\ ie2[x].Signature = IEvent[x].Signature /\ ie2[x].Type = IEvent[x].Type
               /\ ie2[x].NotifyTpl = IEvent[x].NotifyTpl /\ ie2[x].TriggerTime = IEvent[x].TriggerTime
    BY <1>2 DEF IEvents
  <2> QED BY <2>1 DEF SignalOnly, SameShape
<1> QED BY <1>1, <1>2

(* CoreSignalEvent for a live event that nobody is closing. *)
LEMMA SignalLink ==
  ASSUME IInv, LInv, NEW e \in Event, IEvent[e].Signature,
         NEW s, NEW tpl, StackOK(s, tpl), StackLink(s, IEvent, Linked, Armed), NoCloser(s, e),
         CoreSignalEvent(e, s), UNCHANGED <<lists, mEfiTimerList>>
  PROVE  LInv'
<1> DEFINE r == Call(s, "sig_relock", NoEvent, 0)
           u == Call(r, "sig_list", e, 0)
<1>0. CoreNotifyEvent(e) \/ UNCHANGED queues
  BY DEF CoreSignalEvent, queues
<1>1. SignalOnly(IEvent, IEvent')
  <2>1. IEvent' = [IEvent EXCEPT ![e].SignalCount = 1] \/ IEvent' = IEvent
    BY DEF CoreSignalEvent
  <2> QED BY <2>1, ListTypes, CountOnly
<1>2. /\ EventLink(IEvent', Linked', Armed')
      /\ QueuesOK(gEventQueue', gEventPending', IEvent')
      /\ NamesOK(gEventSignalQueue', RuntimeEventHead', IEvent')
      /\ TimersOK(mEfiTimerList', IEvent')
      /\ StackLink(s, IEvent', Linked', Armed')
  <2>1. NoFree(s, e)
    BY DEF NoFree, NoCloser, ClosePcs
  <2> QED BY <1>0, <1>1, <2>1, SignalData
<1>3. s \in Seq(Frames) /\ s # <<>>
  BY DEF StackOK
<1>4. RestoreFromHigh(gEfiCurrentTpl, s) \/ RestoreFromHigh(gEfiCurrentTpl, u)
  BY DEF CoreSignalEvent
<1>5. /\ StackLink(u, IEvent', Linked', Armed')
      /\ \E S : u \in Seq(S)
      /\ u # <<>>
  <2> DEFINE f == Frame("sig_relock", gEfiCurrentTpl, gEfiCurrentTpl, NoEvent, 0)
             g == Frame("sig_list", gEfiCurrentTpl, gEfiCurrentTpl, e, 0)
  <2>1. f.pc = "sig_relock" /\ f.ev = NoEvent /\ g.pc = "sig_list" /\ g.ev = e
    BY DEF Frame
  <2>2. r = Append(s, f) /\ u = Append(r, g)
    BY DEF Call
  <2> HIDE DEF f, g, r, u
  <2>3. FrameLink(f, IEvent', Linked', Armed')
    BY <2>1, AcquireLink
  <2>4. f.pc \notin ClosePcs \cup CheckPcs \cup {"wait"} /\ f.ev \notin ClientEvent
    BY <2>1, EventAssumption DEF ClosePcs, CheckPcs, ClientEvent
  <2>5. StackLink(r, IEvent', Linked', Armed')
    BY <1>2, <1>3, <2>2, <2>3, <2>4, IdleLink
  <2>6. r \in Seq(Frames \cup {f}) /\ Pushed(r, s, f) /\ r # <<>> /\ Last(r) = f
    <3>1. Append(s, f) \in Seq(Frames \cup {f}) /\ Pushed(Append(s, f), s, f)
      BY <1>3, AppendShape
    <3> QED BY <2>2, <3>1 DEF Pushed
  <2>7. NoCloser(r, e)
    BY <2>4, <2>6 DEF NoCloser, Pushed
  <2>8. IEvent'[e].Signature
    BY <1>1 DEF SignalOnly, SameShape
  <2>9. FrameLink(g, IEvent', Linked', Armed')
    BY <2>1, <2>8 DEF FrameLink, ClosePcs, NoEventPcs, LockedSetPcs, SetTimePcs, DueTimerPcs
  <2>10. g.pc \notin ClosePcs \cup {"wait"} /\ g.pc \notin CheckPcs
    BY <2>1 DEF ClosePcs, CheckPcs
  <2>11. StackLink(u, IEvent', Linked', Armed')
    BY <2>1, <2>2, <2>5, <2>6, <2>7, <2>9, <2>10, UseLink
  <2>12. u \in Seq(Frames \cup {f} \cup {g}) /\ u # <<>>
    BY <2>2, <2>6, AppendShape DEF Pushed
  <2> QED BY <2>11, <2>12
<1> HIDE DEF u
<1>6. StackLink(stack', IEvent', Linked', Armed')
  BY <1>2, <1>3, <1>4, <1>5, RestoreLink
<1> QED BY <1>2, <1>6 DEF LInv

-----------------------------------------------------------------------------
(* CoreRestoreTpl and the dispatcher *)

(* A stack with another innermost frame is a stack. *)
LEMMA SetTopSeq ==
  ASSUME NEW S, NEW s \in Seq(S), s # <<>>, NEW f
  PROVE  SetTop(s, f) \in Seq(S \cup {f}) /\ SetTop(s, f) # <<>>
<1>1. s \in Seq(S \cup {f}) /\ Len(s) \in Nat \ {0}
  OBVIOUS
<1>2. SetTop(s, f) \in Seq(S \cup {f}) /\ Len(SetTop(s, f)) = Len(s)
  BY <1>1 DEF SetTop
<1> QED BY <1>1, <1>2

(* The innermost activation goes on as one of CoreRestoreTpl. *)
LEMMA IdleMove ==
  ASSUME IInv, LInv, Top.pc # "TimerCancel",
         NEW f, f.pc \in {"acquire", "test", "compare", "set"}, f.ev = NoEvent
  PROVE  StackLink(Update(f), IEvent, Linked, Armed)
<1>1. FrameLink(f, IEvent, Linked, Armed)
  BY AcquireLink
<1>2. f.pc \notin ClosePcs \cup CheckPcs \cup {"wait"} /\ f.ev \notin ClientEvent
  BY EventAssumption DEF ClosePcs, CheckPcs, ClientEvent
<1> QED BY <1>1, <1>2, ListTypes, IdleLink DEF Update

(* The innermost activation returns. *)
LEMMA PopTop ==
  ASSUME IInv, LInv, Top.pc \notin {"TimerCancel", "app"}
  PROVE  /\ StackLink(Front(stack), IEvent, Linked, Armed)
         /\ Front(stack) \in Seq(Frames) /\ Front(stack) # <<>>
         /\ Len(stack) > 1 /\ Len(Front(stack)) = Len(stack) - 1
<1>0. Len(stack) \in Nat \ {0} /\ StackOK(stack, gEfiCurrentTpl) /\ Top = Last(stack)
  BY ListTypes
<1>1. Len(stack) > 1
  <2>1. Top.pc = "app" <=> Len(stack) = 1
    BY <1>0, TopFrame
  <2>2. Len(stack) # 1
    BY <2>1
  <2>3. Len(stack) \in Nat \ {0}
    BY <1>0
  <2> QED BY <2>2, <2>3
<1>2. StackLink(Front(stack), IEvent, Linked, Armed)
  BY <1>1, ListTypes, PopLink
<1>3. Front(stack) \in Seq(Frames) /\ Len(Front(stack)) = Len(stack) - 1
  BY ListTypes, FrontProperties
<1>4. Front(stack) # <<>>
  BY <1>0, <1>1, <1>3
<1> QED BY <1>1, <1>2, <1>3, <1>4

(* Frames that differ from f in some fields. *)
LEMMA FrameFields ==
  ASSUME NEW f \in Frames, NEW pc, NEW num, NEW lvl, NEW ev
  PROVE  /\ [f EXCEPT !.pc = pc].pc = pc /\ [f EXCEPT !.pc = pc].ev = f.ev
         /\ [f EXCEPT !.pc = pc].num = f.num
         /\ [f EXCEPT !.num = num].pc = f.pc /\ [f EXCEPT !.num = num].ev = f.ev
         /\ [f EXCEPT !.num = num].num = num
         /\ [f EXCEPT !.pc = pc, !.num = num].pc = pc /\ [f EXCEPT !.pc = pc, !.num = num].ev = f.ev
         /\ [f EXCEPT !.pc = pc, !.num = num].num = num
         /\ [f EXCEPT !.pc = pc, !.lvl = lvl].pc = pc /\ [f EXCEPT !.pc = pc, !.lvl = lvl].ev = f.ev
         /\ [f EXCEPT !.pc = pc, !.ev = ev].pc = pc /\ [f EXCEPT !.pc = pc, !.ev = ev].ev = ev
         /\ [f EXCEPT !.pc = pc, !.ev = ev].num = f.num
BY DEF Frames

(* The loop of CoreRestoreTpl. *)
LEMMA RestoreLoopLink ==
  ASSUME SingleLoad, IInv, LInv, TestPending \/ PickPending \/ EnterPending \/ SetNewTpl
  PROVE  LInv'
<1>1. Top \in Frames /\ FrameOK(Top) /\ FrameLink(Top, IEvent, Linked, Armed)
  BY ListTypes
<1>2. UNCHANGED <<queues, lists, mEfiTimerList, IEvent>>
  BY DEF TestPending, PickPending, EnterPending, SetNewTpl, timers
<1>3. CASE SetNewTpl
  <2>1. Top.pc \notin {"TimerCancel", "app"} /\ stack' = Front(stack)
    BY <1>3 DEF SetNewTpl
  <2> QED BY <1>2, <2>1, PopTop, MoveOnly
<1>4. CASE TestPending \/ PickPending \/ EnterPending
  <2> DEFINE f1 == [Top EXCEPT !.pc = "set"]
             f2 == [Top EXCEPT !.pc = "compare", !.num = HighBitSet64(gEventPending)]
             f3 == [Top EXCEPT !.pc = "acquire", !.lvl = Top.num]
  <2>1. /\ Top.pc \in {"test", "compare"}
        /\ stack' = Update(f1) \/ stack' = Update(f2) \/ stack' = Update(f3)
    BY <1>1, <1>4 DEF TestPending, PickPending, EnterPending, Goto, FrameOK
  <2>2. /\ f1.pc = "set" /\ f1.ev = Top.ev
        /\ f2.pc = "compare" /\ f2.ev = Top.ev
        /\ f3.pc = "acquire" /\ f3.ev = Top.ev
    BY <1>1, FrameFields
  <2> HIDE DEF f1, f2, f3
  <2>3. Top.ev = NoEvent /\ Top.pc # "TimerCancel"
    BY <1>1, <2>1 DEF FrameLink, NoEventPcs
  <2>4. StackLink(stack', IEvent, Linked, Armed)
    BY <2>1, <2>2, <2>3, IdleMove
  <2> QED BY <1>2, <2>4, MoveOnly
<1> QED BY <1>3, <1>4

(* The call of a notification function. *)
LEMMA CallNotifyLink == ASSUME IInv, LInv, CallNotifyFunction PROVE LInv'
<1> DEFINE f == [Top EXCEPT !.pc = "acquire", !.ev = NoEvent]
           pc == IF Top.ev = mEfiCheckTimerEvent THEN "ct_lock" ELSE "client"
           g == Frame(pc, gEfiCurrentTpl, gEfiCurrentTpl, Top.ev, 0)
<1>1. Top \in Frames /\ Top.pc = "notify" /\ FrameLink(Top, IEvent, Linked, Armed)
  BY ListTypes DEF CallNotifyFunction
<1>2. f.pc = "acquire" /\ f.ev = NoEvent
  BY <1>1, FrameFields
<1>3. g.pc = pc /\ g.ev = Top.ev
  BY DEF Frame
<1>4. stack' = Append(Update(f), g) /\ UNCHANGED <<queues, lists, mEfiTimerList, IEvent>>
  BY DEF CallNotifyFunction, Call, timers
<1> HIDE DEF f, g
<1>5. StackLink(Update(f), IEvent, Linked, Armed)
  BY <1>1, <1>2, IdleMove
<1>6. Update(f) \in Seq(Frames \cup {f}) /\ Update(f) # <<>>
  BY ListTypes, SetTopSeq DEF Update
<1>7. FrameLink(g, IEvent, Linked, Armed)
  <2>1. mEfiCheckTimerEvent \notin ClientEvent /\ mEfiCheckTimerEvent \in Event
    BY EventAssumption DEF ClientEvent
  <2>2. IEvent[mEfiCheckTimerEvent].Signature
    BY <2>1 DEF LInv, EventLink
  <2> QED BY <1>3, <1>1, <2>2 DEF FrameLink, ClosePcs, NoEventPcs, LockedSetPcs, SetTimePcs, DueTimerPcs, ClientPcs
<1>8. g.pc \notin ClosePcs \cup CheckPcs \cup {"wait"} /\ (g.pc \in ClientPcs \/ g.ev \notin ClientEvent)
  BY <1>3 DEF ClosePcs, CheckPcs, ClientEvent, ClientPcs
<1>9. StackLink(stack', IEvent, Linked, Armed)
  BY <1>4, <1>5, <1>6, <1>7, <1>8, IdleLink
<1> QED BY <1>4, <1>9, MoveOnly

(* CoreDispatchEventNotifies. *)
LEMMA DispatchLink == ASSUME IInv, LInv, DispatchNext PROVE LInv'
<1> DEFINE T == Top.num
           q == gEventQueue[T]
           e == Head(q)
<1>1. /\ Top \in Frames /\ Top.pc = "acquire" /\ T \in NotifyTpls
      /\ FrameLink(Top, IEvent, Linked, Armed)
      /\ gEventQueue \in [NotifyTpls -> Seq(Event)] /\ IEvent \in [Event -> IEvents]
      /\ QueuesOK(gEventQueue, gEventPending, IEvent)
  BY ListTypes DEF DispatchNext, FrameOK, LInv
<1>2. /\ gEventSignalQueue' = gEventSignalQueue /\ RuntimeEventHead' = RuntimeEventHead
      /\ mEfiTimerList' = mEfiTimerList /\ Armed' = Armed
  BY DEF DispatchNext, lists, timers, Armed
<1>3. stack \in Seq(Frames) /\ stack # <<>>
  BY ListTypes
<1>4. CASE q = <<>>
  <2> DEFINE f == [Top EXCEPT !.pc = "test"]
  <2>1. /\ gEventPending' = gEventPending \ {T}
        /\ gEventQueue' = gEventQueue /\ IEvent' = IEvent
        /\ RestoreFromHigh(gEfiCurrentTpl, Update(f))
    BY <1>4 DEF DispatchNext, Goto
  <2>2. f.pc = "test" /\ f.ev = NoEvent
    BY <1>1, FrameFields DEF FrameLink, NoEventPcs
  <2> HIDE DEF f
  <2>3. StackLink(Update(f), IEvent, Linked, Armed)
    BY <1>1, <2>2, IdleMove
  <2>4. StackLink(stack', IEvent, Linked, Armed)
    BY <1>3, <2>1, <2>3, SetTopSeq, RestoreLink DEF Update
  <2>5. QueuesOK(gEventQueue, gEventPending \ {T}, IEvent)
    BY <1>1, <1>4 DEF QueuesOK
  <2>6. Linked' = Linked
    BY <1>2, <2>1 DEF Linked
  <2> QED BY <1>2, <2>1, <2>4, <2>5, <2>6 DEF LInv
<1>5. CASE q # <<>>
  <2> DEFINE f == [Top EXCEPT !.pc = "notify", !.ev = e]
             q2 == gEventQueue'
  <2>1. /\ q2 = [gEventQueue EXCEPT ![T] = Tail(q)]
        /\ IEvent' = [IEvent EXCEPT ![e].SignalCount = 0] \/ IEvent' = IEvent
        /\ gEventPending' = gEventPending
        /\ RestoreFromHigh(gEfiCurrentTpl, Update(f))
    BY <1>5 DEF DispatchNext
  <2>2. \A t \in NotifyTpls : q2[t] = IF t = T THEN Tail(gEventQueue[T]) ELSE gEventQueue[t]
    BY <1>1, <2>1
  <2>0. T \in NotifyTpls /\ gEventQueue[T] # <<>>
    BY <1>1, <1>5
  <2> HIDE DEF q2, T
  <2>3. /\ QueuesOK(q2, gEventPending, IEvent)
        /\ e \in Event /\ InQueue(gEventQueue, e) /\ IEvent[e].NotifyTpl = T
        /\ Gains(gEventQueue, q2, NoEvent)
    <3>1. gEventQueue \in [NotifyTpls -> Seq(Event)] /\ QueuesOK(gEventQueue, gEventPending, IEvent)
      BY <1>1
    <3>2. /\ QueuesOK(q2, gEventPending, IEvent)
          /\ Head(gEventQueue[T]) \in Event /\ InQueue(gEventQueue, Head(gEventQueue[T]))
          /\ IEvent[Head(gEventQueue[T])].NotifyTpl = T
          /\ Gains(gEventQueue, q2, NoEvent)
      BY <2>0, <2>2, <3>1, DispatchQueue
    <3> QED BY <3>2
  <2> HIDE DEF q, e
  <2>4. SignalOnly(IEvent, IEvent') /\ SameShape(IEvent, IEvent')
    <3>1. SignalOnly(IEvent, IEvent')
      BY <1>1, <2>1, <2>3, CountOnly
    <3> QED BY <3>1 DEF SignalOnly
  <2>5. Linked' \subseteq Linked \cup {NoEvent} /\ Linked' \subseteq Linked \cup {e}
    <3>1. \A x \in Event : InQueue(q2, x) => InQueue(gEventQueue, x)
      BY <2>3, EventAssumption DEF Gains
    <3>2. Linked' \subseteq Linked
      BY <1>2, <3>1 DEF Linked, LinkedIn, q2
    <3> QED BY <3>2
  <2>6. e \in Linked /\ IEvent[e].Signature
    <3>1. e \in Linked
      BY <2>3 DEF Linked, LinkedIn
    <3> QED BY <2>3, <3>1 DEF LInv, EventLink
  <2>7. StackLink(stack, IEvent', Linked', Armed')
    <3>1. NoFree(stack, NoEvent)
      <4>1. \A i \in 1..Len(stack) : stack[i].pc = "cl_free" => stack[i].ev \in Event
        BY ListTypes DEF StackLink, FrameLink, ClosePcs, ClientEvent
      <4> QED BY <4>1, EventAssumption DEF NoFree
    <3> QED BY <1>2, <2>4, <2>5, <3>1, ListTypes, ShapeLink
  <2>8. f.pc = "notify" /\ f.ev = e /\ f.num = T
    BY <1>1, FrameFields DEF T
  <2> HIDE DEF f
  <2>9. StackLink(Update(f), IEvent', Linked', Armed')
    <3>1. FrameLink(f, IEvent', Linked', Armed')
      <4>1. IEvent'[e].Signature /\ IEvent'[e].NotifyTpl = T
        BY <2>3, <2>4, <2>6 DEF SameShape
      <4> QED BY <2>8, <4>1 DEF FrameLink, ClosePcs, NoEventPcs, LockedSetPcs, SetTimePcs, DueTimerPcs
    <3>2. ASSUME NEW i \in 1..Len(stack) PROVE PairLink(stack[i], f)
      <4>1. stack[i].pc \in ClosePcs /\ stack[i].ev = e => stack[i].pc = "cl_unlink"
        <5>1. FrameLink(stack[i], IEvent, Linked, Armed)
          BY ListTypes DEF StackLink
        <5> QED BY <2>6, <5>1 DEF FrameLink, ClosePcs
      <4> QED BY <2>8, <4>1 DEF PairLink, Uses, ClosePcs
    <3>3. ASSUME Len(stack) > 1 PROVE NextLink(stack[Len(stack) - 1], f, Armed')
      <4>1. Len(stack) - 1 \in 1..(Len(stack) - 1) /\ (Len(stack) - 1) + 1 = Len(stack)
        <5>1. Len(stack) \in Nat
          BY ListTypes
        <5> QED BY <3>3, <5>1
      <4>2. NextLink(stack[Len(stack) - 1], Top, Armed')
        BY <2>7, <4>1, ListTypes DEF StackLink
      <4> QED BY <1>1, <2>8, <4>2 DEF NextLink, CheckPcs
    <3>4. CloseTimer(f, Armed')
      BY <2>8 DEF CloseTimer, ClosePcs
    <3>5. \A i \in 1..(Len(stack) - 1) : PairLink(stack[i], f)
      <4>1. Len(stack) \in Nat
        BY ListTypes
      <4> QED BY <3>2, <4>1
    <3> QED BY <1>3, <2>7, <3>1, <3>3, <3>4, <3>5, UpdateLink DEF Update
  <2>10. StackLink(stack', IEvent', Linked', Armed')
    BY <1>3, <2>1, <2>9, SetTopSeq, RestoreLink DEF Update
  <2>11. EventLink(IEvent', Linked', Armed')
    BY <1>2, <2>3, <2>4, <2>5, <2>6, ListTypes, ShapeData DEF LInv
  <2>12. /\ QueuesOK(gEventQueue', gEventPending', IEvent')
         /\ NamesOK(gEventSignalQueue', RuntimeEventHead', IEvent')
    <3>1. q2 \in [NotifyTpls -> Seq(Event)]
      <4>1. Tail(q) \in Seq(Event)
        BY <1>1, <1>5 DEF q, T
      <4> QED BY <1>1, <2>1, <4>1
    <3>2. QueuesOK(q2, gEventPending, IEvent')
      BY <2>3, <2>4, <3>1, ListTypes, ShapeLists
    <3>3. NamesOK(gEventSignalQueue, RuntimeEventHead, IEvent')
      BY <2>4, <3>1, ListTypes, ShapeLists DEF LInv
    <3> QED BY <1>2, <2>1, <3>2, <3>3 DEF q2
  <2>13. TimersOK(mEfiTimerList', IEvent')
    <3>1. TimersOK(mEfiTimerList, IEvent) /\ mEfiTimerList \in Seq(Event)
      BY ListTypes DEF LInv
    <3>2. \A i \in 1..Len(mEfiTimerList) : mEfiTimerList[i] \in Event
      BY <3>1
    <3> QED BY <1>2, <2>4, <3>1, <3>2 DEF TimersOK, SignalOnly
  <2> QED BY <2>10, <2>11, <2>12, <2>13 DEF LInv
<1> QED BY <1>4, <1>5

-----------------------------------------------------------------------------
(* CoreNotifySignalList *)

(* The innermost activation of a stack. *)
LEMMA LastLink ==
  ASSUME NEW S, NEW s \in Seq(S), s # <<>>, NEW ie, NEW linked, NEW armed,
         StackLink(s, ie, linked, armed)
  PROVE  FrameLink(Last(s), ie, linked, armed) /\ CloseTimer(Last(s), armed)
<1>1. Len(s) \in 1..Len(s) /\ Last(s) = s[Len(s)]
  BY DEF Last
<1> QED BY <1>1 DEF StackLink

(* An event on a list is not about to be freed. *)
LEMMA LinkedNoFree ==
  ASSUME NEW s, NEW ie, NEW linked, NEW armed, StackLink(s, ie, linked, armed), NEW e \in linked
  PROVE  NoFree(s, e)
<1>1. ASSUME NEW i \in 1..Len(s), s[i].pc = "cl_free" PROVE s[i].ev # e
  <2>1. FrameLink(s[i], ie, linked, armed)
    BY DEF StackLink
  <2> QED BY <1>1, <2>1 DEF FrameLink
<1> QED BY <1>1 DEF NoFree

(* CoreNotifySignalList and the return to CoreSignalEvent. *)
LEMMA SignalStepLink == ASSUME IInv, LInv, SignalStep PROVE LInv'
<1>1. /\ Top \in Frames /\ FrameOK(Top) /\ FrameLink(Top, IEvent, Linked, Armed)
      /\ stack \in Seq(Frames) /\ stack # <<>> /\ Top = Last(stack)
      /\ StackOK(stack, gEfiCurrentTpl)
      /\ StackLink(stack, IEvent, Linked, Armed)
  BY ListTypes
<1>2. CASE NotifyListAcquire
  <2> DEFINE f == [Top EXCEPT !.pc = "sig_loop", !.lvl = TPL_HIGH_LEVEL, !.num = 1]
  <2>1. f.pc = "sig_loop" /\ f.ev = Top.ev
    BY <1>1 DEF Frames
  <2>2. /\ Top.pc = "sig_list" /\ stack' = SetTop(stack, f)
        /\ UNCHANGED <<queues, lists, mEfiTimerList, IEvent>>
    BY <1>2 DEF NotifyListAcquire, Update, timers
  <2> HIDE DEF f
  <2>3. FrameLink(f, IEvent, Linked, Armed)
    BY <1>1, <2>1, <2>2 DEF FrameLink, ClosePcs, NoEventPcs, LockedSetPcs, SetTimePcs, DueTimerPcs, ClientPcs
  <2>4. f.pc \notin ClosePcs \cup CheckPcs \cup {"wait"} /\ CloseTimer(f, Armed)
    BY <2>1 DEF ClosePcs, CheckPcs, CloseTimer
  <2>5. Top.pc \notin ClientPcs \cup {"TimerCancel", "st_release", "notify"}
    BY <2>2 DEF ClientPcs
  <2>6. StackLink(stack', IEvent, Linked, Armed)
    BY <1>1, <2>1, <2>2, <2>3, <2>4, <2>5, MoveLink
  <2> QED BY <2>2, <2>6, MoveOnly
<1>3. CASE NotifyListLink
  <2> DEFINE e == gEventSignalQueue[Top.num]
             f == [Top EXCEPT !.num = @ + 1]
  <2>1. f.pc = "sig_loop" /\ f.ev = Top.ev /\ Top.pc = "sig_loop"
    BY <1>1, <1>3 DEF Frames, NotifyListLink
  <2>2. /\ stack' = SetTop(stack, f) /\ IEvent' = IEvent
        /\ CoreNotifyEvent(e) \/ UNCHANGED queues
        /\ UNCHANGED <<lists, mEfiTimerList>>
    BY <1>3 DEF NotifyListLink, Update, timers
  <2>3. e \in Event /\ e \in ToSet(gEventSignalQueue)
    <3>1. Top.num \in Nat \ {0} /\ Top.num <= Len(gEventSignalQueue) /\ gEventSignalQueue \in Seq(Event)
      BY <1>1, <1>3, <2>1, FrameTypes, ListTypes DEF FrameOK, NotifyListLink
    <3>2. Top.num \in 1..Len(gEventSignalQueue)
      BY <3>1
    <3> QED BY <3>1, <3>2, ToSetMember
  <2> HIDE DEF f, e
  <2>4. e \in Linked /\ IEvent[e].Signature
    <3>1. e \in Linked
      BY <2>3 DEF Linked, LinkedIn
    <3> QED BY <2>3, <3>1 DEF LInv, EventLink
  <2>5. NoFree(stack, e)
    BY <1>1, <2>4, LinkedNoFree
  <2>6. SignalOnly(IEvent, IEvent')
    BY <2>2 DEF SignalOnly, SameShape
  <2>7. /\ EventLink(IEvent', Linked', Armed')
        /\ QueuesOK(gEventQueue', gEventPending', IEvent')
        /\ NamesOK(gEventSignalQueue', RuntimeEventHead', IEvent')
        /\ TimersOK(mEfiTimerList', IEvent')
        /\ StackLink(stack, IEvent', Linked', Armed')
    BY <1>1, <2>2, <2>3, <2>4, <2>5, <2>6, SignalData
  <2>8. FrameLink(f, IEvent', Linked', Armed')
    <3>1. FrameLink(Top, IEvent', Linked', Armed')
      BY <1>1, <2>7, LastLink
    <3> QED BY <2>1, <3>1 DEF FrameLink, ClosePcs, NoEventPcs, LockedSetPcs, SetTimePcs, DueTimerPcs, ClientPcs
  <2>9. f.pc \notin ClosePcs \cup CheckPcs \cup {"wait"} /\ CloseTimer(f, Armed')
    BY <2>1 DEF ClosePcs, CheckPcs, CloseTimer
  <2>10. Top.pc \notin ClientPcs \cup {"TimerCancel", "st_release", "notify"}
    BY <2>1 DEF ClientPcs
  <2>11. StackLink(stack', IEvent', Linked', Armed')
    BY <1>1, <2>1, <2>2, <2>7, <2>8, <2>9, <2>10, MoveLink
  <2> QED BY <2>7, <2>11 DEF LInv
<1>4. CASE NotifyListRelease \/ SignalRelock
  <2>1. /\ Top.pc \notin {"TimerCancel", "app"}
        /\ \E t : RestoreFromHigh(t, Front(stack))
        /\ UNCHANGED <<queues, lists, mEfiTimerList, IEvent>>
    BY <1>4 DEF NotifyListRelease, SignalRelock, timers
  <2> QED BY <2>1, PopTop, RestoreOnly
<1> QED BY <1>2, <1>3, <1>4 DEF SignalStep

-----------------------------------------------------------------------------
(* Timers *)

(* No activation closes NoEvent, nor one of the core's own events. *)
LEMMA CoreNoCloser ==
  ASSUME NEW s, NEW ie, NEW linked, NEW armed, StackLink(s, ie, linked, armed),
         NEW e, e \notin ClientEvent
  PROVE  NoCloser(s, e) /\ NoFree(s, e)
<1>1. ASSUME NEW i \in 1..Len(s), s[i].pc \in ClosePcs PROVE s[i].ev # e
  <2>1. FrameLink(s[i], ie, linked, armed)
    BY DEF StackLink
  <2> QED BY <1>1, <2>1 DEF FrameLink
<1> QED BY <1>1 DEF NoCloser, NoFree, ClosePcs

(* Nor the event that the innermost activation uses. *)
LEMMA TopNoCloser ==
  ASSUME IInv, LInv,
         Top.pc \notin ClientPcs \cup ClosePcs \cup {"TimerCancel", "st_release", "notify"}
  PROVE  NoCloser(stack, Top.ev)
<1>1. Len(stack) \in Nat \ {0} /\ Top = stack[Len(stack)] /\ StackLink(stack, IEvent, Linked, Armed)
  BY ListTypes
<1>2. ASSUME NEW i \in 1..Len(stack), stack[i].pc \in ClosePcs PROVE stack[i].ev # Top.ev
  <2>1. i # Len(stack)
    BY <1>1, <1>2
  <2>2. Len(stack) \in 1..Len(stack) /\ i < Len(stack)
    BY <1>1, <2>1
  <2>3. PairLink(stack[i], Top)
    BY <1>1, <2>2 DEF StackLink
  <2> QED BY <1>2, <2>3 DEF PairLink, Uses
<1> QED BY <1>2 DEF NoCloser

(* Nobody but the innermost activation holds the timer lock, if that does. *)
LEMMA OneHolder ==
  ASSUME IInv, LInv, Top.pc \notin SignalPcs, NEW i \in 1..Len(stack), i # Len(stack)
  PROVE  stack[i].pc \notin LockedPcs
<1>1. Len(stack) \in Nat \ {0} /\ Top = stack[Len(stack)] /\ LockOK(stack, mEfiTimerLock)
  BY ListTypes
<1>2. Len(stack) \in 1..Len(stack) /\ i < Len(stack)
  BY <1>1
<1> QED BY <1>1, <1>2 DEF LockOK

(* No activation closes an armed timer, unless it is just being cancelled. *)
LEMMA ArmedNoCloser ==
  ASSUME IInv, LInv, Top.pc \notin SignalPcs \cup {"TimerCancel"}, NEW e \in Armed
  PROVE  NoCloser(stack, e)
<1>1. /\ Len(stack) \in Nat \ {0} /\ Top = stack[Len(stack)]
      /\ StackLink(stack, IEvent, Linked, Armed)
  BY ListTypes
<1>2. ASSUME NEW i \in 1..Len(stack) PROVE CloseTimer(stack[i], Armed)
  <2>1. CASE i = Len(stack)
    BY <1>1, <2>1, ListTypes
  <2>2. CASE i # Len(stack)
    <3>1. i \in 1..(Len(stack) - 1) /\ i + 1 \in 1..Len(stack)
      BY <1>1, <2>2
    <3>2. NextLink(stack[i], stack[i + 1], Armed)
      BY <1>1, <3>1 DEF StackLink
    <3>3. stack[i + 1].pc # "TimerCancel"
      <4>1. CASE i + 1 = Len(stack)
        BY <1>1, <4>1
      <4>2. CASE i + 1 # Len(stack)
        BY <3>1, <4>2, OneHolder DEF LockedPcs, LockedSetPcs
      <4> QED BY <4>1, <4>2
    <3> QED BY <3>2, <3>3 DEF NextLink
  <2> QED BY <2>1, <2>2
<1> QED BY <1>2 DEF NoCloser, CloseTimer

(* The innermost activation turns to an event that nobody is closing. *)
LEMMA TurnLink ==
  ASSUME NEW S, NEW s \in Seq(S), s # <<>>, NEW f, NEW ie, NEW linked, NEW armed,
         StackLink(s, ie, linked, armed), FrameLink(f, ie, linked, armed),
         f.pc \notin ClosePcs \cup CheckPcs \cup {"wait"},
         NoCloser(s, f.ev), Last(s).pc # "TimerCancel"
  PROVE  StackLink(SetTop(s, f), ie, linked, armed)
<1> DEFINE n == Len(s)
<1>1. n \in Nat \ {0} /\ Last(s) = s[n]
  BY DEF Last
<1>2. CloseTimer(f, armed)
  BY DEF CloseTimer
<1>3. ASSUME NEW i \in 1..n PROVE PairLink(s[i], f)
  BY DEF PairLink, Uses, NoCloser
<1> HIDE DEF n
<1>4. \A i \in 1..(n - 1) : PairLink(s[i], f)
  BY <1>1, <1>3
<1>5. ASSUME n > 1 PROVE NextLink(s[n - 1], f, armed)
  <2>1. n - 1 \in 1..(n - 1) /\ (n - 1) + 1 = n
    BY <1>1, <1>5
  <2>2. NextLink(s[n - 1], Last(s), armed)
    BY <1>1, <2>1 DEF StackLink, n
  <2> QED BY <2>2 DEF NextLink
<1> QED BY <1>2, <1>4, <1>5, UpdateLink DEF n

(* A new innermost frame that closes nothing adds no closer. *)
LEMMA SetTopNoCloser ==
  ASSUME NEW S, NEW s \in Seq(S), s # <<>>, NEW f, f.pc \notin ClosePcs, NEW e, NoCloser(s, e)
  PROVE  NoCloser(SetTop(s, f), e)
<1> DEFINE t == SetTop(s, f)
<1>1. s \in Seq(S \cup {f}) /\ Len(s) \in Nat \ {0}
  OBVIOUS
<1>2. Len(t) = Len(s) /\ t[Len(s)] = f /\ \A i \in 1..Len(s) : i # Len(s) => t[i] = s[i]
  BY <1>1 DEF SetTop
<1> HIDE DEF t
<1>3. NoCloser(t, e)
  BY <1>2 DEF NoCloser
<1> QED BY <1>3 DEF t

(* The order of the timer list makes it free of repetition, and any sublist of
   it is in order. *)
LEMMA TimersSublist ==
  ASSUME NEW tl \in Seq(Event), NEW ie, TimersOK(tl, ie)
  PROVE  /\ IsInjective(tl)
         /\ \A tl2 \in Seq(Event) : Sublist(tl2, tl) => TimersOK(tl2, ie)
<1>1. IsInjective(tl)
  <2>1. ASSUME NEW i \in 1..Len(tl), NEW j \in 1..Len(tl), tl[i] = tl[j] PROVE i = j
    <3>1. ~ (i < j) /\ ~ (j < i)
      BY <2>1 DEF TimersOK
    <3> QED BY <3>1
  <2> QED BY <2>1 DEF IsInjective
<1>2. ASSUME NEW tl2 \in Seq(Event), Sublist(tl2, tl) PROVE TimersOK(tl2, ie)
  BY <1>2 DEF Sublist, TimersOK
<1> QED BY <1>1, <1>2

(* Steps that touch only times, and disarm at most. *)
LEMMA TimerData ==
  ASSUME IInv, LInv, UNCHANGED <<queues, lists>>,
         SameShape(IEvent, IEvent'), Armed' \subseteq Armed
  PROVE  /\ Linked' = Linked
         /\ EventLink(IEvent', Linked', Armed')
         /\ QueuesOK(gEventQueue', gEventPending', IEvent')
         /\ NamesOK(gEventSignalQueue', RuntimeEventHead', IEvent')
         /\ StackLink(stack, IEvent', Linked', Armed')
<1>1. /\ gEventQueue' = gEventQueue /\ gEventPending' = gEventPending
      /\ gEventSignalQueue' = gEventSignalQueue /\ RuntimeEventHead' = RuntimeEventHead
  BY DEF queues, lists
<1>2. Linked' = Linked
  BY <1>1 DEF Linked
<1>3. mEfiCheckTimerEvent \in Event /\ IEvent[mEfiCheckTimerEvent].Signature
  BY EventAssumption DEF LInv, EventLink
<1>4. EventLink(IEvent', Linked', Armed')
  BY <1>2, <1>3, ListTypes, ShapeData DEF LInv
<1>5. QueuesOK(gEventQueue, gEventPending, IEvent') /\ NamesOK(gEventSignalQueue, RuntimeEventHead, IEvent')
  BY ListTypes, ShapeLists DEF LInv
<1>6. StackLink(stack, IEvent', Linked', Armed')
  <2>1. NoFree(stack, NoEvent)
    <3>1. NoEvent \notin ClientEvent
      BY EventAssumption DEF ClientEvent
    <3> QED BY <3>1, ListTypes, CoreNoCloser
  <2>2. Linked' \subseteq Linked \cup {NoEvent}
    BY <1>2
  <2> QED BY <2>1, <2>2, ListTypes, ShapeLink
<1> QED BY <1>1, <1>2, <1>4, <1>5, <1>6

(* CoreInsertEventTimer keeps the order. *)
LEMMA InsertTimers ==
  ASSUME IInv, LInv, NEW e \in Event, e \notin Armed, CoreInsertEventTimer(e)
  PROVE  TimersOK(mEfiTimerList', IEvent) /\ Armed' = Armed \cup {e}
<1> DEFINE s == mEfiTimerList
           t == mEfiTimerList'
           n == Len(s)
           r == TimerSlot(e)
           time(x) == IEvent[x].TriggerTime
<1>1. /\ s \in Seq(Event) /\ n \in Nat /\ DataOK /\ TimersOK(s, IEvent)
      /\ \A x \in Event : time(x) \in Nat
  <2>1. IEvent \in [Event -> IEvents] /\ s \in Seq(Event) /\ DataOK /\ TimersOK(s, IEvent)
    BY ListTypes DEF IInv, LInv
  <2>2. \A x \in Event : time(x) \in Nat
    BY <2>1 DEF IEvents
  <2> QED BY <2>1, <2>2
<1>2. /\ r \in 1..(n + 1)
      /\ \A j \in 1..(r - 1) : time(s[j]) <= time(e)
      /\ r <= n => time(s[r]) > time(e)
  BY <1>1, TimerSlotPlace
<1>3. t = InsertAt(s, r, e)
  BY DEF CoreInsertEventTimer
<1> HIDE DEF r
<1>4. /\ Len(t) = n + 1
      /\ \A j \in 1..(n + 1) : t[j] = IF j < r THEN s[j] ELSE IF j = r THEN e ELSE s[j - 1]
  BY <1>1, <1>2, <1>3, InsertAtProperties
<1>5. Armed' = Armed \cup {e}
  BY <1>1, <1>2, <1>3, InsertAtList DEF Armed
<1>6. \A i \in 1..n : s[i] \in Event /\ s[i] # e /\ time(s[i]) \in Nat
  <2>1. \A i \in 1..n : s[i] \in Event /\ s[i] \in Armed
    BY <1>1, ToSetMember DEF Armed
  <2> QED BY <1>1, <2>1
<1>7. \A i, j \in 1..n : i < j => s[i] # s[j] /\ time(s[i]) <= time(s[j])
  BY <1>1 DEF TimersOK
<1>8. time(e) \in Nat
  BY <1>1
<1> HIDE DEF s, t, n, time
<1>9. \A j \in r..n : time(s[j]) > time(e)
  <2> SUFFICES ASSUME NEW j \in r..n PROVE time(s[j]) > time(e)
    OBVIOUS
  <2>1. r \in 1..n /\ j \in 1..n /\ time(s[r]) > time(e)
    BY <1>1, <1>2
  <2>2. time(s[r]) \in Nat /\ time(s[j]) \in Nat
    BY <1>6, <2>1
  <2>3. r = j \/ r < j
    BY <2>1
  <2> QED BY <1>7, <1>8, <2>1, <2>2, <2>3
<1>10. \A i, j \in 1..(n + 1) : i < j => t[i] # t[j] /\ time(t[i]) <= time(t[j])
  <2> SUFFICES ASSUME NEW i \in 1..(n + 1), NEW j \in 1..(n + 1), i < j
               PROVE  t[i] # t[j] /\ time(t[i]) <= time(t[j])
    OBVIOUS
  <2>1. CASE j < r
    <3>1. i \in 1..n /\ j \in 1..n /\ t[i] = s[i] /\ t[j] = s[j]
      BY <1>1, <1>2, <1>4, <2>1
    <3> QED BY <1>7, <3>1
  <2>2. CASE j = r
    <3>1. i \in 1..n /\ i \in 1..(r - 1) /\ t[i] = s[i] /\ t[j] = e
      BY <1>1, <1>2, <1>4, <2>2
    <3> QED BY <1>2, <1>6, <3>1
  <2>3. CASE i = r
    <3>1. j - 1 \in 1..n /\ j - 1 \in r..n /\ t[i] = e /\ t[j] = s[j - 1]
      BY <1>1, <1>2, <1>4, <2>3
    <3>2. s[j - 1] # e /\ time(s[j - 1]) \in Nat /\ time(s[j - 1]) > time(e)
      BY <1>6, <1>9, <3>1
    <3> QED BY <1>8, <3>1, <3>2
  <2>4. CASE i < r /\ r < j
    <3>1. i \in 1..n /\ j - 1 \in 1..n /\ i < j - 1 /\ t[i] = s[i] /\ t[j] = s[j - 1]
      BY <1>1, <1>2, <1>4, <2>4
    <3> QED BY <1>7, <3>1
  <2>5. CASE r < i
    <3>1. i - 1 \in 1..n /\ j - 1 \in 1..n /\ i - 1 < j - 1 /\ t[i] = s[i - 1] /\ t[j] = s[j - 1]
      BY <1>1, <1>2, <1>4, <2>5
    <3> QED BY <1>7, <3>1
  <2> QED BY <1>2, <2>1, <2>2, <2>3, <2>4, <2>5
<1>11. TimersOK(t, IEvent)
  BY <1>4, <1>10 DEF TimersOK, time
<1> QED BY <1>5, <1>11 DEF t

(* CoreInsertEventTimer by an activation that goes on as f. *)
LEMMA InsertLink ==
  ASSUME IInv, LInv, Top.pc \in {"ct_insert", "st_insert"},
         NEW f, f.ev = Top.ev, f.pc \in {"ct_loop", "st_kick", "st_release"},
         CoreInsertEventTimer(Top.ev), stack' = SetTop(stack, f),
         UNCHANGED <<queues, lists, IEvent>>
  PROVE  LInv'
<1>1. /\ stack \in Seq(Frames) /\ stack # <<>> /\ Top = Last(stack)
      /\ Len(stack) \in Nat \ {0} /\ FrameOK(Top)
      /\ StackLink(stack, IEvent, Linked, Armed) /\ FrameLink(Top, IEvent, Linked, Armed)
  BY ListTypes
<1>2. Top.ev \in Event /\ Top.ev \notin Armed /\ "TIMER" \in IEvent[Top.ev].Type /\ IEvent[Top.ev].Signature
  <2>1. Top.pc \in EventPcs /\ Top.pc \notin ClientPcs
        /\ Top.pc \in LockedSetPcs \cup DueTimerPcs /\ Top.pc \in SetTimePcs \cup DueTimerPcs
    BY DEF EventPcs, LockedSetPcs, DueTimerPcs, SetTimePcs, ClientPcs
  <2> QED BY <1>1, <2>1 DEF FrameOK, FrameLink
<1>3. TimersOK(mEfiTimerList', IEvent) /\ Armed' = Armed \cup {Top.ev}
  BY <1>2, InsertTimers
<1>4. /\ gEventQueue' = gEventQueue /\ gEventPending' = gEventPending
      /\ gEventSignalQueue' = gEventSignalQueue /\ RuntimeEventHead' = RuntimeEventHead
      /\ IEvent' = IEvent
  BY DEF queues, lists
<1>5. Linked' = Linked
  BY <1>4 DEF Linked
<1>6. /\ f.pc \notin ClosePcs \cup CheckPcs \cup {"wait"} /\ CloseTimer(f, Armed)
      /\ f.pc \notin SetTimePcs \cup DueTimerPcs
      /\ Top.pc \notin ClientPcs \cup ClosePcs \cup {"TimerCancel", "st_release", "notify"}
      /\ Top.pc \notin SignalPcs
  BY DEF ClosePcs, CheckPcs, CloseTimer, ClientPcs, SetTimePcs, DueTimerPcs, SignalPcs
<1>7. FrameLink(f, IEvent, Linked, Armed)
  BY <1>2 DEF FrameLink, ClosePcs, NoEventPcs, SetTimePcs, DueTimerPcs, ClientPcs
<1>8. StackLink(stack', IEvent, Linked, Armed)
  BY <1>1, <1>6, <1>7, MoveLink
<1>9. NoCloser(stack', Top.ev)
  <2>1. NoCloser(stack, Top.ev)
    BY <1>6, TopNoCloser
  <2> QED BY <1>1, <1>6, <2>1, SetTopNoCloser
<1>10. /\ Len(stack') = Len(stack) /\ stack'[Len(stack)] = f
       /\ \A i \in 1..Len(stack) : i # Len(stack) => stack'[i] = stack[i]
  <2>1. stack \in Seq(Frames \cup {f})
    BY <1>1
  <2> QED BY <1>1, <2>1 DEF SetTop
<1> DEFINE t == stack'
           armed == Armed'
<1> HIDE DEF t, armed
<1>11. ASSUME NEW i \in 1..Len(t) PROVE t[i].pc \notin SetTimePcs \cup DueTimerPcs
  <2>1. CASE i = Len(stack)
    BY <1>6, <1>10, <2>1 DEF t
  <2>2. CASE i # Len(stack)
    <3>1. stack[i].pc \notin LockedPcs /\ t[i] = stack[i]
      BY <1>6, <1>10, <2>2, OneHolder DEF t
    <3> QED BY <3>1 DEF LockedPcs, LockedCheckPcs, LockedSetPcs, SetTimePcs, DueTimerPcs
  <2> QED BY <2>1, <2>2
<1>12. StackLink(t, IEvent, Linked, armed)
  <2>1. StackLink(t, IEvent, Linked, Armed) /\ Len(t) \in Nat \ {0} /\ armed = Armed \cup {Top.ev}
    BY <1>1, <1>3, <1>8, <1>10 DEF t, armed
  <2>2. ASSUME NEW i \in 1..Len(t) PROVE FrameLink(t[i], IEvent, Linked, armed)
    <3>1. FrameLink(t[i], IEvent, Linked, Armed)
      BY <2>1 DEF StackLink
    <3> QED BY <1>11, <3>1 DEF FrameLink
  <2>3. ASSUME NEW i \in 1..Len(t), CloseTimer(t[i], Armed) PROVE CloseTimer(t[i], armed)
    BY <1>9, <2>1, <2>3 DEF CloseTimer, NoCloser, t
  <2>4. /\ \A i \in 1..Len(t) : FrameLink(t[i], IEvent, Linked, armed)
        /\ \A i \in 1..Len(t) : CloseTimer(t[i], Armed) => CloseTimer(t[i], armed)
    BY <2>2, <2>3
  <2>5. StackLink(t, IEvent, Linked, Armed) /\ Len(t) \in Nat \ {0}
    BY <2>1
  <2> QED BY <2>4, <2>5, CarryLink
<1>13. EventLink(IEvent, Linked, armed)
  BY <1>2, <1>3 DEF LInv, EventLink, armed
<1> QED BY <1>3, <1>4, <1>5, <1>12, <1>13 DEF LInv, t, armed

(* The activations do not depend on times. *)
LEMMA TimeOnly ==
  ASSUME IEvent \in [Event -> IEvents], NEW e \in Event, NEW n, NEW p, NEW ie2,
         \/ ie2 = IEvent
         \/ ie2 = [IEvent EXCEPT ![e].TriggerTime = n]
         \/ ie2 = [IEvent EXCEPT ![e].TriggerTime = n, ![e].Period = p]
  PROVE  SameShape(IEvent, ie2) /\ \A x \in Event : x # e => ie2[x].TriggerTime = IEvent[x].TriggerTime
<1>1. CASE ie2 = IEvent
  BY <1>1 DEF SameShape
<1>2. CASE ie2 = [IEvent EXCEPT ![e].TriggerTime = n]
  <2>1. ASSUME NEW x \in Event
        PROVE  /\ ie2[x].Signature = IEvent[x].Signature /\ ie2[x].Type = IEvent[x].Type
               /\ ie2[x].NotifyTpl = IEvent[x].NotifyTpl
               /\ x # e => ie2[x].TriggerTime = IEvent[x].TriggerTime
    BY <1>2 DEF IEvents
  <2> QED BY <2>1 DEF SameShape
<1>3. CASE ie2 = [IEvent EXCEPT ![e].TriggerTime = n, ![e].Period = p]
  <2>1. ASSUME NEW x \in Event
        PROVE  /\ ie2[x].Signature = IEvent[x].Signature /\ ie2[x].Type = IEvent[x].Type
               /\ ie2[x].NotifyTpl = IEvent[x].NotifyTpl
               /\ x # e => ie2[x].TriggerTime = IEvent[x].TriggerTime
    BY <1>3 DEF IEvents
  <2> QED BY <2>1 DEF SameShape
<1> QED BY <1>1, <1>2, <1>3

(* CoreReleaseLock (&mEfiTimerLock). *)
LEMMA ReleaseLink ==
  ASSUME IInv, LInv, Top.pc # "TimerCancel", ReleaseTimerLock,
         UNCHANGED <<queues, lists, mEfiTimerList, IEvent>>
  PROVE  LInv'
<1> DEFINE f == Frame("test", gEfiCurrentTpl, mEfiTimerLock.OwnerTpl, NoEvent, 0)
<1>1. stack' = Update(f) /\ f.pc = "test" /\ f.ev = NoEvent
  BY DEF ReleaseTimerLock, Frame
<1> HIDE DEF f
<1>2. StackLink(stack', IEvent, Linked, Armed)
  BY <1>1, IdleMove
<1> QED BY <1>2, MoveOnly

(* A step of CoreCheckTimers within its loop. *)
LEMMA CheckTimersMove ==
  ASSUME IInv, LInv, Top.pc \in {"ct_lock"} \cup LockedCheckPcs,
         NEW f, f.ev = Top.ev, f.pc \in LockedCheckPcs,
         f.pc \in DueTimerPcs => Top.pc \in DueTimerPcs,
         NEW ie, NEW armed, StackLink(stack, ie, Linked, armed)
  PROVE  StackLink(SetTop(stack, f), ie, Linked, armed)
<1>1. stack \in Seq(Frames) /\ stack # <<>> /\ Top = Last(stack)
  BY ListTypes
<1>2. FrameLink(Top, ie, Linked, armed)
  BY <1>1, LastLink
<1>3. /\ f.pc \notin ClosePcs \cup CheckPcs \cup {"wait"} /\ CloseTimer(f, armed)
      /\ f.pc \notin NoEventPcs \cup {"notify"} \cup LockedSetPcs \cup SetTimePcs \cup ClientPcs
      /\ Top.pc \notin ClientPcs \cup ClosePcs \cup {"TimerCancel", "st_release", "notify"}
  BY DEF ClosePcs, CheckPcs, CloseTimer, ClientPcs, LockedCheckPcs, NoEventPcs, LockedSetPcs, SetTimePcs
<1>4. FrameLink(f, ie, Linked, armed)
  BY <1>2, <1>3 DEF FrameLink, NoEventPcs, ClientPcs, ClosePcs
<1> QED BY <1>1, <1>3, <1>4, MoveLink

(* CoreCheckTimers. *)
LEMMA CheckTimersLink == ASSUME IInv, LInv, CheckTimersStep PROVE LInv'
<1>0. /\ Top \in Frames /\ FrameOK(Top) /\ FrameLink(Top, IEvent, Linked, Armed)
      /\ stack \in Seq(Frames) /\ stack # <<>> /\ Top = Last(stack)
      /\ StackLink(stack, IEvent, Linked, Armed)
      /\ mEfiTimerList \in Seq(Event) /\ IEvent \in [Event -> IEvents]
      /\ TimersOK(mEfiTimerList, IEvent)
  BY ListTypes DEF LInv
<1>1. Top.pc \in DueTimerPcs => /\ Top.ev \in Event /\ IEvent[Top.ev].Signature /\ Top.ev \notin Armed
                               /\ "TIMER" \in IEvent[Top.ev].Type
  BY <1>0 DEF FrameOK, FrameLink, EventPcs, DueTimerPcs, ClientPcs
<1>2. CASE CheckTimersAcquire
  <2> DEFINE f == [Top EXCEPT !.pc = "ct_time", !.lvl = TimerLockTpl]
  <2>1. f.pc = "ct_time" /\ f.ev = Top.ev
    BY <1>0, FrameFields
  <2>2. /\ Top.pc = "ct_lock" /\ stack' = SetTop(stack, f)
        /\ UNCHANGED <<queues, lists, mEfiTimerList, IEvent>>
    BY <1>2 DEF CheckTimersAcquire, Update
  <2> HIDE DEF f
  <2>3. f.pc \in LockedCheckPcs /\ f.pc \notin DueTimerPcs
    BY <2>1 DEF LockedCheckPcs, DueTimerPcs
  <2>4. StackLink(stack', IEvent, Linked, Armed)
    BY <1>0, <2>1, <2>2, <2>3, CheckTimersMove
  <2> QED BY <2>2, <2>4, MoveOnly
<1>3. CASE CheckTimersReadTime
  <2> DEFINE f == [Top EXCEPT !.pc = "ct_loop", !.num = mEfiSystemTime]
  <2>1. f.pc = "ct_loop" /\ f.ev = Top.ev
    BY <1>0, FrameFields
  <2>2. /\ Top.pc = "ct_time" /\ RestoreFromHigh(gEfiCurrentTpl, SetTop(stack, f))
        /\ UNCHANGED <<queues, lists, mEfiTimerList, IEvent>>
    BY <1>3 DEF CheckTimersReadTime, Update, timers
  <2> HIDE DEF f
  <2>3. f.pc \in LockedCheckPcs /\ f.pc \notin DueTimerPcs /\ Top.pc \in LockedCheckPcs
    BY <2>1, <2>2 DEF LockedCheckPcs, DueTimerPcs
  <2>4. StackLink(SetTop(stack, f), IEvent, Linked, Armed)
    BY <1>0, <2>1, <2>3, CheckTimersMove
  <2> QED BY <1>0, <2>2, <2>4, SetTopSeq, RestoreOnly
<1>4. CASE CheckTimersRemove
  <2> DEFINE e == Head(mEfiTimerList)
             f == [Top EXCEPT !.pc = "ct_signal", !.ev = e]
  <2>1. f.pc = "ct_signal" /\ f.ev = e
    BY <1>0, FrameFields
  <2>2. /\ Top.pc = "ct_loop" /\ mEfiTimerList # <<>>
        /\ mEfiTimerList' = Tail(mEfiTimerList) /\ stack' = SetTop(stack, f)
        /\ UNCHANGED <<queues, lists>> /\ IEvent' = IEvent
    BY <1>4 DEF CheckTimersRemove, Expired, Update
  <2>3. /\ e \in Event /\ e \in Armed /\ Armed' = Armed \ {e}
        /\ TimersOK(mEfiTimerList', IEvent')
    <3>1. IsInjective(mEfiTimerList)
      BY <1>0, TimersSublist
    <3>2. /\ Tail(mEfiTimerList) \in Seq(Event) /\ e \in Event
          /\ ToSet(Tail(mEfiTimerList)) = ToSet(mEfiTimerList) \ {e} /\ e \in ToSet(mEfiTimerList)
          /\ Sublist(Tail(mEfiTimerList), mEfiTimerList)
      BY <1>0, <2>2, <3>1, TailList
    <3>3. TimersOK(Tail(mEfiTimerList), IEvent)
      BY <1>0, <3>2, TimersSublist
    <3> QED BY <2>2, <3>2, <3>3 DEF Armed
  <2> HIDE DEF e, f
  <2>4. SameShape(IEvent, IEvent')
    BY <2>2 DEF SameShape
  <2>5. /\ EventLink(IEvent', Linked', Armed')
        /\ QueuesOK(gEventQueue', gEventPending', IEvent')
        /\ NamesOK(gEventSignalQueue', RuntimeEventHead', IEvent')
        /\ StackLink(stack, IEvent', Linked', Armed')
    BY <2>2, <2>3, <2>4, TimerData
  <2>6. IEvent[e].Signature /\ "TIMER" \in IEvent[e].Type
    BY <2>3 DEF LInv, EventLink
  <2>7. FrameLink(f, IEvent', Linked', Armed')
    BY <2>1, <2>2, <2>3, <2>6 DEF FrameLink, ClosePcs, NoEventPcs, ClientPcs
  <2>8. NoCloser(stack, e)
    BY <2>2, <2>3, ArmedNoCloser DEF SignalPcs
  <2>9. f.pc \notin ClosePcs \cup CheckPcs \cup {"wait"} /\ Top.pc # "TimerCancel"
    BY <2>1, <2>2 DEF ClosePcs, CheckPcs
  <2>10. StackLink(stack', IEvent', Linked', Armed')
    BY <1>0, <2>1, <2>2, <2>5, <2>7, <2>8, <2>9, TurnLink
  <2> QED BY <2>3, <2>5, <2>10 DEF LInv
<1>5. CASE CheckTimersSignal \/ CheckTimersAgain
  <2> DEFINE pc == IF Top.pc = "ct_signal" THEN "ct_period" ELSE "ct_insert"
             e == IF Top.pc = "ct_signal" THEN Top.ev ELSE mEfiCheckTimerEvent
             f == [Top EXCEPT !.pc = pc]
  <2>1. f.pc = pc /\ f.ev = Top.ev /\ f.num = Top.num
    BY <1>0, FrameFields
  <2>2. /\ Top.pc \in {"ct_signal", "ct_again"} /\ UNCHANGED <<lists, mEfiTimerList>>
        /\ CoreSignalEvent(e, SetTop(stack, f))
    BY <1>5 DEF CheckTimersSignal, CheckTimersAgain, Goto, Update, timers
  <2>3. StackInv(SetTop(stack, f), gEfiCurrentTpl, mEfiTimerLock)
    <3>1. Moved(f, Top, pc, Top.ev, Top.num)
      <4>1. pc \in Pcs /\ Top.num \in Nat /\ NoEvent \in Event \cup {NoEvent}
        BY <1>0, FrameTypes DEF Pcs, LockedPcs, LockedCheckPcs
      <4> QED BY <1>0, <4>1, MovedFrames
    <3>2. pc \in LockedPcs /\ Top.pc \in LockedPcs /\ Top.pc \in LockedCheckPcs /\ Top.ev \in Event
      BY <1>1, <2>2 DEF LockedPcs, LockedCheckPcs, DueTimerPcs
    <3> HIDE DEF f, pc
    <3>3. StackInv(Update(f), gEfiCurrentTpl, mEfiTimerLock)
      BY <3>1, <3>2, LockedMoved
    <3> QED BY <3>3 DEF Update
  <2>4. /\ f.pc \in LockedCheckPcs /\ Top.pc \in LockedCheckPcs /\ Top.pc \in DueTimerPcs
        /\ f.pc \notin ClosePcs
        /\ Top.pc \notin ClientPcs \cup ClosePcs \cup {"TimerCancel", "st_release", "notify"}
    BY <2>1, <2>2 DEF LockedCheckPcs, DueTimerPcs, ClosePcs, ClientPcs
  <2>5. e \in Event /\ IEvent[e].Signature /\ NoCloser(stack, e)
    <3>1. mEfiCheckTimerEvent \in Event /\ IEvent[mEfiCheckTimerEvent].Signature
          /\ NoCloser(stack, mEfiCheckTimerEvent)
      <4>1. mEfiCheckTimerEvent \notin ClientEvent
        BY DEF ClientEvent
      <4> QED BY <1>0, <4>1, EventAssumption, CoreNoCloser DEF LInv, EventLink
    <3>2. Top.ev \in Event /\ IEvent[Top.ev].Signature /\ NoCloser(stack, Top.ev)
      BY <1>1, <2>4, TopNoCloser
    <3> QED BY <3>1, <3>2
  <2> HIDE DEF f, pc, e
  <2>6. StackLink(SetTop(stack, f), IEvent, Linked, Armed)
    BY <1>0, <2>1, <2>4, CheckTimersMove
  <2>7. NoCloser(SetTop(stack, f), e) /\ StackOK(SetTop(stack, f), gEfiCurrentTpl)
    BY <1>0, <2>3, <2>4, <2>5, SetTopNoCloser DEF StackInv
  <2> QED BY <2>2, <2>5, <2>6, <2>7, SignalLink
<1>6. CASE CheckTimersPeriod
  <2> DEFINE e == Top.ev
             next == (IEvent[e].TriggerTime + IEvent[e].Period) % TimeModulus
             late == next <= Top.num
             time == IF late THEN Top.num ELSE next
             pc == IF IEvent[e].Period = 0 THEN "ct_loop" ELSE IF late THEN "ct_again" ELSE "ct_insert"
             f == [Top EXCEPT !.pc = pc]
  <2>1. f.pc = pc /\ f.ev = Top.ev /\ pc \in {"ct_loop", "ct_again", "ct_insert"}
    BY <1>0, FrameFields
  <2>2. /\ Top.pc = "ct_period" /\ stack' = SetTop(stack, f)
        /\ UNCHANGED <<queues, lists>> /\ mEfiTimerList' = mEfiTimerList /\ Armed' = Armed
        /\ IEvent' = IEvent \/ IEvent' = [IEvent EXCEPT ![e].TriggerTime = time]
    BY <1>6 DEF CheckTimersPeriod, Goto, Update, Armed
  <2>3. e \in Event /\ e \notin Armed /\ Top.pc \in DueTimerPcs /\ Top.pc \in LockedCheckPcs
    BY <1>1, <2>2 DEF DueTimerPcs, LockedCheckPcs
  <2> HIDE DEF f, pc, time, e
  <2>4. SameShape(IEvent, IEvent') /\ \A x \in Event : x # e => IEvent'[x].TriggerTime = IEvent[x].TriggerTime
    BY <1>0, <2>2, <2>3, TimeOnly
  <2>5. /\ Linked' = Linked
        /\ EventLink(IEvent', Linked', Armed')
        /\ QueuesOK(gEventQueue', gEventPending', IEvent')
        /\ NamesOK(gEventSignalQueue', RuntimeEventHead', IEvent')
        /\ StackLink(stack, IEvent', Linked', Armed')
    BY <2>2, <2>4, TimerData
  <2>6. TimersOK(mEfiTimerList', IEvent')
    <3>1. \A i \in 1..Len(mEfiTimerList) : mEfiTimerList[i] \in Event /\ mEfiTimerList[i] # e
      BY <1>0, <2>3, ToSetMember DEF Armed
    <3> QED BY <1>0, <2>2, <2>4, <3>1 DEF TimersOK
  <2>7. f.pc \in LockedCheckPcs
    BY <2>1 DEF LockedCheckPcs
  <2>8. StackLink(stack', IEvent', Linked', Armed')
    BY <2>1, <2>2, <2>3, <2>5, <2>7, CheckTimersMove
  <2> QED BY <2>5, <2>6, <2>8 DEF LInv
<1>7. CASE CheckTimersInsert
  <2> DEFINE f == [Top EXCEPT !.pc = "ct_loop"]
  <2>1. f.pc = "ct_loop" /\ f.ev = Top.ev
    BY <1>0, FrameFields
  <2>2. /\ Top.pc = "ct_insert" /\ CoreInsertEventTimer(Top.ev) /\ stack' = SetTop(stack, f)
        /\ UNCHANGED <<queues, lists, IEvent>>
    BY <1>7 DEF CheckTimersInsert, Goto, Update
  <2> HIDE DEF f
  <2> QED BY <2>1, <2>2, InsertLink
<1>8. CASE CheckTimersRelease
  BY <1>8, ReleaseLink DEF CheckTimersRelease
<1> QED BY <1>2, <1>3, <1>4, <1>5, <1>6, <1>7, <1>8 DEF CheckTimersStep

(* A step of CoreSetTimer. *)
LEMMA SetTimerMove ==
  ASSUME IInv, LInv, Top.pc \in LockedSetPcs, Top.pc # "st_release",
         NEW f, f.ev = Top.ev, f.pc \in {"st_time", "st_insert", "st_kick", "st_release"},
         NEW ie, NEW armed, StackLink(stack, ie, Linked, armed),
         f.pc \in SetTimePcs => Top.ev \notin armed,
         Top.pc = "TimerCancel" => f.pc = "st_release" /\ Top.ev \notin armed
  PROVE  StackLink(SetTop(stack, f), ie, Linked, armed)
<1>1. stack \in Seq(Frames) /\ stack # <<>> /\ Top = Last(stack)
  BY ListTypes
<1>2. FrameLink(Top, ie, Linked, armed)
  BY <1>1, LastLink
<1>3. /\ f.pc \notin ClosePcs \cup CheckPcs \cup {"wait"} /\ CloseTimer(f, armed)
      /\ f.pc \notin NoEventPcs \cup {"notify"} \cup DueTimerPcs \cup ClientPcs
      /\ f.pc \in LockedSetPcs
      /\ Top.pc \notin ClientPcs \cup {"st_release", "notify"}
  BY DEF ClosePcs, CheckPcs, CloseTimer, ClientPcs, DueTimerPcs, NoEventPcs, LockedSetPcs
<1>4. FrameLink(f, ie, Linked, armed)
  BY <1>2, <1>3 DEF FrameLink, NoEventPcs, ClientPcs, ClosePcs
<1> QED BY <1>1, <1>3, <1>4, MoveLink

(* CoreSetTimer. *)
LEMMA SetTimerLink == ASSUME IInv, LInv, SetTimerStep PROVE LInv'
<1>0. /\ Top \in Frames /\ FrameOK(Top) /\ FrameLink(Top, IEvent, Linked, Armed)
      /\ stack \in Seq(Frames) /\ stack # <<>> /\ Top = Last(stack)
      /\ StackLink(stack, IEvent, Linked, Armed)
      /\ mEfiTimerList \in Seq(Event) /\ IEvent \in [Event -> IEvents]
      /\ TimersOK(mEfiTimerList, IEvent)
  BY ListTypes DEF LInv
<1>1. /\ Top.pc \in LockedSetPcs /\ Top.ev \in Event
      /\ Top.pc \in SetTimePcs => Top.ev \notin Armed
  <2>1. Top.pc \in LockedSetPcs
    BY DEF SetTimerStep, SetTimerRemove, SetTimerReadTime, SetTimerInsert, SetTimerKick,
           SetTimerRelease, LockedSetPcs
  <2> QED BY <1>0, <2>1 DEF FrameOK, EventPcs, FrameLink
<1>2. CASE SetTimerRemove
  <2> DEFINE e == Top.ev
             period == IF Top.num = 0 THEN TickPeriod ELSE Top.num
             p == IF Top.pc = "TimerPeriodic" THEN period ELSE 0
             pc == IF Top.pc = "TimerCancel" THEN "st_release" ELSE "st_time"
             num == IF Top.pc = "TimerPeriodic" THEN period ELSE Top.num
             f == [Top EXCEPT !.pc = pc, !.num = num]
  <2>1. f.pc = pc /\ f.ev = e
    BY <1>0, FrameFields
  <2>2. /\ Top.pc \in {"TimerCancel", "TimerPeriodic", "TimerRelative"}
        /\ stack' = SetTop(stack, f) /\ mEfiTimerList' = Unlink(mEfiTimerList, e)
        /\ UNCHANGED <<queues, lists>>
        /\ IEvent' = [IEvent EXCEPT ![e].TriggerTime = 0, ![e].Period = p]
    BY <1>2 DEF SetTimerRemove, Update
  <2> HIDE DEF e, p, f
  <2>3. /\ SameShape(IEvent, IEvent')
        /\ \A x \in Event : x # e => IEvent'[x].TriggerTime = IEvent[x].TriggerTime
    BY <1>0, <1>1, <2>2, TimeOnly DEF e
  <2>4. /\ mEfiTimerList' \in Seq(Event) /\ TimersOK(mEfiTimerList', IEvent) /\ Armed' = Armed \ {e}
    <3>1. IsInjective(mEfiTimerList)
      BY <1>0, TimersSublist
    <3>2. /\ Unlink(mEfiTimerList, e) \in Seq(Event)
          /\ ToSet(Unlink(mEfiTimerList, e)) = ToSet(mEfiTimerList) \ {e}
          /\ Sublist(Unlink(mEfiTimerList, e), mEfiTimerList)
      BY <1>0, <3>1, UnlinkList
    <3>3. TimersOK(Unlink(mEfiTimerList, e), IEvent)
      BY <1>0, <3>2, TimersSublist
    <3> QED BY <2>2, <3>2, <3>3 DEF Armed
  <2>5. TimersOK(mEfiTimerList', IEvent')
    <3> DEFINE t == mEfiTimerList'
               ie == IEvent'
    <3>1. \A i \in 1..Len(t) : t[i] \in Event /\ t[i] # e
      <4>1. \A i \in 1..Len(t) : t[i] \in Event /\ t[i] \in ToSet(t)
        BY <2>4, ToSetMember
      <4> QED BY <2>4, <4>1 DEF Armed
    <3>2. TimersOK(t, IEvent) /\ \A x \in Event : x # e => ie[x].TriggerTime = IEvent[x].TriggerTime
      BY <2>3, <2>4
    <3> HIDE DEF t, ie
    <3>3. TimersOK(t, ie)
      BY <3>1, <3>2 DEF TimersOK
    <3> QED BY <3>3 DEF t, ie
  <2>6. /\ Linked' = Linked
        /\ EventLink(IEvent', Linked', Armed')
        /\ QueuesOK(gEventQueue', gEventPending', IEvent')
        /\ NamesOK(gEventSignalQueue', RuntimeEventHead', IEvent')
        /\ StackLink(stack, IEvent', Linked', Armed')
    BY <2>2, <2>3, <2>4, TimerData
  <2>7. Top.ev \notin Armed' /\ f.pc \in {"st_time", "st_release"} /\ f.ev = Top.ev
        /\ (Top.pc = "TimerCancel" => f.pc = "st_release") /\ Top.pc # "st_release"
    BY <2>1, <2>2, <2>4 DEF e
  <2>8. StackLink(stack', IEvent', Linked', Armed')
    BY <1>1, <2>2, <2>6, <2>7, SetTimerMove
  <2> QED BY <2>5, <2>6, <2>8 DEF LInv
<1>3. CASE SetTimerReadTime
  <2> DEFINE e == Top.ev
             time == (mEfiSystemTime + Top.num) % TimeModulus
             f == [Top EXCEPT !.pc = "st_insert"]
  <2>1. f.pc = "st_insert" /\ f.ev = Top.ev
    BY <1>0, FrameFields
  <2>2. /\ Top.pc = "st_time" /\ RestoreFromHigh(gEfiCurrentTpl, SetTop(stack, f))
        /\ UNCHANGED <<queues, lists>> /\ mEfiTimerList' = mEfiTimerList /\ Armed' = Armed
        /\ IEvent' = [IEvent EXCEPT ![e].TriggerTime = time]
    BY <1>3 DEF SetTimerReadTime, Goto, Update, Armed
  <2>3. e \in Event /\ e \notin Armed
    BY <1>1, <2>2 DEF SetTimePcs
  <2> HIDE DEF f, time, e
  <2>4. SameShape(IEvent, IEvent') /\ \A x \in Event : x # e => IEvent'[x].TriggerTime = IEvent[x].TriggerTime
    BY <1>0, <2>2, <2>3, TimeOnly
  <2>5. /\ Linked' = Linked
        /\ EventLink(IEvent', Linked', Armed')
        /\ QueuesOK(gEventQueue', gEventPending', IEvent')
        /\ NamesOK(gEventSignalQueue', RuntimeEventHead', IEvent')
        /\ StackLink(stack, IEvent', Linked', Armed')
    BY <2>2, <2>4, TimerData
  <2>6. TimersOK(mEfiTimerList', IEvent')
    <3>1. \A i \in 1..Len(mEfiTimerList) : mEfiTimerList[i] \in Event /\ mEfiTimerList[i] # e
      BY <1>0, <2>3, ToSetMember DEF Armed
    <3> QED BY <1>0, <2>2, <2>4, <3>1 DEF TimersOK
  <2>7. StackLink(SetTop(stack, f), IEvent', Linked', Armed')
    <3>1. Top.ev \notin Armed'
      BY <2>2, <2>3 DEF e
    <3> QED BY <1>1, <2>1, <2>2, <2>5, <3>1, SetTimerMove
  <2>8. StackLink(stack', IEvent', Linked', Armed')
    BY <1>0, <2>2, <2>7, SetTopSeq, RestoreLink
  <2> QED BY <2>5, <2>6, <2>8 DEF LInv
<1>4. CASE SetTimerInsert
  <2> DEFINE pc == IF Top.num = 0 THEN "st_kick" ELSE "st_release"
             f == [Top EXCEPT !.pc = pc]
  <2>1. f.pc = pc /\ f.ev = Top.ev
    BY <1>0, FrameFields
  <2>2. /\ Top.pc = "st_insert" /\ CoreInsertEventTimer(Top.ev) /\ stack' = SetTop(stack, f)
        /\ UNCHANGED <<queues, lists, IEvent>>
    BY <1>4 DEF SetTimerInsert, Goto, Update
  <2> HIDE DEF f
  <2> QED BY <2>1, <2>2, InsertLink
<1>5. CASE SetTimerKick
  <2> DEFINE e == mEfiCheckTimerEvent
             f == [Top EXCEPT !.pc = "st_release"]
  <2>1. f.pc = "st_release" /\ f.ev = Top.ev /\ f.num = Top.num
    BY <1>0, FrameFields
  <2>2. /\ Top.pc = "st_kick" /\ UNCHANGED <<lists, mEfiTimerList>>
        /\ CoreSignalEvent(e, SetTop(stack, f))
    BY <1>5 DEF SetTimerKick, Goto, Update, timers
  <2>3. StackInv(SetTop(stack, f), gEfiCurrentTpl, mEfiTimerLock)
    <3>1. Moved(f, Top, "st_release", Top.ev, Top.num)
      <4>1. "st_release" \in Pcs /\ Top.num \in Nat /\ NoEvent \in Event \cup {NoEvent}
        BY <1>0, FrameTypes DEF Pcs, LockedPcs, LockedSetPcs
      <4> QED BY <1>0, <4>1, MovedFrames
    <3>2. "st_release" \in LockedPcs /\ Top.pc \in LockedPcs /\ "st_release" \notin LockedCheckPcs
      BY <2>2 DEF LockedPcs, LockedSetPcs, LockedCheckPcs
    <3> HIDE DEF f
    <3>3. StackInv(Update(f), gEfiCurrentTpl, mEfiTimerLock)
      BY <1>1, <3>1, <3>2, LockedMoved
    <3> QED BY <3>3 DEF Update
  <2>4. e \in Event /\ IEvent[e].Signature /\ NoCloser(stack, e)
    <3>1. e \notin ClientEvent
      BY DEF ClientEvent
    <3> QED BY <1>0, <3>1, EventAssumption, CoreNoCloser DEF LInv, EventLink
  <2> HIDE DEF f, e
  <2>5. StackLink(SetTop(stack, f), IEvent, Linked, Armed)
    BY <1>0, <1>1, <2>1, <2>2, SetTimerMove DEF SetTimePcs
  <2>6. NoCloser(SetTop(stack, f), e) /\ StackOK(SetTop(stack, f), gEfiCurrentTpl)
    BY <1>0, <2>1, <2>3, <2>4, SetTopNoCloser DEF StackInv, ClosePcs
  <2> QED BY <2>2, <2>4, <2>5, <2>6, SignalLink
<1>6. CASE SetTimerRelease
  BY <1>6, ReleaseLink DEF SetTimerRelease
<1> QED BY <1>2, <1>3, <1>4, <1>5, <1>6 DEF SetTimerStep

-----------------------------------------------------------------------------
(* CoreCheckEvent and CoreWaitForEvent *)

(* A step of CoreCheckEvent. *)
LEMMA CheckMove ==
  ASSUME IInv, LInv, Top.pc \in CheckPcs, NEW f, f.ev = Top.ev, f.pc \in CheckPcs,
         NEW ie, NEW linked, NEW armed, StackLink(stack, ie, linked, armed)
  PROVE  StackLink(SetTop(stack, f), ie, linked, armed)
<1>1. stack \in Seq(Frames) /\ stack # <<>> /\ Top = Last(stack)
  BY ListTypes
<1>2. FrameLink(Top, ie, linked, armed)
  BY <1>1, LastLink
<1>3. /\ f.pc \notin ClosePcs \cup ClientPcs \cup {"wait", "raised", "notify"} /\ CloseTimer(f, armed)
      /\ f.pc \notin NoEventPcs \cup DueTimerPcs \cup LockedSetPcs \cup SetTimePcs
      /\ Top.pc \notin ClientPcs \cup {"TimerCancel", "st_release", "notify"}
  BY DEF ClosePcs, CheckPcs, CloseTimer, ClientPcs, DueTimerPcs, NoEventPcs, LockedSetPcs, SetTimePcs
<1>4. FrameLink(f, ie, linked, armed)
  BY <1>2, <1>3 DEF FrameLink, ClosePcs
<1> QED BY <1>1, <1>3, <1>4, MoveLink

(* The return from CoreCheckEvent, to CoreWaitForEvent or through it. *)
LEMMA ReturnLink ==
  ASSUME IInv, LInv, Top.pc \in {"chk_read", "chk_clear"}, NEW ready \in BOOLEAN,
         NEW ie, NEW linked, NEW armed, StackLink(stack, ie, linked, armed)
  PROVE  /\ StackLink(ReturnFromCheck(ready), ie, linked, armed)
         /\ ReturnFromCheck(ready) \in Seq(Frames) /\ ReturnFromCheck(ready) # <<>>
<1> DEFINE s == Front(stack)
           f == [Last(s) EXCEPT !.num = @ + 1]
<1>1. ReturnFromCheck(ready) \in Seq(Frames) /\ ReturnFromCheck(ready) # <<>>
  BY ReturnFromCheckKeeps DEF StackInv, StackOK
<1>2. s \in Seq(Frames) /\ s # <<>> /\ Len(stack) > 1
  BY PopTop
<1>3. StackLink(s, ie, linked, armed)
  BY <1>2, ListTypes, PopLink
<1>4. StackOK(s, Top.new)
  <2>1. Top.pc \notin LockedPcs \cup {"app"}
    BY DEF LockedPcs, LockedCheckPcs, LockedSetPcs
  <2> QED BY <2>1, Running, PopFrame DEF StackInv
<1>5. \/ ReturnFromCheck(ready) = s
      \/ Last(s).pc = "wait" /\ ReturnFromCheck(ready) = Front(s)
      \/ Last(s).pc = "wait" /\ ReturnFromCheck(ready) = SetTop(s, f)
  BY DEF ReturnFromCheck
<1> HIDE DEF s
<1>6. Last(s) \in Frames /\ Len(s) \in Nat \ {0} /\ (Last(s).pc = "app" <=> Len(s) = 1)
  BY <1>4, TopFrame DEF FrameOK
<1>7. ASSUME Last(s).pc = "wait" PROVE StackLink(Front(s), ie, linked, armed)
  <2>1. Len(s) # 1 /\ Len(s) \in Nat \ {0}
    BY <1>6, <1>7
  <2>2. Len(s) > 1
    <3>1. \A n \in Nat \ {0} : n # 1 => n > 1
      OBVIOUS
    <3> QED BY <2>1, <3>1
  <2> QED BY <1>2, <1>3, <1>7, <2>2, PopLink
<1>8. ASSUME Last(s).pc = "wait" PROVE StackLink(SetTop(s, f), ie, linked, armed)
  <2>1. f.pc = "wait" /\ f.ev = Last(s).ev
    BY <1>6, <1>8 DEF Frames
  <2> HIDE DEF f
  <2>2. FrameLink(Last(s), ie, linked, armed)
    BY <1>2, <1>3, LastLink
  <2>3. FrameLink(f, ie, linked, armed) /\ CloseTimer(f, armed)
    BY <1>8, <2>1, <2>2 DEF FrameLink, CloseTimer, ClosePcs, NoEventPcs, DueTimerPcs, LockedSetPcs, SetTimePcs
  <2>4. Last(s).pc \notin ClientPcs /\ f.pc \notin ClosePcs \cup CheckPcs
    BY <1>8, <2>1 DEF ClientPcs, ClosePcs, CheckPcs
  <2> QED BY <1>2, <1>3, <1>8, <2>1, <2>3, <2>4, MoveLink
<1> QED BY <1>1, <1>3, <1>5, <1>7, <1>8

(* CoreCheckEvent and CoreWaitForEvent. *)
LEMMA WaitStepLink == ASSUME IInv, LInv, WaitStep PROVE LInv'
<1>0. /\ Top \in Frames /\ FrameOK(Top) /\ FrameLink(Top, IEvent, Linked, Armed)
      /\ stack \in Seq(Frames) /\ stack # <<>> /\ Top = Last(stack)
      /\ Len(stack) \in Nat \ {0} /\ Top = stack[Len(stack)]
      /\ StackOK(stack, gEfiCurrentTpl)
      /\ StackLink(stack, IEvent, Linked, Armed) /\ IEvent \in [Event -> IEvents]
  BY ListTypes
<1>1. Top.pc \in CheckPcs => Top.ev \in Event /\ IEvent[Top.ev].Signature /\ NoFree(stack, Top.ev)
  <2> SUFFICES ASSUME Top.pc \in CheckPcs
               PROVE  Top.ev \in Event /\ IEvent[Top.ev].Signature /\ NoFree(stack, Top.ev)
    OBVIOUS
  <2>1. Top.pc \notin ClientPcs \cup ClosePcs \cup {"TimerCancel", "st_release", "notify"}
    BY DEF CheckPcs, ClientPcs, ClosePcs
  <2>2. Top.ev \in Event /\ IEvent[Top.ev].Signature
    BY <1>0, <2>1 DEF FrameOK, FrameLink, EventPcs, CheckPcs
  <2>3. NoCloser(stack, Top.ev)
    BY <2>1, TopNoCloser
  <2> QED BY <2>2, <2>3 DEF NoCloser, NoFree, ClosePcs
<1>2. CASE CheckEventQueue
  <2> DEFINE f == [Top EXCEPT !.pc = "chk_read"]
  <2>1. f.pc = "chk_read" /\ f.ev = Top.ev
    BY <1>0, FrameFields
  <2>2. /\ Top.pc = "chk_queue" /\ RestoreFromHigh(gEfiCurrentTpl, SetTop(stack, f))
        /\ CoreNotifyEvent(Top.ev) \/ UNCHANGED queues
        /\ UNCHANGED <<lists, mEfiTimerList>> /\ IEvent' = IEvent
    BY <1>2 DEF CheckEventQueue, Goto, Update, timers
  <2> HIDE DEF f
  <2>3. SignalOnly(IEvent, IEvent') /\ Top.pc \in CheckPcs /\ f.pc \in CheckPcs
    BY <2>1, <2>2 DEF SignalOnly, SameShape, CheckPcs
  <2>4. /\ EventLink(IEvent', Linked', Armed')
        /\ QueuesOK(gEventQueue', gEventPending', IEvent')
        /\ NamesOK(gEventSignalQueue', RuntimeEventHead', IEvent')
        /\ TimersOK(mEfiTimerList', IEvent')
        /\ StackLink(stack, IEvent', Linked', Armed')
    BY <1>0, <1>1, <2>2, <2>3, SignalData
  <2>5. StackLink(SetTop(stack, f), IEvent', Linked', Armed')
    BY <2>1, <2>3, <2>4, CheckMove
  <2>6. StackLink(stack', IEvent', Linked', Armed')
    BY <1>0, <2>2, <2>5, SetTopSeq, RestoreLink
  <2> QED BY <2>4, <2>6 DEF LInv
<1>3. CASE CheckEventRead
  <2> DEFINE f == [Top EXCEPT !.pc = "chk_clear"]
  <2>1. f.pc = "chk_clear" /\ f.ev = Top.ev
    BY <1>0, FrameFields
  <2>2. /\ Top.pc = "chk_read"
        /\ stack' = SetTop(stack, f) \/ stack' = ReturnFromCheck(FALSE)
        /\ UNCHANGED <<queues, lists, mEfiTimerList, IEvent>>
    BY <1>3 DEF CheckEventRead, Goto, Update, timers
  <2> HIDE DEF f
  <2>3. StackLink(SetTop(stack, f), IEvent, Linked, Armed)
    BY <1>0, <2>1, <2>2, CheckMove DEF CheckPcs
  <2>4. StackLink(ReturnFromCheck(FALSE), IEvent, Linked, Armed)
    BY <1>0, <2>2, ReturnLink
  <2> QED BY <2>2, <2>3, <2>4, MoveOnly
<1>4. CASE CheckEventClear
  <2> DEFINE ready == IEvent[Top.ev].SignalCount # 0
  <2>1. /\ Top.pc = "chk_clear" /\ RestoreFromHigh(gEfiCurrentTpl, ReturnFromCheck(ready))
        /\ IEvent' = [IEvent EXCEPT ![Top.ev].SignalCount = 0]
        /\ UNCHANGED queues /\ UNCHANGED <<lists, mEfiTimerList>> /\ ready \in BOOLEAN
    BY <1>4 DEF CheckEventClear, timers
  <2>2. Top.pc \in CheckPcs
    BY <2>1 DEF CheckPcs
  <2> HIDE DEF ready
  <2>3. SignalOnly(IEvent, IEvent')
    BY <1>0, <1>1, <2>1, <2>2, CountOnly
  <2>4. /\ EventLink(IEvent', Linked', Armed')
        /\ QueuesOK(gEventQueue', gEventPending', IEvent')
        /\ NamesOK(gEventSignalQueue', RuntimeEventHead', IEvent')
        /\ TimersOK(mEfiTimerList', IEvent')
        /\ StackLink(stack, IEvent', Linked', Armed')
    BY <1>0, <1>1, <2>1, <2>2, <2>3, SignalData
  <2>5. /\ StackLink(ReturnFromCheck(ready), IEvent', Linked', Armed')
        /\ ReturnFromCheck(ready) \in Seq(Frames) /\ ReturnFromCheck(ready) # <<>>
    BY <2>1, <2>4, ReturnLink
  <2>6. StackLink(stack', IEvent', Linked', Armed')
    BY <2>1, <2>5, RestoreLink
  <2> QED BY <2>4, <2>6 DEF LInv
<1>5. CASE WaitCheck
  <2> DEFINE e == UserEvents[Top.num]
             pc == IF IEvent[e].SignalCount = 0 /\ Is(e, "WAIT") THEN "chk_queue" ELSE "chk_read"
             f == Frame(pc, gEfiCurrentTpl, gEfiCurrentTpl, e, 0)
  <2>1. f.pc = pc /\ f.ev = e /\ pc \in CheckPcs
    BY DEF Frame, CheckPcs
  <2>2. /\ Top.pc = "wait" /\ Top.num <= Len(UserEvents)
        /\ stack' = Front(stack) \/ (stack' = Append(stack, f) /\ IEvent[e].Signature)
        /\ UNCHANGED <<queues, lists, mEfiTimerList, IEvent>>
    BY <1>5 DEF WaitCheck, CoreCheckEvent, Call, timers
  <2>3. e \in ToSet(UserEvents)
    <3>1. UserEvents \in Seq(Event) /\ Top.num \in Nat \ {0}
      BY <1>0, <2>2, ClientAssumption, FrameTypes DEF FrameOK
    <3>2. Top.num \in 1..Len(UserEvents)
      BY <2>2, <3>1
    <3> QED BY <3>1, <3>2, ToSetMember
  <2> HIDE DEF e, pc, f
  <2>4. ASSUME IEvent[e].Signature PROVE StackLink(Append(stack, f), IEvent, Linked, Armed)
    <3>1. NoCloser(stack, e)
      <4>1. ASSUME NEW i \in 1..Len(stack), stack[i].pc \in ClosePcs PROVE stack[i].ev # e
        <5>1. i # Len(stack)
          BY <1>0, <2>2, <4>1 DEF ClosePcs
        <5>2. Len(stack) \in 1..Len(stack) /\ i < Len(stack)
          BY <1>0, <5>1
        <5>3. PairLink(stack[i], Top)
          BY <1>0, <5>2 DEF StackLink
        <5> QED BY <2>2, <2>3, <4>1, <5>3 DEF PairLink
      <4> QED BY <4>1 DEF NoCloser
    <3>2. f.pc \notin ClosePcs \cup ClientPcs \cup {"wait", "notify"} \cup NoEventPcs
          /\ f.pc \notin DueTimerPcs \cup LockedSetPcs \cup SetTimePcs
      BY <2>1 DEF CheckPcs, ClosePcs, ClientPcs, NoEventPcs, DueTimerPcs, LockedSetPcs, SetTimePcs
    <3>3. FrameLink(f, IEvent, Linked, Armed)
      BY <2>1, <2>4, <3>2 DEF FrameLink, ClientPcs, ClosePcs
    <3> QED BY <1>0, <2>1, <2>3, <3>1, <3>2, <3>3, UseLink
  <2>5. StackLink(Front(stack), IEvent, Linked, Armed)
    BY <2>2, PopTop
  <2> QED BY <2>2, <2>4, <2>5, MoveOnly
<1>6. CASE WaitIdle
  <2> DEFINE e == gIdleLoopEvent
             f == [Top EXCEPT !.num = 1]
  <2>1. f.pc = Top.pc /\ f.ev = Top.ev /\ f.num = 1
    BY <1>0, FrameFields
  <2>2. /\ Top.pc = "wait" /\ UNCHANGED <<lists, mEfiTimerList>>
        /\ CoreSignalEvent(e, SetTop(stack, f))
    BY <1>6 DEF WaitIdle, Update, timers
  <2>3. StackInv(SetTop(stack, f), gEfiCurrentTpl, mEfiTimerLock)
    <3>1. Moved(f, Top, Top.pc, Top.ev, 1)
      <4>1. Top.pc \in Pcs /\ 1 \in Nat /\ NoEvent \in Event \cup {NoEvent}
        BY <1>0, FrameTypes
      <4> QED BY <1>0, <4>1, MovedFrames
    <3>2. "wait" \in PlainPcs /\ "wait" \notin EventPcs
      BY DEF PlainPcs, EventPcs, LockedSetPcs
    <3>3. StackInv(stack, gEfiCurrentTpl, mEfiTimerLock)
      BY Running
    <3>4. f \in Frames /\ f.lvl = Last(stack).lvl /\ f.new = Last(stack).new
      BY <1>0, <3>1 DEF Moved
    <3> HIDE DEF f
    <3>5. Last(stack).pc \in PlainPcs /\ f.pc \in PlainPcs /\ f.pc \notin EventPcs /\ f.num # 0
      BY <1>0, <2>1, <2>2, <3>2
    <3> QED BY <3>3, <3>4, <3>5, PlainMove
  <2>4. e \in Event /\ IEvent[e].Signature /\ NoCloser(stack, e)
    <3>1. e \notin ClientEvent
      BY DEF ClientEvent
    <3> QED BY <1>0, <3>1, EventAssumption, CoreNoCloser DEF LInv, EventLink
  <2> HIDE DEF f, e
  <2>5. StackLink(SetTop(stack, f), IEvent, Linked, Armed)
    <3>1. FrameLink(f, IEvent, Linked, Armed) /\ CloseTimer(f, Armed)
      BY <1>0, <2>1, <2>2 DEF FrameLink, CloseTimer, ClosePcs, NoEventPcs, DueTimerPcs, LockedSetPcs, SetTimePcs
    <3>2. Top.pc \notin ClientPcs /\ f.pc \notin ClosePcs \cup CheckPcs
      BY <2>1, <2>2 DEF ClientPcs, ClosePcs, CheckPcs
    <3> QED BY <1>0, <2>1, <2>2, <3>1, <3>2, MoveLink
  <2>6. NoCloser(SetTop(stack, f), e) /\ StackOK(SetTop(stack, f), gEfiCurrentTpl)
    BY <1>0, <2>1, <2>2, <2>3, <2>4, SetTopNoCloser DEF StackInv, ClosePcs
  <2> QED BY <2>2, <2>4, <2>5, <2>6, SignalLink
<1> QED BY <1>2, <1>3, <1>4, <1>5, <1>6 DEF WaitStep

-----------------------------------------------------------------------------
(* CoreCloseEvent *)

(* Freeing the event. *)
LEMMA FreeLink == ASSUME IInv, LInv, CloseFree PROVE LInv'
<1> DEFINE e == Top.ev
           s == Front(stack)
           ie == IEvent'
<1>0. /\ FrameOK(Top) /\ FrameLink(Top, IEvent, Linked, Armed) /\ CloseTimer(Top, Armed)
      /\ stack \in Seq(Frames) /\ stack # <<>>
      /\ Len(stack) \in Nat \ {0} /\ Top = stack[Len(stack)]
      /\ StackOK(stack, gEfiCurrentTpl)
      /\ StackLink(stack, IEvent, Linked, Armed) /\ IEvent \in [Event -> IEvents]
  BY ListTypes
<1>1. /\ Top.pc = "cl_free" /\ stack' = s /\ UNCHANGED <<queues, lists, mEfiTimerList>>
      /\ ie = [IEvent EXCEPT ![e].Signature = FALSE]
  BY DEF CloseFree, timers
<1>2. /\ gEventQueue' = gEventQueue /\ gEventPending' = gEventPending
      /\ gEventSignalQueue' = gEventSignalQueue /\ RuntimeEventHead' = RuntimeEventHead
      /\ mEfiTimerList' = mEfiTimerList /\ Linked' = Linked /\ Armed' = Armed
  BY <1>1 DEF queues, lists, Linked, Armed
<1>3. e \in Event /\ e \in ClientEvent /\ e \notin Linked /\ e \notin Armed
  BY <1>0, <1>1 DEF FrameLink, CloseTimer, ClosePcs, ClientEvent
<1>4. \A x \in Event : /\ ie[x].Type = IEvent[x].Type /\ ie[x].NotifyTpl = IEvent[x].NotifyTpl
                       /\ ie[x].TriggerTime = IEvent[x].TriggerTime
                       /\ x # e => ie[x].Signature = IEvent[x].Signature
  BY <1>0, <1>1, <1>3 DEF IEvents
<1>5. Len(stack) > 1 /\ Len(s) = Len(stack) - 1 /\ StackLink(s, IEvent, Linked, Armed)
  BY <1>1, PopTop
<1>6. \A i \in 1..(Len(stack) - 1) : s[i] = stack[i]
  BY <1>0, FrontProperties
<1> HIDE DEF e, s, ie
<1>7. ASSUME NEW i \in 1..Len(s) PROVE FrameLink(s[i], ie, Linked, Armed)
  <2>1. i \in 1..Len(stack) /\ Len(stack) \in 1..Len(stack) /\ i < Len(stack) /\ s[i] = stack[i]
    BY <1>0, <1>5, <1>6
  <2> DEFINE f == s[i]
  <2>2. FrameLink(f, IEvent, Linked, Armed)
    BY <1>5 DEF StackLink
  <2>3. PairLink(f, Top) /\ FrameOK(f)
    BY <1>0, <2>1 DEF StackLink, StackOK
  <2> HIDE DEF f
  <2>4. ~ Uses(f, e)
    BY <1>1, <2>3 DEF PairLink, ClosePcs, e
  <2>5. f.pc \in LockedSetPcs \cup DueTimerPcs \cup {"notify"} => f.ev \in Event
    BY <2>3 DEF FrameOK, EventPcs, DueTimerPcs
  <2>6. FrameLink(f, ie, Linked, Armed)
    BY <1>4, <2>2, <2>4, <2>5 DEF FrameLink, Uses
  <2> QED BY <2>6 DEF f
<1>8. StackLink(s, ie, Linked, Armed)
  <2>1. Len(s) \in Nat \ {0}
    BY <1>0, <1>5
  <2>2. /\ \A i \in 1..Len(s) : FrameLink(s[i], ie, Linked, Armed)
        /\ \A i \in 1..Len(s) : CloseTimer(s[i], Armed) => CloseTimer(s[i], Armed)
    BY <1>7
  <2> QED BY <1>5, <2>1, <2>2, CarryLink
<1>9. EventLink(ie, Linked, Armed)
  <2>1. EventLink(IEvent, Linked, Armed) /\ Armed \subseteq Event
    BY ListTypes DEF LInv
  <2>2. ie[mEfiCheckTimerEvent].Signature /\ ie[gIdleLoopEvent].Signature
    BY <1>3, <1>4, <2>1, EventAssumption DEF EventLink, ClientEvent
  <2>3. \A x \in Event : NotifyType(ie[x].Type) => ie[x].NotifyTpl \in NotifyTpls
    BY <1>4, <2>1 DEF EventLink
  <2>4. \A x \in Event : ~ ie[x].Signature => x \notin Linked \cup Armed
    BY <1>3, <1>4, <2>1 DEF EventLink
  <2>5. \A x \in Armed : "TIMER" \in ie[x].Type
    BY <1>4, <2>1 DEF EventLink
  <2> QED BY <2>2, <2>3, <2>4, <2>5 DEF EventLink
<1>10. QueuesOK(gEventQueue, gEventPending, ie)
  <2>1. QueuesOK(gEventQueue, gEventPending, IEvent) /\ \A t \in NotifyTpls : ToSet(gEventQueue[t]) \subseteq Event
    BY ListTypes, ToSetMember DEF LInv
  <2> QED BY <1>4, <2>1 DEF QueuesOK
<1>11. NamesOK(gEventSignalQueue, RuntimeEventHead, ie)
  <2>1. NamesOK(gEventSignalQueue, RuntimeEventHead, IEvent) /\ ToSet(gEventSignalQueue) \subseteq Event
    BY ListTypes, ToSetMember DEF LInv
  <2> QED BY <1>4, <2>1 DEF NamesOK
<1>12. TimersOK(mEfiTimerList, ie)
  <2>1. TimersOK(mEfiTimerList, IEvent) /\ \A i \in 1..Len(mEfiTimerList) : mEfiTimerList[i] \in Event
    BY ListTypes DEF LInv
  <2> QED BY <1>4, <2>1 DEF TimersOK
<1> QED BY <1>1, <1>2, <1>8, <1>9, <1>10, <1>11, <1>12 DEF LInv, ie, s

(* Unlinking it. *)
LEMMA UnlinkLink == ASSUME IInv, LInv, CloseUnlink PROVE LInv'
<1> DEFINE e == Top.ev
           f == [Top EXCEPT !.pc = "cl_free"]
           q2 == gEventQueue'
<1>0. /\ Top \in Frames /\ FrameOK(Top) /\ FrameLink(Top, IEvent, Linked, Armed) /\ CloseTimer(Top, Armed)
      /\ stack \in Seq(Frames) /\ stack # <<>> /\ Top = Last(stack)
      /\ StackOK(stack, gEfiCurrentTpl)
      /\ StackLink(stack, IEvent, Linked, Armed) /\ IEvent \in [Event -> IEvents]
      /\ gEventQueue \in [NotifyTpls -> Seq(Event)]
      /\ gEventSignalQueue \in Seq(Event) /\ RuntimeEventHead \in Seq(Event)
      /\ EventLink(IEvent, Linked, Armed) /\ Armed \subseteq Event
      /\ QueuesOK(gEventQueue, gEventPending, IEvent)
      /\ NamesOK(gEventSignalQueue, RuntimeEventHead, IEvent)
      /\ TimersOK(mEfiTimerList, IEvent)
  BY ListTypes DEF LInv
<1>1. f.pc = "cl_free" /\ f.ev = e
  BY <1>0, FrameFields
<1>2. /\ Top.pc = "cl_unlink" /\ RestoreFromHigh(gEfiCurrentTpl, SetTop(stack, f))
      /\ \A t \in NotifyTpls : q2[t] = Unlink(gEventQueue[t], e)
      /\ gEventSignalQueue' = Unlink(gEventSignalQueue, e)
      /\ RuntimeEventHead' = Unlink(RuntimeEventHead, e)
      /\ gEventPending' = gEventPending /\ IEvent' = IEvent
      /\ mEfiTimerList' = mEfiTimerList /\ Armed' = Armed
  BY DEF CloseUnlink, Goto, Update, timers, Armed
<1> HIDE DEF e, f, q2
<1>3. e \in ClientEvent /\ IEvent[e].Signature /\ e \notin Armed
  BY <1>0, <1>2 DEF FrameLink, CloseTimer, ClosePcs, ClientEvent, ClientPcs, e
<1>4. /\ QueuesOK(q2, gEventPending, IEvent)
      /\ Gains(gEventQueue, q2, NoEvent) /\ ~ InQueue(q2, e)
  BY <1>0, <1>2, UnlinkQueue
<1>5. /\ ToSet(gEventSignalQueue') = ToSet(gEventSignalQueue) \ {e}
      /\ ToSet(RuntimeEventHead') = ToSet(RuntimeEventHead) \ {e}
      /\ IsInjective(gEventSignalQueue') /\ IsInjective(RuntimeEventHead')
  <2>1. IsInjective(gEventSignalQueue) /\ IsInjective(RuntimeEventHead)
    BY <1>0 DEF NamesOK
  <2>2. ToSet(Unlink(gEventSignalQueue, e)) = ToSet(gEventSignalQueue) \ {e}
        /\ IsInjective(Unlink(gEventSignalQueue, e))
    BY <1>0, <2>1, UnlinkList
  <2>3. ToSet(Unlink(RuntimeEventHead, e)) = ToSet(RuntimeEventHead) \ {e}
        /\ IsInjective(Unlink(RuntimeEventHead, e))
    BY <1>0, <2>1, UnlinkList
  <2> QED BY <1>2, <2>2, <2>3
<1>6. NamesOK(gEventSignalQueue', RuntimeEventHead', IEvent)
  BY <1>0, <1>5 DEF NamesOK
<1>7. Linked' \subseteq Linked /\ e \notin Linked'
  <2>1. \A x \in Event : InQueue(q2, x) => InQueue(gEventQueue, x)
    BY <1>4, EventAssumption DEF Gains
  <2>2. Linked' = LinkedIn(q2, gEventSignalQueue', RuntimeEventHead')
    BY DEF Linked, q2
  <2> QED BY <1>4, <1>5, <2>1, <2>2 DEF Linked, LinkedIn
<1>8. SameShape(IEvent, IEvent)
  BY DEF SameShape
<1>9. EventLink(IEvent, Linked', Armed)
  <2>1. e \in Event /\ Linked' \subseteq Linked \cup {e}
    BY <1>3, <1>7 DEF ClientEvent
  <2> QED BY <1>0, <1>3, <1>8, <2>1, ShapeData
<1>10. StackLink(stack, IEvent, Linked', Armed)
  <2>1. NoEvent \notin ClientEvent
    BY EventAssumption DEF ClientEvent
  <2>2. NoFree(stack, NoEvent)
    BY <1>0, <2>1, CoreNoCloser
  <2>3. Linked' \subseteq Linked \cup {NoEvent}
    BY <1>7
  <2> QED BY <1>0, <1>8, <2>2, <2>3, ShapeLink
<1>11. StackLink(SetTop(stack, f), IEvent, Linked', Armed)
  <2>1. FrameLink(f, IEvent, Linked', Armed) /\ CloseTimer(f, Armed)
    BY <1>1, <1>3, <1>7 DEF FrameLink, CloseTimer, NoEventPcs, DueTimerPcs, LockedSetPcs, SetTimePcs
  <2>2. /\ Top.pc \notin ClientPcs \cup {"TimerCancel", "st_release", "notify"} /\ Top.pc \in ClosePcs
        /\ f.pc \notin CheckPcs \cup {"wait"}
    BY <1>1, <1>2 DEF ClientPcs, ClosePcs, CheckPcs
  <2>3. f.ev = Last(stack).ev
    BY <1>0, <1>1 DEF e
  <2> QED BY <1>0, <1>10, <2>1, <2>2, <2>3, MoveLink
<1>12. StackLink(stack', IEvent, Linked', Armed)
  BY <1>0, <1>2, <1>11, SetTopSeq, RestoreLink
<1> QED BY <1>0, <1>2, <1>4, <1>6, <1>9, <1>12 DEF LInv, q2

-----------------------------------------------------------------------------
(* Clients *)

(* RaiseTPL, RestoreTPL, the return of a notification function and the tick. *)
LEMMA TplStepLink ==
  ASSUME IInv, LInv, (\E t \in RaiseTpls : RaiseTpl(t)) \/ RestoreTpl \/ NotifyReturn \/ TimerInterrupt
  PROVE  LInv'
<1>0. /\ Top \in Frames /\ FrameLink(Top, IEvent, Linked, Armed)
      /\ stack \in Seq(Frames) /\ stack # <<>> /\ StackOK(stack, gEfiCurrentTpl)
      /\ StackLink(stack, IEvent, Linked, Armed)
  BY ListTypes
<1>1. ASSUME NEW t \in RaiseTpls, RaiseTpl(t) PROVE LInv'
  <2> DEFINE f == Frame("raised", t, gEfiCurrentTpl, NoEvent, 0)
  <2>1. /\ stack' = Append(stack, f) /\ gEfiCurrentTpl < t
        /\ UNCHANGED <<queues, lists, mEfiTimerList, IEvent>>
    BY <1>1 DEF RaiseTpl, timers
  <2>2. f.pc = "raised" /\ f.ev = NoEvent /\ f.lvl = t /\ f.new = gEfiCurrentTpl
    BY DEF Frame
  <2> HIDE DEF f
  <2>3. FrameLink(f, IEvent, Linked, Armed)
    BY <2>1, <2>2 DEF FrameLink, ClosePcs, ClientPcs, DueTimerPcs, LockedSetPcs, SetTimePcs
  <2>4. f.pc \notin ClosePcs \cup CheckPcs \cup {"wait"} /\ f.pc \in ClientPcs
    BY <2>2 DEF ClosePcs, CheckPcs, ClientPcs
  <2>5. StackLink(stack', IEvent, Linked, Armed)
    BY <1>0, <2>1, <2>3, <2>4, IdleLink
  <2> QED BY <2>1, <2>5, MoveOnly
<1>2. CASE RestoreTpl
  <2> DEFINE f == [Top EXCEPT !.pc = "test"]
  <2>1. /\ Top.pc = "raised" /\ UNCHANGED <<queues, lists, mEfiTimerList, IEvent>>
        /\ stack' = Update(f) \/ RestoreFromHigh(Top.new, Front(stack))
    BY <1>2 DEF RestoreTpl, timers, Goto
  <2>2. f.pc = "test" /\ f.ev = NoEvent
    BY <1>0, <2>1, FrameFields DEF FrameLink, NoEventPcs
  <2> HIDE DEF f
  <2>3. CASE stack' = Update(f)
    <3>1. StackLink(stack', IEvent, Linked, Armed)
      BY <2>1, <2>2, <2>3, IdleMove
    <3> QED BY <2>1, <3>1, MoveOnly
  <2>4. CASE RestoreFromHigh(Top.new, Front(stack))
    BY <2>1, <2>4, PopTop, RestoreOnly
  <2> QED BY <2>1, <2>3, <2>4
<1>3. CASE NotifyReturn
  <2>1. /\ Top.pc = "client" /\ stack' = Front(stack)
        /\ UNCHANGED <<queues, lists, mEfiTimerList, IEvent>>
    BY <1>3 DEF NotifyReturn, timers
  <2> QED BY <2>1, PopTop, MoveOnly
<1>4. CASE TimerInterrupt
  <2>1. /\ \/ CoreSignalEvent(mEfiCheckTimerEvent, stack)
           \/ UNCHANGED <<IEvent, queues>> /\ RestoreFromHigh(gEfiCurrentTpl, stack)
        /\ UNCHANGED <<lists, mEfiTimerList>>
    BY <1>4 DEF TimerInterrupt
  <2>2. CASE CoreSignalEvent(mEfiCheckTimerEvent, stack)
    <3>1. mEfiCheckTimerEvent \notin ClientEvent
      BY DEF ClientEvent
    <3>2. mEfiCheckTimerEvent \in Event /\ IEvent[mEfiCheckTimerEvent].Signature
          /\ NoCloser(stack, mEfiCheckTimerEvent)
      BY <1>0, <3>1, EventAssumption, CoreNoCloser DEF LInv, EventLink
    <3> QED BY <1>0, <2>1, <2>2, <3>2, SignalLink
  <2>3. CASE UNCHANGED <<IEvent, queues>> /\ RestoreFromHigh(gEfiCurrentTpl, stack)
    BY <1>0, <2>1, <2>3, RestoreOnly
  <2> QED BY <2>1, <2>2, <2>3
<1> QED BY <1>1, <1>2, <1>3, <1>4

(* A client's event, when clients do not use one that is being closed. *)
LEMMA UsableEvent ==
  ASSUME RespectClose, IInv, LInv, NEW e \in ClientEvent, IEvent[e].Signature, MayUse(e)
  PROVE  e \in Event /\ IEvent[e].Signature /\ NoCloser(stack, e)
<1>1. stack \in Seq(Frames)
  BY ListTypes
<1>2. ~ Closing(e)
  BY DEF MayUse
<1>3. NoCloser(stack, e)
  BY <1>1, <1>2 DEF Closing, NoCloser, ClosePcs
<1> QED BY <1>3 DEF ClientEvent

(* The services of a live event that are calls. *)
LEMMA UseStepLink ==
  ASSUME RespectClose, IInv, LInv, NEW e \in ClientEvent, MayUse(e),
         \/ SignalEvent(e) \/ SignalGroup(e) \/ CheckEvent(e)
         \/ \E d \in Delays, type \in {"TimerPeriodic", "TimerRelative"} : SetTimer(e, type, d)
         \/ SetTimer(e, "TimerCancel", 0)
  PROVE  LInv'
<1>0. /\ stack \in Seq(Frames) /\ stack # <<>> /\ StackOK(stack, gEfiCurrentTpl)
      /\ StackLink(stack, IEvent, Linked, Armed) /\ Top = Last(stack)
  BY ListTypes
<1>1. e \in Event /\ IEvent[e].Signature /\ NoCloser(stack, e)
  <2>1. IEvent[e].Signature
    BY DEF SignalEvent, SignalGroup, CheckEvent, SetTimer
  <2> QED BY <2>1, UsableEvent
<1>2. ASSUME NEW f, f.ev = e, f.pc \in CheckPcs \cup {"sig_list", "TimerCancel", "TimerPeriodic", "TimerRelative"},
             f.pc \in LockedSetPcs => "TIMER" \in IEvent[e].Type,
             Top.pc \in ClientPcs, stack' = Append(stack, f),
             UNCHANGED <<queues, lists, mEfiTimerList, IEvent>>
      PROVE  LInv'
  <2>1. /\ f.pc \notin ClosePcs \cup NoEventPcs \cup ClientPcs \cup {"notify", "wait"}
        /\ f.pc \notin SetTimePcs \cup DueTimerPcs /\ Top.pc # "wait"
    BY <1>2 DEF CheckPcs, ClosePcs, NoEventPcs, SetTimePcs, DueTimerPcs, ClientPcs
  <2>2. FrameLink(f, IEvent, Linked, Armed)
    BY <1>1, <1>2, <2>1 DEF FrameLink, ClosePcs, ClientPcs
  <2>3. StackLink(stack', IEvent, Linked, Armed)
    BY <1>0, <1>1, <1>2, <2>1, <2>2, UseLink
  <2> QED BY <1>2, <2>3, MoveOnly
<1>3. CASE SignalEvent(e)
  BY <1>0, <1>1, <1>3, SignalLink DEF SignalEvent, timers
<1>4. CASE SignalGroup(e)
  <2> DEFINE f == Frame("sig_list", gEfiCurrentTpl, gEfiCurrentTpl, e, 0)
  <2>1. f.pc = "sig_list" /\ f.ev = e
    BY DEF Frame
  <2>2. /\ Top.pc \in ClientPcs /\ stack' = Append(stack, f)
        /\ UNCHANGED <<queues, lists, mEfiTimerList, IEvent>>
    BY <1>4 DEF SignalGroup, MayCall, Call, timers
  <2> HIDE DEF f
  <2> QED BY <1>2, <2>1, <2>2 DEF LockedSetPcs
<1>5. CASE CheckEvent(e)
  <2> DEFINE pc == IF IEvent[e].SignalCount = 0 /\ Is(e, "WAIT") THEN "chk_queue" ELSE "chk_read"
             f == Frame(pc, gEfiCurrentTpl, gEfiCurrentTpl, e, 0)
  <2>1. f.pc = pc /\ f.ev = e /\ pc \in CheckPcs /\ pc \notin LockedSetPcs
    BY DEF Frame, CheckPcs, LockedSetPcs
  <2>2. /\ Top.pc \in ClientPcs /\ stack' = Append(stack, f)
        /\ UNCHANGED <<queues, lists, mEfiTimerList, IEvent>>
    BY <1>5 DEF CheckEvent, CoreCheckEvent, MayCall, Call, timers
  <2> HIDE DEF f, pc
  <2> QED BY <1>2, <2>1, <2>2
<1>6. ASSUME NEW type \in {"TimerCancel", "TimerPeriodic", "TimerRelative"}, NEW d, SetTimer(e, type, d)
      PROVE  LInv'
  <2> DEFINE f == Frame(type, TimerLockTpl, gEfiCurrentTpl, e, d)
  <2>1. f.pc = type /\ f.ev = e
    BY DEF Frame
  <2>2. /\ Top.pc \in ClientPcs /\ stack' = Append(stack, f) /\ "TIMER" \in IEvent[e].Type
        /\ UNCHANGED <<queues, lists, mEfiTimerList, IEvent>>
    BY <1>6 DEF SetTimer, CoreSetTimer, MayCall, Is
  <2> HIDE DEF f
  <2> QED BY <1>2, <1>6, <2>1, <2>2
<1> QED BY <1>3, <1>4, <1>5, <1>6

(* WaitForEvent is called by the application only, which nobody interrupted. *)
LEMMA WaitCallLink == ASSUME IInv, LInv, WaitForEvent PROVE LInv'
<1> DEFINE f == Frame("wait", gEfiCurrentTpl, gEfiCurrentTpl, NoEvent, 1)
<1>0. /\ stack \in Seq(Frames) /\ stack # <<>> /\ StackOK(stack, gEfiCurrentTpl)
      /\ StackLink(stack, IEvent, Linked, Armed) /\ Top = Last(stack)
      /\ Len(stack) \in Nat \ {0} /\ Top = stack[Len(stack)]
      /\ FrameOK(Top) /\ Top \in Frames /\ FrameLink(Top, IEvent, Linked, Armed)
  BY ListTypes
<1>1. /\ Top.pc \in ClientPcs /\ gEfiCurrentTpl = 4 /\ stack' = Append(stack, f)
      /\ UNCHANGED <<queues, lists, mEfiTimerList, IEvent>>
  BY DEF WaitForEvent, MayCall, Call, timers, TPL_APPLICATION
<1>2. f.pc = "wait" /\ f.ev = NoEvent
  BY DEF Frame
<1> HIDE DEF f
<1>3. Top.lvl = 4 /\ Top.new \in 4..31
  BY <1>1, Running
<1>4. Top.pc # "raised"
  <2>1. Top.pc = "raised" => Top.new < Top.lvl
    BY <1>0 DEF FrameLink
  <2>2. ~ (Top.new < Top.lvl)
    BY <1>3
  <2> QED BY <2>1, <2>2
<1>5. Top.pc # "client"
  <2> SUFFICES ASSUME Top.pc = "client" PROVE FALSE
    OBVIOUS
  <2>1. Len(stack) # 1
    BY <1>0, TopFrame
  <2>2. Len(stack) \in 2..Len(stack) /\ Len(stack) - 1 \in 1..Len(stack)
    <3>1. \A n \in Nat \ {0} : n # 1 => n \in 2..n /\ n - 1 \in 1..n
      OBVIOUS
    <3> QED BY <1>0, <2>1, <3>1
  <2>3. stack[Len(stack) - 1].pc = "acquire" /\ Top.new = stack[Len(stack) - 1].lvl
    BY <1>0, <2>2 DEF StackOK, NotifyPcs
  <2>4. stack[Len(stack) - 1].lvl \in NotifyTpls
    BY <1>0, <2>2, <2>3 DEF StackOK, FrameOK
  <2>5. Top.new <= Top.lvl
    BY <1>0 DEF FrameOK
  <2>6. Top.new \in 5..30
    <3>1. \A t \in NotifyTpls : t \in (TPL_APPLICATION + 1)..(TPL_HIGH_LEVEL - 1)
      BY TplAssumption
    <3>2. \A t \in NotifyTpls : t \in 5..30
      BY <3>1 DEF TPL_APPLICATION, TPL_HIGH_LEVEL
    <3> QED BY <2>3, <2>4, <3>2
  <2> QED BY <1>3, <2>5, <2>6
<1>6. Top.pc = "app" /\ Len(stack) = 1
  BY <1>0, <1>1, <1>4, <1>5, TopFrame DEF ClientPcs
<1>7. \A i \in 1..Len(stack) : PairLink(stack[i], f)
  <2>1. \A i \in 1..Len(stack) : stack[i].pc = "app"
    BY <1>0, <1>6
  <2> QED BY <1>2, <2>1 DEF PairLink, ClosePcs
<1>8. FrameLink(f, IEvent, Linked, Armed) /\ CloseTimer(f, Armed)
  BY <1>2, EventAssumption DEF FrameLink, CloseTimer, ClosePcs, ClientPcs, DueTimerPcs, LockedSetPcs, SetTimePcs
<1>9. StackLink(stack', IEvent, Linked, Armed)
  BY <1>0, <1>1, <1>2, <1>6, <1>7, <1>8, PushLink DEF CheckPcs
<1> QED BY <1>1, <1>9, MoveOnly

(* A freed IEVENT is used by no activation. *)
LEMMA FreeUnused ==
  ASSUME IInv, LInv, NEW e \in Event, ~ IEvent[e].Signature, NEW i \in 1..Len(stack)
  PROVE  ~ Uses(stack[i], e)
<1>1. FrameLink(stack[i], IEvent, Linked, Armed)
  BY ListTypes DEF StackLink
<1> QED BY <1>1 DEF FrameLink, Uses

(* CoreCreateEventEx. *)
LEMMA CreateLink ==
  ASSUME IInv, LInv, NEW e \in ClientEvent, NEW r \in Requests[e], CreateEvent(e, r)
  PROVE  LInv'
<1> DEFINE type == ConvertedType(r)
           new == NewEvent(type, IF NotifyType(type) THEN r.NotifyTpl ELSE 0, ConvertedGroup(r))
           ie == IEvent'
           sq == gEventSignalQueue'
           rt == RuntimeEventHead'
           linked == Linked'
<1>0. /\ stack \in Seq(Frames) /\ stack # <<>> /\ StackOK(stack, gEfiCurrentTpl)
      /\ Len(stack) \in Nat \ {0}
      /\ StackLink(stack, IEvent, Linked, Armed) /\ IEvent \in [Event -> IEvents]
      /\ gEventQueue \in [NotifyTpls -> Seq(Event)]
      /\ gEventSignalQueue \in Seq(Event) /\ RuntimeEventHead \in Seq(Event)
      /\ mEfiTimerList \in Seq(Event)
      /\ EventLink(IEvent, Linked, Armed) /\ Armed \subseteq Event
      /\ QueuesOK(gEventQueue, gEventPending, IEvent)
      /\ NamesOK(gEventSignalQueue, RuntimeEventHead, IEvent)
      /\ TimersOK(mEfiTimerList, IEvent)
  BY ListTypes DEF LInv
<1>1. /\ ~ IEvent[e].Signature /\ ValidRequest(r)
      /\ ie = [IEvent EXCEPT ![e] = new]
      /\ rt = Append(RuntimeEventHead, e) \/ rt = RuntimeEventHead
      /\ sq = (IF "SIGNAL" \in type THEN <<e>> \o gEventSignalQueue ELSE gEventSignalQueue)
      /\ gEventQueue' = gEventQueue /\ gEventPending' = gEventPending
      /\ mEfiTimerList' = mEfiTimerList /\ Armed' = Armed
      /\ RestoreFromHigh(gEfiCurrentTpl, stack)
  BY DEF CreateEvent, queues, timers, Armed
<1>2. e \in Event /\ e # mEfiCheckTimerEvent /\ e # gIdleLoopEvent /\ e \notin Linked /\ e \notin Armed
  BY <1>0, <1>1 DEF ClientEvent, EventLink
<1>3. new.Signature /\ new.Type = type /\ new.NotifyTpl = (IF NotifyType(type) THEN r.NotifyTpl ELSE 0)
  BY DEF NewEvent
<1>4. NotifyType(type) => r.NotifyTpl \in NotifyTpls
  <2>1. r.NotifyTpl \in NotifyTpls \cup {0, TPL_APPLICATION}
    <3>1. e \in DOMAIN Requests
      BY ClientAssumption DEF ClientEvent
    <3> QED BY <3>1, ClientAssumption
  <2>2. NotifyType(type) => r.NotifyTpl \in (TPL_APPLICATION + 1)..(TPL_HIGH_LEVEL - 1)
    BY <1>1 DEF ValidRequest
  <2>3. 0 \notin (TPL_APPLICATION + 1)..(TPL_HIGH_LEVEL - 1)
        /\ TPL_APPLICATION \notin (TPL_APPLICATION + 1)..(TPL_HIGH_LEVEL - 1)
    BY DEF TPL_APPLICATION, TPL_HIGH_LEVEL
  <2> QED BY <2>1, <2>2, <2>3
<1> HIDE DEF new, type
<1>5. ie[e] = new /\ \A x \in Event : x # e => ie[x] = IEvent[x]
  BY <1>0, <1>1, <1>2
<1>6. ToSet(rt) \subseteq ToSet(RuntimeEventHead) \cup {e} /\ IsInjective(rt)
  <2>1. e \notin ToSet(RuntimeEventHead) /\ IsInjective(RuntimeEventHead)
    BY <1>0, <1>2 DEF Linked, LinkedIn, NamesOK
  <2>2. ToSet(Append(RuntimeEventHead, e)) = ToSet(RuntimeEventHead) \cup {e}
        /\ IsInjective(Append(RuntimeEventHead, e))
    BY <1>0, <1>2, <2>1, AppendList
  <2> QED BY <1>1, <2>1, <2>2
<1>7. /\ ToSet(sq) \subseteq ToSet(gEventSignalQueue) \cup {e} /\ IsInjective(sq)
      /\ e \in ToSet(sq) => "SIGNAL" \in type
  <2>1. e \notin ToSet(gEventSignalQueue) /\ IsInjective(gEventSignalQueue)
    BY <1>0, <1>2 DEF Linked, LinkedIn, NamesOK
  <2>2. ToSet(<<e>> \o gEventSignalQueue) = ToSet(gEventSignalQueue) \cup {e}
        /\ IsInjective(<<e>> \o gEventSignalQueue)
    BY <1>0, <1>2, <2>1, ConsList
  <2> QED BY <1>1, <2>1, <2>2
<1>8. linked \subseteq Linked \cup {e}
  BY <1>1, <1>6, <1>7 DEF Linked, LinkedIn
<1> HIDE DEF ie, sq, rt, linked
<1>9. EventLink(ie, linked, Armed)
  <2>1. ie[mEfiCheckTimerEvent].Signature /\ ie[gIdleLoopEvent].Signature
    BY <1>0, <1>2, <1>5, EventAssumption DEF EventLink
  <2>2. \A x \in Event : NotifyType(ie[x].Type) => ie[x].NotifyTpl \in NotifyTpls
    BY <1>0, <1>3, <1>4, <1>5 DEF EventLink
  <2>3. \A x \in Event : ~ ie[x].Signature => x \notin linked \cup Armed
    BY <1>0, <1>3, <1>5, <1>8 DEF EventLink
  <2>4. \A x \in Armed : "TIMER" \in ie[x].Type
    BY <1>0, <1>2, <1>5 DEF EventLink
  <2> QED BY <2>1, <2>2, <2>3, <2>4 DEF EventLink
<1>10. QueuesOK(gEventQueue, gEventPending, ie)
  <2>1. \A t \in NotifyTpls : \A x \in ToSet(gEventQueue[t]) : x \in Event /\ x # e
    <3>1. \A t \in NotifyTpls : ToSet(gEventQueue[t]) \subseteq Event
      BY <1>0, ToSetMember
    <3> QED BY <1>2, <3>1 DEF Linked, LinkedIn, InQueue
  <2> QED BY <1>0, <1>5, <2>1 DEF QueuesOK
<1>11. NamesOK(sq, rt, ie)
  <2>1. ToSet(gEventSignalQueue) \subseteq Event /\ e \notin ToSet(gEventSignalQueue)
    BY <1>0, <1>2, ToSetMember DEF Linked, LinkedIn
  <2> QED BY <1>0, <1>3, <1>5, <1>6, <1>7, <2>1 DEF NamesOK
<1>12. TimersOK(mEfiTimerList, ie)
  <2>1. \A i \in 1..Len(mEfiTimerList) : mEfiTimerList[i] \in Event /\ mEfiTimerList[i] # e
    BY <1>0, <1>2, ToSetMember DEF Armed
  <2> QED BY <1>0, <1>5, <2>1 DEF TimersOK
<1>13. StackLink(stack, ie, linked, Armed)
  <2>1. ASSUME NEW i \in 1..Len(stack) PROVE FrameLink(stack[i], ie, linked, Armed)
    <3> DEFINE f == stack[i]
    <3>1. FrameLink(f, IEvent, Linked, Armed) /\ FrameOK(f) /\ ~ Uses(f, e)
      BY <1>0, <1>1, <1>2, FreeUnused DEF StackLink, StackOK
    <3> HIDE DEF f
    <3>2. f.pc \in LockedSetPcs \cup DueTimerPcs \cup {"cl_free"} =>
            f.ev \in Event /\ f.pc \notin ClientPcs \cup {"notify"}
      BY <3>1 DEF FrameOK, EventPcs, DueTimerPcs, ClientPcs, LockedSetPcs
    <3>3. FrameLink(f, ie, linked, Armed)
      BY <1>5, <1>8, <3>1, <3>2 DEF FrameLink, Uses
    <3> QED BY <3>3 DEF f
  <2>2. /\ \A i \in 1..Len(stack) : FrameLink(stack[i], ie, linked, Armed)
        /\ \A i \in 1..Len(stack) : CloseTimer(stack[i], Armed) => CloseTimer(stack[i], Armed)
    BY <2>1
  <2> QED BY <1>0, <2>2, CarryLink
<1>14. StackLink(stack', ie, linked, Armed)
  BY <1>0, <1>1, <1>13, RestoreLink
<1> QED BY <1>1, <1>9, <1>10, <1>11, <1>12, <1>14 DEF LInv, ie, sq, rt, linked

(* CoreCloseEvent starts. *)
LEMMA CloseCallLink ==
  ASSUME RespectClose, IInv, LInv, NEW e \in ClientEvent, MayClose(e), CloseEvent(e)
  PROVE  LInv'
<1> DEFINE f == Frame("cl_unlink", gEfiCurrentTpl, gEfiCurrentTpl, e, 0)
           g == Frame("TimerCancel", TimerLockTpl, gEfiCurrentTpl, e, 0)
           s == Append(stack, f)
<1>0. /\ stack \in Seq(Frames) /\ stack # <<>> /\ Top = Last(stack)
      /\ Len(stack) \in Nat \ {0} /\ CloseTimer(Top, Armed)
      /\ StackLink(stack, IEvent, Linked, Armed)
      /\ EventLink(IEvent, Linked, Armed)
  BY ListTypes DEF LInv
<1>1. /\ IEvent[e].Signature /\ ~ InUse(e) /\ Top.pc \in ClientPcs
      /\ \/ "TIMER" \in IEvent[e].Type /\ stack' = Append(s, g)
         \/ "TIMER" \notin IEvent[e].Type /\ stack' = s
      /\ UNCHANGED <<queues, lists, mEfiTimerList, IEvent>>
  BY DEF CloseEvent, MayClose, CoreSetTimer, Call, Is, MayCall
<1>2. /\ f.pc = "cl_unlink" /\ f.ev = e /\ g.pc = "TimerCancel" /\ g.ev = e
      /\ f.pc \in ClosePcs /\ g.pc \notin ClosePcs \cup CheckPcs \cup {"wait"}
  BY DEF Frame, ClosePcs, CheckPcs
<1> HIDE DEF f, g, s
<1>3. ASSUME NEW i \in 1..Len(stack)
      PROVE  ~ Uses(stack[i], e) /\ (stack[i].pc = "wait" => e \notin ToSet(UserEvents))
  BY <1>0, <1>1 DEF InUse, Uses
<1>4. ASSUME NEW i \in 1..Len(stack) PROVE PairLink(stack[i], f) /\ PairLink(stack[i], g)
  <2>1. stack[i].pc \in ClosePcs => stack[i].ev # e
    BY <1>3 DEF Uses, ClosePcs, ClientPcs
  <2> QED BY <1>2, <1>3, <2>1 DEF PairLink, Uses, ClosePcs
<1>5. FrameLink(f, IEvent, Linked, Armed)
  BY <1>1, <1>2 DEF FrameLink, NoEventPcs, DueTimerPcs, LockedSetPcs, SetTimePcs
<1>6. CASE "TIMER" \notin IEvent[e].Type /\ stack' = s
  <2>1. CloseTimer(f, Armed)
    BY <1>0, <1>2, <1>6 DEF CloseTimer, EventLink
  <2>2. f.pc \notin CheckPcs
    BY <1>2 DEF CheckPcs
  <2>3. StackLink(stack', IEvent, Linked, Armed)
    BY <1>0, <1>4, <1>5, <1>6, <2>1, <2>2, PushLink DEF s
  <2> QED BY <1>1, <2>3, MoveOnly
<1>7. CASE "TIMER" \in IEvent[e].Type /\ stack' = Append(s, g)
  <2>1. BodyLink(s, IEvent, Linked, Armed)
    <3>1. BodyLink(stack, IEvent, Linked, Armed)
      BY <1>0, LinkParts
    <3>2. NextLink(Last(stack), f, Armed)
      BY <1>0, <1>2 DEF NextLink, CheckPcs
    <3> QED BY <1>0, <1>4, <1>5, <3>1, <3>2, PushBody DEF s
  <2>2. s \in Seq(Frames \cup {f}) /\ Pushed(s, stack, f)
    BY <1>0, AppendShape DEF s
  <2>3. s # <<>> /\ Last(s) = f /\ \A i \in 1..Len(s) : PairLink(s[i], g)
    <3>1. PairLink(f, g)
      BY <1>2 DEF PairLink, ClosePcs
    <3> QED BY <1>4, <2>2, <3>1 DEF Pushed
  <2>4. NextLink(f, g, Armed)
    BY <1>2 DEF NextLink
  <2>5. FrameLink(g, IEvent, Linked, Armed)
    BY <1>1, <1>2, <1>7 DEF FrameLink, NoEventPcs, DueTimerPcs, SetTimePcs, ClosePcs
  <2>6. BodyLink(stack', IEvent, Linked, Armed)
    BY <1>7, <2>1, <2>2, <2>3, <2>4, <2>5, PushBody
  <2>7. CloseTimer(stack'[Len(stack')], Armed)
    <3>1. Append(s, g)[Len(Append(s, g))] = g
      BY <2>2, AppendShape DEF Pushed
    <3> QED BY <1>2, <1>7, <3>1 DEF CloseTimer
  <2>8. StackLink(stack', IEvent, Linked, Armed)
    BY <2>6, <2>7, LinkParts
  <2> QED BY <1>1, <2>8, MoveOnly
<1> QED BY <1>1, <1>6, <1>7

-----------------------------------------------------------------------------
(* The theorems *)

(* CoreInitializeEventServices leaves the lists in order. *)
LEMMA InitLink == ASSUME Init PROVE LInv
<1> DEFINE f == Frame("app", TPL_APPLICATION, TPL_APPLICATION, NoEvent, 0)
<1>1. /\ gEventQueue = [t \in NotifyTpls |-> <<>>]
      /\ gEventSignalQueue = <<gIdleLoopEvent, mEfiCheckTimerEvent>>
      /\ RuntimeEventHead = <<>> /\ mEfiTimerList = <<>> /\ stack = <<f>>
  BY DEF Init
<1>2. f.pc = "app" /\ f.ev = NoEvent
  BY DEF Frame
<1> HIDE DEF f
<1>3. /\ IEvent[mEfiCheckTimerEvent] = NewEvent({"SIGNAL"}, TPL_HIGH_LEVEL - 1, NoGroup)
      /\ IEvent[gIdleLoopEvent] = NewEvent({"SIGNAL"}, TPL_NOTIFY, IdleLoopGroup)
      /\ \A e \in ClientEvent : IEvent[e] = [NewEvent({}, 0, NoGroup) EXCEPT !.Signature = FALSE]
  BY EventAssumption DEF Init, ClientEvent
<1>4. /\ IEvent[mEfiCheckTimerEvent].Signature /\ IEvent[gIdleLoopEvent].Signature
      /\ IEvent[mEfiCheckTimerEvent].Type = {"SIGNAL"} /\ IEvent[gIdleLoopEvent].Type = {"SIGNAL"}
      /\ IEvent[mEfiCheckTimerEvent].NotifyTpl \in NotifyTpls
      /\ IEvent[gIdleLoopEvent].NotifyTpl \in NotifyTpls
  BY <1>3, TplAssumption DEF NewEvent
<1>5. \A e \in ClientEvent : IEvent[e].Type = {}
  BY <1>3 DEF NewEvent
<1>6. /\ ToSet(gEventSignalQueue) = {gIdleLoopEvent, mEfiCheckTimerEvent}
      /\ ToSet(RuntimeEventHead) = {} /\ Armed = {}
      /\ \A t \in NotifyTpls : gEventQueue[t] = <<>> /\ ToSet(gEventQueue[t]) = {}
  BY <1>1 DEF ToSet, Armed
<1>7. Linked = {gIdleLoopEvent, mEfiCheckTimerEvent}
  BY <1>6 DEF Linked, LinkedIn, InQueue
<1>8. /\ IsInjective(gEventSignalQueue) /\ IsInjective(RuntimeEventHead)
      /\ \A t \in NotifyTpls : IsInjective(gEventQueue[t])
  BY <1>1, <1>6, EventAssumption DEF IsInjective
<1>9. EventLink(IEvent, Linked, Armed)
  <2>1. \A e \in Event : e \in ClientEvent \/ e = mEfiCheckTimerEvent \/ e = gIdleLoopEvent
    BY DEF ClientEvent
  <2>2. \A e \in Event : NotifyType(IEvent[e].Type) => IEvent[e].NotifyTpl \in NotifyTpls
    BY <1>4, <1>5, <2>1 DEF NotifyType
  <2>3. \A e \in Event : ~ IEvent[e].Signature => e \notin Linked \cup Armed
    BY <1>4, <1>6, <1>7, <2>1
  <2> QED BY <1>4, <1>6, <2>2, <2>3 DEF EventLink
<1>10. QueuesOK(gEventQueue, gEventPending, IEvent)
  BY <1>6, <1>8 DEF QueuesOK
<1>11. NamesOK(gEventSignalQueue, RuntimeEventHead, IEvent)
  BY <1>4, <1>6, <1>8 DEF NamesOK
<1>12. TimersOK(mEfiTimerList, IEvent)
  BY <1>1 DEF TimersOK
<1>13. StackLink(stack, IEvent, Linked, Armed)
  <2>1. Len(stack) = 1 /\ stack[1] = f
    BY <1>1
  <2>2. FrameLink(f, IEvent, Linked, Armed) /\ CloseTimer(f, Armed)
    BY <1>2 DEF FrameLink, CloseTimer, ClosePcs, ClientPcs, NoEventPcs, DueTimerPcs, LockedSetPcs, SetTimePcs
  <2> QED BY <2>1, <2>2 DEF StackLink
<1> QED BY <1>9, <1>10, <1>11, <1>12, <1>13 DEF LInv

(* Every step keeps them so. *)
LEMMA NextLinks ==
  ASSUME SingleLoad, RespectClose
  PROVE  IInv /\ LInv /\ [Next]_vars => LInv'
<1> SUFFICES ASSUME IInv, LInv, [Next]_vars PROVE LInv'
  OBVIOUS
<1>1. CASE RestoreStep
  BY <1>1, RestoreLoopLink, DispatchLink, CallNotifyLink DEF RestoreStep
<1>2. CASE CloseStep
  BY <1>2, UnlinkLink, FreeLink DEF CloseStep
<1>3. CASE ClientStep
  <2>1. ASSUME NEW e \in ClientEvent,
               \/ /\ MayUse(e)
                  /\ \/ SignalEvent(e) \/ SignalGroup(e) \/ CheckEvent(e)
                     \/ \E d \in Delays, type \in {"TimerPeriodic", "TimerRelative"} : SetTimer(e, type, d)
                     \/ SetTimer(e, "TimerCancel", 0)
               \/ \E r \in Requests[e] : CreateEvent(e, r)
               \/ MayClose(e) /\ CloseEvent(e)
        PROVE  LInv'
    BY <2>1, UseStepLink, CreateLink, CloseCallLink
  <2>2. CASE WaitForEvent
    BY <2>2, WaitCallLink
  <2>3. CASE \E t \in RaiseTpls : RaiseTpl(t)
    BY <2>3, TplStepLink
  <2> QED BY <1>3, <2>1, <2>2, <2>3 DEF ClientStep
<1>4. CASE RestoreTpl \/ NotifyReturn \/ TimerInterrupt
  BY <1>4, TplStepLink
<1>5. CASE UNCHANGED vars
  BY <1>5 DEF vars, LInv, Linked, Armed
<1> QED BY <1>1, <1>2, <1>3, <1>4, <1>5, SignalStepLink, CheckTimersLink, SetTimerLink, WaitStepLink
        DEF Next, CoreStep

(* In a build that loads gEventPending once per test, and for clients that do
   not use an event while another one closes it, the lists and the activations
   that work on their members stay in order. *)
THEOREM ListsInductive == SingleLoad /\ RespectClose => (Spec => []LInv)
<1> SUFFICES ASSUME SingleLoad, RespectClose PROVE Spec => []LInv
  OBVIOUS
<1>1. Spec => []IInv
  BY Inductive
<1>2. Init => LInv
  BY InitLink
<1>3. IInv /\ LInv /\ [Next]_vars => LInv'
  BY NextLinks
<1> QED BY <1>1, <1>2, <1>3, PTL DEF Spec

(* The notification queues: a non-empty queue has its bit in gEventPending, and
   an event waits at most once, in the queue of its NotifyTpl. *)
THEOREM QueuesAlwaysWellFormed == SingleLoad /\ RespectClose => (Spec => []QueuesWellFormed)
<1> SUFFICES ASSUME SingleLoad, RespectClose PROVE Spec => []QueuesWellFormed
  OBVIOUS
<1>1. IInv /\ LInv => QueuesWellFormed
  <2> SUFFICES ASSUME IInv, LInv, NEW t \in NotifyTpls
               PROVE  /\ gEventQueue[t] # <<>> => t \in gEventPending
                      /\ \A i, j \in DOMAIN gEventQueue[t] : gEventQueue[t][i] = gEventQueue[t][j] => i = j
                      /\ \A i \in DOMAIN gEventQueue[t] : IEvent[gEventQueue[t][i]].NotifyTpl = t
    BY DEF QueuesWellFormed
  <2> DEFINE q == gEventQueue[t]
  <2>1. q \in Seq(Event) /\ (q # <<>> => t \in gEventPending) /\ IsInjective(q)
        /\ \A e \in ToSet(q) : IEvent[e].NotifyTpl = t
    BY ListTypes DEF LInv, QueuesOK
  <2> HIDE DEF q
  <2>2. \A i \in DOMAIN q : q[i] \in ToSet(q)
    BY <2>1, ToSetMember
  <2>3. \A i, j \in DOMAIN q : q[i] = q[j] => i = j
    BY <2>1 DEF IsInjective
  <2> QED BY <2>1, <2>2, <2>3 DEF q
<1> QED BY <1>1, Inductive, ListsInductive, PTL

(* The timer list is sorted by trigger time and repeats no event. *)
THEOREM TimerListAlwaysSorted == SingleLoad /\ RespectClose => (Spec => []TimerListSorted)
<1> SUFFICES ASSUME SingleLoad, RespectClose PROVE Spec => []TimerListSorted
  OBVIOUS
<1>1. IInv /\ LInv => TimerListSorted
  <2> SUFFICES ASSUME IInv, LInv PROVE TimerListSorted
    OBVIOUS
  <2>1. DOMAIN mEfiTimerList = 1..Len(mEfiTimerList) /\ TimersOK(mEfiTimerList, IEvent)
    BY ListTypes DEF LInv
  <2> QED BY <2>1 DEF TimersOK, TimerListSorted
<1> QED BY <1>1, Inductive, ListsInductive, PTL

(* An event that CoreCloseEvent has freed is on no list. *)
THEOREM ClosedAlwaysUnlinked == SingleLoad /\ RespectClose => (Spec => []ClosedUnlinked)
<1> SUFFICES ASSUME SingleLoad, RespectClose PROVE Spec => []ClosedUnlinked
  OBVIOUS
<1>1. LInv => ClosedUnlinked
  <2> SUFFICES ASSUME LInv, NEW e \in Event, ~ IEvent[e].Signature
               PROVE  /\ ~ Queued(e)
                      /\ e \notin ToSet(gEventSignalQueue) \cup ToSet(RuntimeEventHead) \cup ToSet(mEfiTimerList)
    BY DEF ClosedUnlinked
  <2>1. e \notin Linked \cup Armed
    BY DEF LInv, EventLink
  <2> QED BY <2>1 DEF Linked, LinkedIn, InQueue, Queued, Armed
<1> QED BY <1>1, ListsInductive, PTL

=============================================================================
