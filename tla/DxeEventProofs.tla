--------------------------- MODULE DxeEventProofs ---------------------------
(* Proofs about DxeEvent for any set of events, any TPLs of notifications and
   any clients, in a build that loads gEventPending once per test. *)
EXTENDS DxeEvent, ListLemmas

USE DEF TPL_APPLICATION, TPL_CALLBACK, TPL_NOTIFY, TPL_HIGH_LEVEL, NoBit, TimerLockTpl, Tpls

-----------------------------------------------------------------------------
(* Call stacks *)

(* The fields of a frame. *)
LEMMA FrameTypes ==
  ASSUME NEW f \in Frames
  PROVE  /\ f.pc \in Pcs /\ f.ev \in Event \cup {NoEvent} /\ f.num \in Nat
         /\ f.lvl \in Tpls /\ f.lvl \in Int
         /\ f.new \in Tpls /\ f.new \in Int
BY DEF Frames

(* The innermost frame of a well-formed stack. *)
LEMMA TopFrame ==
  ASSUME NEW s, NEW tpl, StackOK(s, tpl)
  PROVE  /\ Len(s) \in Nat \ {0}
         /\ Last(s) = s[Len(s)]
         /\ FrameOK(Last(s))
         /\ Last(s).lvl = tpl
         /\ Last(s).pc = "app" <=> Len(s) = 1
<1>1. s \in Seq(Frames) /\ s # <<>>
  BY DEF StackOK
<1>2. Len(s) \in Nat \ {0} /\ Last(s) = s[Len(s)]
  BY <1>1, FrontProperties
<1>3. Len(s) \in 1..Len(s)
  BY <1>2
<1> QED BY <1>2, <1>3 DEF StackOK

(* Who does not hold the timer lock and was not called by CoreSignalEvent knows
   that nobody holds it. *)
LEMMA NoHolder ==
  ASSUME NEW s, NEW tpl, NEW lock, StackInv(s, tpl, lock),
         Last(s).pc \notin LockedPcs \cup SignalPcs
  PROVE  \A i \in 1..Len(s) : s[i].pc \notin LockedPcs
<1>1. Len(s) \in Nat \ {0} /\ Last(s) = s[Len(s)]
  BY TopFrame DEF StackInv
<1>2. \A i, j \in 1..Len(s) : i < j /\ s[i].pc \in LockedPcs => s[j].pc \in SignalPcs
  BY DEF StackInv, LockOK
<1> QED BY <1>1, <1>2

(* Calling: a frame pushed by the one that runs, which keeps the timer lock's
   state and goes back to the TPL of its caller. *)
LEMMA PushFrame ==
  ASSUME NEW s, NEW tpl, NEW lock, StackInv(s, tpl, lock),
         NEW f, FrameOK(f),
         f.new = tpl,
         f.pc \notin LockedPcs \cup {"app"},
         f.pc \in NotifyPcs => Last(s).pc = "acquire",
         (\E i \in 1..Len(s) : s[i].pc \in LockedPcs) => f.pc \in SignalPcs
  PROVE  StackInv(Append(s, f), f.lvl, lock)
<1> DEFINE t == Append(s, f)
           n == Len(s)
<1>1. s \in Seq(Frames) /\ f \in Frames /\ n \in Nat \ {0} /\ s[n].lvl = tpl /\ Last(s) = s[n]
  BY TopFrame DEF StackInv, StackOK, FrameOK
<1>2. /\ t \in Seq(Frames) /\ t # <<>> /\ Len(t) = n + 1
      /\ \A i \in 1..n : t[i] = s[i]
      /\ t[n + 1] = f
  BY <1>1, AppendProperties
<1> HIDE DEF t, n
<1>3. StackOK(t, f.lvl)
  <2>1. \A i \in 1..(n + 1) : FrameOK(t[i]) /\ (t[i].pc = "app" <=> i = 1)
    <3>1. \A i \in 1..n : FrameOK(s[i]) /\ (s[i].pc = "app" <=> i = 1)
      BY DEF StackInv, StackOK, n
    <3> QED BY <1>1, <1>2, <3>1
  <2>2. \A i \in 2..(n + 1) : /\ t[i].new = t[i - 1].lvl
                              /\ t[i].pc \in NotifyPcs => t[i - 1].pc = "acquire"
    <3>1. \A i \in 2..n : /\ s[i].new = s[i - 1].lvl
                          /\ s[i].pc \in NotifyPcs => s[i - 1].pc = "acquire"
      BY DEF StackInv, StackOK, n
    <3> SUFFICES ASSUME NEW i \in 2..(n + 1)
                 PROVE  /\ t[i].new = t[i - 1].lvl
                        /\ t[i].pc \in NotifyPcs => t[i - 1].pc = "acquire"
      OBVIOUS
    <3>2. CASE i = n + 1
      <4>1. i - 1 = n /\ n \in 1..n
        BY <1>1, <3>2
      <4> QED BY <1>1, <1>2, <3>2, <4>1
    <3>3. CASE i \in 2..n
      <4>1. i \in 1..n /\ i - 1 \in 1..n
        BY <1>1, <3>3
      <4> QED BY <1>2, <3>1, <3>3, <4>1
    <3> QED BY <1>1, <3>2, <3>3
  <2>3. \A i, j \in 1..(n + 1) : i < j => t[i].lvl <= t[j].new
    <3>1. \A i, j \in 1..n : i < j => s[i].lvl <= s[j].new
      BY DEF StackInv, StackOK, n
    <3>2. \A i \in 1..n : s[i] \in Frames /\ s[i].new <= s[i].lvl
      BY DEF StackInv, StackOK, FrameOK, n
    <3>3. ASSUME NEW i \in 1..n PROVE s[i].lvl <= tpl
      <4>1. n \in 1..n /\ s[n] \in Frames /\ s[i] \in Frames /\ s[n].new <= s[n].lvl
        BY <1>1, <3>2
      <4> /\ s[n].lvl \in Int /\ s[n].new \in Int
          /\ s[i].lvl \in Int /\ s[i].new \in Int
        BY <4>1, FrameTypes
      <4>2. CASE i = n
        BY <1>1, <4>2
      <4>3. CASE i < n
        BY <1>1, <3>1, <4>1, <4>3
      <4> QED BY <1>1, <4>2, <4>3
    <3> QED BY <1>1, <1>2, <3>1, <3>3
  <2> QED BY <1>2, <2>1, <2>2, <2>3 DEF StackOK
<1>4. LockOK(t, lock)
  <2>1. /\ \A i \in 1..n : s[i].pc \in LockedPcs => lock.Lock = "Acquired" /\ lock.OwnerTpl = s[i].new
        /\ lock.Lock = "Acquired" => \E i \in 1..n : s[i].pc \in LockedPcs
        /\ \A i, j \in 1..n : i < j /\ s[i].pc \in LockedPcs => s[j].pc \in SignalPcs
    BY DEF StackInv, LockOK, n
  <2>2. \A i \in 1..n : s[i].pc \in LockedPcs => f.pc \in SignalPcs
    BY DEF n
  <2>3. \A i \in 1..(n + 1) : t[i].pc \in LockedPcs => i \in 1..n /\ t[i] = s[i]
    BY <1>1, <1>2
  <2>4. \A i \in 1..n : i \in 1..(n + 1) /\ t[i] = s[i]
    BY <1>1, <1>2
  <2>5. ASSUME NEW i \in 1..(n + 1), NEW j \in 1..(n + 1), i < j, t[i].pc \in LockedPcs
        PROVE  t[j].pc \in SignalPcs
    <3>1. CASE j = n + 1
      BY <1>2, <2>2, <2>3, <2>5, <3>1
    <3>2. CASE j \in 1..n
      BY <2>1, <2>3, <2>4, <2>5, <3>2
    <3> QED BY <1>1, <3>1, <3>2
  <2> QED BY <1>2, <2>1, <2>3, <2>4, <2>5 DEF LockOK
<1> QED BY <1>3, <1>4 DEF StackInv, t

(* Stepping: the running frame changes in place. *)
LEMMA UpdateFrame ==
  ASSUME NEW s, NEW tpl, NEW lock, StackInv(s, tpl, lock),
         NEW f, FrameOK(f),
         f.new = Last(s).new,
         Last(s).pc # "app", f.pc # "app",
         f.pc \in NotifyPcs => Last(s).pc \in NotifyPcs,
         f.pc \in LockedPcs <=> Last(s).pc \in LockedPcs,
         Last(s).pc \in SignalPcs => f.pc \in SignalPcs
  PROVE  StackInv(SetTop(s, f), f.lvl, lock)
<1> DEFINE t == SetTop(s, f)
           n == Len(s)
<1>1. /\ s \in Seq(Frames) /\ f \in Frames /\ n \in Nat \ {0} /\ Last(s) = s[n]
      /\ n # 1
  BY TopFrame DEF StackInv, StackOK, FrameOK
<1>2. /\ t \in Seq(Frames) /\ t # <<>> /\ Len(t) = n
      /\ \A i \in 1..n : i # n => t[i] = s[i]
      /\ t[n] = f
  BY <1>1 DEF SetTop
<1> HIDE DEF t, n
<1>3. StackOK(t, f.lvl)
  <2>1. \A i \in 1..n : FrameOK(t[i]) /\ (t[i].pc = "app" <=> i = 1)
    <3>1. \A i \in 1..n : FrameOK(s[i]) /\ (s[i].pc = "app" <=> i = 1)
      BY DEF StackInv, StackOK, n
    <3> QED BY <1>1, <1>2, <3>1
  <2>2. \A i \in 2..n : /\ t[i].new = t[i - 1].lvl
                        /\ t[i].pc \in NotifyPcs => t[i - 1].pc = "acquire"
    <3>1. \A i \in 2..n : /\ s[i].new = s[i - 1].lvl
                          /\ s[i].pc \in NotifyPcs => s[i - 1].pc = "acquire"
      BY DEF StackInv, StackOK, n
    <3> SUFFICES ASSUME NEW i \in 2..n
                 PROVE  /\ t[i].new = t[i - 1].lvl
                        /\ t[i].pc \in NotifyPcs => t[i - 1].pc = "acquire"
      OBVIOUS
    <3>2. i \in 1..n /\ i - 1 \in 1..n /\ i - 1 # n
      BY <1>1
    <3>3. t[i].new = s[i].new /\ (t[i].pc \in NotifyPcs => s[i].pc \in NotifyPcs)
      BY <1>1, <1>2, <3>2
    <3> QED BY <1>2, <3>1, <3>2, <3>3
  <2>3. \A i, j \in 1..n : i < j => t[i].lvl <= t[j].new
    <3>1. \A i, j \in 1..n : i < j => s[i].lvl <= s[j].new
      BY DEF StackInv, StackOK, n
    <3> QED BY <1>1, <1>2, <3>1
  <2> QED BY <1>1, <1>2, <2>1, <2>2, <2>3 DEF StackOK
<1>4. LockOK(t, lock)
  <2>1. /\ \A i \in 1..n : s[i].pc \in LockedPcs => lock.Lock = "Acquired" /\ lock.OwnerTpl = s[i].new
        /\ lock.Lock = "Acquired" => \E i \in 1..n : s[i].pc \in LockedPcs
        /\ \A i, j \in 1..n : i < j /\ s[i].pc \in LockedPcs => s[j].pc \in SignalPcs
    BY DEF StackInv, LockOK, n
  <2>2. \A i \in 1..n : t[i].pc \in LockedPcs <=> s[i].pc \in LockedPcs
    BY <1>1, <1>2
  <2>3. \A i \in 1..n : t[i].new = s[i].new
    BY <1>1, <1>2
  <2>4. \A i \in 1..n : s[i].pc \in SignalPcs => t[i].pc \in SignalPcs
    BY <1>1, <1>2
  <2> QED BY <1>2, <2>1, <2>2, <2>3, <2>4 DEF LockOK
<1> QED BY <1>3, <1>4 DEF StackInv, t

(* Returning: the caller finds the TPL it had. *)
LEMMA PopFrame ==
  ASSUME NEW s, NEW tpl, NEW lock, StackInv(s, tpl, lock),
         Last(s).pc \notin LockedPcs \cup {"app"}
  PROVE  StackInv(Front(s), Last(s).new, lock)
<1> DEFINE t == Front(s)
           n == Len(s)
<1>1. s \in Seq(Frames) /\ s # <<>> /\ n \in Nat \ {0} /\ Last(s) = s[n] /\ n # 1
  BY TopFrame DEF StackInv, StackOK
<1>2. /\ t \in Seq(Frames) /\ Len(t) = n - 1
      /\ \A i \in 1..(n - 1) : t[i] = s[i]
  BY <1>1, FrontProperties
<1>3. t # <<>> /\ n - 1 \in Nat \ {0} /\ 1..(n - 1) \subseteq 1..n
  BY <1>1, <1>2
<1> HIDE DEF t, n
<1>4. StackOK(t, Last(s).new)
  <2>1. \A i \in 1..(n - 1) : FrameOK(t[i]) /\ (t[i].pc = "app" <=> i = 1)
    BY <1>2, <1>3 DEF StackInv, StackOK, n
  <2>2. \A i \in 2..(n - 1) : /\ t[i].new = t[i - 1].lvl
                              /\ t[i].pc \in NotifyPcs => t[i - 1].pc = "acquire"
    <3>1. \A i \in 2..n : /\ s[i].new = s[i - 1].lvl
                          /\ s[i].pc \in NotifyPcs => s[i - 1].pc = "acquire"
      BY DEF StackInv, StackOK, n
    <3>2. \A i \in 2..(n - 1) : i \in 2..n /\ i \in 1..(n - 1) /\ i - 1 \in 1..(n - 1)
      BY <1>1
    <3> QED BY <1>2, <3>1, <3>2
  <2>3. \A i, j \in 1..(n - 1) : i < j => t[i].lvl <= t[j].new
    BY <1>2, <1>3 DEF StackInv, StackOK, n
  <2>4. t[n - 1].lvl = Last(s).new
    <3>1. n \in 2..n /\ n - 1 \in 1..(n - 1)
      BY <1>1
    <3>2. s[n].new = s[n - 1].lvl
      BY <3>1 DEF StackInv, StackOK, n
    <3> QED BY <1>1, <1>2, <3>1, <3>2
  <2> QED BY <1>2, <1>3, <2>1, <2>2, <2>3, <2>4 DEF StackOK
<1>5. LockOK(t, lock)
  <2>1. /\ \A i \in 1..n : s[i].pc \in LockedPcs => lock.Lock = "Acquired" /\ lock.OwnerTpl = s[i].new
        /\ lock.Lock = "Acquired" => \E i \in 1..n : s[i].pc \in LockedPcs
        /\ \A i, j \in 1..n : i < j /\ s[i].pc \in LockedPcs => s[j].pc \in SignalPcs
    BY DEF StackInv, LockOK, n
  <2> QED BY <1>1, <1>2, <1>3, <2>1 DEF LockOK
<1> QED BY <1>4, <1>5 DEF StackInv, t

(* CoreAcquireLock (&mEfiTimerLock) by a running frame that becomes f, when
   neither it nor CoreSignalEvent holds it. *)
LEMMA AcquireInPlace ==
  ASSUME NEW s, NEW tpl, NEW lock, StackInv(s, tpl, lock),
         NEW f, FrameOK(f),
         f.new = Last(s).new,
         Last(s).pc \notin LockedPcs \cup SignalPcs \cup {"app"},
         f.pc \in LockedPcs,
         f.pc \in NotifyPcs => Last(s).pc \in NotifyPcs
  PROVE  StackInv(SetTop(s, f), f.lvl, [Lock |-> "Acquired", OwnerTpl |-> f.new])
<1> DEFINE t == SetTop(s, f)
           n == Len(s)
<1>1. /\ s \in Seq(Frames) /\ f \in Frames /\ n \in Nat \ {0} /\ Last(s) = s[n]
      /\ n # 1 /\ f.pc # "app"
  BY TopFrame DEF StackInv, StackOK, FrameOK, LockedPcs, LockedCheckPcs, LockedSetPcs
<1>2. /\ t \in Seq(Frames) /\ t # <<>> /\ Len(t) = n
      /\ \A i \in 1..n : i # n => t[i] = s[i]
      /\ t[n] = f
  BY <1>1 DEF SetTop
<1> HIDE DEF t, n
<1>3. StackOK(t, f.lvl)
  <2>1. \A i \in 1..n : FrameOK(t[i]) /\ (t[i].pc = "app" <=> i = 1)
    <3>1. \A i \in 1..n : FrameOK(s[i]) /\ (s[i].pc = "app" <=> i = 1)
      BY DEF StackInv, StackOK, n
    <3> QED BY <1>1, <1>2, <3>1
  <2>2. \A i \in 2..n : /\ t[i].new = t[i - 1].lvl
                        /\ t[i].pc \in NotifyPcs => t[i - 1].pc = "acquire"
    <3>1. \A i \in 2..n : /\ s[i].new = s[i - 1].lvl
                          /\ s[i].pc \in NotifyPcs => s[i - 1].pc = "acquire"
      BY DEF StackInv, StackOK, n
    <3> SUFFICES ASSUME NEW i \in 2..n
                 PROVE  /\ t[i].new = t[i - 1].lvl
                        /\ t[i].pc \in NotifyPcs => t[i - 1].pc = "acquire"
      OBVIOUS
    <3>2. i \in 1..n /\ i - 1 \in 1..n /\ i - 1 # n
      BY <1>1
    <3>3. t[i].new = s[i].new /\ (t[i].pc \in NotifyPcs => s[i].pc \in NotifyPcs)
      BY <1>1, <1>2, <3>2
    <3> QED BY <1>2, <3>1, <3>2, <3>3
  <2>3. \A i, j \in 1..n : i < j => t[i].lvl <= t[j].new
    <3>1. \A i, j \in 1..n : i < j => s[i].lvl <= s[j].new
      BY DEF StackInv, StackOK, n
    <3> QED BY <1>1, <1>2, <3>1
  <2> QED BY <1>1, <1>2, <2>1, <2>2, <2>3 DEF StackOK
<1>4. LockOK(t, [Lock |-> "Acquired", OwnerTpl |-> f.new])
  <2>2. \A i \in 1..n : s[i].pc \notin LockedPcs
    BY NoHolder DEF n
  <2>3. \A i \in 1..n : t[i].pc \in LockedPcs <=> i = n
    BY <1>1, <1>2, <2>2
  <2> QED BY <1>1, <1>2, <2>3 DEF LockOK
<1> QED BY <1>3, <1>4 DEF StackInv, t

(* The same by a frame f that the running one calls. *)
LEMMA AcquireInCall ==
  ASSUME NEW s, NEW tpl, NEW lock, StackInv(s, tpl, lock),
         NEW f, FrameOK(f),
         f.new = tpl,
         Last(s).pc \notin LockedPcs \cup SignalPcs,
         f.pc \in LockedPcs \ NotifyPcs
  PROVE  StackInv(Append(s, f), f.lvl, [Lock |-> "Acquired", OwnerTpl |-> tpl])
<1> DEFINE g   == [f EXCEPT !.pc = "raised"]
           new == [Lock |-> "Acquired", OwnerTpl |-> tpl]
<1>1. /\ f \in Frames /\ g \in Frames
      /\ g.pc = "raised" /\ g.lvl = f.lvl /\ g.new = f.new /\ g.ev = f.ev /\ g.num = f.num
  BY DEF FrameOK, Frames, Pcs, ClientPcs
<1>2. FrameOK(g)
  BY <1>1 DEF FrameOK, CallerTplPcs, RestorePcs, LockedPcs, LockedCheckPcs, LockedSetPcs,
              NotifyPcs, EventPcs
<1>3. StackInv(Append(s, g), g.lvl, lock)
  <2>1. g.pc \notin LockedPcs \cup {"app"} /\ g.pc \notin NotifyPcs
    BY <1>1 DEF LockedPcs, LockedCheckPcs, LockedSetPcs, NotifyPcs
  <2>2. \A i \in 1..Len(s) : s[i].pc \notin LockedPcs
    BY NoHolder
  <2> QED BY <1>1, <1>2, <2>1, <2>2, PushFrame
<1>4. s \in Seq(Frames)
  BY DEF StackInv, StackOK
<1>5. Last(Append(s, g)) = g
  BY <1>1, <1>4, AppendProperties DEF Last
<1>6. StackInv(SetTop(Append(s, g), f), f.lvl, [Lock |-> "Acquired", OwnerTpl |-> f.new])
  <2>1. g.pc \notin LockedPcs \cup SignalPcs \cup {"app"}
    BY <1>1 DEF LockedPcs, LockedCheckPcs, LockedSetPcs, SignalPcs
  <2> QED BY <1>1, <1>3, <1>5, <2>1, AcquireInPlace
<1>7. SetTop(Append(s, g), f) = Append(s, f)
  <2>1. /\ Append(s, g) \in Seq(Frames) /\ Append(s, f) \in Seq(Frames)
        /\ Len(Append(s, g)) = Len(s) + 1 /\ Len(Append(s, f)) = Len(s) + 1
        /\ \A i \in 1..Len(s) : Append(s, g)[i] = s[i] /\ Append(s, f)[i] = s[i]
        /\ Append(s, f)[Len(s) + 1] = f
    BY <1>1, <1>4, AppendProperties
  <2>2. /\ SetTop(Append(s, g), f) \in Seq(Frames)
        /\ Len(SetTop(Append(s, g), f)) = Len(s) + 1
        /\ SetTop(Append(s, g), f)[Len(s) + 1] = f
        /\ \A i \in 1..Len(s) : SetTop(Append(s, g), f)[i] = s[i]
    <3> DEFINE u == Append(s, g)
    <3>1. u \in Seq(Frames) /\ Len(u) = Len(s) + 1 /\ Len(s) \in Nat
      BY <1>4, <2>1
    <3>2. \A i \in 1..Len(s) : u[i] = s[i]
      BY <2>1
    <3> HIDE DEF u
    <3>3. /\ SetTop(u, f) \in Seq(Frames)
          /\ Len(SetTop(u, f)) = Len(s) + 1
          /\ SetTop(u, f)[Len(s) + 1] = f
          /\ \A i \in 1..Len(s) : SetTop(u, f)[i] = u[i]
      BY <1>1, <3>1 DEF SetTop
    <3> QED BY <3>2, <3>3 DEF u
  <2> DEFINE x == SetTop(Append(s, g), f)
             y == Append(s, f)
  <2>3. /\ x \in Seq(Frames) /\ y \in Seq(Frames) /\ Len(x) = Len(s) + 1 /\ Len(y) = Len(s) + 1
        /\ \A i \in 1..(Len(s) + 1) : x[i] = y[i]
    BY <1>4, <2>1, <2>2, SMTT(30)
  <2> HIDE DEF x, y
  <2>4. x = y
    BY <2>3, SeqEqual
  <2> QED BY <2>4 DEF x, y
<1> QED BY <1>6, <1>7

(* CoreReleaseLock (&mEfiTimerLock) up to CoreRestoreTpl. *)
LEMMA ReleaseInPlace ==
  ASSUME NEW s, NEW tpl, NEW lock \in [Lock : {"Released", "Acquired"}, OwnerTpl : Tpls],
         StackInv(s, tpl, lock),
         NEW f, FrameOK(f),
         f.new = lock.OwnerTpl,
         Last(s).pc \in LockedPcs,
         f.pc = "test"
  PROVE  StackInv(SetTop(s, f), f.lvl, [lock EXCEPT !.Lock = "Released"])
<1> DEFINE t == SetTop(s, f)
           n == Len(s)
<1>1. /\ s \in Seq(Frames) /\ f \in Frames /\ n \in Nat \ {0} /\ Last(s) = s[n]
      /\ n # 1 /\ f.pc # "app"
  BY TopFrame DEF StackInv, StackOK, FrameOK, LockedPcs, LockedCheckPcs, LockedSetPcs
<1>2. f.new = Last(s).new
  <2>1. n \in 1..n
    BY <1>1
  <2> QED BY <1>1, <2>1 DEF StackInv, LockOK, n
<1>3. /\ t \in Seq(Frames) /\ t # <<>> /\ Len(t) = n
      /\ \A i \in 1..n : i # n => t[i] = s[i]
      /\ t[n] = f
  BY <1>1 DEF SetTop
<1> HIDE DEF t, n
<1>4. f.pc \notin NotifyPcs \cup LockedPcs
  BY DEF NotifyPcs, LockedPcs, LockedCheckPcs, LockedSetPcs
<1>5. StackOK(t, f.lvl)
  <2>1. \A i \in 1..n : FrameOK(t[i]) /\ (t[i].pc = "app" <=> i = 1)
    <3>1. \A i \in 1..n : FrameOK(s[i]) /\ (s[i].pc = "app" <=> i = 1)
      BY DEF StackInv, StackOK, n
    <3> QED BY <1>1, <1>3, <3>1
  <2>2. \A i \in 2..n : /\ t[i].new = t[i - 1].lvl
                        /\ t[i].pc \in NotifyPcs => t[i - 1].pc = "acquire"
    <3>1. \A i \in 2..n : /\ s[i].new = s[i - 1].lvl
                          /\ s[i].pc \in NotifyPcs => s[i - 1].pc = "acquire"
      BY DEF StackInv, StackOK, n
    <3> SUFFICES ASSUME NEW i \in 2..n
                 PROVE  /\ t[i].new = t[i - 1].lvl
                        /\ t[i].pc \in NotifyPcs => t[i - 1].pc = "acquire"
      OBVIOUS
    <3>2. i \in 1..n /\ i - 1 \in 1..n /\ i - 1 # n
      BY <1>1
    <3>3. t[i].new = s[i].new /\ (t[i].pc \in NotifyPcs => s[i].pc \in NotifyPcs)
      BY <1>1, <1>2, <1>3, <1>4, <3>2
    <3> QED BY <1>3, <3>1, <3>2, <3>3
  <2>3. \A i, j \in 1..n : i < j => t[i].lvl <= t[j].new
    <3>1. \A i, j \in 1..n : i < j => s[i].lvl <= s[j].new
      BY DEF StackInv, StackOK, n
    <3> QED BY <1>1, <1>2, <1>3, <3>1
  <2> QED BY <1>1, <1>3, <2>1, <2>2, <2>3 DEF StackOK
<1>6. \A i \in 1..n : t[i].pc \notin LockedPcs
  <2>1. \A i, j \in 1..n : i < j /\ s[i].pc \in LockedPcs => s[j].pc \in SignalPcs
    BY DEF StackInv, LockOK, n
  <2>2. s[n].pc \notin SignalPcs
    BY <1>1 DEF LockedPcs, LockedCheckPcs, LockedSetPcs, SignalPcs
  <2> QED BY <1>1, <1>3, <1>4, <2>1, <2>2
<1>7. [lock EXCEPT !.Lock = "Released"].Lock # "Acquired"
  OBVIOUS
<1>8. LockOK(t, [lock EXCEPT !.Lock = "Released"])
  BY <1>3, <1>6, <1>7 DEF LockOK
<1> QED BY <1>5, <1>8 DEF StackInv, t

(* HighBitSet64 of a mask with a bit above tpl is the highest pending TPL. *)
LEMMA HighBit ==
  ASSUME NEW mask, mask \subseteq NotifyTpls \cup {0}, mask # {}
  PROVE  /\ HighBitSet64(mask) \in mask
         /\ \A p \in mask : p <= HighBitSet64(mask)
<1>1. mask \subseteq 0..30
  BY TplAssumption
<1>2. \E x \in mask : \A y \in mask : y <= x
  BY <1>1, GreatestMember
<1> QED BY <1>2 DEF HighBitSet64

(* CoreRestoreTpl from TPL_HIGH_LEVEL to the TPL of the frame it goes back to:
   what it pushes dispatches above that TPL, and so never above a holder of the
   timer lock. *)
LEMMA RestoreKeepsStack ==
  ASSUME NEW s, NEW tpl, StackInv(s, tpl, mEfiTimerLock),
         gEventPending' \subseteq NotifyTpls \cup {0},
         RestoreFromHigh(tpl, s)
  PROVE  StackInv(stack', gEfiCurrentTpl', mEfiTimerLock)
<1>0. FrameOK(Last(s)) /\ Last(s).lvl = tpl /\ tpl \in 4..31
  <2>1. FrameOK(Last(s)) /\ Last(s).lvl = tpl
    BY TopFrame DEF StackInv
  <2> QED BY <2>1, FrameTypes DEF FrameOK
<1>1. CASE ~ \E p \in gEventPending' : p > tpl
  BY <1>1 DEF RestoreFromHigh
<1>2. CASE \E p \in gEventPending' : p > tpl
  <2> DEFINE p == HighBitSet64(gEventPending')
             f == Frame("acquire", p, tpl, NoEvent, p)
  <2>1. p \in NotifyTpls /\ p > tpl /\ p \in 5..30
    <3>1. PICK q \in gEventPending' : q > tpl
      BY <1>2
    <3>2. p \in gEventPending' /\ q <= p
      BY <3>1, HighBit
    <3> HIDE DEF p
    <3>3. q \in 0..30 /\ p \in 0..30 /\ p \in NotifyTpls \cup {0}
      BY <3>1, <3>2, TplAssumption
    <3>4. p > tpl
      BY <1>0, <3>1, <3>2, <3>3
    <3> QED BY <1>0, <3>3, <3>4
  <2>2. gEfiCurrentTpl' = p /\ stack' = Append(s, f)
    BY <1>2 DEF RestoreFromHigh
  <2> HIDE DEF p
  <2>3. f \in Frames
    BY <1>0, <2>1 DEF Frames, Frame, Pcs, RestorePcs
  <2>4. FrameOK(f)
    BY <1>0, <2>1, <2>3 DEF FrameOK, Frame, CallerTplPcs, LockedPcs, LockedCheckPcs, LockedSetPcs,
                            EventPcs
  <2>5. ASSUME NEW i \in 1..Len(s), s[i].pc \in LockedPcs PROVE FALSE
    <3>1. Len(s) \in 1..Len(s) /\ s[Len(s)] = Last(s)
      <4>1. Len(s) \in Nat \ {0} /\ s[Len(s)] = Last(s)
        BY TopFrame DEF StackInv
      <4> QED BY <4>1
    <3>2. FrameOK(s[i]) /\ s[i].lvl = 30
      <4>1. FrameOK(s[i])
        BY DEF StackInv, StackOK
      <4> QED BY <2>5, <4>1 DEF FrameOK
    <3>3. i < Len(s) => s[i].lvl <= Last(s).new
      BY <3>1 DEF StackInv, StackOK
    <3>4. Last(s).new <= Last(s).lvl /\ Last(s).new \in Int /\ Last(s).lvl \in Int
      BY <1>0, FrameTypes DEF FrameOK
    <3>5. 30 <= tpl
      BY <1>0, <3>1, <3>2, <3>3, <3>4
    <3> QED BY <1>0, <2>1, <3>5
  <2>6. f.pc \notin LockedPcs \cup {"app"} /\ f.pc \notin NotifyPcs /\ f.new = tpl /\ f.lvl = p
    BY DEF Frame, LockedPcs, LockedCheckPcs, LockedSetPcs, NotifyPcs
  <2> QED BY <2>2, <2>4, <2>5, <2>6, PushFrame
<1> QED BY <1>1, <1>2

-----------------------------------------------------------------------------
(* Lists and event structures *)

(* Unlinking keeps the type of a list. *)
LEMMA UnlinkType ==
  ASSUME NEW S, NEW s \in Seq(S), NEW e
  PROVE  Unlink(s, e) \in Seq(S)
<1>1. CASE \E i \in DOMAIN s : s[i] = e
  <2> DEFINE i == CHOOSE k \in DOMAIN s : s[k] = e
  <2>1. i \in 1..Len(s)
    BY <1>1
  <2>2. Unlink(s, e) = RemoveAt(s, i)
    BY <1>1 DEF Unlink
  <2> HIDE DEF i
  <2> QED BY <2>1, <2>2, RemoveAtProperties
<1>2. CASE ~ \E i \in DOMAIN s : s[i] = e
  BY <1>2 DEF Unlink
<1> QED BY <1>1, <1>2

(* CoreNotifyEvent keeps the types of the queues and of the mask. *)
LEMMA NotifyEventTypes ==
  ASSUME DataOK, NEW e \in Event, CoreNotifyEvent(e)
  PROVE  /\ gEventQueue' \in [NotifyTpls -> Seq(Event)]
         /\ gEventPending' \subseteq NotifyTpls \cup {0}
<1> DEFINE t == IEvent[e].NotifyTpl
<1>1. t \in NotifyTpls \cup {0} /\ gEventQueue \in [NotifyTpls -> Seq(Event)]
  BY DEF DataOK, IEvents
<1>2. gEventPending' \subseteq NotifyTpls \cup {0}
  BY <1>1 DEF CoreNotifyEvent, DataOK
<1>3. gEventQueue' = [gEventQueue EXCEPT ![t] = Append(Unlink(@, e), e)]
  BY DEF CoreNotifyEvent
<1> HIDE DEF t
<1>4. ASSUME NEW q \in Seq(Event) PROVE Append(Unlink(q, e), e) \in Seq(Event)
  BY UnlinkType, AppendProperties
<1>5. gEventQueue' \in [NotifyTpls -> Seq(Event)]
  BY <1>1, <1>3, <1>4
<1> QED BY <1>2, <1>5

(* Changes to the fields of an IEVENT that keep its type. *)
LEMMA EventFieldTypes ==
  ASSUME IEvent \in [Event -> IEvents], NEW e \in Event
  PROVE  /\ \A c \in 0..1 : [IEvent EXCEPT ![e].SignalCount = c] \in [Event -> IEvents]
         /\ \A n \in Nat : [IEvent EXCEPT ![e].TriggerTime = n] \in [Event -> IEvents]
         /\ [IEvent EXCEPT ![e].Signature = FALSE] \in [Event -> IEvents]
         /\ \A n, p \in Nat : [IEvent EXCEPT ![e].TriggerTime = n, ![e].Period = p] \in [Event -> IEvents]
<1>1. IEvent[e] \in IEvents
  OBVIOUS
<1>2. \A g \in IEvents : [IEvent EXCEPT ![e] = g] \in [Event -> IEvents]
  OBVIOUS
<1>3. ASSUME NEW c \in 0..1 PROVE [IEvent[e] EXCEPT !.SignalCount = c] \in IEvents
  BY <1>1 DEF IEvents
<1>4. ASSUME NEW n \in Nat PROVE [IEvent[e] EXCEPT !.TriggerTime = n] \in IEvents
  BY <1>1 DEF IEvents
<1>5. [IEvent[e] EXCEPT !.Signature = FALSE] \in IEvents
  BY <1>1 DEF IEvents
<1>6. ASSUME NEW n \in Nat, NEW p \in Nat
      PROVE  [IEvent[e] EXCEPT !.TriggerTime = n, !.Period = p] \in IEvents
  BY <1>1 DEF IEvents
<1>7. \A n, p \in Nat :
        [IEvent EXCEPT ![e].TriggerTime = n, ![e].Period = p]
          = [IEvent EXCEPT ![e] = [IEvent[e] EXCEPT !.TriggerTime = n, !.Period = p]]
  OBVIOUS
<1>8. \A c \in 0..1 : [IEvent EXCEPT ![e].SignalCount = c] \in [Event -> IEvents]
  BY <1>2, <1>3
<1>9. \A n \in Nat : [IEvent EXCEPT ![e].TriggerTime = n] \in [Event -> IEvents]
  BY <1>2, <1>4
<1>10. [IEvent EXCEPT ![e].Signature = FALSE] \in [Event -> IEvents]
  BY <1>2, <1>5
<1>11. \A n, p \in Nat : [IEvent EXCEPT ![e].TriggerTime = n, ![e].Period = p] \in [Event -> IEvents]
  BY <1>2, <1>6, <1>7
<1> QED BY <1>8, <1>9, <1>10, <1>11

(* CoreInsertEventTimer finds its place: after every timer that is not later,
   before the first that is. *)
LEMMA TimerSlotPlace ==
  ASSUME DataOK, NEW e \in Event
  PROVE  /\ TimerSlot(e) \in 1..(Len(mEfiTimerList) + 1)
         /\ \A j \in 1..(TimerSlot(e) - 1) :
              IEvent[mEfiTimerList[j]].TriggerTime <= IEvent[e].TriggerTime
         /\ TimerSlot(e) <= Len(mEfiTimerList) =>
              IEvent[mEfiTimerList[TimerSlot(e)]].TriggerTime > IEvent[e].TriggerTime
<1> DEFINE L == Len(mEfiTimerList)
           time(i) == IEvent[mEfiTimerList[i]].TriggerTime
           T == {i \in 1..(L + 1) : i <= L => time(i) > IEvent[e].TriggerTime}
<1>1. mEfiTimerList \in Seq(Event) /\ L \in Nat
  BY DEF DataOK
<1>2. \A i \in 1..L : time(i) \in Nat
  <2>1. \A x \in Event : IEvent[x].TriggerTime \in Nat
    BY DEF DataOK, IEvents
  <2>2. \A i \in 1..L : mEfiTimerList[i] \in Event
    BY <1>1
  <2> QED BY <2>1, <2>2
<1>3. IEvent[e].TriggerTime \in Nat
  BY DEF DataOK, IEvents
<1> HIDE DEF L, time
<1>4. T \subseteq Nat /\ L + 1 \in T
  BY <1>1
<1>5. PICK i \in T : \A j \in T : i <= j
  BY <1>4, LeastMember
<1>6. \A j \in 1..(i - 1) : time(j) <= IEvent[e].TriggerTime
  <2> SUFFICES ASSUME NEW j \in 1..(i - 1) PROVE time(j) <= IEvent[e].TriggerTime
    OBVIOUS
  <2>1. i \in 1..(L + 1) /\ j \in 1..L /\ ~ (i <= j)
    BY <1>1, <1>5
  <2>2. j \notin T
    BY <1>5, <2>1
  <2> QED BY <1>1, <1>2, <1>3, <2>1, <2>2
<1> QED BY <1>5, <1>6 DEF TimerSlot, L, time

(* CoreInsertEventTimer keeps the type of the timer list. *)
LEMMA InsertTimerType ==
  ASSUME DataOK, NEW e \in Event
  PROVE  InsertAt(mEfiTimerList, TimerSlot(e), e) \in Seq(Event)
<1>1. mEfiTimerList \in Seq(Event)
  BY DEF DataOK
<1>2. TimerSlot(e) \in 1..(Len(mEfiTimerList) + 1)
  BY TimerSlotPlace
<1> QED BY <1>1, <1>2, InsertAtProperties

-----------------------------------------------------------------------------
(* What the running activation does to the stack *)

(* The running activation. *)
LEMMA Running ==
  ASSUME IInv
  PROVE  /\ StackInv(stack, gEfiCurrentTpl, mEfiTimerLock)
         /\ Top = Last(stack) /\ Top \in Frames /\ FrameOK(Top)
         /\ Top.lvl = gEfiCurrentTpl
         /\ Top.lvl \in 4..31 /\ Top.new \in 4..31 /\ Top.new <= Top.lvl
         /\ Top.num \in Nat /\ Top.pc \in Pcs
<1>1. StackInv(stack, gEfiCurrentTpl, mEfiTimerLock) /\ Top = Last(stack)
  BY DEF IInv, Top
<1>2. FrameOK(Top) /\ Top.lvl = gEfiCurrentTpl
  BY <1>1, TopFrame DEF StackInv
<1>3. Top \in Frames /\ Top.lvl <= 31 /\ Top.new <= Top.lvl
  BY <1>2 DEF FrameOK
<1>4. Top.lvl \in 4..31 /\ Top.new \in 4..31 /\ Top.num \in Nat /\ Top.pc \in Pcs
  BY <1>3, FrameTypes
<1> QED BY <1>1, <1>2, <1>3, <1>4

(* A call by an activation that goes on with stack s. *)
LEMMA CallFrame ==
  ASSUME NEW s, NEW lock, StackInv(s, gEfiCurrentTpl, lock),
         NEW pc \in CallerTplPcs \ {"app"},
         NEW ev \in Event \cup {NoEvent}, pc \in EventPcs => ev \in Event,
         NEW num \in Nat, pc = "wait" => num # 0,
         pc \in NotifyPcs => Last(s).pc = "acquire",
         (\E i \in 1..Len(s) : s[i].pc \in LockedPcs) => pc \in SignalPcs
  PROVE  /\ StackInv(Call(s, pc, ev, num), gEfiCurrentTpl, lock)
         /\ Last(Call(s, pc, ev, num)) = Frame(pc, gEfiCurrentTpl, gEfiCurrentTpl, ev, num)
<1> DEFINE f == Frame(pc, gEfiCurrentTpl, gEfiCurrentTpl, ev, num)
<1>1. FrameOK(Last(s)) /\ Last(s).lvl = gEfiCurrentTpl /\ s \in Seq(Frames)
  BY TopFrame DEF StackInv, StackOK
<1>2. Last(s) \in Frames /\ Last(s).lvl <= 31 /\ (Last(s).pc = "acquire" => Last(s).lvl < 31)
  BY <1>1 DEF FrameOK, RestorePcs
<1>3. gEfiCurrentTpl \in 4..31
  <2>1. Last(s).lvl \in Tpls /\ Last(s).lvl \in Int
    BY <1>2, FrameTypes
  <2> QED BY <1>1, <1>2, <2>1
<1>4. pc \in Pcs
  BY DEF Pcs, CallerTplPcs, ClientPcs, SignalPcs, OtherPcs
<1>5. /\ f \in Frames /\ f.pc = pc /\ f.lvl = gEfiCurrentTpl /\ f.new = gEfiCurrentTpl
      /\ f.ev = ev /\ f.num = num
  BY <1>3, <1>4 DEF Frame, Frames
<1> HIDE DEF f
<1>6. /\ pc \notin LockedPcs \cup RestorePcs \cup {"acquire", "notify", "compare", "sig_loop", "pick"}
      /\ pc \in NotifyPcs => f.lvl < 31
  BY <1>1, <1>2, <1>5 DEF CallerTplPcs, RestorePcs, LockedPcs, LockedCheckPcs, LockedSetPcs
<1>7. FrameOK(f)
  BY <1>3, <1>5, <1>6 DEF FrameOK
<1>8. StackInv(Append(s, f), gEfiCurrentTpl, lock)
  BY <1>5, <1>6, <1>7, PushFrame
<1>9. Last(Append(s, f)) = f
  BY <1>1, <1>5, AppendProperties DEF Last
<1> QED BY <1>8, <1>9 DEF Call, f

(* A step of an activation that holds the timer lock and keeps it. *)
LEMMA LockedMove ==
  ASSUME IInv, NEW f \in Frames, f.lvl = Top.lvl, f.new = Top.new,
         Top.pc \in LockedPcs, f.pc \in LockedPcs,
         f.pc \in LockedCheckPcs => Top.pc \in LockedCheckPcs,
         f.pc \in EventPcs => f.ev \in Event
  PROVE  StackInv(Update(f), gEfiCurrentTpl, mEfiTimerLock)
<1>1. f.pc \notin CallerTplPcs \cup {"acquire", "notify", "compare", "sig_loop", "wait", "pick", "app", "client", "ct_lock"}
  BY DEF CallerTplPcs, LockedPcs, LockedCheckPcs, LockedSetPcs
<1>2. Top.pc \notin SignalPcs \cup {"app"}
  BY DEF SignalPcs, LockedPcs, LockedCheckPcs, LockedSetPcs
<1>3. Top.lvl = 30 /\ Top.lvl = gEfiCurrentTpl /\ Top.new <= Top.lvl
  BY Running DEF FrameOK
<1>4. FrameOK(f)
  BY <1>1, <1>3 DEF FrameOK
<1>5. f.pc \in NotifyPcs => Top.pc \in NotifyPcs
  BY <1>1 DEF NotifyPcs
<1> QED BY <1>1, <1>2, <1>3, <1>4, <1>5, Running, UpdateFrame DEF Update

(* CoreCheckEvent, CoreWaitForEvent and CoreCloseEvent. *)
PlainPcs == {"chk_queue", "chk_read", "chk_clear", "wait", "cl_unlink", "cl_free"}

(* A step from one of their points to another. *)
LEMMA PlainMove ==
  ASSUME NEW s, StackInv(s, gEfiCurrentTpl, mEfiTimerLock),
         NEW f \in Frames, f.lvl = Last(s).lvl, f.new = Last(s).new,
         Last(s).pc \in PlainPcs, f.pc \in PlainPcs,
         f.pc \in EventPcs => f.ev \in Event, f.pc = "wait" => f.num # 0
  PROVE  StackInv(SetTop(s, f), gEfiCurrentTpl, mEfiTimerLock)
<1>1. /\ f.pc \notin {"acquire", "notify", "compare", "sig_loop", "pick", "app"}
      /\ f.pc \notin LockedPcs \cup SignalPcs \cup NotifyPcs \cup RestorePcs
      /\ f.pc \in CallerTplPcs
  BY DEF PlainPcs, CallerTplPcs, LockedPcs, LockedCheckPcs, LockedSetPcs, SignalPcs, NotifyPcs, RestorePcs
<1>2. /\ Last(s).pc \notin LockedPcs \cup SignalPcs \cup NotifyPcs \cup {"app"}
      /\ Last(s).pc \in CallerTplPcs
  BY DEF PlainPcs, CallerTplPcs, LockedPcs, LockedCheckPcs, LockedSetPcs, SignalPcs, NotifyPcs
<1>3. FrameOK(Last(s)) /\ Last(s).lvl = gEfiCurrentTpl
  BY TopFrame DEF StackInv
<1>4. FrameOK(f)
  BY <1>1, <1>2, <1>3 DEF FrameOK
<1> QED BY <1>1, <1>2, <1>3, <1>4, UpdateFrame

(* CoreSignalEvent keeps the types and the stack in order. *)
LEMMA SignalKeeps ==
  ASSUME DataOK, NEW e \in Event, NEW s, StackInv(s, gEfiCurrentTpl, mEfiTimerLock),
         CoreSignalEvent(e, s)
  PROVE  /\ gEventQueue' \in [NotifyTpls -> Seq(Event)]
         /\ gEventPending' \subseteq NotifyTpls \cup {0}
         /\ IEvent' \in [Event -> IEvents]
         /\ StackInv(stack', gEfiCurrentTpl', mEfiTimerLock)
<1>1. /\ gEventQueue \in [NotifyTpls -> Seq(Event)]
      /\ gEventPending \subseteq NotifyTpls \cup {0}
      /\ IEvent \in [Event -> IEvents]
  BY DEF DataOK
<1>2. /\ gEventQueue' \in [NotifyTpls -> Seq(Event)]
      /\ gEventPending' \subseteq NotifyTpls \cup {0}
  <2>1. UNCHANGED queues \/ CoreNotifyEvent(e)
    BY DEF CoreSignalEvent, queues
  <2> QED BY <1>1, <2>1, NotifyEventTypes DEF queues
<1>3. IEvent' \in [Event -> IEvents]
  <2>1. UNCHANGED IEvent \/ IEvent' = [IEvent EXCEPT ![e].SignalCount = 1]
    BY DEF CoreSignalEvent
  <2>2. [IEvent EXCEPT ![e].SignalCount = 1] \in [Event -> IEvents]
    <3>1. 1 \in 0..1
      OBVIOUS
    <3>2. \A c \in 0..1 : [IEvent EXCEPT ![e].SignalCount = c] \in [Event -> IEvents]
      BY <1>1, EventFieldTypes, Zenon
    <3> QED BY <3>1, <3>2, Zenon
  <2> QED BY <1>1, <2>1, <2>2
<1> DEFINE r == Call(s, "sig_relock", NoEvent, 0)
           u == Call(r, "sig_list", e, 0)
<1>4. StackInv(u, gEfiCurrentTpl, mEfiTimerLock)
  <2>1. "sig_relock" \in CallerTplPcs \ {"app"} /\ "sig_relock" \in SignalPcs
        /\ "sig_relock" \notin EventPcs /\ "sig_relock" \notin NotifyPcs
    BY DEF CallerTplPcs, SignalPcs, EventPcs, NotifyPcs, LockedCheckPcs, LockedSetPcs
  <2>2. "sig_list" \in CallerTplPcs \ {"app"} /\ "sig_list" \in SignalPcs /\ "sig_list" \notin NotifyPcs
    BY DEF CallerTplPcs, SignalPcs, NotifyPcs, LockedCheckPcs
  <2>3. StackInv(r, gEfiCurrentTpl, mEfiTimerLock)
    BY <2>1, CallFrame
  <2> HIDE DEF r
  <2> QED BY <2>2, <2>3, CallFrame
<1>5. RestoreFromHigh(gEfiCurrentTpl, s) \/ RestoreFromHigh(gEfiCurrentTpl, u)
  BY DEF CoreSignalEvent
<1> HIDE DEF u
<1>6. StackInv(stack', gEfiCurrentTpl', mEfiTimerLock)
  BY <1>2, <1>4, <1>5, RestoreKeepsStack
<1> QED BY <1>2, <1>3, <1>6

-----------------------------------------------------------------------------
(* Every action keeps the inductive invariant *)

(* Steps that change nothing but the stack and the TPL. *)
LEMMA StackOnly ==
  ASSUME IInv, UNCHANGED <<queues, lists, timers, IEvent>>,
         StackInv(stack', gEfiCurrentTpl', mEfiTimerLock)
  PROVE  IInv'
<1>1. DataOK'
  BY DEF IInv, DataOK, queues, lists, timers
<1>2. mEfiTimerLock' = mEfiTimerLock
  BY DEF timers
<1> QED BY <1>1, <1>2 DEF IInv

(* A step of the loop of CoreRestoreTpl that stays at its TPL. *)
LEMMA RestoreMove ==
  ASSUME IInv, NEW f \in Frames, f.lvl = Top.lvl, f.new = Top.new,
         Top.pc \in RestorePcs, f.pc \in {"test", "set", "compare"},
         f.pc = "compare" => f.num \in NotifyTpls \cup {0}
  PROVE  StackInv(Update(f), gEfiCurrentTpl, mEfiTimerLock)
<1>1. /\ f.pc \notin CallerTplPcs \cup {"acquire", "notify", "sig_loop", "wait", "pick", "app"}
      /\ f.pc \notin LockedPcs \cup NotifyPcs \cup EventPcs
  BY DEF CallerTplPcs, LockedPcs, LockedCheckPcs, LockedSetPcs, NotifyPcs, EventPcs
<1>2. Top.pc \notin LockedPcs \cup SignalPcs \cup {"app"}
  BY DEF RestorePcs, LockedPcs, LockedCheckPcs, LockedSetPcs, SignalPcs
<1>3. FrameOK(Top) /\ Top.lvl = gEfiCurrentTpl /\ Top.lvl < 31
  BY Running DEF FrameOK
<1>4. FrameOK(f)
  BY <1>1, <1>3 DEF FrameOK
<1> QED BY <1>1, <1>2, <1>3, <1>4, Running, UpdateFrame DEF Update

(* CoreRestoreTpl tests gEventPending: the mask it goes on with was not empty. *)
LEMMA TestPendingKeeps == ASSUME SingleLoad, IInv, TestPending PROVE IInv'
<1> USE Running
<1>1. CASE gEventPending = {}
  <2> DEFINE f == [Top EXCEPT !.pc = "set"]
  <2>1. f \in Frames /\ f.pc = "set" /\ f.lvl = Top.lvl /\ f.new = Top.new
    BY DEF Frames, Pcs, RestorePcs
  <2>2. stack' = Update(f)
    BY <1>1 DEF TestPending, Goto
  <2> HIDE DEF f
  <2>3. Top.pc \in RestorePcs
    BY DEF TestPending, RestorePcs
  <2>4. StackInv(stack', gEfiCurrentTpl, mEfiTimerLock)
    BY <2>1, <2>2, <2>3, RestoreMove
  <2> QED BY <2>4, StackOnly DEF TestPending
<1>2. CASE gEventPending # {}
  <2> DEFINE p == HighBitSet64(gEventPending)
             f == [Top EXCEPT !.pc = "compare", !.num = p]
  <2>1. p \in NotifyTpls \cup {0} /\ p \in Nat
    <3>1. gEventPending \subseteq NotifyTpls \cup {0}
      BY DEF IInv, DataOK
    <3>2. p \in gEventPending
      BY <1>2, <3>1, HighBit
    <3> HIDE DEF p
    <3> QED BY <3>1, <3>2, TplAssumption
  <2>2. stack' = Update(f)
    BY <1>2 DEF TestPending
  <2> HIDE DEF p
  <2>3. f \in Frames /\ f.pc = "compare" /\ f.lvl = Top.lvl /\ f.new = Top.new /\ f.num = p
    BY <2>1 DEF Frames, Pcs, RestorePcs
  <2> HIDE DEF f
  <2>4. Top.pc \in RestorePcs
    BY DEF TestPending, RestorePcs
  <2>5. StackInv(stack', gEfiCurrentTpl, mEfiTimerLock)
    BY <2>1, <2>2, <2>3, <2>4, RestoreMove
  <2> QED BY <2>5, StackOnly DEF TestPending
<1> QED BY <1>1, <1>2

(* It enters the TPL of the highest pending notification, or is done. *)
LEMMA EnterPendingKeeps == ASSUME IInv, EnterPending PROVE IInv'
<1> USE Running
<1>0. Top.pc = "compare" /\ Top.pc \in RestorePcs
  BY DEF EnterPending, RestorePcs
<1>1. CASE Top.num <= Top.new
  <2> DEFINE f == [Top EXCEPT !.pc = "set"]
  <2>1. f \in Frames /\ f.pc = "set" /\ f.lvl = Top.lvl /\ f.new = Top.new
    BY DEF Frames, Pcs, RestorePcs
  <2>2. stack' = Update(f) /\ gEfiCurrentTpl' = gEfiCurrentTpl
    BY <1>1 DEF EnterPending, Goto
  <2> HIDE DEF f
  <2>3. StackInv(stack', gEfiCurrentTpl, mEfiTimerLock)
    BY <1>0, <2>1, <2>2, RestoreMove
  <2> QED BY <2>2, <2>3, StackOnly DEF EnterPending
<1>2. CASE ~ (Top.num <= Top.new)
  <2> DEFINE f == [Top EXCEPT !.pc = "acquire", !.lvl = Top.num]
  <2>1. Top.num \in NotifyTpls /\ Top.num \in 5..30 /\ Top.new < Top.num
    <3>1. Top.num \in NotifyTpls \cup {0}
      BY <1>0 DEF FrameOK
    <3> QED BY <1>2, <3>1, TplAssumption
  <2>2. /\ f \in Frames /\ f.pc = "acquire" /\ f.lvl = Top.num /\ f.new = Top.new
        /\ f.num = Top.num
    <3>1. Top.num \in 4..31 \cup {255} /\ "acquire" \in Pcs
      BY <2>1 DEF Pcs, RestorePcs
    <3>2. \A x \in 4..31 \cup {255} : \A pc \in Pcs :
            [Top EXCEPT !.pc = pc, !.lvl = x] \in Frames
      BY ZenonT(40) DEF Frames
    <3>3. f \in Frames
      BY <3>1, <3>2
    <3> QED BY <3>3 DEF Frames
  <2>3. stack' = SetTop(stack, f) /\ gEfiCurrentTpl' = Top.num
    BY <1>2 DEF EnterPending, Update
  <2> HIDE DEF f
  <2>4. f.pc \notin CallerTplPcs \cup LockedPcs \cup NotifyPcs \cup EventPcs
    BY <2>2 DEF CallerTplPcs, LockedPcs, LockedCheckPcs, LockedSetPcs, NotifyPcs, EventPcs
  <2>5. Top.pc \notin LockedPcs \cup SignalPcs
    BY <1>0 DEF LockedPcs, LockedCheckPcs, LockedSetPcs, SignalPcs
  <2>6. FrameOK(f)
    BY <2>1, <2>2, <2>4 DEF FrameOK
  <2>7. StackInv(stack', gEfiCurrentTpl', mEfiTimerLock)
    BY <1>0, <2>2, <2>3, <2>4, <2>5, <2>6, UpdateFrame
  <2> QED BY <2>7, StackOnly DEF EnterPending
<1> QED BY <1>1, <1>2

(* It returns at the TPL its caller asked for. *)
LEMMA SetNewTplKeeps == ASSUME IInv, SetNewTpl PROVE IInv'
<1>1. Top.pc \notin LockedPcs \cup {"app"}
  BY DEF SetNewTpl, LockedPcs, LockedCheckPcs, LockedSetPcs
<1>2. StackInv(stack', gEfiCurrentTpl', mEfiTimerLock)
  BY <1>1, Running, PopFrame DEF SetNewTpl
<1> QED BY <1>2, StackOnly DEF SetNewTpl

(* Steps that leave the timers and the lists of all events alone. *)
LEMMA QueueStep ==
  ASSUME IInv, UNCHANGED <<lists, timers>>,
         gEventQueue' \in [NotifyTpls -> Seq(Event)],
         gEventPending' \subseteq NotifyTpls \cup {0},
         IEvent' \in [Event -> IEvents],
         StackInv(stack', gEfiCurrentTpl', mEfiTimerLock)
  PROVE  IInv'
<1>1. DataOK'
  BY DEF IInv, DataOK, lists, timers
<1>2. mEfiTimerLock' = mEfiTimerLock
  BY DEF timers
<1> QED BY <1>1, <1>2 DEF IInv

(* The innermost frame after a change in place. *)
LEMMA LastSetTop ==
  ASSUME NEW s, NEW tpl, NEW lock, StackInv(s, tpl, lock), NEW f
  PROVE  Last(SetTop(s, f)) = f
<1>1. s \in Seq(Frames) /\ Len(s) \in Nat \ {0}
  BY TopFrame DEF StackInv, StackOK
<1>2. Len(SetTop(s, f)) = Len(s) /\ SetTop(s, f)[Len(s)] = f
  BY <1>1 DEF SetTop
<1> QED BY <1>2 DEF Last

(* A step of CoreDispatchEventNotifies at the TPL it dispatches. *)
LEMMA DispatchMove ==
  ASSUME IInv, NEW f \in Frames, f.lvl = Top.lvl, f.new = Top.new, f.num = Top.num,
         Top.pc \in {"acquire", "notify"}, f.pc \in {"acquire", "notify"},
         f.pc = "notify" => f.ev \in Event
  PROVE  StackInv(Update(f), gEfiCurrentTpl, mEfiTimerLock)
<1>1. /\ f.pc \notin CallerTplPcs \cup {"sig_loop", "wait", "pick", "app", "compare"}
      /\ f.pc \notin LockedPcs \cup NotifyPcs
      /\ f.pc \in EventPcs => f.pc = "notify"
  BY DEF CallerTplPcs, LockedPcs, LockedCheckPcs, LockedSetPcs, NotifyPcs, EventPcs
<1>2. Top.pc \notin LockedPcs \cup SignalPcs \cup {"app"} /\ Top.pc \in RestorePcs
  BY DEF RestorePcs, LockedPcs, LockedCheckPcs, LockedSetPcs, SignalPcs
<1>3. FrameOK(Top) /\ Top.lvl = gEfiCurrentTpl
  BY Running
<1>4. FrameOK(f)
  BY <1>1, <1>2, <1>3 DEF FrameOK
<1> QED BY <1>1, <1>2, <1>3, <1>4, Running, UpdateFrame DEF Update

(* CoreDispatchEventNotifies keeps the invariant, *)
LEMMA DispatchNextKeeps == ASSUME IInv, DispatchNext PROVE IInv'
<1> DEFINE q == gEventQueue[Top.num]
           e == Head(q)
<1>0. /\ gEventQueue \in [NotifyTpls -> Seq(Event)]
      /\ gEventPending \subseteq NotifyTpls \cup {0}
      /\ IEvent \in [Event -> IEvents]
  BY DEF IInv, DataOK
<1>1. Top.pc = "acquire" /\ Top.num \in NotifyTpls /\ q \in Seq(Event) /\ Top \in Frames
  <2>1. Top.pc = "acquire" /\ FrameOK(Top) /\ Top \in Frames
    BY Running DEF DispatchNext
  <2>2. Top.num \in NotifyTpls
    BY <2>1 DEF FrameOK
  <2> QED BY <1>0, <2>1, <2>2
<1>2. UNCHANGED <<lists, timers>>
  BY DEF DispatchNext
<1>3. CASE q = <<>>
  <2> DEFINE f == [Top EXCEPT !.pc = "test"]
  <2>1. f \in Frames /\ f.pc = "test" /\ f.lvl = Top.lvl /\ f.new = Top.new
    BY <1>1, ZenonT(40) DEF Frames, Pcs, RestorePcs
  <2>2. /\ gEventPending' = gEventPending \ {Top.num}
        /\ gEventQueue' = gEventQueue /\ IEvent' = IEvent
        /\ RestoreFromHigh(gEfiCurrentTpl, Update(f))
    BY <1>3 DEF DispatchNext, Goto
  <2> HIDE DEF f
  <2>3. Top.pc \in RestorePcs
    BY <1>1 DEF RestorePcs
  <2>4. StackInv(Update(f), gEfiCurrentTpl, mEfiTimerLock)
    BY <2>1, <2>3, RestoreMove
  <2>5. gEventPending' \subseteq NotifyTpls \cup {0}
    BY <1>0, <2>2
  <2>6. StackInv(stack', gEfiCurrentTpl', mEfiTimerLock)
    BY <2>2, <2>4, <2>5, RestoreKeepsStack
  <2> QED BY <1>0, <1>2, <2>2, <2>5, <2>6, QueueStep
<1>4. CASE q # <<>>
  <2> DEFINE f == [Top EXCEPT !.pc = "notify", !.ev = e]
  <2>1. e \in Event /\ Tail(q) \in Seq(Event)
    BY <1>1, <1>4
  <2>2. /\ gEventQueue' = [gEventQueue EXCEPT ![Top.num] = Tail(q)]
        /\ IEvent' = IF Is(e, "SIGNAL") THEN [IEvent EXCEPT ![e].SignalCount = 0] ELSE IEvent
        /\ gEventPending' = gEventPending
        /\ RestoreFromHigh(gEfiCurrentTpl, Update(f))
    BY <1>4 DEF DispatchNext
  <2> HIDE DEF e, q
  <2>3. /\ f \in Frames /\ f.pc = "notify" /\ f.lvl = Top.lvl /\ f.new = Top.new
        /\ f.ev = e /\ f.num = Top.num
    BY <1>1, <2>1, ZenonT(40) DEF Frames, Pcs, RestorePcs
  <2> HIDE DEF f
  <2>4. StackInv(Update(f), gEfiCurrentTpl, mEfiTimerLock)
    BY <1>1, <2>1, <2>3, DispatchMove
  <2>5. gEventPending' \subseteq NotifyTpls \cup {0}
    BY <1>0, <2>2
  <2>6. StackInv(stack', gEfiCurrentTpl', mEfiTimerLock)
    BY <2>2, <2>4, <2>5, RestoreKeepsStack
  <2>7. gEventQueue' \in [NotifyTpls -> Seq(Event)]
    BY <1>0, <2>1, <2>2
  <2>8. IEvent' \in [Event -> IEvents]
    <3>1. 0 \in 0..1
      OBVIOUS
    <3>2. \A c \in 0..1 : [IEvent EXCEPT ![e].SignalCount = c] \in [Event -> IEvents]
      BY <1>0, <2>1, EventFieldTypes, Zenon
    <3>3. [IEvent EXCEPT ![e].SignalCount = 0] \in [Event -> IEvents]
      BY <3>1, <3>2, Zenon
    <3> QED BY <1>0, <2>2, <3>3
  <2> QED BY <1>2, <2>5, <2>6, <2>7, <2>8, QueueStep
<1> QED BY <1>3, <1>4

(* and so does the call of a notification function. *)
LEMMA CallNotifyKeeps == ASSUME IInv, CallNotifyFunction PROVE IInv'
<1> DEFINE f == [Top EXCEPT !.pc = "acquire", !.ev = NoEvent]
           pc == IF Top.ev = mEfiCheckTimerEvent THEN "ct_lock" ELSE "client"
<1>1. Top.pc = "notify" /\ Top \in Frames /\ Top.ev \in Event
  <2>1. Top.pc = "notify" /\ Top \in Frames /\ FrameOK(Top)
    BY Running DEF CallNotifyFunction
  <2> QED BY <2>1 DEF FrameOK, EventPcs
<1>2. /\ f \in Frames /\ f.pc = "acquire" /\ f.lvl = Top.lvl /\ f.new = Top.new
      /\ f.num = Top.num
  BY <1>1 DEF Frames, Pcs, RestorePcs
<1>3. stack' = Call(Update(f), pc, Top.ev, 0) /\ gEfiCurrentTpl' = gEfiCurrentTpl
  BY DEF CallNotifyFunction
<1> HIDE DEF f
<1>4. StackInv(Update(f), gEfiCurrentTpl, mEfiTimerLock)
  BY <1>1, <1>2, DispatchMove
<1>5. Last(Update(f)) = f
  BY Running, LastSetTop DEF Update
<1>6. \A i \in 1..Len(Update(f)) : Update(f)[i].pc \notin LockedPcs
  <2>1. f.pc \notin LockedPcs \cup SignalPcs
    BY <1>2 DEF LockedPcs, LockedCheckPcs, LockedSetPcs, SignalPcs
  <2> QED BY <1>4, <1>5, <2>1, NoHolder
<1>7. pc \in CallerTplPcs \ {"app"} /\ pc # "wait"
  BY DEF CallerTplPcs
<1> HIDE DEF pc
<1>8. StackInv(stack', gEfiCurrentTpl, mEfiTimerLock)
  BY <1>1, <1>2, <1>3, <1>4, <1>5, <1>6, <1>7, CallFrame
<1> QED BY <1>3, <1>8, StackOnly DEF CallNotifyFunction

(* CoreNotifySignalList and CoreSignalEvent's second acquisition of the lock. *)
LEMMA SignalStepKeeps == ASSUME IInv, SignalStep PROVE IInv'
<1>0. /\ gEventQueue \in [NotifyTpls -> Seq(Event)]
      /\ gEventPending \subseteq NotifyTpls \cup {0}
      /\ IEvent \in [Event -> IEvents]
      /\ gEventSignalQueue \in Seq(Event)
  BY DEF IInv, DataOK
<1>1. ASSUME NEW f \in Frames, f.pc = "sig_loop", f.lvl = 31, f.num # 0, f.ev \in Event,
             f.new = Top.new, Top.pc \in {"sig_list", "sig_loop"}
      PROVE  StackInv(Update(f), 31, mEfiTimerLock)
  <2>1. /\ f.pc \notin CallerTplPcs \cup LockedPcs \cup NotifyPcs \cup RestorePcs
        /\ f.pc \in SignalPcs
    BY <1>1 DEF CallerTplPcs, LockedPcs, LockedCheckPcs, LockedSetPcs, NotifyPcs, RestorePcs, SignalPcs
  <2>2. Top.pc \notin LockedPcs \cup {"app"}
    BY <1>1 DEF LockedPcs, LockedCheckPcs, LockedSetPcs
  <2>3. FrameOK(f)
    BY <1>1, <2>1, Running DEF FrameOK
  <2> QED BY <1>1, <2>1, <2>2, <2>3, Running, UpdateFrame DEF Update
<1>2. CASE NotifyListAcquire
  <2> DEFINE f == [Top EXCEPT !.pc = "sig_loop", !.lvl = TPL_HIGH_LEVEL, !.num = 1]
  <2>1. Top.pc = "sig_list" /\ Top \in Frames /\ Top.ev \in Event
    <3>1. Top.pc = "sig_list" /\ Top \in Frames /\ FrameOK(Top)
      BY <1>2, Running DEF NotifyListAcquire
    <3> QED BY <3>1 DEF FrameOK, EventPcs
  <2>2. /\ f \in Frames /\ f.pc = "sig_loop" /\ f.lvl = 31 /\ f.new = Top.new
        /\ f.num = 1 /\ f.ev = Top.ev
    <3>1. 31 \in 4..31 \cup {255} /\ "sig_loop" \in Pcs
      BY DEF Pcs, SignalPcs
    <3>2. ASSUME NEW x \in 4..31 \cup {255}, NEW pc \in Pcs
          PROVE [Top EXCEPT !.pc = pc, !.lvl = x, !.num = 1] \in Frames
      BY <2>1 DEF Frames
    <3>3. f \in Frames
      BY <3>1, <3>2
    <3> QED BY <2>1, <3>3 DEF Frames
  <2>3. stack' = Update(f) /\ gEfiCurrentTpl' = 31
    BY <1>2 DEF NotifyListAcquire
  <2> HIDE DEF f
  <2>4. StackInv(stack', gEfiCurrentTpl', mEfiTimerLock)
    BY <1>1, <2>1, <2>2, <2>3
  <2> QED BY <1>2, <2>4, StackOnly DEF NotifyListAcquire
<1>3. CASE NotifyListLink
  <2> DEFINE f == [Top EXCEPT !.num = @ + 1]
             e == gEventSignalQueue[Top.num]
  <2>1. /\ Top.pc = "sig_loop" /\ Top \in Frames /\ Top.ev \in Event /\ Top.num \in Nat \ {0}
        /\ Top.lvl = 31 /\ gEfiCurrentTpl = 31 /\ Top.num <= Len(gEventSignalQueue)
    <3>1. /\ Top.pc = "sig_loop" /\ Top \in Frames /\ FrameOK(Top) /\ Top.num \in Nat
          /\ Top.lvl = gEfiCurrentTpl /\ Top.num <= Len(gEventSignalQueue)
      BY <1>3, Running DEF NotifyListLink
    <3> QED BY <3>1 DEF FrameOK, EventPcs
  <2>2. /\ f \in Frames /\ f.pc = "sig_loop" /\ f.lvl = 31 /\ f.new = Top.new
        /\ f.num # 0 /\ f.ev = Top.ev
    <3>1. ASSUME NEW n \in Nat
          PROVE  LET g == [Top EXCEPT !.num = n]
                 IN g \in Frames /\ g.pc = Top.pc /\ g.lvl = Top.lvl /\ g.new = Top.new
                    /\ g.ev = Top.ev /\ g.num = n
      BY <2>1, ZenonT(40) DEF Frames
    <3>2. Top.num + 1 \in Nat /\ Top.num + 1 # 0 /\ f = [Top EXCEPT !.num = Top.num + 1]
      BY <2>1
    <3> HIDE DEF f
    <3> QED BY <2>1, <3>1, <3>2
  <2>3. stack' = Update(f) /\ gEfiCurrentTpl' = 31 /\ UNCHANGED <<lists, timers, IEvent>>
    BY <1>3, <2>1 DEF NotifyListLink
  <2> HIDE DEF f
  <2>4. StackInv(stack', gEfiCurrentTpl', mEfiTimerLock)
    BY <1>1, <2>1, <2>2, <2>3
  <2>5. e \in Event
    BY <1>0, <2>1
  <2>6. UNCHANGED queues \/ CoreNotifyEvent(e)
    BY <1>3 DEF NotifyListLink
  <2> HIDE DEF e
  <2>7. /\ gEventQueue' \in [NotifyTpls -> Seq(Event)]
        /\ gEventPending' \subseteq NotifyTpls \cup {0}
    BY <1>0, <2>5, <2>6, NotifyEventTypes DEF queues, IInv
  <2> QED BY <1>0, <2>3, <2>4, <2>7, QueueStep
<1>4. CASE NotifyListRelease
  <2>1. Top.pc \notin LockedPcs \cup {"app"}
    BY <1>4 DEF NotifyListRelease, LockedPcs, LockedCheckPcs, LockedSetPcs
  <2>2. StackInv(Front(stack), Top.new, mEfiTimerLock)
    BY <2>1, Running, PopFrame
  <2>3. /\ RestoreFromHigh(Top.new, Front(stack)) /\ gEventPending' = gEventPending
        /\ UNCHANGED <<queues, lists, timers, IEvent>>
    BY <1>4 DEF NotifyListRelease, queues
  <2>4. StackInv(stack', gEfiCurrentTpl', mEfiTimerLock)
    BY <1>0, <2>2, <2>3, RestoreKeepsStack
  <2> QED BY <2>3, <2>4, StackOnly
<1>5. CASE SignalRelock
  <2>1. Top.pc = "sig_relock" /\ Top.pc \notin LockedPcs \cup {"app"}
    BY <1>5 DEF SignalRelock, LockedPcs, LockedCheckPcs, LockedSetPcs
  <2>2. Top.new = gEfiCurrentTpl
    BY <2>1, Running DEF FrameOK, CallerTplPcs
  <2>3. StackInv(Front(stack), gEfiCurrentTpl, mEfiTimerLock)
    BY <2>1, <2>2, Running, PopFrame
  <2>4. /\ RestoreFromHigh(gEfiCurrentTpl, Front(stack)) /\ gEventPending' = gEventPending
        /\ UNCHANGED <<queues, lists, timers, IEvent>>
    BY <1>5 DEF SignalRelock, queues
  <2>5. StackInv(stack', gEfiCurrentTpl', mEfiTimerLock)
    BY <1>0, <2>3, <2>4, RestoreKeepsStack
  <2> QED BY <2>4, <2>5, StackOnly
<1> QED BY <1>2, <1>3, <1>4, <1>5 DEF SignalStep

(* CoreReleaseLock (&mEfiTimerLock). *)
LEMMA ReleaseKeeps ==
  ASSUME IInv, Top.pc \in LockedPcs, ReleaseTimerLock,
         UNCHANGED <<gEfiCurrentTpl, queues, lists, mEfiTimerList, mEfiSystemTime, due, IEvent>>
  PROVE  IInv'
<1> DEFINE f == Frame("test", gEfiCurrentTpl, mEfiTimerLock.OwnerTpl, NoEvent, 0)
<1>1. mEfiTimerLock \in [Lock : {"Released", "Acquired"}, OwnerTpl : Tpls]
  BY DEF IInv, DataOK
<1>2. mEfiTimerLock.OwnerTpl = Top.new
  <2>1. Len(stack) \in Nat \ {0} /\ Top = stack[Len(stack)]
    BY Running, TopFrame DEF StackInv
  <2>2. \A i \in 1..Len(stack) : stack[i].pc \in LockedPcs => mEfiTimerLock.OwnerTpl = stack[i].new
    BY Running DEF StackInv, LockOK
  <2> QED BY <2>1, <2>2
<1>3. Top.new \in 4..31 /\ Top.new <= Top.lvl /\ Top.lvl = gEfiCurrentTpl /\ Top.lvl = 30
  BY Running DEF FrameOK
<1>4. /\ f \in Frames /\ f.pc = "test" /\ f.lvl = gEfiCurrentTpl /\ f.new = mEfiTimerLock.OwnerTpl
  BY <1>2, <1>3 DEF Frames, Frame, Pcs, RestorePcs
<1>5. /\ stack' = SetTop(stack, f)
      /\ mEfiTimerLock' = [mEfiTimerLock EXCEPT !.Lock = "Released"]
  BY DEF ReleaseTimerLock, Update
<1> HIDE DEF f
<1>6. FrameOK(f)
  <2>1. "test" \notin CallerTplPcs \cup LockedPcs \cup EventPcs
    BY DEF CallerTplPcs, LockedPcs, LockedCheckPcs, LockedSetPcs, EventPcs
  <2>2. f \in Frames /\ f.pc = "test" /\ f.new \in 4..31 /\ f.new <= 30 /\ f.lvl = 30
    BY <1>2, <1>3, <1>4
  <2> QED BY <2>1, <2>2 DEF FrameOK
<1>7. StackInv(stack', gEfiCurrentTpl', mEfiTimerLock')
  BY <1>1, <1>4, <1>5, <1>6, Running, ReleaseInPlace
<1>8. mEfiTimerLock' \in [Lock : {"Released", "Acquired"}, OwnerTpl : Tpls]
  BY <1>1, <1>5
<1>9. DataOK'
  BY <1>8 DEF IInv, DataOK, queues, lists
<1> QED BY <1>7, <1>9 DEF IInv

(* g is f at another pc, with other locals. *)
Moved(g, f, pc, ev, num) ==
  /\ g \in Frames
  /\ g.pc = pc /\ g.lvl = f.lvl /\ g.new = f.new /\ g.ev = ev /\ g.num = num

(* What each form of record update makes of a frame. *)
LEMMA MovedFrames ==
  ASSUME NEW f \in Frames, NEW pc \in Pcs, NEW ev \in Event \cup {NoEvent}, NEW num \in Nat
  PROVE  /\ Moved([f EXCEPT !.pc = pc], f, pc, f.ev, f.num)
         /\ Moved([f EXCEPT !.num = num], f, f.pc, f.ev, num)
         /\ Moved([f EXCEPT !.pc = pc, !.num = num], f, pc, f.ev, num)
         /\ Moved([f EXCEPT !.pc = pc, !.ev = ev], f, pc, ev, f.num)
<1>1. Moved([f EXCEPT !.pc = pc], f, pc, f.ev, f.num)
  BY DEF Moved, Frames
<1>2. Moved([f EXCEPT !.num = num], f, f.pc, f.ev, num)
  BY DEF Moved, Frames
<1>3. Moved([f EXCEPT !.pc = pc, !.num = num], f, pc, f.ev, num)
  BY DEF Moved, Frames
<1>4. Moved([f EXCEPT !.pc = pc, !.ev = ev], f, pc, ev, f.num)
  <2> DEFINE g == [f EXCEPT !.pc = pc, !.ev = ev]
             h == [f EXCEPT !.pc = pc]
  <2>1. g = [h EXCEPT !.ev = ev] /\ h \in Frames /\ h.pc = pc /\ h.lvl = f.lvl /\ h.new = f.new /\ h.num = f.num
    BY <1>1 DEF Moved, Frames
  <2> HIDE DEF h, g
  <2>2. g \in Frames /\ g.pc = h.pc /\ g.lvl = h.lvl /\ g.new = h.new /\ g.ev = ev /\ g.num = h.num
    BY <2>1 DEF Frames
  <2> QED BY <2>1, <2>2 DEF Moved, g
<1> QED BY <1>1, <1>2, <1>3, <1>4

(* LockedMove for such a frame. *)
LEMMA LockedMoved ==
  ASSUME IInv, NEW pc \in LockedPcs, NEW ev, NEW num, NEW f, Moved(f, Top, pc, ev, num),
         Top.pc \in LockedPcs,
         pc \in LockedCheckPcs => Top.pc \in LockedCheckPcs,
         pc \in EventPcs => ev \in Event
  PROVE  StackInv(Update(f), gEfiCurrentTpl, mEfiTimerLock)
BY LockedMove DEF Moved

(* CoreCheckTimers takes the lock. *)
LEMMA CheckTimersAcquireKeeps == ASSUME IInv, CheckTimersAcquire PROVE IInv'
<1> DEFINE f == [Top EXCEPT !.pc = "ct_time", !.lvl = TimerLockTpl]
           lock == [Lock |-> "Acquired", OwnerTpl |-> gEfiCurrentTpl]
<1>1. Top.pc = "ct_lock" /\ Top \in Frames /\ FrameOK(Top)
  BY Running DEF CheckTimersAcquire
<1>2. Top.new \in 4..31 /\ Top.new = gEfiCurrentTpl /\ Top.new < 31
  BY <1>1, Running DEF FrameOK, CallerTplPcs, NotifyPcs
<1>3. f \in Frames /\ f.pc = "ct_time" /\ f.lvl = 30 /\ f.new = Top.new
  <2>1. 30 \in 4..31 \cup {255} /\ TimerLockTpl = 30 /\ "ct_time" \in Pcs
    BY DEF Pcs, LockedPcs, LockedCheckPcs
  <2>2. ASSUME NEW x \in 4..31 \cup {255}, NEW pc \in Pcs
        PROVE  [Top EXCEPT !.pc = pc, !.lvl = x] \in Frames
    BY <1>1 DEF Frames
  <2>3. f \in Frames
    <3>1. [Top EXCEPT !.pc = "ct_time", !.lvl = 30] \in Frames
      BY <2>1, <2>2, Zenon
    <3> QED BY <2>1, <3>1
  <2> QED BY <1>1, <2>1, <2>3 DEF Frames
<1>4. stack' = SetTop(stack, f) /\ gEfiCurrentTpl' = 30 /\ mEfiTimerLock' = lock
  BY DEF CheckTimersAcquire, AcquireTimerLock, Update
<1> HIDE DEF f
<1>5. /\ "ct_time" \notin CallerTplPcs \cup EventPcs
      /\ "ct_time" \in LockedPcs
      /\ Top.pc \in NotifyPcs
      /\ Top.pc \notin LockedPcs \cup SignalPcs \cup {"app"}
  BY <1>1 DEF CallerTplPcs, EventPcs, LockedPcs, LockedCheckPcs, LockedSetPcs, NotifyPcs, SignalPcs
<1>6. FrameOK(f)
  <2>1. f.new \in 4..31 /\ f.new <= 30
    BY <1>2, <1>3
  <2> QED BY <1>3, <1>5, <2>1 DEF FrameOK
<1>7. StackInv(stack', gEfiCurrentTpl', mEfiTimerLock')
  BY <1>2, <1>3, <1>4, <1>5, <1>6, Running, AcquireInPlace
<1>8. lock \in [Lock : {"Released", "Acquired"}, OwnerTpl : Tpls]
  BY <1>2
<1>9. DataOK'
  BY <1>4, <1>8 DEF IInv, DataOK, CheckTimersAcquire, queues, lists
<1> QED BY <1>7, <1>9 DEF IInv

(* The other steps of CoreCheckTimers. *)
LEMMA CheckTimersStepKeeps == ASSUME IInv, CheckTimersStep PROVE IInv'
<1>0. /\ gEventQueue \in [NotifyTpls -> Seq(Event)]
      /\ gEventPending \subseteq NotifyTpls \cup {0}
      /\ IEvent \in [Event -> IEvents]
      /\ mEfiTimerList \in Seq(Event)
      /\ mEfiSystemTime \in Nat
      /\ due \in [Event -> Nat]
      /\ DataOK
  BY DEF IInv, DataOK
<1>1. Top \in Frames /\ FrameOK(Top) /\ Top.num \in Nat /\ Top.ev \in Event \cup {NoEvent}
  BY Running, FrameTypes
<1>2. /\ {"ct_time", "ct_loop", "ct_signal", "ct_period", "ct_again", "ct_insert"} = LockedCheckPcs
      /\ LockedCheckPcs \subseteq LockedPcs /\ LockedPcs \subseteq Pcs
      /\ "ct_loop" \notin EventPcs
      /\ {"ct_signal", "ct_period", "ct_again", "ct_insert"} \subseteq EventPcs
  BY DEF LockedCheckPcs, LockedPcs, Pcs, EventPcs, LockedSetPcs
<1>3. Top.pc \in {"ct_signal", "ct_period", "ct_again", "ct_insert"} => Top.ev \in Event
  BY <1>1, <1>2 DEF FrameOK
<1>4. ASSUME NEW pc \in {"ct_loop", "ct_period", "ct_again", "ct_insert"},
             Top.pc \in {"ct_signal", "ct_period", "ct_again", "ct_insert"}
      PROVE  StackInv(Goto(pc), gEfiCurrentTpl, mEfiTimerLock)
  <2> DEFINE f == [Top EXCEPT !.pc = pc]
  <2>1. Moved(f, Top, pc, Top.ev, Top.num)
    BY <1>1, <1>2, MovedFrames
  <2> HIDE DEF f
  <2>2. StackInv(Update(f), gEfiCurrentTpl, mEfiTimerLock)
    BY <1>2, <1>3, <1>4, <2>1, LockedMoved
  <2> QED BY <2>2 DEF Goto, f
<1>5. CASE CheckTimersAcquire
  BY <1>5, CheckTimersAcquireKeeps
<1>6. CASE CheckTimersReadTime
  <2> DEFINE f == [Top EXCEPT !.pc = "ct_loop", !.num = mEfiSystemTime]
  <2>1. Moved(f, Top, "ct_loop", Top.ev, mEfiSystemTime)
    BY <1>0, <1>1, <1>2, MovedFrames
  <2>2. /\ Top.pc = "ct_time" /\ RestoreFromHigh(gEfiCurrentTpl, Update(f))
        /\ UNCHANGED <<queues, lists, timers, IEvent>> /\ gEventPending' = gEventPending
    BY <1>6 DEF CheckTimersReadTime, queues
  <2> HIDE DEF f
  <2>3. StackInv(Update(f), gEfiCurrentTpl, mEfiTimerLock)
    BY <1>2, <2>1, <2>2, LockedMoved
  <2>4. StackInv(stack', gEfiCurrentTpl', mEfiTimerLock)
    BY <1>0, <2>2, <2>3, RestoreKeepsStack
  <2> QED BY <2>2, <2>4, StackOnly
<1>7. CASE CheckTimersRemove
  <2> DEFINE e == Head(mEfiTimerList)
             f == [Top EXCEPT !.pc = "ct_signal", !.ev = e]
  <2>1. e \in Event /\ Tail(mEfiTimerList) \in Seq(Event)
    BY <1>0, <1>7 DEF CheckTimersRemove, Expired
  <2>2. /\ Top.pc = "ct_loop" /\ stack' = Update(f)
        /\ mEfiTimerList' = Tail(mEfiTimerList)
        /\ UNCHANGED <<gEfiCurrentTpl, queues, lists, mEfiTimerLock, mEfiSystemTime, due, IEvent>>
    BY <1>7 DEF CheckTimersRemove
  <2> HIDE DEF e
  <2>3. Moved(f, Top, "ct_signal", e, Top.num)
    BY <1>1, <1>2, <2>1, MovedFrames
  <2> HIDE DEF f
  <2>4. StackInv(stack', gEfiCurrentTpl, mEfiTimerLock)
    BY <1>2, <2>1, <2>2, <2>3, LockedMoved
  <2>5. DataOK'
    BY <2>1, <2>2 DEF IInv, DataOK, queues, lists
  <2> QED BY <2>2, <2>4, <2>5 DEF IInv
<1>8. CASE CheckTimersSignal
  <2>1. Top.pc = "ct_signal" /\ CoreSignalEvent(Top.ev, Goto("ct_period")) /\ UNCHANGED <<lists, timers>>
    BY <1>8 DEF CheckTimersSignal
  <2>2. StackInv(Goto("ct_period"), gEfiCurrentTpl, mEfiTimerLock) /\ Top.ev \in Event
    BY <1>3, <1>4, <2>1
  <2> QED BY <1>0, <2>1, <2>2, SignalKeeps, QueueStep
<1>9. CASE CheckTimersPeriod
  <2> DEFINE e == Top.ev
             next == (IEvent[e].TriggerTime + IEvent[e].Period) % TimeModulus
             late == next <= Top.num
             time == IF late THEN Top.num ELSE next
             want == IF due[e] + IEvent[e].Period <= Top.num THEN Top.num ELSE due[e] + IEvent[e].Period
  <2>1. Top.pc = "ct_period" /\ e \in Event
    BY <1>3, <1>9 DEF CheckTimersPeriod
  <2>2. IEvent[e].TriggerTime \in Nat /\ IEvent[e].Period \in Nat /\ due[e] \in Nat
    BY <1>0, <2>1 DEF IEvents
  <2>3. time \in Nat /\ want \in Nat
    BY <1>1, <2>2, TimeAssumption
  <2>4. /\ UNCHANGED <<gEfiCurrentTpl, queues, lists, mEfiTimerList, mEfiTimerLock, mEfiSystemTime>>
        /\ \/ stack' = Goto("ct_loop") /\ UNCHANGED <<IEvent, due>>
           \/ /\ IEvent' = [IEvent EXCEPT ![e].TriggerTime = time]
              /\ due' = [due EXCEPT ![e] = want]
              /\ stack' = Goto("ct_again") \/ stack' = Goto("ct_insert")
    BY <1>9 DEF CheckTimersPeriod
  <2> HIDE DEF e, time, want
  <2>5. IEvent' \in [Event -> IEvents]
    <3>1. \A n \in Nat : [IEvent EXCEPT ![e].TriggerTime = n] \in [Event -> IEvents]
      BY <1>0, <2>1, EventFieldTypes, Zenon
    <3>2. [IEvent EXCEPT ![e].TriggerTime = time] \in [Event -> IEvents]
      BY <2>3, <3>1, Zenon
    <3> QED BY <1>0, <2>4, <3>2
  <2>6. due' \in [Event -> Nat]
    BY <1>0, <2>3, <2>4
  <2>7. DataOK'
    BY <2>4, <2>5, <2>6 DEF IInv, DataOK, queues, lists
  <2>8. StackInv(stack', gEfiCurrentTpl, mEfiTimerLock)
    BY <1>4, <2>1, <2>4
  <2> QED BY <2>4, <2>7, <2>8 DEF IInv
<1>10. CASE CheckTimersAgain
  <2>1. /\ Top.pc = "ct_again" /\ CoreSignalEvent(mEfiCheckTimerEvent, Goto("ct_insert"))
        /\ UNCHANGED <<lists, timers>>
    BY <1>10 DEF CheckTimersAgain
  <2>2. StackInv(Goto("ct_insert"), gEfiCurrentTpl, mEfiTimerLock) /\ mEfiCheckTimerEvent \in Event
    BY <1>4, <2>1, EventAssumption
  <2> QED BY <1>0, <2>1, <2>2, SignalKeeps, QueueStep
<1>11. CASE CheckTimersInsert
  <2>1. /\ Top.pc = "ct_insert" /\ stack' = Goto("ct_loop")
        /\ mEfiTimerList' = InsertAt(mEfiTimerList, TimerSlot(Top.ev), Top.ev)
        /\ UNCHANGED <<gEfiCurrentTpl, queues, lists, mEfiTimerLock, mEfiSystemTime, due, IEvent>>
    BY <1>11 DEF CheckTimersInsert, CoreInsertEventTimer
  <2>2. mEfiTimerList' \in Seq(Event)
    BY <1>0, <1>3, <2>1, InsertTimerType
  <2>3. DataOK'
    BY <2>1, <2>2 DEF IInv, DataOK, queues, lists
  <2>4. StackInv(stack', gEfiCurrentTpl, mEfiTimerLock)
    BY <1>4, <2>1
  <2> QED BY <2>1, <2>3, <2>4 DEF IInv
<1>12. CASE CheckTimersRelease
  <2>1. Top.pc \in LockedPcs
    BY <1>2, <1>12 DEF CheckTimersRelease
  <2> QED BY <1>12, <2>1, ReleaseKeeps DEF CheckTimersRelease
<1> QED BY <1>5, <1>6, <1>7, <1>8, <1>9, <1>10, <1>11, <1>12 DEF CheckTimersStep

(* CoreSetTimer under the lock. *)
LEMMA SetTimerStepKeeps == ASSUME IInv, SetTimerStep PROVE IInv'
<1>0. /\ gEventQueue \in [NotifyTpls -> Seq(Event)]
      /\ gEventPending \subseteq NotifyTpls \cup {0}
      /\ IEvent \in [Event -> IEvents]
      /\ mEfiTimerList \in Seq(Event)
      /\ mEfiSystemTime \in Nat
      /\ due \in [Event -> Nat]
      /\ DataOK
  BY DEF IInv, DataOK
<1>1. Top \in Frames /\ FrameOK(Top) /\ Top.num \in Nat
  BY Running
<1>2. /\ LockedSetPcs \subseteq LockedPcs /\ LockedPcs \subseteq Pcs /\ LockedSetPcs \subseteq EventPcs
      /\ LockedSetPcs \cap LockedCheckPcs = {}
      /\ {"TimerCancel", "TimerPeriodic", "TimerRelative",
          "st_time", "st_insert", "st_kick", "st_release"} = LockedSetPcs
  BY DEF LockedCheckPcs, LockedPcs, Pcs, EventPcs, LockedSetPcs
<1>3. Top.pc \in LockedSetPcs => Top.ev \in Event
  BY <1>1, <1>2 DEF FrameOK
<1>4. ASSUME NEW pc \in LockedSetPcs, NEW n \in Nat, Top.pc \in LockedSetPcs, NEW f,
             Moved(f, Top, pc, Top.ev, n)
      PROVE  StackInv(Update(f), gEfiCurrentTpl, mEfiTimerLock)
  BY <1>2, <1>3, <1>4, LockedMoved
<1>5. ASSUME NEW pc \in LockedSetPcs, Top.pc \in LockedSetPcs
      PROVE  StackInv(Goto(pc), gEfiCurrentTpl, mEfiTimerLock)
  <2> DEFINE f == [Top EXCEPT !.pc = pc]
  <2>1. Moved(f, Top, pc, Top.ev, Top.num)
    <3>1. pc \in Pcs /\ NoEvent \in Event \cup {NoEvent}
      BY <1>2
    <3> QED BY <1>1, <3>1, MovedFrames
  <2> HIDE DEF f
  <2>2. StackInv(Update(f), gEfiCurrentTpl, mEfiTimerLock)
    BY <1>1, <1>4, <1>5, <2>1
  <2> QED BY <2>2 DEF Goto, f
<1>6. CASE SetTimerRemove
  <2> DEFINE e == Top.ev
             period == IF Top.num = 0 THEN TickPeriod ELSE Top.num
             num == IF Top.pc = "TimerPeriodic" THEN period ELSE Top.num
             rep == IF Top.pc = "TimerPeriodic" THEN period ELSE 0
             pc == IF Top.pc = "TimerCancel" THEN "st_release" ELSE "st_time"
             f == [Top EXCEPT !.pc = pc, !.num = num]
  <2>1. Top.pc \in LockedSetPcs /\ e \in Event
    BY <1>2, <1>3, <1>6 DEF SetTimerRemove
  <2>2. num \in Nat /\ rep \in Nat /\ pc \in LockedSetPcs /\ pc \in Pcs
    BY <1>1, <1>2, TimeAssumption
  <2>3. /\ IEvent' = [IEvent EXCEPT ![e].TriggerTime = 0, ![e].Period = rep]
        /\ stack' = Update(f)
        /\ mEfiTimerList' = Unlink(mEfiTimerList, e)
        /\ UNCHANGED <<gEfiCurrentTpl, queues, lists, mEfiTimerLock, mEfiSystemTime, due>>
    BY <1>6 DEF SetTimerRemove
  <2> HIDE DEF e, rep, num, pc
  <2>4. Moved(f, Top, pc, Top.ev, num)
    <3>1. NoEvent \in Event \cup {NoEvent}
      OBVIOUS
    <3> QED BY <1>1, <2>2, <3>1, MovedFrames
  <2> HIDE DEF f
  <2>5. StackInv(stack', gEfiCurrentTpl, mEfiTimerLock)
    BY <1>4, <2>1, <2>2, <2>3, <2>4
  <2>6. IEvent' \in [Event -> IEvents]
    <3>1. \A n, q \in Nat : [IEvent EXCEPT ![e].TriggerTime = n, ![e].Period = q] \in [Event -> IEvents]
      BY <1>0, <2>1, EventFieldTypes, Zenon
    <3>2. 0 \in Nat
      OBVIOUS
    <3>3. [IEvent EXCEPT ![e].TriggerTime = 0, ![e].Period = rep] \in [Event -> IEvents]
      BY <2>2, <3>1, <3>2, Zenon
    <3> QED BY <2>3, <3>3
  <2>7. mEfiTimerList' \in Seq(Event)
    BY <1>0, <2>3, UnlinkType
  <2>8. DataOK'
    BY <2>3, <2>6, <2>7 DEF IInv, DataOK, queues, lists
  <2> QED BY <2>3, <2>5, <2>8 DEF IInv
<1>7. CASE SetTimerReadTime
  <2> DEFINE e == Top.ev
             time == (mEfiSystemTime + Top.num) % TimeModulus
             want == mEfiSystemTime + Top.num
  <2>1. Top.pc \in LockedSetPcs /\ e \in Event /\ "st_insert" \in LockedSetPcs
    BY <1>2, <1>3, <1>7 DEF SetTimerReadTime
  <2>2. time \in Nat /\ want \in Nat
    BY <1>0, <1>1, TimeAssumption
  <2>3. /\ IEvent' = [IEvent EXCEPT ![e].TriggerTime = time]
        /\ due' = [due EXCEPT ![e] = want]
        /\ RestoreFromHigh(gEfiCurrentTpl, Goto("st_insert"))
        /\ UNCHANGED <<queues, lists, mEfiTimerList, mEfiTimerLock, mEfiSystemTime>>
        /\ gEventPending' = gEventPending
    BY <1>7 DEF SetTimerReadTime, queues
  <2> HIDE DEF e, time, want
  <2>4. IEvent' \in [Event -> IEvents]
    <3>1. \A n \in Nat : [IEvent EXCEPT ![e].TriggerTime = n] \in [Event -> IEvents]
      BY <1>0, <2>1, EventFieldTypes, Zenon
    <3>2. [IEvent EXCEPT ![e].TriggerTime = time] \in [Event -> IEvents]
      BY <2>2, <3>1, Zenon
    <3> QED BY <2>3, <3>2
  <2>5. due' \in [Event -> Nat]
    BY <1>0, <2>2, <2>3
  <2>6. DataOK'
    BY <2>3, <2>4, <2>5 DEF IInv, DataOK, queues, lists
  <2>7. StackInv(Goto("st_insert"), gEfiCurrentTpl, mEfiTimerLock)
    BY <1>5, <2>1
  <2>8. StackInv(stack', gEfiCurrentTpl', mEfiTimerLock)
    BY <1>0, <2>3, <2>7, RestoreKeepsStack
  <2> QED BY <2>3, <2>6, <2>8 DEF IInv
<1>8. CASE SetTimerInsert
  <2> DEFINE pc == IF Top.num = 0 THEN "st_kick" ELSE "st_release"
  <2>1. /\ Top.pc = "st_insert" /\ stack' = Goto(pc)
        /\ mEfiTimerList' = InsertAt(mEfiTimerList, TimerSlot(Top.ev), Top.ev)
        /\ UNCHANGED <<gEfiCurrentTpl, queues, lists, mEfiTimerLock, mEfiSystemTime, due, IEvent>>
    BY <1>8 DEF SetTimerInsert, CoreInsertEventTimer
  <2>2. pc \in LockedSetPcs /\ Top.pc \in LockedSetPcs
    BY <1>2, <2>1
  <2> HIDE DEF pc
  <2>3. mEfiTimerList' \in Seq(Event)
    BY <1>0, <1>3, <2>1, <2>2, InsertTimerType
  <2>4. DataOK'
    BY <2>1, <2>3 DEF IInv, DataOK, queues, lists
  <2>5. StackInv(stack', gEfiCurrentTpl, mEfiTimerLock)
    BY <1>5, <2>1, <2>2
  <2> QED BY <2>1, <2>4, <2>5 DEF IInv
<1>9. CASE SetTimerKick
  <2>1. /\ Top.pc = "st_kick" /\ CoreSignalEvent(mEfiCheckTimerEvent, Goto("st_release"))
        /\ UNCHANGED <<lists, timers>>
    BY <1>9 DEF SetTimerKick
  <2>2. StackInv(Goto("st_release"), gEfiCurrentTpl, mEfiTimerLock) /\ mEfiCheckTimerEvent \in Event
    BY <1>2, <1>5, <2>1, EventAssumption
  <2> QED BY <1>0, <2>1, <2>2, SignalKeeps, QueueStep
<1>10. CASE SetTimerRelease
  <2>1. Top.pc \in LockedPcs
    BY <1>2, <1>10 DEF SetTimerRelease
  <2> QED BY <1>10, <2>1, ReleaseKeeps DEF SetTimerRelease
<1> QED BY <1>6, <1>7, <1>8, <1>9, <1>10 DEF SetTimerStep

(* A call of CoreCheckEvent by an activation that does not hold the lock. *)
LEMMA CheckEventCall ==
  ASSUME IInv, NEW e \in Event, Top.pc \notin LockedPcs \cup SignalPcs
  PROVE  StackInv(CoreCheckEvent(e, stack), gEfiCurrentTpl, mEfiTimerLock)
<1> DEFINE pc == IF IEvent[e].SignalCount = 0 /\ Is(e, "WAIT") THEN "chk_queue" ELSE "chk_read"
<1>1. pc \in CallerTplPcs \ {"app"} /\ pc # "wait" /\ pc \notin NotifyPcs
  BY DEF CallerTplPcs, NotifyPcs, LockedCheckPcs
<1>2. CoreCheckEvent(e, stack) = Call(stack, pc, e, 0)
  BY DEF CoreCheckEvent
<1> HIDE DEF pc
<1>3. \A i \in 1..Len(stack) : stack[i].pc \notin LockedPcs
  BY Running, NoHolder
<1> QED BY <1>1, <1>2, <1>3, Running, CallFrame

(* The return from CoreCheckEvent, to CoreWaitForEvent or through it. *)
LEMMA ReturnFromCheckKeeps ==
  ASSUME IInv, Top.pc \in {"chk_read", "chk_clear"}, NEW ready \in BOOLEAN
  PROVE  StackInv(ReturnFromCheck(ready), gEfiCurrentTpl, mEfiTimerLock)
<1> DEFINE s == Front(stack)
           f == [Last(s) EXCEPT !.num = @ + 1]
<1>1. StackInv(s, gEfiCurrentTpl, mEfiTimerLock)
  <2>1. Top.pc \notin LockedPcs \cup {"app"} /\ Top.pc \in CallerTplPcs
    BY DEF LockedPcs, LockedCheckPcs, LockedSetPcs, CallerTplPcs
  <2>2. Top.new = gEfiCurrentTpl
    BY <2>1, Running DEF FrameOK
  <2> QED BY <2>1, <2>2, Running, PopFrame
<1>2. \/ ReturnFromCheck(ready) = s
      \/ Last(s).pc = "wait" /\ ReturnFromCheck(ready) = Front(s)
      \/ Last(s).pc = "wait" /\ ReturnFromCheck(ready) = SetTop(s, f)
  BY DEF ReturnFromCheck
<1> HIDE DEF s
<1>3. FrameOK(Last(s)) /\ Last(s) \in Frames /\ Last(s).lvl = gEfiCurrentTpl
  BY <1>1, TopFrame DEF StackInv, FrameOK
<1>4. ASSUME Last(s).pc = "wait" PROVE StackInv(Front(s), gEfiCurrentTpl, mEfiTimerLock)
  <2>1. Last(s).pc \notin LockedPcs \cup {"app"} /\ Last(s).pc \in CallerTplPcs
    BY <1>4 DEF LockedPcs, LockedCheckPcs, LockedSetPcs, CallerTplPcs
  <2>2. Last(s).new = gEfiCurrentTpl
    BY <1>3, <2>1 DEF FrameOK
  <2> QED BY <1>1, <2>1, <2>2, PopFrame
<1>5. ASSUME Last(s).pc = "wait" PROVE StackInv(SetTop(s, f), gEfiCurrentTpl, mEfiTimerLock)
  <2>1. Last(s).num + 1 \in Nat /\ Last(s).num + 1 # 0 /\ Last(s).pc \in Pcs
    BY <1>3, FrameTypes
  <2>2. Moved(f, Last(s), Last(s).pc, Last(s).ev, Last(s).num + 1)
    <3>1. NoEvent \in Event \cup {NoEvent} /\ f = [Last(s) EXCEPT !.num = Last(s).num + 1]
      BY <1>3
    <3> QED BY <1>3, <2>1, <3>1, MovedFrames
  <2> HIDE DEF f
  <2>3. "wait" \in PlainPcs /\ "wait" \notin EventPcs
    BY DEF PlainPcs, EventPcs, LockedSetPcs
  <2> QED BY <1>1, <1>5, <2>1, <2>2, <2>3, PlainMove DEF Moved
<1> QED BY <1>1, <1>2, <1>4, <1>5

(* A step of CoreCheckEvent or CoreCloseEvent that only moves on. *)
LEMMA PlainGoto ==
  ASSUME IInv, NEW pc \in PlainPcs \ {"wait"}, Top.pc \in PlainPcs \ {"wait"}
  PROVE  Top.ev \in Event /\ StackInv(Goto(pc), gEfiCurrentTpl, mEfiTimerLock)
<1> DEFINE f == [Top EXCEPT !.pc = pc]
<1>1. Top \in Frames /\ FrameOK(Top) /\ Top.num \in Nat
  BY Running
<1>2. Top.pc \in EventPcs /\ pc \in Pcs /\ NoEvent \in Event \cup {NoEvent}
  BY DEF PlainPcs, EventPcs, Pcs, OtherPcs
<1>3. Top.ev \in Event
  BY <1>1, <1>2 DEF FrameOK
<1>4. Moved(f, Top, pc, Top.ev, Top.num)
  BY <1>1, <1>2, MovedFrames
<1>5. Goto(pc) = SetTop(stack, f)
  BY DEF Goto, Update
<1> HIDE DEF f
<1>6. StackInv(SetTop(stack, f), gEfiCurrentTpl, mEfiTimerLock)
  BY <1>3, <1>4, Running, PlainMove DEF Moved
<1> QED BY <1>3, <1>5, <1>6

(* CoreCheckEvent and CoreWaitForEvent. *)
LEMMA WaitStepKeeps == ASSUME IInv, WaitStep PROVE IInv'
<1>0. /\ gEventQueue \in [NotifyTpls -> Seq(Event)]
      /\ gEventPending \subseteq NotifyTpls \cup {0}
      /\ IEvent \in [Event -> IEvents]
      /\ DataOK
  BY DEF IInv, DataOK
<1>1. {"chk_queue", "chk_read", "chk_clear"} \subseteq PlainPcs \ {"wait"}
  BY DEF PlainPcs
<1>2. CASE CheckEventQueue
  <2>1. /\ Top.pc = "chk_queue" /\ UNCHANGED <<lists, timers, IEvent>>
        /\ UNCHANGED queues \/ CoreNotifyEvent(Top.ev)
        /\ RestoreFromHigh(gEfiCurrentTpl, Goto("chk_read"))
    BY <1>2 DEF CheckEventQueue
  <2>2. Top.ev \in Event /\ StackInv(Goto("chk_read"), gEfiCurrentTpl, mEfiTimerLock)
    BY <1>1, <2>1, PlainGoto
  <2>3. /\ gEventQueue' \in [NotifyTpls -> Seq(Event)]
        /\ gEventPending' \subseteq NotifyTpls \cup {0}
    BY <1>0, <2>1, <2>2, NotifyEventTypes DEF queues
  <2>4. StackInv(stack', gEfiCurrentTpl', mEfiTimerLock)
    BY <2>1, <2>2, <2>3, RestoreKeepsStack
  <2> QED BY <1>0, <2>1, <2>3, <2>4, QueueStep
<1>3. CASE CheckEventRead
  <2>1. /\ Top.pc = "chk_read" /\ UNCHANGED <<gEfiCurrentTpl, queues, lists, timers, IEvent>>
        /\ stack' = Goto("chk_clear") \/ stack' = ReturnFromCheck(FALSE)
    BY <1>3 DEF CheckEventRead
  <2>2. StackInv(stack', gEfiCurrentTpl, mEfiTimerLock)
    BY <1>1, <2>1, PlainGoto, ReturnFromCheckKeeps
  <2> QED BY <2>1, <2>2, StackOnly
<1>4. CASE CheckEventClear
  <2> DEFINE ready == IEvent[Top.ev].SignalCount # 0
  <2>1. /\ Top.pc = "chk_clear" /\ UNCHANGED <<queues, lists, timers>>
        /\ IEvent' = [IEvent EXCEPT ![Top.ev].SignalCount = 0]
        /\ RestoreFromHigh(gEfiCurrentTpl, ReturnFromCheck(ready))
        /\ gEventPending' = gEventPending /\ gEventQueue' = gEventQueue
    BY <1>4 DEF CheckEventClear, queues
  <2>2. ready \in BOOLEAN
    OBVIOUS
  <2> HIDE DEF ready
  <2>3. StackInv(ReturnFromCheck(ready), gEfiCurrentTpl, mEfiTimerLock)
    BY <2>1, <2>2, ReturnFromCheckKeeps
  <2>4. StackInv(stack', gEfiCurrentTpl', mEfiTimerLock)
    BY <1>0, <2>1, <2>3, RestoreKeepsStack
  <2>5. IEvent' \in [Event -> IEvents]
    <3>1. 0 \in 0..1
      OBVIOUS
    <3>2. Top.ev \in Event
      BY <1>1, <2>1, PlainGoto
    <3>3. \A c \in 0..1 : [IEvent EXCEPT ![Top.ev].SignalCount = c] \in [Event -> IEvents]
      BY <1>0, <3>2, EventFieldTypes, Zenon
    <3>4. [IEvent EXCEPT ![Top.ev].SignalCount = 0] \in [Event -> IEvents]
      BY <3>1, <3>3, Zenon
    <3> QED BY <2>1, <3>4
  <2> QED BY <1>0, <2>1, <2>4, <2>5, QueueStep
<1>5. ASSUME Top.pc = "wait" PROVE Top.num \in Nat \ {0} /\ Top.new = gEfiCurrentTpl
  <2>1. Top.pc \in CallerTplPcs
    BY <1>5 DEF CallerTplPcs
  <2> QED BY <1>5, <2>1, Running DEF FrameOK
<1>6. CASE WaitCheck
  <2> DEFINE e == UserEvents[Top.num]
  <2>1. /\ Top.pc = "wait" /\ UNCHANGED <<gEfiCurrentTpl, queues, lists, timers, IEvent>>
        /\ Top.num <= Len(UserEvents)
        /\ stack' = CoreCheckEvent(e, stack) \/ stack' = Front(stack)
    BY <1>6 DEF WaitCheck
  <2>2. e \in Event
    BY <1>5, <2>1, ClientAssumption
  <2> HIDE DEF e
  <2>3. Top.pc \notin LockedPcs \cup SignalPcs /\ Top.pc # "app"
    BY <2>1 DEF LockedPcs, LockedCheckPcs, LockedSetPcs, SignalPcs
  <2>4. StackInv(CoreCheckEvent(e, stack), gEfiCurrentTpl, mEfiTimerLock)
    BY <2>2, <2>3, CheckEventCall
  <2>5. StackInv(Front(stack), gEfiCurrentTpl, mEfiTimerLock)
    BY <1>5, <2>1, <2>3, Running, PopFrame
  <2> QED BY <2>1, <2>4, <2>5, StackOnly
<1>7. CASE WaitIdle
  <2> DEFINE f == [Top EXCEPT !.num = 1]
  <2>1. /\ Top.pc = "wait" /\ UNCHANGED <<lists, timers>>
        /\ CoreSignalEvent(gIdleLoopEvent, SetTop(stack, f))
    BY <1>7 DEF WaitIdle, Update
  <2>2. Moved(f, Top, Top.pc, Top.ev, 1)
    <3>1. NoEvent \in Event \cup {NoEvent} /\ 1 \in Nat
      OBVIOUS
    <3> QED BY <3>1, Running, MovedFrames
  <2> HIDE DEF f
  <2>3. "wait" \in PlainPcs /\ "wait" \notin EventPcs
    BY DEF PlainPcs, EventPcs, LockedSetPcs
  <2>4. StackInv(SetTop(stack, f), gEfiCurrentTpl, mEfiTimerLock)
    BY <2>1, <2>2, <2>3, Running, PlainMove DEF Moved
  <2>5. gIdleLoopEvent \in Event
    BY EventAssumption
  <2> QED BY <1>0, <2>1, <2>4, <2>5, SignalKeeps, QueueStep
<1> QED BY <1>2, <1>3, <1>4, <1>6, <1>7 DEF WaitStep

(* CoreCloseEvent after the timer is cancelled. *)
LEMMA CloseStepKeeps == ASSUME IInv, CloseStep PROVE IInv'
<1>0. /\ gEventQueue \in [NotifyTpls -> Seq(Event)]
      /\ gEventPending \subseteq NotifyTpls \cup {0}
      /\ gEventSignalQueue \in Seq(Event)
      /\ RuntimeEventHead \in Seq(Event)
      /\ IEvent \in [Event -> IEvents]
  BY DEF IInv, DataOK
<1>1. {"cl_unlink", "cl_free"} \subseteq PlainPcs \ {"wait"}
  BY DEF PlainPcs
<1>2. CASE CloseUnlink
  <2>1. /\ Top.pc = "cl_unlink" /\ UNCHANGED <<gEventPending, timers, IEvent>>
        /\ RuntimeEventHead' = Unlink(RuntimeEventHead, Top.ev)
        /\ gEventQueue' = [t \in NotifyTpls |-> Unlink(gEventQueue[t], Top.ev)]
        /\ gEventSignalQueue' = Unlink(gEventSignalQueue, Top.ev)
        /\ RestoreFromHigh(gEfiCurrentTpl, Goto("cl_free"))
    BY <1>2 DEF CloseUnlink
  <2>2. StackInv(Goto("cl_free"), gEfiCurrentTpl, mEfiTimerLock)
    BY <1>1, <2>1, PlainGoto
  <2>3. RuntimeEventHead' \in Seq(Event) /\ gEventSignalQueue' \in Seq(Event)
    BY <1>0, <2>1, UnlinkType
  <2>4. gEventQueue' \in [NotifyTpls -> Seq(Event)]
    <3>1. \A t \in NotifyTpls : Unlink(gEventQueue[t], Top.ev) \in Seq(Event)
      BY <1>0, UnlinkType
    <3> QED BY <2>1, <3>1
  <2>5. StackInv(stack', gEfiCurrentTpl', mEfiTimerLock)
    BY <1>0, <2>1, <2>2, RestoreKeepsStack
  <2>6. DataOK' /\ mEfiTimerLock' = mEfiTimerLock
    BY <2>1, <2>3, <2>4 DEF IInv, DataOK, timers
  <2> QED BY <2>5, <2>6 DEF IInv
<1>3. CASE CloseFree
  <2>1. /\ Top.pc = "cl_free" /\ UNCHANGED <<gEfiCurrentTpl, queues, lists, timers>>
        /\ IEvent' = [IEvent EXCEPT ![Top.ev].Signature = FALSE]
        /\ stack' = Front(stack)
        /\ gEventPending' = gEventPending /\ gEventQueue' = gEventQueue
    BY <1>3 DEF CloseFree, queues
  <2>2. Top.pc \notin LockedPcs \cup {"app"} /\ Top.pc \in CallerTplPcs
    BY <2>1 DEF LockedPcs, LockedCheckPcs, LockedSetPcs, CallerTplPcs
  <2>3. Top.new = gEfiCurrentTpl /\ Top.ev \in Event
    BY <1>1, <2>1, <2>2, Running, PlainGoto DEF FrameOK
  <2>4. StackInv(stack', gEfiCurrentTpl', mEfiTimerLock)
    BY <2>1, <2>2, <2>3, Running, PopFrame
  <2>5. IEvent' \in [Event -> IEvents]
    <3>1. [IEvent EXCEPT ![Top.ev].Signature = FALSE] \in [Event -> IEvents]
      BY <1>0, <2>3, EventFieldTypes, Zenon
    <3> QED BY <2>1, <3>1
  <2> QED BY <1>0, <2>1, <2>4, <2>5, QueueStep
<1> QED BY <1>2, <1>3 DEF CloseStep

(* CoreSetTimer up to the lock, by an activation that goes on with stack s. *)
LEMMA SetTimerCall ==
  ASSUME NEW s, StackInv(s, gEfiCurrentTpl, mEfiTimerLock),
         gEfiCurrentTpl <= TimerLockTpl,
         Last(s).pc \notin LockedPcs \cup SignalPcs,
         NEW e \in Event, NEW type \in {"TimerCancel", "TimerPeriodic", "TimerRelative"},
         NEW delay \in Nat,
         CoreSetTimer(s, e, type, delay)
  PROVE  /\ StackInv(stack', gEfiCurrentTpl', mEfiTimerLock')
         /\ mEfiTimerLock' \in [Lock : {"Released", "Acquired"}, OwnerTpl : Tpls]
<1> DEFINE f == Frame(type, TimerLockTpl, gEfiCurrentTpl, e, delay)
<1>1. FrameOK(Last(s)) /\ Last(s) \in Frames /\ Last(s).lvl = gEfiCurrentTpl
  BY TopFrame DEF StackInv, FrameOK
<1>2. gEfiCurrentTpl \in 4..30
  <2>1. Last(s).lvl \in Tpls /\ Last(s).lvl \in Int
    BY <1>1, FrameTypes
  <2> QED BY <1>1, <2>1
<1>3. /\ stack' = Append(s, f) /\ gEfiCurrentTpl' = 30
      /\ mEfiTimerLock' = [Lock |-> "Acquired", OwnerTpl |-> gEfiCurrentTpl]
  BY DEF CoreSetTimer, AcquireTimerLock
<1>4. type \in LockedPcs /\ type \in Pcs /\ type \notin NotifyPcs /\ type \notin CallerTplPcs
  BY DEF LockedPcs, LockedSetPcs, LockedCheckPcs, Pcs, NotifyPcs, CallerTplPcs
<1>5. f \in Frames /\ f.pc = type /\ f.lvl = 30 /\ f.new = gEfiCurrentTpl /\ f.ev = e
  BY <1>2, <1>4 DEF Frame, Frames
<1> HIDE DEF f
<1>6. FrameOK(f)
  <2>1. f.pc \notin {"acquire", "notify", "compare", "sig_loop", "wait", "pick"}
    BY <1>5
  <2>2. f \in Frames /\ f.new \in 4..30 /\ f.lvl = 30 /\ f.pc \notin CallerTplPcs /\ f.ev \in Event
    BY <1>2, <1>4, <1>5
  <2> QED BY <2>1, <2>2 DEF FrameOK
<1>7. StackInv(stack', gEfiCurrentTpl', mEfiTimerLock')
  BY <1>3, <1>4, <1>5, <1>6, AcquireInCall
<1> QED BY <1>2, <1>3, <1>7

(* RaiseTPL by a client. *)
LEMMA RaiseTplKeeps == ASSUME IInv, NEW t \in RaiseTpls, RaiseTpl(t) PROVE IInv'
<1> DEFINE f == Frame("raised", t, gEfiCurrentTpl, NoEvent, 0)
<1>1. /\ Top.pc \in ClientPcs /\ gEfiCurrentTpl < t /\ gEfiCurrentTpl' = t
      /\ stack' = Append(stack, f) /\ UNCHANGED <<queues, lists, timers, IEvent>>
  BY DEF RaiseTpl, MayCall
<1>2. t \in 4..31 /\ gEfiCurrentTpl \in 4..31
  BY Running, TplAssumption
<1>3. f \in Frames /\ f.pc = "raised" /\ f.lvl = t /\ f.new = gEfiCurrentTpl
  BY <1>2 DEF Frame, Frames, Pcs, ClientPcs
<1> HIDE DEF f
<1>4. /\ f.pc \notin LockedPcs \cup RestorePcs \cup NotifyPcs \cup CallerTplPcs \cup EventPcs
      /\ Top.pc \notin LockedPcs \cup SignalPcs
  BY <1>1, <1>3 DEF ClientPcs, LockedPcs, LockedCheckPcs, LockedSetPcs, RestorePcs, NotifyPcs,
                    CallerTplPcs, EventPcs, SignalPcs
<1>5. FrameOK(f)
  BY <1>1, <1>2, <1>3, <1>4 DEF FrameOK
<1>6. \A i \in 1..Len(stack) : stack[i].pc \notin LockedPcs
  BY <1>4, Running, NoHolder
<1>7. StackInv(stack', gEfiCurrentTpl', mEfiTimerLock)
  BY <1>1, <1>3, <1>4, <1>5, <1>6, Running, PushFrame
<1> QED BY <1>1, <1>7, StackOnly

(* RestoreTPL, from TPL_HIGH_LEVEL or from below. *)
LEMMA RestoreTplKeeps == ASSUME IInv, RestoreTpl PROVE IInv'
<1>1. Top.pc = "raised" /\ UNCHANGED <<queues, lists, timers, IEvent>> /\ gEventPending' = gEventPending
  BY DEF RestoreTpl, queues
<1>2. Top.pc \notin LockedPcs \cup SignalPcs \cup NotifyPcs \cup {"app"}
  BY <1>1 DEF LockedPcs, LockedCheckPcs, LockedSetPcs, SignalPcs, NotifyPcs
<1>3. CASE gEfiCurrentTpl = TPL_HIGH_LEVEL
  <2>1. StackInv(Front(stack), Top.new, mEfiTimerLock)
    BY <1>2, Running, PopFrame
  <2>2. RestoreFromHigh(Top.new, Front(stack))
    BY <1>3 DEF RestoreTpl
  <2>3. gEventPending' \subseteq NotifyTpls \cup {0}
    BY <1>1 DEF IInv, DataOK
  <2>4. StackInv(stack', gEfiCurrentTpl', mEfiTimerLock)
    BY <2>1, <2>2, <2>3, RestoreKeepsStack
  <2> QED BY <1>1, <2>4, StackOnly
<1>4. CASE gEfiCurrentTpl # TPL_HIGH_LEVEL
  <2> DEFINE f == [Top EXCEPT !.pc = "test"]
  <2>1. Moved(f, Top, "test", Top.ev, Top.num)
    <3>1. "test" \in Pcs /\ NoEvent \in Event \cup {NoEvent}
      BY DEF Pcs, RestorePcs
    <3> QED BY <3>1, Running, MovedFrames
  <2>2. stack' = SetTop(stack, f) /\ gEfiCurrentTpl' = gEfiCurrentTpl
    BY <1>4 DEF RestoreTpl, Goto, Update
  <2> HIDE DEF f
  <2>3. f.pc = "test" /\ f.pc \notin CallerTplPcs \cup LockedPcs \cup NotifyPcs \cup EventPcs
    BY <2>1 DEF Moved, CallerTplPcs, LockedPcs, LockedCheckPcs, LockedSetPcs, NotifyPcs, EventPcs
  <2>4. f \in Frames /\ f.new = Top.new /\ f.lvl = Top.lvl /\ f.new <= f.lvl /\ f.lvl \in 4..30
    BY <1>4, <2>1, Running DEF Moved
  <2>5. FrameOK(f)
    BY <2>3, <2>4 DEF FrameOK
  <2>6. StackInv(stack', gEfiCurrentTpl', mEfiTimerLock)
    BY <1>2, <2>2, <2>3, <2>4, <2>5, Running, UpdateFrame
  <2> QED BY <1>1, <2>6, StackOnly
<1> QED BY <1>3, <1>4

(* A notification function returns. *)
LEMMA NotifyReturnKeeps == ASSUME IInv, NotifyReturn PROVE IInv'
<1>1. /\ Top.pc = "client" /\ stack' = Front(stack)
      /\ UNCHANGED <<gEfiCurrentTpl, queues, lists, timers, IEvent>>
  BY DEF NotifyReturn
<1>2. Top.pc \notin LockedPcs \cup {"app"} /\ Top.pc \in CallerTplPcs
  BY <1>1 DEF LockedPcs, LockedCheckPcs, LockedSetPcs, CallerTplPcs
<1>3. Top.new = gEfiCurrentTpl
  BY <1>2, Running DEF FrameOK
<1>4. StackInv(stack', gEfiCurrentTpl', mEfiTimerLock)
  BY <1>1, <1>2, <1>3, Running, PopFrame
<1> QED BY <1>1, <1>4, StackOnly

(* The timer interrupt, on top of whatever it interrupts. *)
LEMMA TimerInterruptKeeps == ASSUME IInv, TimerInterrupt PROVE IInv'
<1>0. DataOK /\ StackInv(stack, gEfiCurrentTpl, mEfiTimerLock)
  BY DEF IInv
<1>1. /\ mEfiSystemTime' = TickTime
      /\ UNCHANGED <<lists, mEfiTimerList, mEfiTimerLock, due>>
      /\ \/ CoreSignalEvent(mEfiCheckTimerEvent, stack)
         \/ UNCHANGED <<IEvent, queues>> /\ RestoreFromHigh(gEfiCurrentTpl, stack)
  BY DEF TimerInterrupt
<1>2. mEfiSystemTime' \in Nat
  BY <1>0, <1>1, TimeAssumption DEF DataOK, TickTime
<1>3. /\ gEventQueue' \in [NotifyTpls -> Seq(Event)]
      /\ gEventPending' \subseteq NotifyTpls \cup {0}
      /\ IEvent' \in [Event -> IEvents]
      /\ StackInv(stack', gEfiCurrentTpl', mEfiTimerLock)
  <2>1. CASE CoreSignalEvent(mEfiCheckTimerEvent, stack)
    BY <1>0, <2>1, EventAssumption, SignalKeeps
  <2>2. CASE UNCHANGED <<IEvent, queues>> /\ RestoreFromHigh(gEfiCurrentTpl, stack)
    <3>1. /\ gEventQueue' \in [NotifyTpls -> Seq(Event)]
          /\ gEventPending' \subseteq NotifyTpls \cup {0}
          /\ IEvent' \in [Event -> IEvents]
      BY <1>0, <2>2 DEF DataOK, queues
    <3> QED BY <1>0, <2>2, <3>1, RestoreKeepsStack
  <2> QED BY <1>1, <2>1, <2>2
<1>4. DataOK'
  BY <1>0, <1>1, <1>2, <1>3 DEF DataOK, lists
<1> QED BY <1>1, <1>3, <1>4 DEF IInv

(* CreateEvent: what CoreCreateEventInternal builds is an event. *)
LEMMA CreateEventKeeps ==
  ASSUME IInv, NEW e \in ClientEvent, NEW r \in Requests[e], CreateEvent(e, r) PROVE IInv'
<1> DEFINE type == ConvertedType(r)
           tpl == IF NotifyType(type) THEN r.NotifyTpl ELSE 0
           x == NewEvent(type, tpl, ConvertedGroup(r))
<1>0. DataOK /\ StackInv(stack, gEfiCurrentTpl, mEfiTimerLock)
  BY DEF IInv
<1>1. e \in Event /\ e \in DOMAIN Requests /\ r.NotifyTpl \in NotifyTpls \cup {0, TPL_APPLICATION}
  BY ClientAssumption DEF ClientEvent
<1>2. /\ ValidRequest(r)
      /\ IEvent' = [IEvent EXCEPT ![e] = x]
      /\ RuntimeEventHead' \in {RuntimeEventHead, Append(RuntimeEventHead, e)}
      /\ gEventSignalQueue' \in {gEventSignalQueue, <<e>> \o gEventSignalQueue}
      /\ UNCHANGED <<queues, timers>>
      /\ RestoreFromHigh(gEfiCurrentTpl, stack)
  BY DEF CreateEvent
<1>3. type \in mEventTable
  BY <1>2 DEF ValidRequest, ConvertedType, mEventTable
<1>4. tpl \in NotifyTpls \cup {0}
  <2>1. NotifyType(type) => r.NotifyTpl \in 5..30
    BY <1>2 DEF ValidRequest
  <2> HIDE DEF type
  <2> QED BY <1>1, <2>1
<1>5. ConvertedGroup(r) \in EventGroups
  <2>1. EVT_EXIT # EVT_VIRT
    <3>1. "EXIT" \in EVT_EXIT /\ "EXIT" \notin EVT_VIRT
      BY DEF EVT_EXIT, EVT_VIRT
    <3> QED BY <3>1
  <2>2. /\ ExitBootServicesGroup \in EventGroups /\ VirtualAddressChangeGroup \in EventGroups
        /\ r.EventGroup \in EventGroups
    BY <1>1 DEF EventGroups
  <2> QED BY <2>1, <2>2 DEF ConvertedGroup
<1>6. x \in IEvents
  BY <1>3, <1>4, <1>5 DEF NewEvent, IEvents
<1> HIDE DEF x
<1>7. IEvent' \in [Event -> IEvents]
  BY <1>0, <1>2, <1>6 DEF DataOK
<1>8. RuntimeEventHead' \in Seq(Event) /\ gEventSignalQueue' \in Seq(Event)
  <2>1. RuntimeEventHead \in Seq(Event) /\ gEventSignalQueue \in Seq(Event)
    BY <1>0 DEF DataOK
  <2>2. Append(RuntimeEventHead, e) \in Seq(Event) /\ <<e>> \o gEventSignalQueue \in Seq(Event)
    BY <1>1, <2>1
  <2> QED BY <1>2, <2>1, <2>2
<1>9. DataOK' /\ mEfiTimerLock' = mEfiTimerLock /\ gEventPending' \subseteq NotifyTpls \cup {0}
  BY <1>0, <1>2, <1>7, <1>8 DEF DataOK, queues, timers
<1>10. StackInv(stack', gEfiCurrentTpl', mEfiTimerLock)
  BY <1>0, <1>2, <1>9, RestoreKeepsStack
<1> QED BY <1>9, <1>10 DEF IInv

(* The other services. *)
LEMMA ClientStepKeeps == ASSUME IInv, ClientStep PROVE IInv'
<1>0. /\ DataOK /\ ClientEvent \subseteq Event
      /\ StackInv(stack, gEfiCurrentTpl, mEfiTimerLock) /\ Top = Last(stack)
  BY Running DEF IInv, ClientEvent
<1>1. ASSUME Top.pc \in ClientPcs
      PROVE  /\ Top.pc \notin LockedPcs \cup SignalPcs
             /\ \A i \in 1..Len(stack) : stack[i].pc \notin LockedPcs
  <2>1. Top.pc \notin LockedPcs \cup SignalPcs
    BY <1>1 DEF ClientPcs, LockedPcs, LockedCheckPcs, LockedSetPcs, SignalPcs
  <2> QED BY <1>0, <2>1, NoHolder
<1>2. ASSUME NEW pc \in {"wait", "sig_list", "cl_unlink"}, NEW ev \in Event \cup {NoEvent},
             pc # "wait" => ev \in Event, NEW num \in Nat \ {0}, Top.pc \in ClientPcs
      PROVE  /\ StackInv(Call(stack, pc, ev, num), gEfiCurrentTpl, mEfiTimerLock)
             /\ pc # "wait" => StackInv(Call(stack, pc, ev, 0), gEfiCurrentTpl, mEfiTimerLock)
             /\ Last(Call(stack, pc, ev, 0)).pc = pc
  <2>1. /\ pc \in CallerTplPcs \ {"app"} /\ pc \notin NotifyPcs
        /\ pc \in EventPcs => pc # "wait"
    BY DEF CallerTplPcs, NotifyPcs, LockedCheckPcs, EventPcs, LockedSetPcs
  <2>2. StackInv(Call(stack, pc, ev, num), gEfiCurrentTpl, mEfiTimerLock)
    BY <1>0, <1>1, <1>2, <2>1, CallFrame
  <2>3. pc # "wait" => StackInv(Call(stack, pc, ev, 0), gEfiCurrentTpl, mEfiTimerLock)
    BY <1>0, <1>1, <1>2, <2>1, CallFrame
  <2>4. Last(Call(stack, pc, ev, 0)).pc = pc
    <3> DEFINE f == Frame(pc, gEfiCurrentTpl, gEfiCurrentTpl, ev, 0)
    <3>1. f.pc = pc
      BY DEF Frame
    <3> HIDE DEF f
    <3>2. Last(Append(stack, f)) = f
      BY <1>0, AppendProperties DEF StackInv, StackOK, Last
    <3> QED BY <3>1, <3>2 DEF Call, f
  <2> QED BY <2>2, <2>3, <2>4
<1>3. ASSUME NEW t \in RaiseTpls, RaiseTpl(t) PROVE IInv'
  BY <1>3, RaiseTplKeeps
<1>4. CASE WaitForEvent
  <2>1. /\ Top.pc \in ClientPcs /\ stack' = Call(stack, "wait", NoEvent, 1)
        /\ UNCHANGED <<gEfiCurrentTpl, queues, lists, timers, IEvent>>
    BY <1>4 DEF WaitForEvent, MayCall
  <2>2. StackInv(stack', gEfiCurrentTpl, mEfiTimerLock)
    BY <1>2, <2>1
  <2> QED BY <2>1, <2>2, StackOnly
<1>5. ASSUME NEW e \in ClientEvent, SignalEvent(e) PROVE IInv'
  <2>1. CoreSignalEvent(e, stack) /\ UNCHANGED <<lists, timers>> /\ e \in Event
    BY <1>0, <1>5 DEF SignalEvent
  <2> QED BY <1>0, <2>1, SignalKeeps, QueueStep
<1>6. ASSUME NEW e \in ClientEvent, SignalGroup(e) PROVE IInv'
  <2>1. /\ Top.pc \in ClientPcs /\ stack' = Call(stack, "sig_list", e, 0) /\ e \in Event
        /\ UNCHANGED <<gEfiCurrentTpl, queues, lists, timers, IEvent>>
    BY <1>0, <1>6 DEF SignalGroup, MayCall
  <2>2. 1 \in Nat \ {0}
    OBVIOUS
  <2>3. StackInv(stack', gEfiCurrentTpl, mEfiTimerLock)
    BY <1>2, <2>1, <2>2
  <2> QED BY <2>1, <2>3, StackOnly
<1>7. ASSUME NEW e \in ClientEvent, CheckEvent(e) PROVE IInv'
  <2>1. /\ Top.pc \in ClientPcs /\ stack' = CoreCheckEvent(e, stack) /\ e \in Event
        /\ UNCHANGED <<gEfiCurrentTpl, queues, lists, timers, IEvent>>
    BY <1>0, <1>7 DEF CheckEvent, MayCall
  <2>2. StackInv(stack', gEfiCurrentTpl, mEfiTimerLock)
    BY <1>1, <2>1, CheckEventCall
  <2> QED BY <2>1, <2>2, StackOnly
<1>8. ASSUME NEW e \in ClientEvent, NEW d \in Nat,
             NEW type \in {"TimerCancel", "TimerPeriodic", "TimerRelative"}, SetTimer(e, type, d)
      PROVE  IInv'
  <2>1. /\ Top.pc \in ClientPcs /\ gEfiCurrentTpl <= TimerLockTpl /\ e \in Event
        /\ CoreSetTimer(stack, e, type, d)
        /\ UNCHANGED <<queues, lists, mEfiTimerList, mEfiSystemTime, due, IEvent>>
    BY <1>0, <1>8 DEF SetTimer, MayCall
  <2>2. /\ StackInv(stack', gEfiCurrentTpl', mEfiTimerLock')
        /\ mEfiTimerLock' \in [Lock : {"Released", "Acquired"}, OwnerTpl : Tpls]
    BY <1>0, <1>1, <2>1, SetTimerCall
  <2>3. DataOK'
    BY <1>0, <2>1, <2>2 DEF DataOK, queues, lists
  <2> QED BY <2>2, <2>3 DEF IInv
<1>9. ASSUME NEW e \in ClientEvent, NEW r \in Requests[e], CreateEvent(e, r) PROVE IInv'
  BY <1>9, CreateEventKeeps
<1>10. ASSUME NEW e \in ClientEvent, CloseEvent(e) PROVE IInv'
  <2> DEFINE s == Call(stack, "cl_unlink", e, 0)
  <2>1. /\ Top.pc \in ClientPcs /\ e \in Event
        /\ UNCHANGED <<queues, lists, mEfiTimerList, mEfiSystemTime, due, IEvent>>
    BY <1>0, <1>10 DEF CloseEvent, MayCall
  <2>2. StackInv(s, gEfiCurrentTpl, mEfiTimerLock) /\ Last(s).pc = "cl_unlink"
    <3>1. 1 \in Nat \ {0}
      OBVIOUS
    <3> QED BY <1>2, <2>1, <3>1
  <2>3. CASE Is(e, "TIMER")
    <3>1. gEfiCurrentTpl <= TimerLockTpl /\ CoreSetTimer(s, e, "TimerCancel", 0)
      BY <1>10, <2>3 DEF CloseEvent
    <3> HIDE DEF s
    <3>2. Last(s).pc \notin LockedPcs \cup SignalPcs
      BY <2>2 DEF LockedPcs, LockedCheckPcs, LockedSetPcs, SignalPcs
    <3>3. 0 \in Nat /\ "TimerCancel" \in {"TimerCancel", "TimerPeriodic", "TimerRelative"}
      OBVIOUS
    <3>4. /\ StackInv(stack', gEfiCurrentTpl', mEfiTimerLock')
          /\ mEfiTimerLock' \in [Lock : {"Released", "Acquired"}, OwnerTpl : Tpls]
      BY <2>1, <2>2, <3>1, <3>2, <3>3, SetTimerCall
    <3>5. DataOK'
      BY <1>0, <2>1, <3>4 DEF DataOK, queues, lists
    <3> QED BY <3>4, <3>5 DEF IInv
  <2>4. CASE ~ Is(e, "TIMER")
    <3>1. stack' = s /\ gEfiCurrentTpl' = gEfiCurrentTpl /\ mEfiTimerLock' = mEfiTimerLock
      BY <1>10, <2>4 DEF CloseEvent
    <3> HIDE DEF s
    <3>2. UNCHANGED <<queues, lists, timers, IEvent>>
      BY <2>1, <3>1 DEF timers
    <3> QED BY <2>2, <3>1, <3>2, StackOnly
  <2> QED BY <2>3, <2>4
<1> QED
  <2>1. Delays \subseteq Nat /\ 0 \in Nat
    BY TimeAssumption
  <2> QED BY <1>3, <1>4, <1>5, <1>6, <1>7, <1>8, <1>9, <1>10, <2>1 DEF ClientStep

-----------------------------------------------------------------------------
(* The theorems *)

(* CoreInitializeEventServices establishes the inductive invariant. *)
LEMMA InitOK == Init => IInv
<1> SUFFICES ASSUME Init PROVE IInv
  OBVIOUS
<1> DEFINE f == Frame("app", TPL_APPLICATION, TPL_APPLICATION, NoEvent, 0)
<1>1. IEvent \in [Event -> IEvents]
  <2>1. {"SIGNAL"} \in mEventTable /\ {} \in mEventTable
    BY DEF mEventTable
  <2>2. NoGroup \in EventGroups /\ IdleLoopGroup \in EventGroups
    BY DEF EventGroups
  <2>3. TPL_HIGH_LEVEL - 1 \in NotifyTpls /\ TPL_NOTIFY \in NotifyTpls
    BY TplAssumption
  <2>4. NewEvent({"SIGNAL"}, TPL_HIGH_LEVEL - 1, NoGroup) \in IEvents
    BY <2>1, <2>2, <2>3 DEF NewEvent, IEvents
  <2>5. NewEvent({"SIGNAL"}, TPL_NOTIFY, IdleLoopGroup) \in IEvents
    BY <2>1, <2>2, <2>3 DEF NewEvent, IEvents
  <2>6. [NewEvent({}, 0, NoGroup) EXCEPT !.Signature = FALSE] \in IEvents
    <3>1. NewEvent({}, 0, NoGroup) \in IEvents
      BY <2>1, <2>2 DEF NewEvent, IEvents
    <3>2. \A x \in IEvents : [x EXCEPT !.Signature = FALSE] \in IEvents
      BY DEF IEvents
    <3> QED BY <3>1, <3>2
  <2> QED BY <2>4, <2>5, <2>6, EventAssumption DEF Init
<1>2. gEventSignalQueue \in Seq(Event)
  BY EventAssumption DEF Init
<1>3. mEfiTimerLock \in [Lock : {"Released", "Acquired"}, OwnerTpl : Tpls] /\ mEfiTimerLock.Lock = "Released"
  BY DEF Init
<1>4. DataOK
  <2>1. gEventQueue \in [NotifyTpls -> Seq(Event)] /\ due \in [Event -> Nat]
    BY DEF Init
  <2>2. gEventPending \subseteq NotifyTpls \cup {0} /\ mEfiSystemTime \in Nat
    BY DEF Init
  <2>3. RuntimeEventHead \in Seq(Event) /\ mEfiTimerList \in Seq(Event)
    BY DEF Init
  <2> QED BY <1>1, <1>2, <1>3, <2>1, <2>2, <2>3 DEF DataOK
<1>5. f \in Frames /\ f.pc = "app" /\ f.lvl = 4 /\ f.new = 4
  BY DEF Frame, Frames, Pcs, ClientPcs
<1>6. stack = <<f>> /\ gEfiCurrentTpl = 4
  BY DEF Init
<1> HIDE DEF f
<1>7. f.pc \notin RestorePcs \cup LockedPcs \cup NotifyPcs \cup EventPcs
  BY <1>5 DEF RestorePcs, LockedPcs, LockedCheckPcs, LockedSetPcs, NotifyPcs, EventPcs
<1>8. FrameOK(f)
  BY <1>5, <1>7 DEF FrameOK
<1>9. stack \in Seq(Frames) /\ stack # <<>> /\ Len(stack) = 1 /\ stack[1] = f
  BY <1>5, <1>6
<1>10. \A i \in 1..Len(stack) : i = 1 /\ stack[i] = f
  BY <1>9
<1>11. StackOK(stack, gEfiCurrentTpl)
  BY <1>5, <1>6, <1>8, <1>9, <1>10 DEF StackOK
<1>12. LockOK(stack, mEfiTimerLock)
  BY <1>3, <1>7, <1>9, <1>10 DEF LockOK
<1> QED BY <1>4, <1>11, <1>12 DEF IInv, StackInv

(* Every step of the core, of a client and of the timer keeps it, when
   CoreRestoreTpl loads gEventPending once per test. *)
LEMMA NextOK == ASSUME SingleLoad PROVE IInv /\ [Next]_vars => IInv'
<1> SUFFICES ASSUME IInv, [Next]_vars PROVE IInv'
  OBVIOUS
<1>1. CASE RestoreStep
  <2>1. ~ PickPending
    BY Running DEF PickPending, FrameOK
  <2> QED BY <1>1, <2>1, TestPendingKeeps, EnterPendingKeeps, SetNewTplKeeps, DispatchNextKeeps,
             CallNotifyKeeps DEF RestoreStep
<1>2. CASE SignalStep \/ CheckTimersStep \/ SetTimerStep \/ WaitStep \/ CloseStep
  BY <1>2, SignalStepKeeps, CheckTimersStepKeeps, SetTimerStepKeeps, WaitStepKeeps, CloseStepKeeps
<1>3. CASE ClientStep
  BY <1>3, ClientStepKeeps
<1>4. CASE RestoreTpl \/ NotifyReturn \/ TimerInterrupt
  BY <1>4, RestoreTplKeeps, NotifyReturnKeeps, TimerInterruptKeeps
<1>5. CASE UNCHANGED vars
  BY <1>5 DEF IInv, DataOK, vars
<1> QED BY <1>1, <1>2, <1>3, <1>4, <1>5 DEF Next, CoreStep

(* The inductive invariant holds in every reachable state. *)
THEOREM Inductive == SingleLoad => (Spec => []IInv)
<1> SUFFICES ASSUME SingleLoad PROVE Spec => []IInv
  OBVIOUS
<1>1. Init => IInv
  BY InitOK
<1>2. IInv /\ [Next]_vars => IInv'
  BY NextOK
<1> QED BY <1>1, <1>2, PTL DEF Spec

(* Type correctness: no queue, list, event or frame leaves its type. *)
THEOREM TypeCorrect == SingleLoad => (Spec => []TypeOK)
<1> SUFFICES ASSUME SingleLoad PROVE Spec => []TypeOK
  OBVIOUS
<1>1. IInv => TypeOK
  <2> SUFFICES ASSUME IInv PROVE TypeOK
    OBVIOUS
  <2>1. gEfiCurrentTpl \in Tpls
    BY Running
  <2> QED BY <2>1 DEF IInv, DataOK, StackInv, StackOK, TypeOK
<1> QED BY <1>1, Inductive, PTL

(* Every activation resumes at the TPL it had set. *)
THEOREM CallerTplAlwaysRestored == SingleLoad => (Spec => []CallerTplRestored)
<1> SUFFICES ASSUME SingleLoad PROVE Spec => []CallerTplRestored
  OBVIOUS
<1>1. IInv => CallerTplRestored
  BY Running DEF CallerTplRestored
<1> QED BY <1>1, Inductive, PTL

(* A notification function is interrupted only by notifications of a strictly
   higher TPL: between two of them on the stack there is a dispatcher that was
   entered above the TPL of the lower one. *)
THEOREM NotificationsNest == SingleLoad => (Spec => []NoReentrancy)
<1> SUFFICES ASSUME SingleLoad PROVE Spec => []NoReentrancy
  OBVIOUS
<1>1. IInv => NoReentrancy
  <2> SUFFICES ASSUME IInv, NEW i \in DOMAIN stack, NEW j \in DOMAIN stack, i < j,
                      stack[i].pc \in NotifyPcs, stack[j].pc \in NotifyPcs
               PROVE  stack[i].lvl < stack[j].lvl
    BY DEF NoReentrancy, NotifyFrame
  <2>1. StackOK(stack, gEfiCurrentTpl)
    BY DEF IInv, StackInv
  <2>2. stack \in Seq(Frames) /\ i \in 1..Len(stack) /\ j \in 2..Len(stack) /\ Len(stack) \in Nat
    BY <2>1 DEF StackOK
  <2>3. j - 1 \in 1..Len(stack) /\ i <= j - 1
    BY <2>2
  <2>4. stack[j].new = stack[j - 1].lvl /\ stack[j - 1].pc = "acquire"
    BY <2>1, <2>2 DEF StackOK
  <2>5. i < j - 1
    <3>1. stack[i].pc # "acquire"
      BY DEF NotifyPcs, LockedCheckPcs
    <3> QED BY <2>2, <2>3, <2>4, <3>1
  <2>6. stack[i].lvl <= stack[j - 1].new
    BY <2>1, <2>2, <2>3, <2>5 DEF StackOK
  <2>7. FrameOK(stack[i]) /\ FrameOK(stack[j]) /\ FrameOK(stack[j - 1])
    BY <2>1, <2>2, <2>3 DEF StackOK
  <2>8. stack[i] \in Frames /\ stack[j] \in Frames /\ stack[j - 1] \in Frames
    BY <2>7 DEF FrameOK
  <2>9. /\ stack[i].lvl \in Int /\ stack[j].lvl \in Int /\ stack[j].new \in Int
        /\ stack[j - 1].lvl \in Int /\ stack[j - 1].new \in Int
    BY <2>8, FrameTypes
  <2>10. stack[j - 1].new < stack[j - 1].lvl /\ stack[j].new <= stack[j].lvl
    BY <2>4, <2>7 DEF FrameOK
  <2> QED BY <2>4, <2>6, <2>9, <2>10
<1> QED BY <1>1, Inductive, PTL

(* mEfiTimerLock, which only raises the TPL, is a lock. *)
THEOREM TimerLockIsExclusive == SingleLoad => (Spec => []TimerLockExclusive)
<1> SUFFICES ASSUME SingleLoad PROVE Spec => []TimerLockExclusive
  OBVIOUS
<1>1. IInv => TimerLockExclusive
  <2> SUFFICES ASSUME IInv PROVE TimerLockExclusive
    OBVIOUS
  <2>1. /\ LockOK(stack, mEfiTimerLock) /\ stack \in Seq(Frames)
        /\ mEfiTimerLock \in [Lock : {"Released", "Acquired"}, OwnerTpl : Tpls]
    BY DEF IInv, StackInv, StackOK, DataOK
  <2>2. DOMAIN stack = 1..Len(stack) /\ Len(stack) \in Nat
    BY <2>1
  <2>3. ASSUME NEW i \in DOMAIN stack, NEW j \in DOMAIN stack, Holds(i), Holds(j)
        PROVE  i = j
    <3>1. LockedPcs \cap SignalPcs = {}
      BY DEF LockedPcs, LockedCheckPcs, LockedSetPcs, SignalPcs
    <3>2. ~ (i < j) /\ ~ (j < i)
      BY <2>1, <2>2, <2>3, <3>1 DEF LockOK, Holds
    <3> QED BY <2>2, <3>2
  <2>4. mEfiTimerLock.Lock = "Acquired" <=> \E i \in DOMAIN stack : Holds(i)
    BY <2>1, <2>2 DEF LockOK, Holds
  <2>5. Top.pc = "ct_lock" => mEfiTimerLock.Lock = "Released"
    <3> SUFFICES ASSUME Top.pc = "ct_lock" PROVE mEfiTimerLock.Lock = "Released"
      OBVIOUS
    <3>1. Top.pc \notin LockedPcs \cup SignalPcs
      BY DEF LockedPcs, LockedCheckPcs, LockedSetPcs, SignalPcs
    <3>2. \A i \in 1..Len(stack) : stack[i].pc \notin LockedPcs
      BY <3>1, Running, NoHolder
    <3> QED BY <2>1, <3>2 DEF LockOK
  <2> QED BY <2>3, <2>4, <2>5 DEF TimerLockExclusive
<1> QED BY <1>1, Inductive, PTL

=============================================================================
