----------------------------- MODULE SmmProofs -----------------------------
(* Proofs about SmmRendezvous, for any number of processors and any platform:
   the safety properties of the rendezvous, whatever comes in between the accesses
   of a processor.

   The argument.  There is at most one leader, the processor that is between its
   election and the end of BSPHandler.  Its position determines the words of
   mSmmMpSyncData and a stage of the run; the stage determines where each other
   processor that has checked in can be, and what its Run semaphore holds (Place);
   and the number of those that have yet to signal the leader in this stage, added
   to the signals the leader has not consumed, is the number it still waits for
   (Tally).  So when the leader has counted its signals nobody is left behind,
   and the next stage begins with everybody at its gate.  A processor that gives up
   after the leader has locked the counter leaves a vacancy in it: the leader's
   first wait ends only when others have filled the vacancies. *)
EXTENDS SmmRendezvous, FiniteSetTheorems, TLAPS

-----------------------------------------------------------------------------
(* Positions *)

(* A processor that has checked in and has not set Present; before it has seen
   InsideSmm it is early. *)
Pre == {"initBusy", "elect", "cas", "compare", "apWait1", "apFirst", "apKnow", "apWait2",
        "apSecond", "giveUp", "apBsp", "apPresent"}
Early == Pre \ {"apBsp", "apPresent"}
Loop == {"apLoop", "apCheck", "procedure", "relBusy"}

(* The processors that have checked in: members, and the leader.  A BSP that has
   reset the counter leads no more. *)
Member == Pre \union Loop \union Signals \union Awaits \union {"apAbsent"}
Lead == {"bspClear", "inSync", "lockdown"} \union BspEntry \union BspLocked \union BspRun
Counted == Member \union Lead
Outside == {"normal", "sampleSmi", "sampleBsp", "checkIn", "endSync", "runCheck", "waitSync"}

(* The positions of the leader, by stage. *)
ArriveL == {"bspClear", "bspInside", "bspPresent", "clearSmi", "arrive1", "sendIpi",
            "arrive2", "inSync", "lockdown", "waitArrive"}
BackupL == {"relBackup", "backup", "waitBackup"}
ProgramL == {"relProgram", "program", "waitProgram"}
RunL == BspRun \union {"countPresent"}
ExitL == {"relExit", "waitExit"}
RestoreL == {"relRestore", "restore", "waitRestore"}
ResetL == {"relReset", "update", "bspAbsent", "waitReset"}
EndL == {"resetBsp", "resetCounter"}

Gathers(cf) == ~cf.relaxed \/ cf.mtrrs

(* The stage of the run when the leader is at l on platform cf.  In relaxed mode
   the processors arrive while the SMI handlers run. *)
Stage(cf, l) ==
  IF l \in ArriveL THEN (IF Gathers(cf) THEN "arrive" ELSE "run")
  ELSE IF l \in BackupL THEN "backup"
  ELSE IF l \in ProgramL THEN "program"
  ELSE IF l \in RunL THEN "run"
  ELSE IF l \in ExitL THEN "exit"
  ELSE IF l \in RestoreL THEN "restore"
  ELSE IF l \in ResetL THEN "reset"
  ELSE "end"

(* Where the members wait to be released in a stage. *)
Gated == {"backup", "program", "exit", "restore", "reset"}
Gate(s) ==
  IF s = "backup" THEN "awaitBackup"
  ELSE IF s = "program" THEN "awaitProgram"
  ELSE IF s = "exit" THEN "apLoop"
  ELSE IF s = "restore" THEN "awaitRestore"
  ELSE "awaitReset"

(* The positions of members that have yet to signal the leader in a stage, and of
   those that have done so. *)
Todo(cf, s) ==
  IF s = "arrive" THEN Pre \union {"sigArrive"}
  ELSE IF s = "backup" THEN {"awaitBackup", "sigBackup"}
  ELSE IF s = "program" THEN {"awaitProgram", "sigProgram"}
  ELSE IF s = "run" THEN Pre \union Loop
  ELSE IF s = "exit" THEN {"apLoop", "apCheck", IF cf.mtrrs THEN "sigRestore" ELSE "sigReset"}
  ELSE IF s = "restore" THEN {"awaitRestore", "sigReset"}
  ELSE IF s = "reset" THEN {"awaitReset", "apAbsent", "sigDone"}
  ELSE {}
Done(cf, s) ==
  IF s = "arrive" THEN {IF cf.mtrrs THEN "awaitBackup" ELSE "apLoop"}
  ELSE IF s = "backup" THEN {"awaitProgram"}
  ELSE IF s = "program" THEN {"apLoop"}
  ELSE IF s = "exit" THEN {IF cf.mtrrs THEN "awaitRestore" ELSE "awaitReset"}
  ELSE IF s = "restore" THEN {"awaitReset"}
  ELSE {}

(* What the position of the leader says: it has set InsideSmm, it has locked the
   counter, procedures may be scheduled. *)
InsideL == (ArriveL \ {"bspClear", "bspInside"}) \union BackupL \union ProgramL \union RunL
Locked(cf, l) == l \in BspLocked \/ (l \in BspRun /\ Gathers(cf)) \/ l = "clearInside"
Serving == {"handler", "blockBusy", "drain"}

(* The counter is locked and has vacancies to be filled. *)
OpenL == {"waitArrive", "countPresent"}

(* The release loop of the leader, at index n, has passed processor d. *)
Released(l, n, d) == l \in Releases => d >= n

(* Present is determined by the position. *)
BspPresentL == Lead \ ({"bspClear", "bspInside", "bspPresent", "waitReset"} \union EndL)
PresentPc == (Member \ (Pre \union {"sigDone"})) \union BspPresentL

(* The number of processors at a position of S. *)
Num(p, S) == Cardinality({d \in Cpu : p[d] \in S})

-----------------------------------------------------------------------------
(* The invariant *)

(* Member d is at k with Run = r, Busy = y, BspIndex = m, while the leader b is at
   l with loop index n. *)
Place(cf, b, l, n, d, k, r, y, m) ==
  /\ k \in Todo(cf, Stage(cf, l)) \union Done(cf, Stage(cf, l))
  /\ k \in Pre => \/ Stage(cf, l) = "arrive"
                  \/ Stage(cf, l) = "run" /\ ~Gathers(cf) /\ l # "clearInside"
  /\ (k \notin Early /\ Stage(cf, l) \in {"arrive", "run"}) => l \in InsideL
  /\ k \notin Early \union {"apBsp"} => m = b
  /\ Stage(cf, l) \in Gated =>
       /\ r = IF k = Gate(Stage(cf, l)) /\ Released(l, n, d) THEN 1 ELSE 0
       /\ k # Gate(Stage(cf, l)) => Released(l, n, d)
  /\ Stage(cf, l) \in {"arrive", "run"} =>
       r = IF Stage(cf, l) = "run" /\ k = "apLoop" /\ y = TRUE THEN 1 ELSE 0
  /\ (y = TRUE /\ k # "initBusy") =>
       Stage(cf, l) = "run" /\ l \in Serving /\ k \in Loop /\ (l = "drain" => d < n)
  /\ (k \in Loop \ {"apLoop"} /\ Stage(cf, l) = "run") => y = TRUE

(* The words of mSmmMpSyncData when leader b is at l.  AllCpusInSync is not among
   them: the last BSP may clear it at any time. *)
Words(cf, b, l, index, inside) ==
  /\ index = IF l = "resetCounter" /\ cf.election THEN NoBsp ELSE b
  /\ inside = TRUE <=> l \in InsideL

(* Which platforms lead to l. *)
Path(cf, l) ==
  /\ l \in {"arrive1", "sendIpi", "arrive2", "waitArrive"} => Gathers(cf)
  /\ l = "countPresent" => ~Gathers(cf)
  /\ l \in BackupL \union ProgramL \union RestoreL => cf.mtrrs

(* The counter, and the signals of the members: leader at l with loop index n,
   ApCount a and Run r, when todo members have yet to signal and num processors
   have checked in.  The locked counter lacks one for each vacancy. *)
Tally(cf, l, n, a, counter, r, todo, num) ==
  /\ ~Locked(cf, l) => counter = num /\ todo + r + 1 = num
  /\ Locked(cf, l) => counter \in 0 .. MaxWord
  /\ (Locked(cf, l) /\ l \notin OpenL) => counter = MaxWord
  /\ l \in Waits => todo + r + (MaxWord - counter) = n
  /\ (Locked(cf, l) /\ l \notin Waits \union EndL) => todo + r + (MaxWord - counter) = a
  /\ (Locked(cf, l) /\ l \notin ResetL \union EndL) => num + (MaxWord - counter) = a + 1
  /\ l \in EndL => r = 0

TodoNow(b) == Num(pc, Todo(config, Stage(config, pc[b])))

Led(b) ==
  /\ pc[b] \in Lead
  /\ \A d \in Cpu \ {b} : pc[d] \notin Lead
  /\ Words(config, b, pc[b], BspIndex, InsideSmm)
  /\ Path(config, pc[b])
  /\ \A d \in Cpu : pc[d] \in Member =>
       Place(config, b, pc[b], loc[b].n, d, pc[d], Run[d], Busy[d], loc[d].bsp)
  /\ Tally(config, pc[b], loc[b].n, loc[b].apCount, Counter, Run[b], TodoNow(b),
           Num(pc, Counted))

(* No leader: those that have checked in wait for one or are about to elect one. *)
Idle ==
  /\ \A d \in Cpu : pc[d] \notin Lead
  /\ Counter = Num(pc, Counted)
  /\ InsideSmm = FALSE
  /\ config.election => BspIndex = NoBsp \/ (BspIndex \in Cpu /\ pc[BspIndex] = "compare")
  /\ \A d \in Cpu : pc[d] \in Member =>
       pc[d] \in Early /\ Run[d] = 0 /\ (Busy[d] = TRUE => pc[d] = "initBusy")

(* What holds of each processor alone: at k with Present p, Run r, Procedure z,
   Busy y and loop index n. *)
Own(k, p, r, z, y, n) ==
  /\ p = TRUE <=> k \in PresentPc
  /\ k \in Outside => r = 0
  /\ z = TRUE => y = TRUE /\ k \in {"apLoop", "apCheck", "procedure"}
  /\ k \in Releases \union {"drain"} => n > 0

Alone == \A d \in Cpu : Own(pc[d], Present[d], Run[d], Procedure[d], Busy[d], loc[d].n)
FixedBsp == ~config.election => BspIndex = 0

SInv == TypeOK /\ FixedBsp /\ Alone /\ (Idle \/ \E b \in Cpu : Led(b))

-----------------------------------------------------------------------------
(* Counting processors *)

(* The processors are finite. *)
LEMMA CpuFinite == IsFiniteSet(Cpu) /\ Cardinality(Cpu) = N
<1>1. 0 \in Int /\ N - 1 \in Int /\ N > 0
  BY SmmAssumption
<1>2. /\ IsFiniteSet(0 .. (N - 1))
      /\ Cardinality(0 .. (N - 1)) = IF 0 > N - 1 THEN 0 ELSE (N - 1) - 0 + 1
  BY <1>1, FS_Interval
<1>3. N \in Nat
  BY SmmAssumption
<1>4. ~(0 > N - 1) /\ (N - 1) - 0 + 1 = N
  BY <1>1, <1>3
<1> QED BY <1>2, <1>4 DEF Cpu

(* The set counted. *)
LEMMA NumSet ==
  ASSUME NEW p, NEW S
  PROVE  /\ IsFiniteSet({d \in Cpu : p[d] \in S})
         /\ Num(p, S) \in Nat /\ Num(p, S) <= N
<1>1. {d \in Cpu : p[d] \in S} \in SUBSET Cpu
  OBVIOUS
<1>2. IsFiniteSet({d \in Cpu : p[d] \in S}) /\ Num(p, S) <= N
  BY <1>1, CpuFinite, FS_Subset DEF Num
<1> QED BY <1>2, FS_CardinalityType DEF Num

(* The same processors are counted. *)
LEMMA NumSame ==
  ASSUME NEW p, NEW S, NEW q, NEW T, \A d \in Cpu : p[d] \in S <=> q[d] \in T
  PROVE  Num(p, S) = Num(q, T)
<1>1. {d \in Cpu : p[d] \in S} = {d \in Cpu : q[d] \in T}
  OBVIOUS
<1> QED BY <1>1 DEF Num

(* One more is counted. *)
LEMMA NumAdd ==
  ASSUME NEW p, NEW S, NEW q, NEW T, NEW c \in Cpu, p[c] \notin S, q[c] \in T,
         \A d \in Cpu \ {c} : p[d] \in S <=> q[d] \in T
  PROVE  Num(q, T) = Num(p, S) + 1
<1>1. {d \in Cpu : q[d] \in T} = {d \in Cpu : p[d] \in S} \cup {c}
  OBVIOUS
<1>2. c \notin {d \in Cpu : p[d] \in S}
  OBVIOUS
<1>3. IsFiniteSet({d \in Cpu : p[d] \in S})
  BY NumSet
<1>4. Cardinality({d \in Cpu : p[d] \in S} \cup {c}) = Cardinality({d \in Cpu : p[d] \in S}) + 1
  BY <1>2, <1>3, FS_AddElement
<1> QED BY <1>1, <1>4 DEF Num

(* Nobody is counted. *)
LEMMA NumZero ==
  ASSUME NEW p, NEW S
  PROVE  Num(p, S) = 0 <=> \A d \in Cpu : p[d] \notin S
<1>1. Num(p, S) = 0 <=> {d \in Cpu : p[d] \in S} = {}
  BY NumSet, FS_EmptySet DEF Num
<1> QED BY <1>1

(* Fewer are counted. *)
LEMMA NumLess ==
  ASSUME NEW p, NEW S, NEW q, NEW T, NEW c \in Cpu, p[c] \notin S, q[c] \in T,
         \A d \in Cpu : p[d] \in S => q[d] \in T
  PROVE  Num(p, S) < Num(q, T)
<1> DEFINE A == {d \in Cpu : p[d] \in S}
           B == {d \in Cpu : q[d] \in T}
<1>1. A \in SUBSET B /\ A # B
  OBVIOUS
<1>2. /\ IsFiniteSet(B)
      /\ Cardinality(A) = Num(p, S) /\ Cardinality(B) = Num(q, T)
  BY NumSet DEF Num
<1>3. Num(p, S) \in Nat /\ Num(q, T) \in Nat
  BY NumSet
<1> HIDE DEF A, B
<1>4. Cardinality(A) <= Cardinality(B) /\ Cardinality(A) # Cardinality(B)
  BY <1>1, <1>2, FS_Subset
<1> QED BY <1>2, <1>3, <1>4

-----------------------------------------------------------------------------
(* Positions and moves *)

Locals == [valid : BOOLEAN, inProgress : BOOLEAN, bsp : Cpu \union {NoBsp},
           apCount : 0 .. N, saved : {"os", "smm"}, n : 0 .. N]

(* Processor c, and no other, goes to k. *)
Moves(c, k) ==
  /\ pc' \in [Cpu -> Pc] /\ pc'[c] = k
  /\ loc' \in [Cpu -> Locals]
  /\ \A d \in Cpu \ {c} : pc'[d] = pc[d] /\ loc'[d] = loc[d]

(* Every position is outside, or that of a member, or the leader's. *)
LEMMA Positions ==
  /\ Pc = Outside \union Member \union Lead
  /\ Outside \cap Counted = {} /\ Member \cap Lead = {}
  /\ Counted = Member \union Lead /\ Early \subseteq Pre /\ Pre \subseteq Member
  /\ Loop \subseteq Member /\ Signals \subseteq Member /\ Awaits \subseteq Member
<1>1. Pc = Outside \union Member \union Lead
  BY DEF Pc, ApPc, BspPc, Outside, Member, Lead, Pre, Loop, Signals, Awaits
<1>2. Outside \cap Member = {}
  BY DEF Outside, Member, Pre, Loop, Signals, Awaits
<1>3. Outside \cap Lead = {}
  BY DEF Outside, Lead, BspPc, BspEntry, BspLocked, BspRun, Releases, Waits
<1>4. Member \cap Lead = {}
  BY DEF Member, Lead, Pre, Loop, Signals, Awaits, BspPc, BspEntry, BspLocked, BspRun,
         Releases, Waits
<1>5. Early \subseteq Pre /\ Pre \subseteq Member /\ Loop \subseteq Member
      /\ Signals \subseteq Member /\ Awaits \subseteq Member
  BY DEF Early, Member
<1> QED BY <1>1, <1>2, <1>3, <1>4, <1>5 DEF Counted

(* The positions of a stage are those of members. *)
LEMMA TodoMember ==
  ASSUME NEW cf, NEW s
  PROVE  Todo(cf, s) \subseteq Member /\ Done(cf, s) \subseteq Member
<1>1. {"awaitBackup", "sigBackup", "awaitProgram", "sigProgram", "awaitRestore", "sigReset",
       "awaitReset", "sigDone", "apAbsent", "sigArrive", "sigRestore"} \subseteq Member
  BY DEF Member, Signals, Awaits
<1>2. Pre \subseteq Member /\ Loop \subseteq Member /\ "apLoop" \in Member /\ "apCheck" \in Member
  BY DEF Member, Loop
<1>3. {"apLoop", "apCheck", IF cf.mtrrs THEN "sigRestore" ELSE "sigReset"} \subseteq Member
  BY <1>1, <1>2
<1>4. {IF cf.mtrrs THEN "awaitBackup" ELSE "apLoop"} \subseteq Member
      /\ {IF cf.mtrrs THEN "awaitRestore" ELSE "awaitReset"} \subseteq Member
  BY <1>1, <1>2
<1>5. Todo(cf, s) \subseteq Member
  BY <1>1, <1>2, <1>3 DEF Todo
<1>6. Done(cf, s) \subseteq Member
  BY <1>1, <1>2, <1>4 DEF Done
<1> QED BY <1>5, <1>6

(* Where a loop starts. *)
LEMMA LoopStarts ==
  ASSUME NEW k, NEW a \in 0 .. N
  PROVE  /\ LoopStart(k, a) \in 0 .. N
         /\ k \in Releases \union {"drain"} => LoopStart(k, a) = N
         /\ k \in Waits => LoopStart(k, a) = a
         /\ N \in Nat /\ N > 0
<1>0. N \in Nat /\ N > 0
  BY SmmAssumption
<1>1. (Releases \union {"drain"}) \cap Waits = {}
  BY DEF Releases, Waits
<1>2. CASE k \in Releases \union {"drain"}
  BY <1>0, <1>1, <1>2 DEF LoopStart
<1>3. CASE k \in Waits
  BY <1>0, <1>1, <1>3 DEF LoopStart
<1>4. CASE k \notin Waits /\ k \notin Releases \union {"drain"}
  BY <1>0, <1>4 DEF LoopStart
<1> QED BY <1>2, <1>3, <1>4

(* Types of single words. *)
LEMMA Typed ==
  ASSUME TypeOK, NEW c \in Cpu
  PROVE  /\ Run[c] \in Nat /\ Run[c] \in 0 .. MaxWord /\ MaxWord \in Nat /\ MaxWord > N + 1
         /\ N \in Nat /\ N > 0
         /\ loc[c] \in Locals /\ loc[c].n \in 0 .. N /\ loc[c].apCount \in 0 .. N
         /\ loc[c].n \in Nat /\ loc[c].apCount \in Nat
         /\ pc[c] \in Pc /\ Busy[c] \in BOOLEAN /\ Present[c] \in BOOLEAN
         /\ Procedure[c] \in BOOLEAN /\ c \in Nat /\ c < N
<1>1. MaxWord \in Nat /\ MaxWord > N + 1 /\ N \in Nat /\ N > 0
  BY SmmAssumption DEF MaxWord
<1>2. Run[c] \in 0 .. MaxWord /\ pc[c] \in Pc
  BY DEF TypeOK
<1>3. Busy[c] \in BOOLEAN /\ Present[c] \in BOOLEAN /\ Procedure[c] \in BOOLEAN
  BY DEF TypeOK
<1>4. loc[c] \in Locals
  BY DEF TypeOK, Locals
<1>5. loc[c].n \in 0 .. N /\ loc[c].apCount \in 0 .. N
  BY <1>4 DEF Locals
<1>6. c \in Nat /\ c < N
  BY <1>1 DEF Cpu
<1> QED BY <1>1, <1>2, <1>3, <1>4, <1>5, <1>6

(* GotoWith moves one processor. *)
LEMMA GotoMoves ==
  ASSUME TypeOK, NEW c \in Cpu, NEW k \in Pc, NEW f \in Locals, GotoWith(c, k, f)
  PROVE  /\ Moves(c, k)
         /\ loc'[c].bsp = f.bsp /\ loc'[c].apCount = f.apCount /\ loc'[c].saved = f.saved
         /\ loc'[c].n = LoopStart(k, f.apCount)
<1>1. pc \in [Cpu -> Pc] /\ loc \in [Cpu -> Locals]
  BY DEF TypeOK, Locals
<1>2. f.apCount \in 0 .. N
  BY DEF Locals
<1>3. LoopStart(k, f.apCount) \in 0 .. N
  BY <1>2, LoopStarts
<1>4. DEFINE g == [f EXCEPT !.n = LoopStart(k, f.apCount)]
<1>5. g \in Locals /\ g.bsp = f.bsp /\ g.apCount = f.apCount /\ g.saved = f.saved
      /\ g.n = LoopStart(k, f.apCount)
  BY <1>3 DEF Locals
<1>6. pc' = [pc EXCEPT ![c] = k] /\ loc' = [loc EXCEPT ![c] = g]
  BY DEF GotoWith
<1> HIDE DEF g
<1>7. Moves(c, k)
  BY <1>1, <1>5, <1>6 DEF Moves
<1>8. loc'[c] = g
  BY <1>1, <1>6
<1> QED BY <1>5, <1>7, <1>8

(* Goto keeps the locals. *)
LEMMA JustGoto ==
  ASSUME TypeOK, NEW c \in Cpu, NEW k \in Pc, Goto(c, k)
  PROVE  /\ Moves(c, k)
         /\ loc'[c].bsp = loc[c].bsp /\ loc'[c].apCount = loc[c].apCount
         /\ loc'[c].saved = loc[c].saved
         /\ loc'[c].n = LoopStart(k, loc[c].apCount)
<1>1. loc[c] \in Locals
  BY DEF TypeOK, Locals
<1> QED BY <1>1, GotoMoves DEF Goto

(* Exit forgets them. *)
LEMMA ExitMoves ==
  ASSUME TypeOK, NEW c \in Cpu, Exit(c)
  PROVE  Moves(c, "normal") /\ loc'[c].saved = "os"
<1>1. NoLocals \in Locals /\ NoLocals.saved = "os"
  BY SmmAssumption DEF NoLocals, Locals
<1>2. "normal" \in Pc
  BY DEF Pc
<1> QED BY <1>1, <1>2, GotoMoves DEF Exit

(* How a move changes a count. *)
LEMMA MoveNum ==
  ASSUME NEW c \in Cpu, NEW k, Moves(c, k), NEW S
  PROVE  /\ (pc[c] \in S <=> k \in S) => Num(pc', S) = Num(pc, S)
         /\ (pc[c] \notin S /\ k \in S) => Num(pc', S) = Num(pc, S) + 1
         /\ (pc[c] \in S /\ k \notin S) => Num(pc, S) = Num(pc', S) + 1
<1>1. pc'[c] = k
  BY DEF Moves
<1>2. \A d \in Cpu \ {c} : pc'[d] \in S <=> pc[d] \in S
  BY DEF Moves
<1>3. ASSUME pc[c] \in S <=> k \in S PROVE Num(pc', S) = Num(pc, S)
  <2>1. \A d \in Cpu : pc'[d] \in S <=> pc[d] \in S
    BY <1>1, <1>2, <1>3
  <2> QED BY <2>1, NumSame
<1>4. ASSUME pc[c] \notin S, k \in S PROVE Num(pc', S) = Num(pc, S) + 1
  BY <1>1, <1>2, <1>4, NumAdd
<1>5. ASSUME pc[c] \in S, k \notin S PROVE Num(pc, S) = Num(pc', S) + 1
  BY <1>1, <1>2, <1>5, NumAdd
<1> QED BY <1>3, <1>4, <1>5

-----------------------------------------------------------------------------
(* Frame lemmas *)

(* A step of a processor that does not lead keeps the leader, if the processor has
   its place and the counts are right. *)
LEMMA KeepsLed ==
  ASSUME NEW b \in Cpu, Led(b), NEW c \in Cpu, pc[c] \notin Lead, NEW k, k \notin Lead,
         Moves(c, k),
         config' = config, BspIndex' = BspIndex, InsideSmm' = InsideSmm,
         \A d \in Cpu \ {b, c} : Run'[d] = Run[d],
         \A d \in Cpu \ {c} : Busy'[d] = Busy[d],
         k \in Member =>
           Place(config, b, pc[b], loc[b].n, c, k, Run'[c], Busy'[c], loc'[c].bsp),
         Tally(config, pc[b], loc[b].n, loc[b].apCount, Counter', Run'[b],
               Num(pc', Todo(config, Stage(config, pc[b]))), Num(pc', Counted))
  PROVE  Led(b)'
<1>1. c # b /\ pc'[b] = pc[b] /\ loc'[b] = loc[b] /\ pc'[c] = k
  BY DEF Led, Moves
<1>2. \A d \in Cpu \ {b} : pc'[d] \notin Lead
  BY <1>1 DEF Led, Moves
<1>3. ASSUME NEW d \in Cpu, pc'[d] \in Member
      PROVE  Place(config', b, pc'[b], loc'[b].n, d, pc'[d], Run'[d], Busy'[d], loc'[d].bsp)
  <2>1. CASE d = c
    BY <1>1, <1>3, <2>1
  <2>2. CASE d # c
    <3>1. pc'[d] = pc[d] /\ loc'[d] = loc[d] /\ Busy'[d] = Busy[d]
      BY <2>2 DEF Moves
    <3>2. d # b
      BY <1>1, <1>3, Positions DEF Led
    <3>3. Run'[d] = Run[d]
      BY <2>2, <3>2
    <3>4. Place(config, b, pc[b], loc[b].n, d, pc[d], Run[d], Busy[d], loc[d].bsp)
      BY <1>3, <3>1 DEF Led
    <3> QED BY <1>1, <3>1, <3>3, <3>4
  <2> QED BY <2>1, <2>2
<1>4. Words(config', b, pc'[b], BspIndex', InsideSmm') /\ Path(config', pc'[b])
  BY <1>1 DEF Led
<1>5. Tally(config', pc'[b], loc'[b].n, loc'[b].apCount, Counter', Run'[b],
            Num(pc', Todo(config', Stage(config', pc'[b]))), Num(pc', Counted))
  BY <1>1
<1>6. pc'[b] \in Lead
  BY <1>1 DEF Led
<1> QED BY <1>2, <1>3, <1>4, <1>5, <1>6 DEF Led, TodoNow

(* A step of c keeps what holds of each processor alone. *)
LEMMA KeepsAlone ==
  ASSUME Alone, NEW c \in Cpu, NEW k, Moves(c, k),
         \A d \in Cpu \ {c} : /\ Present'[d] = Present[d] /\ Procedure'[d] = Procedure[d]
                              /\ Busy'[d] = Busy[d]
                              /\ Run'[d] = Run[d] \/ pc[d] \notin Outside,
         Own(k, Present'[c], Run'[c], Procedure'[c], Busy'[c], loc'[c].n)
  PROVE  Alone'
<1> SUFFICES ASSUME NEW d \in Cpu
             PROVE  Own(pc'[d], Present'[d], Run'[d], Procedure'[d], Busy'[d], loc'[d].n)
  BY DEF Alone
<1>1. CASE d = c
  BY <1>1 DEF Moves
<1>2. CASE d # c
  <2>1. pc'[d] = pc[d] /\ loc'[d] = loc[d]
    BY <1>2 DEF Moves
  <2>2. Own(pc[d], Present[d], Run[d], Procedure[d], Busy[d], loc[d].n)
    BY DEF Alone
  <2> QED BY <1>2, <2>1, <2>2 DEF Own
<1> QED BY <1>1, <1>2

(* Positions that say nothing of Present, procedures and loops. *)
LEMMA PlainPositions ==
  /\ \A k \in Outside \union Pre : /\ k \notin PresentPc
                                   /\ k \notin {"apLoop", "apCheck", "procedure"}
                                   /\ k \notin Releases \union {"drain"}
  /\ \A k \in Pre \union Lead : k \notin Outside
  /\ \A k \in Member : k \notin Releases \union {"drain"}
  /\ \A k \in Member \ Pre : k # "sigDone" => k \in PresentPc
<1>1. Releases \subseteq Lead /\ "drain" \in Lead /\ BspPresentL \subseteq Lead
  BY DEF Lead, BspPc, BspLocked, BspRun, BspPresentL
<1>2. (Outside \union Pre) \cap Lead = {}
  BY Positions
<1>3. PresentPc = (Member \ (Pre \union {"sigDone"})) \union BspPresentL
  BY DEF PresentPc
<1>4. {"apLoop", "apCheck", "procedure"} \cap (Outside \union Pre) = {}
  BY DEF Outside, Pre
<1>5. Outside \cap Member = {} /\ Member \cap Lead = {}
  BY Positions
<1> QED BY <1>1, <1>2, <1>3, <1>4, <1>5, Positions

(* The shared words and flags that the invariant is about do not change. *)
Steady ==
  /\ config' = config /\ Counter' = Counter /\ InsideSmm' = InsideSmm
  /\ BspIndex' = BspIndex
  /\ Run' = Run /\ Busy' = Busy /\ Present' = Present /\ Procedure' = Procedure

(* A processor that has not checked in moves. *)
LEMMA OutsideStep ==
  ASSUME SInv, TypeOK', NEW c \in Cpu, pc[c] \in Outside, NEW k \in Outside, Moves(c, k), Steady
  PROVE  SInv'
<1>1. FixedBsp'
  BY DEF SInv, FixedBsp, Steady
<1>2. Alone'
  <2>1. Own(pc[c], Present[c], Run[c], Procedure[c], Busy[c], loc[c].n)
    BY DEF SInv, Alone
  <2>2. Own(k, Present'[c], Run'[c], Procedure'[c], Busy'[c], loc'[c].n)
    BY <2>1, PlainPositions DEF Own, Steady
  <2> QED BY <2>2, KeepsAlone DEF SInv, Steady
<1>3. \A S : S \subseteq Counted => Num(pc', S) = Num(pc, S)
  <2> TAKE S
  <2> HAVE S \subseteq Counted
  <2>1. \A d \in Cpu : pc'[d] \in S <=> pc[d] \in S
    BY Positions DEF Moves
  <2> QED BY <2>1, NumSame
<1>4. k \notin Lead /\ k \notin Member /\ pc[c] \notin Lead /\ pc[c] \notin Member
  BY Positions
<1>5. ASSUME Idle PROVE Idle'
  <2>1. Num(pc', Counted) = Num(pc, Counted)
    BY <1>3
  <2>2. \A d \in Cpu : pc'[d] \notin Lead
    BY <1>4, <1>5 DEF Idle, Moves
  <2>3. \A d \in Cpu : pc'[d] \in Member => d # c /\ pc'[d] = pc[d]
    BY <1>4 DEF Moves
  <2>4. config.election => BspIndex = NoBsp \/ (BspIndex \in Cpu /\ pc'[BspIndex] = "compare")
    <3>1. "compare" \notin Outside
      BY DEF Outside
    <3> QED BY <1>5, <3>1 DEF Idle, Moves
  <2> QED BY <1>5, <2>1, <2>2, <2>3, <2>4 DEF Idle, Steady
<1>6. ASSUME NEW b \in Cpu, Led(b) PROVE Led(b)'
  <2>1. Num(pc', Todo(config, Stage(config, pc[b]))) = TodoNow(b)
    BY <1>3, TodoMember DEF Counted, TodoNow
  <2>2. Num(pc', Counted) = Num(pc, Counted)
    BY <1>3
  <2>3. Tally(config, pc[b], loc[b].n, loc[b].apCount, Counter', Run'[b],
              Num(pc', Todo(config, Stage(config, pc[b]))), Num(pc', Counted))
    BY <1>6, <2>1, <2>2 DEF Led, Steady
  <2> QED BY <1>4, <1>6, <2>3, KeepsLed DEF Steady
<1> QED BY <1>1, <1>2, <1>5, <1>6 DEF SInv

(* A Busy lock that nobody holds. *)
Free(y) == y # TRUE

(* A processor that waits for a leader. *)
LEMMA EarlyPlace ==
  ASSUME NEW cf, NEW b, NEW l, NEW n, NEW d, NEW k \in Early, NEW r, NEW y, NEW m, NEW j,
         NEW y2, NEW m2,
         Place(cf, b, l, n, d, k, r, y, m),
         j \in (Early \ {"initBusy"}) \union {"apBsp"}, Free(y2),
         j = "apBsp" => l \in InsideL
  PROVE  /\ Place(cf, b, l, n, d, j, r, y2, m2)
         /\ k \in Todo(cf, Stage(cf, l)) /\ j \in Todo(cf, Stage(cf, l))
         /\ r = 0
<1> DEFINE s == Stage(cf, l)
<1>1. k \in Pre /\ j \in Pre /\ k # "apLoop" /\ j # "apLoop" /\ k \notin Loop /\ j \notin Loop
  BY DEF Early, Pre, Loop
<1>2. s = "arrive" \/ (s = "run" /\ ~Gathers(cf) /\ l # "clearInside")
  BY <1>1 DEF Place
<1>3. k \in Todo(cf, s) /\ j \in Todo(cf, s)
  BY <1>1, <1>2 DEF Todo
<1>4. s \notin Gated /\ s \in {"arrive", "run"}
  BY <1>2 DEF Gated
<1>5. r = 0
  BY <1>1, <1>4 DEF Place
<1> QED BY <1>1, <1>2, <1>3, <1>4, <1>5 DEF Place, Free

(* The members may still be early exactly when the leader has not locked the counter
   or waits until its vacancies are filled. *)
LEMMA OpenStage ==
  ASSUME NEW cf, NEW l \in Lead
  PROVE  /\ (~Locked(cf, l) \/ (l \in OpenL /\ Path(cf, l))) =>
              \/ Stage(cf, l) = "arrive"
              \/ Stage(cf, l) = "run" /\ ~Gathers(cf) /\ l # "clearInside"
         /\ (Stage(cf, l) = "arrive" \/ (Stage(cf, l) = "run" /\ ~Gathers(cf) /\ l # "clearInside")) =>
              ~Locked(cf, l) \/ l \in OpenL
         /\ l \in EndL => Stage(cf, l) = "end"
         /\ l \in {"bspClear", "bspInside"} => ~Locked(cf, l)
         /\ (Stage(cf, l) \in {"arrive", "run"} /\ l \notin InsideL) => l \in {"bspClear", "bspInside"}
<1>1. l \in ArriveL \union BackupL \union ProgramL \union RunL \union ExitL \union RestoreL
            \union ResetL \union EndL
  BY DEF Lead, BspPc, BspEntry, BspLocked, BspRun, Releases, Waits, ArriveL, BackupL, ProgramL,
         RunL, ExitL, RestoreL, ResetL, EndL
<1>2. ~Locked(cf, l) => l \in ArriveL \union RunL
  BY <1>1 DEF Locked, BspLocked, Releases, Waits, BackupL, ProgramL, ExitL, RestoreL, ResetL, EndL
<1>3. ~Locked(cf, l) /\ l \in RunL => ~Gathers(cf) /\ l # "clearInside"
  BY DEF Locked, RunL, BspLocked
<1>4. ArriveL \cap RunL = {} /\ "clearInside" \notin ArriveL
  BY DEF ArriveL, RunL, BspRun
<1>5. RunL \cap (BackupL \union ProgramL) = {}
  BY DEF BackupL, ProgramL, RunL, BspRun
<1>6. EndL \cap (ArriveL \union BackupL \union ProgramL \union RunL \union ExitL \union RestoreL
                  \union ResetL) = {}
  BY DEF BspRun, ArriveL, BackupL, ProgramL, RunL, ExitL, RestoreL, ResetL, EndL
<1>7. l \in EndL => Stage(cf, l) = "end"
  BY <1>6 DEF Stage
<1>8. l \in {"bspClear", "bspInside"} => ~Locked(cf, l)
  BY DEF Locked, BspLocked, BspRun, Releases, Waits
<1>9. l \in ArriveL \/ l \in RunL \/ Stage(cf, l) \notin {"arrive", "run"}
  BY DEF Stage
<1>10. (Stage(cf, l) \in {"arrive", "run"} /\ l \notin InsideL) => l \in {"bspClear", "bspInside"}
  BY <1>9 DEF InsideL
<1>11. l \in ArriveL \union RunL => Stage(cf, l) = IF l \in ArriveL /\ Gathers(cf) THEN "arrive" ELSE "run"
  BY <1>4, <1>5 DEF Stage
<1>12. /\ l \in ArriveL /\ Locked(cf, l) => l \in OpenL
       /\ l \in RunL /\ Locked(cf, l) /\ ~Gathers(cf) /\ l # "clearInside" => l \in OpenL
  BY DEF ArriveL, RunL, BspRun, Locked, BspLocked, Releases, Waits, OpenL
<1>13. l \in OpenL /\ Path(cf, l) =>
         l \in ArriveL \union RunL /\ l # "clearInside" /\ (l \in RunL => ~Gathers(cf))
  BY <1>4 DEF OpenL, Path, ArriveL, RunL
<1> DEFINE open == Stage(cf, l) = "arrive" \/ (Stage(cf, l) = "run" /\ ~Gathers(cf) /\ l # "clearInside")
<1>14. ~Locked(cf, l) => open
  BY <1>2, <1>3, <1>4, <1>11
<1>15. l \in OpenL /\ Path(cf, l) => open
  <2>1. l \in OpenL /\ Path(cf, l) /\ l \in ArriveL => open
    BY <1>4, <1>11
  <2>2. l \in OpenL /\ Path(cf, l) /\ l \in RunL => open
    BY <1>4, <1>11, <1>13
  <2> QED BY <1>13, <2>1, <2>2
<1>16. open => ~Locked(cf, l) \/ l \in OpenL
  <2>1. l \in RunL => l \notin ArriveL /\ Stage(cf, l) = "run"
    BY <1>4, <1>11
  <2> QED BY <1>9, <1>12, <2>1
<1> QED BY <1>7, <1>8, <1>10, <1>14, <1>15, <1>16

(* At the end of a run there are no members. *)
LEMMA EndEmpty ==
  ASSUME NEW b \in Cpu, Led(b), pc[b] \in EndL, NEW d \in Cpu
  PROVE  pc[d] \notin Member
<1> SUFFICES ASSUME pc[d] \in Member PROVE FALSE
  OBVIOUS
<1>1. Place(config, b, pc[b], loc[b].n, d, pc[d], Run[d], Busy[d], loc[d].bsp)
  BY DEF Led
<1>2. Stage(config, pc[b]) = "end"
  BY OpenStage DEF Led
<1>3. Todo(config, "end") = {} /\ Done(config, "end") = {}
  BY DEF Todo, Done
<1> QED BY <1>1, <1>2, <1>3 DEF Place

(* An early processor moves on. *)
LEMMA EarlyStep ==
  ASSUME SInv, TypeOK', NEW c \in Cpu, pc[c] \in Early,
         NEW k \in (Early \ {"initBusy"}) \union {"apBsp"}, Moves(c, k),
         config' = config, Counter' = Counter, InsideSmm' = InsideSmm,
         BspIndex' = BspIndex, Run' = Run,
         Present' = Present, Procedure' = Procedure,
         \A d \in Cpu \ {c} : Busy'[d] = Busy[d],
         IF pc[c] = "initBusy" THEN Busy'[c] = FALSE ELSE Busy'[c] = Busy[c],
         pc[c] = "compare" => BspIndex # c,
         k = "apBsp" => InsideSmm = TRUE
  PROVE  SInv'
<1>0. k \in Pre /\ pc[c] \in Pre /\ k \in Member /\ pc[c] \in Member
      /\ k \notin Lead /\ pc[c] \notin Lead
  <2>1. k \in Pre /\ pc[c] \in Pre
    BY DEF Early, Pre
  <2> QED BY <2>1, Positions
<1>1. FixedBsp'
  BY DEF SInv, FixedBsp
<1>2. Alone'
  <2>1. Own(pc[c], Present[c], Run[c], Procedure[c], Busy[c], loc[c].n)
    BY DEF SInv, Alone
  <2>2. Own(k, Present'[c], Run'[c], Procedure'[c], Busy'[c], loc'[c].n)
    BY <1>0, <2>1, PlainPositions DEF Own
  <2> QED BY <2>2, KeepsAlone DEF SInv
<1>3. Num(pc', Counted) = Num(pc, Counted)
  <2>1. \A d \in Cpu : pc'[d] \in Counted <=> pc[d] \in Counted
    BY <1>0 DEF Moves, Counted
  <2> QED BY <2>1, NumSame
<1>5. ASSUME Idle PROVE Idle'
  <2>1. k \in Early /\ k # "initBusy" /\ k # "apBsp"
    BY <1>5 DEF Idle
  <2>2. \A d \in Cpu : pc'[d] \notin Lead
    BY <1>0, <1>5 DEF Idle, Moves
  <2>3. Busy'[c] # TRUE
    BY <1>0, <1>5 DEF Idle
  <2>4. \A d \in Cpu : pc'[d] \in Member =>
          pc'[d] \in Early /\ Run'[d] = 0 /\ (Busy'[d] = TRUE => pc'[d] = "initBusy")
    BY <1>0, <1>5, <2>1, <2>3 DEF Idle, Moves
  <2>5. config.election => BspIndex = NoBsp \/ (BspIndex \in Cpu /\ pc'[BspIndex] = "compare")
    BY <1>5 DEF Idle, Moves
  <2> QED BY <1>3, <1>5, <2>2, <2>4, <2>5 DEF Idle
<1>6. ASSUME NEW b \in Cpu, Led(b) PROVE Led(b)'
  <2>1. Place(config, b, pc[b], loc[b].n, c, pc[c], Run[c], Busy[c], loc[c].bsp)
    BY <1>0, <1>6 DEF Led
  <2>2. InsideSmm = TRUE <=> pc[b] \in InsideL
    BY <1>6 DEF Led, Words
  <2>4. /\ Place(config, b, pc[b], loc[b].n, c, k, Run[c], Busy'[c], loc'[c].bsp)
        /\ pc[c] \in Todo(config, Stage(config, pc[b])) /\ k \in Todo(config, Stage(config, pc[b]))
    <3>2. k = "apBsp" => pc[b] \in InsideL
      BY <2>2
    <3>3. Busy'[c] # TRUE
      <4>1. pc[c] \notin Loop
        BY DEF Early, Pre, Loop
      <4>2. pc[c] # "initBusy" => Busy[c] # TRUE
        BY <2>1, <4>1 DEF Place
      <4> QED BY <4>2
    <3>4. \A m2 : Place(config, b, pc[b], loc[b].n, c, k, Run[c], Busy'[c], m2)
                  /\ pc[c] \in Todo(config, Stage(config, pc[b]))
                  /\ k \in Todo(config, Stage(config, pc[b]))
      <4> TAKE m2
      <4>1. Free(Busy'[c])
        BY <3>3 DEF Free
      <4> QED BY <2>1, <3>2, <4>1, EarlyPlace
    <3> QED BY <3>4
  <2>5. Num(pc', Todo(config, Stage(config, pc[b]))) = TodoNow(b)
    <3>1. \A d \in Cpu : pc'[d] \in Todo(config, Stage(config, pc[b]))
                         <=> pc[d] \in Todo(config, Stage(config, pc[b]))
      BY <2>4 DEF Moves
    <3> QED BY <3>1, NumSame DEF TodoNow
  <2>6. Tally(config, pc[b], loc[b].n, loc[b].apCount, Counter', Run'[b],
              Num(pc', Todo(config, Stage(config, pc[b]))), Num(pc', Counted))
    BY <1>3, <1>6, <2>5 DEF Led
  <2> QED BY <1>0, <1>6, <2>4, <2>6, KeepsLed
<1> QED BY <1>1, <1>2, <1>5, <1>6 DEF SInv

(* A processor checks in. *)
LEMMA JoinStep ==
  ASSUME SInv, TypeOK', NEW c \in Cpu, pc[c] = "checkIn", Moves(c, "initBusy"),
         Counter # MaxWord, Counter' = Counter + 1,
         config' = config, InsideSmm' = InsideSmm,
         BspIndex' = BspIndex, Run' = Run, Busy' = Busy, Present' = Present,
         Procedure' = Procedure
  PROVE  SInv'
<1>0. /\ "initBusy" \in Pre /\ "initBusy" \in Member /\ "initBusy" \notin Lead
      /\ "initBusy" \in Early /\ "checkIn" \in Outside
      /\ pc[c] \notin Lead /\ pc[c] \notin Member
  <2>1. "initBusy" \in Pre /\ "initBusy" \in Early /\ "checkIn" \in Outside
    BY DEF Pre, Early, Outside
  <2> QED BY <2>1, Positions
<1>1. FixedBsp'
  BY DEF SInv, FixedBsp
<1>2. Alone' /\ Run[c] = 0
  <2>1. Own(pc[c], Present[c], Run[c], Procedure[c], Busy[c], loc[c].n)
    BY DEF SInv, Alone
  <2>2. Own("initBusy", Present'[c], Run'[c], Procedure'[c], Busy'[c], loc'[c].n)
    BY <1>0, <2>1, PlainPositions DEF Own
  <2>3. Alone'
    BY <2>2, KeepsAlone DEF SInv
  <2> QED BY <1>0, <2>1, <2>3 DEF Own
<1>3. Num(pc', Counted) = Num(pc, Counted) + 1
  <2>1. "checkIn" \notin Counted /\ "initBusy" \in Counted
    BY <1>0 DEF Counted
  <2> QED BY <2>1, MoveNum
<1>5. ASSUME Idle PROVE Idle'
  <2>2. \A d \in Cpu : pc'[d] \notin Lead
    BY <1>0, <1>5 DEF Idle, Moves
  <2>4. \A d \in Cpu : pc'[d] \in Member =>
          pc'[d] \in Early /\ Run'[d] = 0 /\ (Busy'[d] = TRUE => pc'[d] = "initBusy")
    BY <1>0, <1>2, <1>5 DEF Idle, Moves
  <2>5. config.election => BspIndex = NoBsp \/ (BspIndex \in Cpu /\ pc'[BspIndex] = "compare")
    BY <1>5 DEF Idle, Moves
  <2> QED BY <1>3, <1>5, <2>2, <2>4, <2>5 DEF Idle
<1>6. ASSUME NEW b \in Cpu, Led(b) PROVE Led(b)'
  <2> DEFINE s == Stage(config, pc[b])
  <2>1. (~Locked(config, pc[b]) \/ pc[b] \in OpenL) /\ pc[b] \in Lead /\ Path(config, pc[b])
    BY <1>6 DEF Led, Tally
  <2>2. s = "arrive" \/ (s = "run" /\ ~Gathers(config) /\ pc[b] # "clearInside")
    BY <2>1, OpenStage
  <2> HIDE DEF s
  <2>3. "initBusy" \in Todo(config, s) /\ s \notin Gated
    BY <1>0, <2>2 DEF Todo, Gated
  <2>4. Place(config, b, pc[b], loc[b].n, c, "initBusy", Run'[c], Busy'[c], loc'[c].bsp)
    <3>1. "initBusy" \notin Loop /\ "initBusy" # "apLoop"
      BY DEF Loop
    <3> QED BY <1>0, <1>2, <2>2, <2>3, <3>1 DEF Place, s
  <2>5. Num(pc', Todo(config, s)) = Num(pc, Todo(config, s)) + 1
    <3>1. pc[c] \notin Todo(config, s) /\ pc'[c] \in Todo(config, s)
      BY <1>0, <2>3, TodoMember DEF Moves
    <3>2. \A d \in Cpu \ {c} : pc[d] \in Todo(config, s) <=> pc'[d] \in Todo(config, s)
      BY DEF Moves
    <3> QED BY <3>1, <3>2, NumAdd
  <2>6. Tally(config, pc[b], loc[b].n, loc[b].apCount, Counter, Run[b], Num(pc, Todo(config, s)),
              Num(pc, Counted))
    BY <1>6 DEF Led, TodoNow, s
  <2>7. ~Locked(config, pc[b]) => pc[b] \notin Waits /\ pc[b] \notin EndL
    BY DEF Locked, BspLocked, EndL
  <2>8. /\ Num(pc, Todo(config, s)) \in Nat /\ Num(pc, Counted) \in Nat /\ Run[b] \in Nat
        /\ MaxWord \in Nat /\ Counter \in 0 .. MaxWord
    BY NumSet, Typed DEF SInv, TypeOK
  <2>9. Tally(config, pc[b], loc[b].n, loc[b].apCount, Counter', Run'[b],
              Num(pc', Todo(config, s)), Num(pc', Counted))
    <3>1. CASE ~Locked(config, pc[b])
      BY <1>3, <2>5, <2>6, <2>7, <2>8, <3>1 DEF Tally
    <3>2. CASE Locked(config, pc[b]) /\ pc[b] \in OpenL
      <4>1. pc[b] \notin EndL /\ Counter' \in 0 .. MaxWord
        BY <2>8, <3>2 DEF OpenL, EndL
      <4>3. Num(pc', Todo(config, s)) + Run[b] + (MaxWord - Counter')
              = Num(pc, Todo(config, s)) + Run[b] + (MaxWord - Counter)
        BY <2>5, <2>8
      <4>4. Num(pc', Counted) + (MaxWord - Counter') = Num(pc, Counted) + (MaxWord - Counter)
        BY <1>3, <2>8
      <4> QED BY <2>6, <3>2, <4>1, <4>3, <4>4 DEF Tally
    <3> QED BY <2>1, <3>1, <3>2
  <2> QED BY <1>0, <1>6, <2>4, <2>9, KeepsLed DEF s
<1> QED BY <1>1, <1>2, <1>5, <1>6 DEF SInv

(* While a processor is early, the leader if any is known. *)
LEMMA LeaderKnown ==
  ASSUME SInv, NEW c \in Cpu, pc[c] \in Early, NEW b \in Cpu, Led(b)
  PROVE  BspIndex = b /\ pc[b] \notin EndL
<1>1. pc[c] \in Member
  BY Positions
<1>2. pc[b] \notin EndL
  BY <1>1, EndEmpty
<1>3. pc[b] # "resetCounter"
  BY <1>2 DEF EndL
<1> QED BY <1>2, <1>3 DEF Led, Words

(* A processor gives up and leaves the counter. *)
LEMMA GiveUpStep ==
  ASSUME SInv, TypeOK', NEW c \in Cpu, pc[c] = "giveUp", Moves(c, "runCheck"),
         Counter > 0, Counter' = Counter - 1,
         config' = config, InsideSmm' = InsideSmm,
         BspIndex' = BspIndex, Run' = Run, Busy' = Busy, Present' = Present,
         Procedure' = Procedure
  PROVE  SInv'
<1>0. /\ "giveUp" \in Pre /\ "giveUp" \in Member /\ "giveUp" \notin Lead
      /\ "giveUp" \in Early /\ "runCheck" \in Outside
      /\ "runCheck" \notin Lead /\ "runCheck" \notin Member
  <2>1. "giveUp" \in Pre /\ "giveUp" \in Early /\ "runCheck" \in Outside
    BY DEF Pre, Early, Outside
  <2> QED BY <2>1, Positions
<1>1. FixedBsp'
  BY DEF SInv, FixedBsp
<1>2. Num(pc, Counted) = Num(pc', Counted) + 1
  <2>1. "giveUp" \in Counted /\ "runCheck" \notin Counted
    BY <1>0 DEF Counted
  <2> QED BY <2>1, MoveNum
<1>3. Num(pc, Counted) \in Nat /\ Num(pc', Counted) \in Nat
  BY NumSet
<1>4. ASSUME Idle PROVE Idle' /\ Run[c] = 0
  <2>1. Counter = Num(pc, Counted) /\ Run[c] = 0
    BY <1>0, <1>4 DEF Idle
  <2>2. \A d \in Cpu : pc'[d] \notin Lead
    BY <1>0, <1>4 DEF Idle, Moves
  <2>4. \A d \in Cpu : pc'[d] \in Member =>
          pc'[d] \in Early /\ Run'[d] = 0 /\ (Busy'[d] = TRUE => pc'[d] = "initBusy")
    BY <1>0, <1>4 DEF Idle, Moves
  <2>5. config.election => BspIndex = NoBsp \/ (BspIndex \in Cpu /\ pc'[BspIndex] = "compare")
    BY <1>4 DEF Idle, Moves
  <2>6. Counter' = Num(pc', Counted)
    BY <1>2, <1>3, <2>1
  <2> QED BY <1>4, <2>1, <2>2, <2>4, <2>5, <2>6 DEF Idle
<1>5. ASSUME NEW b \in Cpu, Led(b) PROVE Led(b)' /\ Run[c] = 0
  <2> DEFINE s == Stage(config, pc[b])
  <2>1. Place(config, b, pc[b], loc[b].n, c, "giveUp", Run[c], Busy[c], loc[c].bsp)
    BY <1>0, <1>5 DEF Led
  <2>2. /\ s = "arrive" \/ (s = "run" /\ ~Gathers(config) /\ pc[b] # "clearInside")
        /\ pc[b] \in Lead
    BY <1>0, <1>5, <2>1 DEF Place, Led
  <2>3. ~Locked(config, pc[b]) \/ pc[b] \in OpenL
    BY <2>2, OpenStage
  <2> HIDE DEF s
  <2>4. "giveUp" \in Todo(config, s)
    BY <1>0, <2>2 DEF Todo
  <2>5. Run[c] = 0
    BY <2>1, <2>2 DEF Place, s
  <2>6. Num(pc, Todo(config, s)) = Num(pc', Todo(config, s)) + 1
    <3>1. "runCheck" \notin Todo(config, s)
      BY <1>0, TodoMember
    <3> QED BY <2>4, <3>1, MoveNum
  <2>7. Tally(config, pc[b], loc[b].n, loc[b].apCount, Counter, Run[b], Num(pc, Todo(config, s)),
              Num(pc, Counted))
    BY <1>5 DEF Led, TodoNow, s
  <2>8. ~Locked(config, pc[b]) => pc[b] \notin Waits /\ pc[b] \notin EndL
    BY DEF Locked, BspLocked, EndL
  <2>9. /\ Num(pc, Todo(config, s)) \in Nat /\ Num(pc', Todo(config, s)) \in Nat /\ Run[b] \in Nat
        /\ MaxWord \in Nat /\ Counter \in 0 .. MaxWord
    BY NumSet, Typed DEF SInv, TypeOK
  <2>10. Tally(config, pc[b], loc[b].n, loc[b].apCount, Counter', Run'[b],
               Num(pc', Todo(config, s)), Num(pc', Counted))
    <3>1. CASE ~Locked(config, pc[b])
      BY <1>2, <1>3, <2>6, <2>7, <2>8, <2>9, <3>1 DEF Tally
    <3>2. CASE Locked(config, pc[b]) /\ pc[b] \in OpenL
      <4>1. pc[b] \notin EndL /\ Counter' \in 0 .. MaxWord
        BY <2>9, <3>2 DEF OpenL, EndL
      <4>2. Num(pc', Todo(config, s)) + Run[b] + (MaxWord - Counter')
              = Num(pc, Todo(config, s)) + Run[b] + (MaxWord - Counter)
        BY <2>6, <2>9
      <4>3. Num(pc', Counted) + (MaxWord - Counter') = Num(pc, Counted) + (MaxWord - Counter)
        BY <1>2, <1>3, <2>9
      <4> QED BY <2>7, <3>2, <4>1, <4>2, <4>3 DEF Tally
    <3> QED BY <2>3, <3>1, <3>2
  <2> QED BY <1>0, <1>5, <2>5, <2>10, KeepsLed DEF s
<1>6. Alone'
  <2>1. Own(pc[c], Present[c], Run[c], Procedure[c], Busy[c], loc[c].n)
    BY DEF SInv, Alone
  <2>2. Run[c] = 0
    BY <1>4, <1>5 DEF SInv
  <2>3. Own("runCheck", Present'[c], Run'[c], Procedure'[c], Busy'[c], loc'[c].n)
    BY <1>0, <2>1, <2>2, PlainPositions DEF Own
  <2> QED BY <2>3, KeepsAlone DEF SInv
<1> QED BY <1>1, <1>4, <1>5, <1>6 DEF SInv

(* A processor elects itself in BspIndex. *)
LEMMA ElectStep ==
  ASSUME SInv, TypeOK', NEW c \in Cpu, pc[c] = "cas", Moves(c, "compare"),
         BspIndex = NoBsp, BspIndex' = c,
         config' = config, Counter' = Counter, InsideSmm' = InsideSmm,
         Run' = Run, Busy' = Busy, Present' = Present,
         Procedure' = Procedure
  PROVE  SInv'
<1>0. /\ "cas" \in Pre /\ "cas" \in Early /\ "compare" \in Pre /\ "compare" \in Early
      /\ "cas" \in Member /\ "compare" \in Member /\ "cas" \notin Lead /\ "compare" \notin Lead
  <2>1. "cas" \in Pre /\ "cas" \in Early /\ "compare" \in Pre /\ "compare" \in Early
    BY DEF Pre, Early
  <2> QED BY <2>1, Positions
<1>1. NoBsp \notin Cpu /\ 0 \in Cpu
  BY SmmAssumption DEF Cpu
<1>2. config.election
  BY <1>1 DEF SInv, FixedBsp
<1>3. Idle
  BY <1>0, <1>1, LeaderKnown DEF SInv
<1>4. FixedBsp'
  BY <1>2 DEF FixedBsp
<1>5. Alone'
  <2>1. Own(pc[c], Present[c], Run[c], Procedure[c], Busy[c], loc[c].n)
    BY DEF SInv, Alone
  <2>2. Own("compare", Present'[c], Run'[c], Procedure'[c], Busy'[c], loc'[c].n)
    BY <1>0, <2>1, PlainPositions DEF Own
  <2> QED BY <2>2, KeepsAlone DEF SInv
<1>6. Num(pc', Counted) = Num(pc, Counted)
  <2>1. "cas" \in Counted /\ "compare" \in Counted
    BY <1>0 DEF Counted
  <2> QED BY <2>1, MoveNum
<1>7. Idle'
  <2>1. \A d \in Cpu : pc'[d] \notin Lead
    BY <1>0, <1>3 DEF Idle, Moves
  <2>2. \A d \in Cpu : pc'[d] \in Member =>
          pc'[d] \in Early /\ Run'[d] = 0 /\ (Busy'[d] = TRUE => pc'[d] = "initBusy")
    BY <1>0, <1>3 DEF Idle, Moves
  <2>3. BspIndex' \in Cpu /\ pc'[BspIndex'] = "compare"
    BY DEF Moves
  <2> QED BY <1>3, <1>6, <2>1, <2>2, <2>3 DEF Idle
<1> QED BY <1>4, <1>5, <1>7 DEF SInv

(* The processor that BspIndex names becomes the leader. *)
LEMMA BecomeBsp ==
  ASSUME SInv, TypeOK', NEW c \in Cpu, pc[c] = "compare", BspIndex = c, Moves(c, "bspClear"),
         Steady
  PROVE  SInv' /\ Idle /\ Led(c)'
<1>0. /\ "compare" \in Pre /\ "compare" \in Early
      /\ "compare" \in Member /\ "compare" \notin Lead
      /\ "bspClear" \in Lead /\ "bspClear" \notin Member
  <2>1. "compare" \in Pre /\ "compare" \in Early /\ "bspClear" \in Lead
    BY DEF Pre, Early, Lead
  <2> QED BY <2>1, Positions
<1>1. Idle
  <2>1. ASSUME NEW b \in Cpu, Led(b) PROVE FALSE
    <3>1. b = c
      BY <1>0, <2>1, LeaderKnown
    <3> QED BY <1>0, <2>1, <3>1 DEF Led
  <2> QED BY <2>1 DEF SInv
<1>2. FixedBsp'
  BY DEF SInv, FixedBsp, Steady
<1>3. Alone'
  <2>1. Own(pc[c], Present[c], Run[c], Procedure[c], Busy[c], loc[c].n)
    BY DEF SInv, Alone
  <2>2. /\ "bspClear" \notin PresentPc /\ "bspClear" \notin Outside
        /\ "bspClear" \notin Releases \union {"drain"}
    BY <1>0, Positions DEF PresentPc, BspPresentL, Releases
  <2>3. Own("bspClear", Present'[c], Run'[c], Procedure'[c], Busy'[c], loc'[c].n)
    BY <1>0, <2>1, <2>2, PlainPositions DEF Own, Steady
  <2> QED BY <2>3, KeepsAlone DEF SInv, Steady
<1>4. Num(pc', Counted) = Num(pc, Counted)
  <2>1. "compare" \in Counted /\ "bspClear" \in Counted
    BY <1>0 DEF Counted
  <2> QED BY <2>1, MoveNum
<1> DEFINE s == Stage(config, "bspClear")
<1>5. /\ ~Locked(config, "bspClear") /\ "bspClear" \notin InsideL
      /\ "bspClear" # "resetCounter"
      /\ "bspClear" \notin Waits /\ "bspClear" \notin EndL
  BY <1>0, OpenStage DEF InsideL, ArriveL, BackupL, ProgramL, RunL, BspRun, Waits, EndL
<1>6. s = "arrive" \/ (s = "run" /\ ~Gathers(config) /\ "bspClear" # "clearInside")
  BY <1>0, <1>5, OpenStage
<1> HIDE DEF s
<1>7. Early \subseteq Todo(config, s) /\ s \notin Gated
  BY <1>6, Positions DEF Todo, Gated
<1>8. pc'[c] = "bspClear" /\ \A d \in Cpu \ {c} : pc'[d] = pc[d] /\ pc'[d] \notin Lead
  BY <1>1 DEF Moves, Idle
<1>9. \A d \in Cpu : pc'[d] \in Member =>
        d # c /\ pc'[d] \in Early /\ Run'[d] = 0 /\ (Busy'[d] = TRUE => pc'[d] = "initBusy")
  BY <1>0, <1>1, <1>8 DEF Idle, Steady
<1>10. ASSUME NEW d \in Cpu, pc'[d] \in Member
       PROVE  Place(config, c, "bspClear", loc'[c].n, d, pc'[d], Run'[d], Busy'[d], loc'[d].bsp)
  <2>1. pc'[d] \in Early /\ Run'[d] = 0 /\ (Busy'[d] = TRUE => pc'[d] = "initBusy")
    BY <1>9, <1>10
  <2>2. pc'[d] \notin Loop /\ pc'[d] # "apLoop"
    BY <2>1 DEF Early, Pre, Loop
  <2> QED BY <1>5, <1>6, <1>7, <2>1, <2>2 DEF Place, s
<1>11. Num(pc', Todo(config, s)) + 1 = Num(pc', Counted)
  <2>1. pc'[c] \notin Todo(config, s) /\ pc'[c] \in Counted
    BY <1>0, <1>8, TodoMember DEF Counted
  <2>2. \A d \in Cpu \ {c} : pc'[d] \in Todo(config, s) <=> pc'[d] \in Counted
    BY <1>7, <1>8, <1>9, TodoMember DEF Counted
  <2> QED BY <2>1, <2>2, NumAdd, SMTT(30)
<1>12. Run'[c] = 0
  BY <1>0, <1>1 DEF Idle, Steady
<1>13. Tally(config, "bspClear", loc'[c].n, loc'[c].apCount, Counter', Run'[c],
             Num(pc', Todo(config, s)), Num(pc', Counted))
  <2>1. Counter' = Num(pc', Counted)
    BY <1>1, <1>4 DEF Idle, Steady
  <2>2. Num(pc', Todo(config, s)) \in Nat
    BY NumSet
  <2> QED BY <1>5, <1>11, <1>12, <2>1, <2>2 DEF Tally
<1>14. Words(config, c, "bspClear", BspIndex', InsideSmm')
  BY <1>1, <1>5 DEF Words, Idle, Steady
<1>15. Path(config, "bspClear")
  BY DEF Path, BackupL, ProgramL, RestoreL
<1>16. config' = config
  BY DEF Steady
<1>17. Led(c)'
  <2>1. \A d \in Cpu : pc'[d] \in Member =>
          Place(config', c, pc'[c], loc'[c].n, d, pc'[d], Run'[d], Busy'[d], loc'[d].bsp)
    BY <1>8, <1>10, <1>16
  <2>2. Tally(config', pc'[c], loc'[c].n, loc'[c].apCount, Counter', Run'[c],
              Num(pc', Todo(config', Stage(config', pc'[c]))), Num(pc', Counted))
    BY <1>8, <1>13, <1>16 DEF s
  <2> QED BY <1>0, <1>8, <1>14, <1>15, <1>16, <2>1, <2>2 DEF Led, TodoNow
<1> QED BY <1>1, <1>2, <1>3, <1>17 DEF SInv

-----------------------------------------------------------------------------
(* Members under a leader *)

(* What a stage says of the leader. *)
LEMMA Stages ==
  ASSUME NEW cf, NEW l \in Lead
  PROVE  /\ Stage(cf, l) \in {"arrive", "backup", "program", "run", "exit", "restore", "reset", "end"}
         /\ Stage(cf, l) = "arrive" => Gathers(cf) /\ l \in ArriveL
         /\ Stage(cf, l) = "backup" <=> l \in BackupL
         /\ Stage(cf, l) = "program" <=> l \in ProgramL
         /\ Stage(cf, l) = "run" => l \in RunL \/ (~Gathers(cf) /\ l \in ArriveL)
         /\ Stage(cf, l) = "exit" <=> l \in ExitL
         /\ Stage(cf, l) = "restore" <=> l \in RestoreL
         /\ Stage(cf, l) = "reset" <=> l \in ResetL
         /\ Stage(cf, l) = "end" <=> l \in EndL
         /\ l \in ExitL => l \notin InsideL
<1>1. l \in ArriveL \union BackupL \union ProgramL \union RunL \union ExitL \union RestoreL
            \union ResetL \union EndL
  BY DEF Lead, BspPc, BspEntry, BspLocked, BspRun, Releases, Waits, ArriveL, BackupL, ProgramL,
         RunL, ExitL, RestoreL, ResetL, EndL
<1>2. /\ ArriveL \cap (BackupL \union ProgramL \union RunL \union ExitL \union RestoreL \union ResetL
                       \union EndL) = {}
      /\ BackupL \cap (ProgramL \union RunL \union ExitL \union RestoreL \union ResetL \union EndL) = {}
      /\ ProgramL \cap (RunL \union ExitL \union RestoreL \union ResetL \union EndL) = {}
  BY DEF BspRun, ArriveL, BackupL, ProgramL, RunL, ExitL, RestoreL, ResetL, EndL
<1>3. /\ RunL \cap (ExitL \union RestoreL \union ResetL \union EndL) = {}
      /\ ExitL \cap (RestoreL \union ResetL \union EndL) = {}
      /\ RestoreL \cap (ResetL \union EndL) = {} /\ ResetL \cap EndL = {}
  BY DEF BspRun, RunL, ExitL, RestoreL, ResetL, EndL
<1>4. l \in ExitL => l \notin InsideL
  BY <1>2, <1>3 DEF InsideL
<1> QED BY <1>1, <1>2, <1>3, <1>4 DEF Stage

(* The step of a member that keeps its place among those that have yet to
   signal. *)
LEMMA ApStep ==
  ASSUME SInv, TypeOK', NEW b \in Cpu, Led(b), NEW c \in Cpu, NEW k, Moves(c, k),
         pc[c] \in Todo(config, Stage(config, pc[b])), k \in Todo(config, Stage(config, pc[b])),
         config' = config, Counter' = Counter, InsideSmm' = InsideSmm,
         BspIndex' = BspIndex,
         \A d \in Cpu \ {c} : /\ Present'[d] = Present[d] /\ Procedure'[d] = Procedure[d]
                              /\ Busy'[d] = Busy[d] /\ Run'[d] = Run[d],
         Place(config, b, pc[b], loc[b].n, c, k, Run'[c], Busy'[c], loc'[c].bsp),
         Own(k, Present'[c], Run'[c], Procedure'[c], Busy'[c], loc'[c].n)
  PROVE  SInv'
<1>1. pc[c] \in Member /\ k \in Member
  BY TodoMember
<1>2. pc[c] \notin Lead /\ k \notin Lead /\ pc[c] \in Counted /\ k \in Counted
  BY <1>1, Positions
<1>3. c # b
  BY <1>2 DEF Led
<1>4. Num(pc', Counted) = Num(pc, Counted)
  BY <1>2, MoveNum
<1>5. Num(pc', Todo(config, Stage(config, pc[b]))) = TodoNow(b)
  BY MoveNum DEF TodoNow
<1>6. Tally(config, pc[b], loc[b].n, loc[b].apCount, Counter', Run'[b],
            Num(pc', Todo(config, Stage(config, pc[b]))), Num(pc', Counted))
  BY <1>3, <1>4, <1>5 DEF Led
<1>7. Led(b)'
  BY <1>2, <1>6, KeepsLed
<1>8. Alone'
  BY KeepsAlone DEF SInv
<1>9. FixedBsp'
  BY DEF SInv, FixedBsp
<1> QED BY <1>7, <1>8, <1>9 DEF SInv

(* A member signals the leader. *)
LEMMA SignalStep ==
  ASSUME SInv, TypeOK', NEW b \in Cpu, Led(b), NEW c \in Cpu, NEW k, Moves(c, k), k \notin Lead,
         pc[c] \in Todo(config, Stage(config, pc[b])), k \notin Todo(config, Stage(config, pc[b])),
         k \in Member \/ pc[b] \in ResetL,
         config' = config, Counter' = Counter, InsideSmm' = InsideSmm,
         BspIndex' = BspIndex,
         Present' = Present, Procedure' = Procedure, Busy' = Busy,
         Run'[b] = Run[b] + 1, \A d \in Cpu \ {b} : Run'[d] = Run[d],
         k \in Member => Place(config, b, pc[b], loc[b].n, c, k, Run[c], Busy[c], loc'[c].bsp),
         Own(k, Present[c], Run[c], Procedure[c], Busy[c], loc'[c].n)
  PROVE  SInv'
<1>1. pc[c] \in Member /\ pc[c] \notin Lead /\ pc[c] \in Counted
  BY TodoMember, Positions
<1>2. c # b /\ pc[b] \in Lead
  BY <1>1 DEF Led
<1>3. Run'[c] = Run[c]
  BY <1>2
<1>4. \A d \in Cpu \ {c} : Run'[d] = Run[d] \/ pc[d] \notin Outside
  BY <1>2, Positions
<1> DEFINE S == Todo(config, Stage(config, pc[b]))
<1>5. Num(pc, S) = Num(pc', S) + 1
  BY MoveNum
<1> HIDE DEF S
<1>6. k \in Member => Num(pc', Counted) = Num(pc, Counted)
  <2>1. k \in Member => k \in Counted
    BY Positions
  <2> QED BY <1>1, <2>1, MoveNum
<1>7. /\ Num(pc, S) \in Nat /\ Num(pc', S) \in Nat /\ Run[b] \in Nat
      /\ MaxWord \in Nat /\ Counter \in 0 .. MaxWord
  BY NumSet, Typed DEF SInv, TypeOK
<1>8. Tally(config, pc[b], loc[b].n, loc[b].apCount, Counter, Run[b], Num(pc, S), Num(pc, Counted))
  BY DEF Led, TodoNow, S
<1>9. pc[b] \notin EndL
  BY <1>1, EndEmpty
<1>10. ResetL \subseteq BspLocked
  BY DEF ResetL, BspLocked, Releases, Waits
<1>11. pc[b] \in ResetL => Locked(config, pc[b])
  BY <1>10 DEF Locked
<1>12. Num(pc', S) + (Run[b] + 1) = Num(pc, S) + Run[b]
  BY <1>5, <1>7
<1>14. Tally(config, pc[b], loc[b].n, loc[b].apCount, Counter', Run'[b], Num(pc', S),
             Num(pc', Counted))
  <2>1. CASE k \in Member
    BY <1>6, <1>7, <1>8, <1>9, <1>12, <2>1 DEF Tally
  <2>2. CASE pc[b] \in ResetL
    BY <1>7, <1>8, <1>9, <1>11, <1>12, <2>2 DEF Tally
  <2> QED BY <2>1, <2>2
<1>15. Led(b)'
  BY <1>1, <1>3, <1>14, KeepsLed DEF S
<1>16. Alone'
  BY <1>3, <1>4, KeepsAlone DEF SInv
<1>17. FixedBsp'
  BY DEF SInv, FixedBsp
<1> QED BY <1>15, <1>16, <1>17 DEF SInv

(* The stages in which a member can be at a position. *)
LEMMA StageOf ==
  ASSUME NEW cf, NEW b, NEW l \in Lead, NEW n, NEW d, NEW k, NEW r, NEW y, NEW m,
         Place(cf, b, l, n, d, k, r, y, m)
  PROVE  /\ k \in Pre => Stage(cf, l) \in {"arrive", "run"} /\ r = 0
         /\ k = "sigArrive" => Stage(cf, l) = "arrive"
         /\ k = "awaitBackup" => Stage(cf, l) \in {"arrive", "backup"}
         /\ k = "sigBackup" => Stage(cf, l) = "backup"
         /\ k = "awaitProgram" => Stage(cf, l) \in {"backup", "program"}
         /\ k = "sigProgram" => Stage(cf, l) = "program"
         /\ k = "apLoop" => Stage(cf, l) \in {"arrive", "program", "run", "exit"}
         /\ k = "apCheck" => Stage(cf, l) \in {"run", "exit"}
         /\ k \in {"procedure", "relBusy"} => Stage(cf, l) = "run"
         /\ k = "sigRestore" => Stage(cf, l) = "exit" /\ cf.mtrrs
         /\ k = "awaitRestore" => (Stage(cf, l) = "exit" /\ cf.mtrrs) \/ Stage(cf, l) = "restore"
         /\ k = "sigReset" => (Stage(cf, l) = "exit" /\ ~cf.mtrrs) \/ Stage(cf, l) = "restore"
         /\ k = "awaitReset" => \/ Stage(cf, l) = "exit" /\ ~cf.mtrrs
                                \/ Stage(cf, l) \in {"restore", "reset"}
         /\ k \in {"apAbsent", "sigDone"} => Stage(cf, l) = "reset"
<1> DEFINE s == Stage(cf, l)
<1>1. s \in {"arrive", "backup", "program", "run", "exit", "restore", "reset", "end"}
  BY Stages
<1>2. k \in Todo(cf, s) \union Done(cf, s)
  BY DEF Place
<1>3. k \in Pre => s \in {"arrive", "run"}
  BY DEF Place
<1>4. k \in Pre => k # "apLoop"
  BY DEF Pre
<1>5. k \in Pre => r = 0
  BY <1>3, <1>4 DEF Place
<1> HIDE DEF s
<1>6. CASE s = "arrive"
  BY <1>2, <1>3, <1>5, <1>6 DEF Todo, Done, Pre, s
<1>7. CASE s \in {"backup", "program"}
  BY <1>2, <1>3, <1>5, <1>7 DEF Todo, Done, s
<1>8. CASE s = "run"
  BY <1>2, <1>3, <1>5, <1>8 DEF Todo, Done, Pre, Loop, s
<1>9. CASE s = "exit"
  BY <1>2, <1>3, <1>5, <1>9 DEF Todo, Done, s
<1>10. CASE s \in {"restore", "reset", "end"}
  BY <1>2, <1>3, <1>5, <1>10 DEF Todo, Done, s
<1> QED BY <1>1, <1>6, <1>7, <1>8, <1>9, <1>10

(* A member reads BspIndex and sets Present. *)
LEMMA ArrivingPlace ==
  ASSUME NEW cf, NEW b, NEW l \in Lead, NEW n, NEW d, NEW r, NEW y, NEW m
  PROVE  /\ Place(cf, b, l, n, d, "apBsp", r, y, m) =>
              /\ Place(cf, b, l, n, d, "apPresent", r, y, b)
              /\ {"apBsp", "apPresent"} \subseteq Todo(cf, Stage(cf, l))
         /\ Place(cf, b, l, n, d, "apPresent", r, y, m) =>
              LET j == IF Gathers(cf) THEN "sigArrive" ELSE "apLoop"
              IN  /\ Place(cf, b, l, n, d, j, r, y, m)
                  /\ "apPresent" \in Todo(cf, Stage(cf, l)) /\ j \in Todo(cf, Stage(cf, l))
<1> DEFINE s == Stage(cf, l)
<1>1. /\ {"apBsp", "apPresent"} \subseteq Pre /\ {"apBsp", "apPresent"} \cap Early = {}
      /\ {"apBsp", "apPresent", "sigArrive"} \cap Loop = {}
      /\ "sigArrive" \notin Pre \union Early /\ "apLoop" \notin Pre \union Early
      /\ "apLoop" \in Loop
  BY DEF Pre, Early, Loop
<1>2. s = "arrive" => Gathers(cf)
  BY Stages
<1>3. s \in {"arrive", "run"} => s \notin Gated
  BY DEF Gated
<1>4. s = "arrive" => Pre \subseteq Todo(cf, s) /\ "sigArrive" \in Todo(cf, s)
  BY DEF Todo
<1>5. s = "run" => Pre \subseteq Todo(cf, s) /\ "apLoop" \in Todo(cf, s)
  BY <1>1 DEF Todo
<1> HIDE DEF s
<1>6. ASSUME Place(cf, b, l, n, d, "apBsp", r, y, m)
      PROVE  /\ Place(cf, b, l, n, d, "apPresent", r, y, b)
             /\ {"apBsp", "apPresent"} \subseteq Todo(cf, s)
  <2>1. s = "arrive" \/ (s = "run" /\ ~Gathers(cf) /\ l # "clearInside")
    BY <1>1, <1>6 DEF Place, s
  <2>2. {"apBsp", "apPresent"} \subseteq Todo(cf, s)
    BY <1>1, <1>4, <1>5, <2>1
  <2>3. r = 0 /\ y # TRUE /\ l \in InsideL
    BY <1>1, <1>6, <2>1 DEF Place, s
  <2> QED BY <1>1, <1>3, <2>1, <2>2, <2>3 DEF Place, s
<1>7. ASSUME Place(cf, b, l, n, d, "apPresent", r, y, m)
      PROVE  /\ Place(cf, b, l, n, d, IF Gathers(cf) THEN "sigArrive" ELSE "apLoop", r, y, m)
             /\ "apPresent" \in Todo(cf, s)
             /\ (IF Gathers(cf) THEN "sigArrive" ELSE "apLoop") \in Todo(cf, s)
  <2>1. s = "arrive" \/ (s = "run" /\ ~Gathers(cf) /\ l # "clearInside")
    BY <1>1, <1>7 DEF Place, s
  <2>3. r = 0 /\ y # TRUE /\ l \in InsideL /\ m = b
    BY <1>1, <1>7, <2>1 DEF Place, s
  <2>4. CASE s = "arrive"
    BY <1>1, <1>2, <1>3, <1>4, <2>3, <2>4 DEF Place, s
  <2>5. CASE s = "run" /\ ~Gathers(cf)
    BY <1>1, <1>3, <1>5, <2>3, <2>5 DEF Place, s
  <2> QED BY <2>1, <2>4, <2>5
<1> QED BY <1>6, <1>7 DEF s

(* Where a member goes when it is released. *)
NextAwait(k) ==
  IF k = "awaitBackup" THEN "sigBackup"
  ELSE IF k = "awaitProgram" THEN "sigProgram"
  ELSE IF k = "awaitRestore" THEN "sigReset"
  ELSE "apAbsent"

(* A member passes its gate. *)
LEMMA AwaitPlace ==
  ASSUME NEW cf, NEW b, NEW l \in Lead, NEW n, NEW d, NEW k \in Awaits, NEW r \in Nat, NEW y,
         NEW m, Place(cf, b, l, n, d, k, r, y, m), r > 0
  PROVE  /\ Place(cf, b, l, n, d, NextAwait(k), r - 1, y, m)
         /\ k \in Todo(cf, Stage(cf, l)) /\ NextAwait(k) \in Todo(cf, Stage(cf, l))
         /\ NextAwait(k) \in Signals \union {"apAbsent"}
         /\ k = "awaitBackup" => Stage(cf, l) = "backup"
         /\ k = "awaitProgram" => Stage(cf, l) = "program"
         /\ k = "awaitRestore" => Stage(cf, l) = "restore"
         /\ k = "awaitReset" => Stage(cf, l) = "reset"
<1> DEFINE s == Stage(cf, l)
<1>1. s \in {"arrive", "backup", "program", "run", "exit", "restore", "reset", "end"}
  BY Stages
<1>2. k \in {"awaitBackup", "awaitProgram", "awaitRestore", "awaitReset"} /\ k # "apLoop"
  BY DEF Awaits
<1>3. k \in Todo(cf, s) \union Done(cf, s)
  BY DEF Place
<1>4. s \notin {"arrive", "run"}
  BY <1>2 DEF Place
<1>5. s # "end"
  BY <1>3 DEF Todo, Done
<1>6. s \in Gated
  BY <1>1, <1>4, <1>5 DEF Gated
<1>7. k = Gate(s) /\ Released(l, n, d) /\ r = 1
  BY <1>6 DEF Place
<1>8. k \notin Early \union {"apBsp"} /\ k # "initBusy"
  BY <1>2 DEF Early, Pre
<1>9. m = b
  BY <1>8 DEF Place
<1>10. y # TRUE
  BY <1>4, <1>8 DEF Place
<1> HIDE DEF s
<1>11. s # "exit"
  BY <1>2, <1>7 DEF Gate
<1>12. /\ s = "backup" => k = "awaitBackup" /\ NextAwait(k) = "sigBackup"
       /\ s = "program" => k = "awaitProgram" /\ NextAwait(k) = "sigProgram"
       /\ s = "restore" => k = "awaitRestore" /\ NextAwait(k) = "sigReset"
       /\ s = "reset" => k = "awaitReset" /\ NextAwait(k) = "apAbsent"
  BY <1>7 DEF Gate, NextAwait
<1>13. k \in Todo(cf, s) /\ NextAwait(k) \in Todo(cf, s)
  BY <1>1, <1>4, <1>5, <1>11, <1>12 DEF Todo
<1>14. NextAwait(k) # Gate(s) /\ NextAwait(k) \in Signals \union {"apAbsent"}
  BY <1>1, <1>4, <1>5, <1>11, <1>12 DEF Gate, Signals
<1>15. NextAwait(k) \notin Pre /\ NextAwait(k) \notin Loop
  BY <1>1, <1>4, <1>5, <1>11, <1>12 DEF Pre, Loop
<1>16. Place(cf, b, l, n, d, NextAwait(k), r - 1, y, m)
  <2>2. r - 1 = 0 /\ s # "arrive" /\ s # "run"
    BY <1>4, <1>7
  <2>3. r - 1 = IF NextAwait(k) = Gate(s) /\ Released(l, n, d) THEN 1 ELSE 0
    BY <1>14, <2>2
  <2> HIDE DEF NextAwait
  <2> QED BY <1>6, <1>7, <1>9, <1>10, <1>13, <1>15, <2>2, <2>3 DEF Place, s
<1>17. /\ k = "awaitBackup" => s = "backup"
       /\ k = "awaitProgram" => s = "program"
       /\ k = "awaitRestore" => s = "restore"
       /\ k = "awaitReset" => s = "reset"
  BY <1>1, <1>4, <1>5, <1>11, <1>12
<1> QED BY <1>13, <1>14, <1>16, <1>17 DEF s

(* A member in the loop is woken, and finds out why. *)
LEMMA LoopPlace ==
  ASSUME NEW cf, NEW b, NEW l \in Lead, NEW n, NEW d, NEW r \in Nat, NEW y, NEW m
  PROVE  /\ (Place(cf, b, l, n, d, "apLoop", r, y, m) /\ r > 0) =>
              /\ Place(cf, b, l, n, d, "apCheck", r - 1, y, m)
              /\ {"apLoop", "apCheck"} \subseteq Todo(cf, Stage(cf, l))
         /\ (Place(cf, b, l, n, d, "apCheck", r, y, m) /\ l \in InsideL) =>
              /\ Place(cf, b, l, n, d, "procedure", r, y, m)
              /\ {"apCheck", "procedure"} \subseteq Todo(cf, Stage(cf, l))
              /\ Stage(cf, l) = "run"
         /\ (Place(cf, b, l, n, d, "apCheck", r, y, m) /\ l \notin InsideL) =>
              LET j == IF cf.mtrrs THEN "sigRestore" ELSE "sigReset"
              IN  /\ Place(cf, b, l, n, d, j, r, y, m)
                  /\ {"apCheck", j} \subseteq Todo(cf, Stage(cf, l))
                  /\ Stage(cf, l) = "exit" /\ Free(y)
<1> DEFINE s == Stage(cf, l)
<1>1. /\ Loop = {"apLoop", "apCheck", "procedure", "relBusy"}
      /\ \A k \in Loop \union {"sigRestore", "sigReset"} :
           k \notin Pre /\ k \notin Early \union {"apBsp"} /\ k # "initBusy"
      /\ "sigRestore" \notin Loop /\ "sigReset" \notin Loop
  BY DEF Pre, Early, Loop
<1>2. s \in {"arrive", "backup", "program", "run", "exit", "restore", "reset", "end"}
      /\ (s = "exit" => l \notin InsideL)
  BY Stages
<1>3. s = "run" => Loop \subseteq Todo(cf, s) /\ s \notin Gated
  BY DEF Todo, Gated
<1>4. s = "exit" => /\ {"apLoop", "apCheck", IF cf.mtrrs THEN "sigRestore" ELSE "sigReset"}
                          \subseteq Todo(cf, s)
                    /\ s \in Gated /\ Gate(s) = "apLoop"
  BY DEF Todo, Gated, Gate
<1>5. /\ s \in {"arrive", "backup", "program", "restore", "reset", "end"} =>
           "apCheck" \notin Todo(cf, s) \union Done(cf, s)
      /\ s = "program" => s \in Gated /\ Gate(s) = "awaitProgram"
      /\ s \in {"backup", "restore", "reset", "end"} => "apLoop" \notin Todo(cf, s) \union Done(cf, s)
  BY DEF Todo, Done, Gated, Gate, Pre
<1> HIDE DEF s
<1>6. ASSUME Place(cf, b, l, n, d, "apLoop", r, y, m), r > 0
      PROVE  /\ Place(cf, b, l, n, d, "apCheck", r - 1, y, m)
             /\ {"apLoop", "apCheck"} \subseteq Todo(cf, s)
  <2>1. s # "arrive"
    BY <1>6 DEF Place, s
  <2>2. s # "program"
    BY <1>5, <1>6 DEF Place, s
  <2>3. s = "run" \/ s = "exit"
    BY <1>2, <1>5, <1>6, <2>1, <2>2 DEF Place, s
  <2>4. {"apLoop", "apCheck"} \subseteq Todo(cf, s)
    BY <1>1, <1>3, <1>4, <2>3
  <2>5. CASE s = "run"
    <3>1. y = TRUE /\ r - 1 = 0
      BY <1>6, <2>5 DEF Place, s
    <3> QED BY <1>1, <1>3, <1>6, <2>4, <2>5, <3>1 DEF Place, s
  <2>6. CASE s = "exit"
    <3>1. r - 1 = 0 /\ Released(l, n, d)
      BY <1>4, <1>6, <2>6 DEF Place, s
    <3>2. y # TRUE
      BY <1>1, <1>6, <2>6 DEF Place, s
    <3> QED BY <1>1, <1>4, <1>6, <2>4, <2>6, <3>1, <3>2 DEF Place, s
  <2> QED BY <2>3, <2>4, <2>5, <2>6
<1>7. ASSUME Place(cf, b, l, n, d, "apCheck", r, y, m)
      PROVE  s = "run" \/ s = "exit"
  BY <1>2, <1>5, <1>7 DEF Place, s
<1>8. ASSUME Place(cf, b, l, n, d, "apCheck", r, y, m), l \in InsideL
      PROVE  /\ Place(cf, b, l, n, d, "procedure", r, y, m)
             /\ {"apCheck", "procedure"} \subseteq Todo(cf, s) /\ s = "run"
  <2>1. s = "run"
    BY <1>2, <1>7, <1>8
  <2> QED BY <1>1, <1>3, <1>8, <2>1 DEF Place, s
<1>9. ASSUME Place(cf, b, l, n, d, "apCheck", r, y, m), l \notin InsideL
      PROVE  /\ Place(cf, b, l, n, d, IF cf.mtrrs THEN "sigRestore" ELSE "sigReset", r, y, m)
             /\ {"apCheck", IF cf.mtrrs THEN "sigRestore" ELSE "sigReset"} \subseteq Todo(cf, s)
             /\ s = "exit" /\ y # TRUE
  <2>1. s # "run"
    BY <1>1, <1>9 DEF Place, s
  <2>2. s = "exit"
    BY <1>7, <1>9, <2>1
  <2>3. y # TRUE /\ r = 0 /\ Released(l, n, d) /\ m = b
    BY <1>1, <1>4, <1>9, <2>2 DEF Place, s
  <2>4. CASE cf.mtrrs
    BY <1>1, <1>4, <2>2, <2>3, <2>4 DEF Place, s
  <2>5. CASE ~cf.mtrrs
    BY <1>1, <1>4, <2>2, <2>3, <2>5 DEF Place, s
  <2> QED BY <2>2, <2>3, <2>4, <2>5
<1> QED BY <1>6, <1>8, <1>9 DEF s, Free

(* A member runs a procedure and releases Busy. *)
LEMMA ProcedurePlace ==
  ASSUME NEW cf, NEW b, NEW l \in Lead, NEW n, NEW d, NEW r, NEW y, NEW m
  PROVE  /\ Place(cf, b, l, n, d, "procedure", r, y, m) =>
              /\ Place(cf, b, l, n, d, "relBusy", r, y, m)
              /\ {"procedure", "relBusy"} \subseteq Todo(cf, Stage(cf, l))
         /\ Place(cf, b, l, n, d, "relBusy", r, y, m) =>
              /\ Place(cf, b, l, n, d, "apLoop", r, FALSE, m)
              /\ {"relBusy", "apLoop"} \subseteq Todo(cf, Stage(cf, l))
<1> DEFINE s == Stage(cf, l)
<1>1. /\ Loop = {"apLoop", "apCheck", "procedure", "relBusy"}
      /\ \A k \in Loop :
           k \notin Pre /\ k \notin Early \union {"apBsp"} /\ k # "initBusy"
  BY DEF Pre, Early, Loop
<1>2. s = "run" => Loop \subseteq Todo(cf, s) /\ s \notin Gated
  BY DEF Todo, Gated
<1>3. /\ Place(cf, b, l, n, d, "procedure", r, y, m) => s = "run"
      /\ Place(cf, b, l, n, d, "relBusy", r, y, m) => s = "run"
  BY StageOf
<1> HIDE DEF s
<1>4. ASSUME Place(cf, b, l, n, d, "procedure", r, y, m)
      PROVE  Place(cf, b, l, n, d, "relBusy", r, y, m)
  BY <1>1, <1>2, <1>3, <1>4 DEF Place, s
<1>5. ASSUME Place(cf, b, l, n, d, "relBusy", r, y, m)
      PROVE  Place(cf, b, l, n, d, "apLoop", r, FALSE, m)
  BY <1>1, <1>2, <1>3, <1>5 DEF Place, s
<1> QED BY <1>1, <1>2, <1>3, <1>4, <1>5 DEF s

(* A member clears Present at the end. *)
LEMMA AbsentPlace ==
  ASSUME NEW cf, NEW b, NEW l \in Lead, NEW n, NEW d, NEW r, NEW y, NEW m,
         Place(cf, b, l, n, d, "apAbsent", r, y, m)
  PROVE  /\ Place(cf, b, l, n, d, "sigDone", r, y, m)
         /\ {"apAbsent", "sigDone"} \subseteq Todo(cf, Stage(cf, l))
<1> DEFINE s == Stage(cf, l)
<1>1. s = "reset"
  BY StageOf
<1>2. \A k \in {"apAbsent", "sigDone"} :
        /\ k \notin Pre /\ k \notin Early \union {"apBsp"} /\ k # "initBusy"
        /\ k \notin Loop
  BY DEF Pre, Early, Loop
<1> HIDE DEF s
<1>3. {"apAbsent", "sigDone"} \subseteq Todo(cf, s) /\ s \in Gated /\ Gate(s) = "awaitReset"
  BY <1>1 DEF Todo, Gated, Gate
<1> QED BY <1>1, <1>2, <1>3 DEF Place, s

(* A member signals the leader: it has done so in this stage. *)
LEMMA SignalPlace ==
  ASSUME NEW cf, NEW b, NEW l \in Lead, NEW n, NEW d, NEW k \in Signals, NEW r, NEW y, NEW m,
         Place(cf, b, l, n, d, k, r, y, m), NEW j,
         j = (IF k = "sigArrive" THEN (IF cf.mtrrs THEN "awaitBackup" ELSE "apLoop")
              ELSE IF k = "sigBackup" THEN "awaitProgram"
              ELSE IF k = "sigProgram" THEN "apLoop"
              ELSE IF k = "sigRestore" THEN "awaitRestore"
              ELSE IF k = "sigReset" THEN "awaitReset"
              ELSE "runCheck")
  PROVE  /\ j # "runCheck" => Place(cf, b, l, n, d, j, r, y, m) /\ j \in Member
         /\ k \in Todo(cf, Stage(cf, l)) /\ j \notin Todo(cf, Stage(cf, l)) /\ m = b
         /\ j = "runCheck" => l \in ResetL
         /\ r = 0
<1> DEFINE s == Stage(cf, l)
<1>1. /\ s \in {"arrive", "backup", "program", "run", "exit", "restore", "reset", "end"}
      /\ s = "reset" <=> l \in ResetL
      /\ s = "arrive" \/ s = "run" \/ s \in Gated \/ s = "end"
  BY Stages DEF Gated
<1>2. /\ k \in {"sigArrive", "sigBackup", "sigProgram", "sigRestore", "sigReset", "sigDone"}
      /\ k \notin Pre /\ k \notin Early \union {"apBsp"} /\ k # "initBusy"
      /\ k \notin Loop /\ k # "apLoop"
  BY DEF Signals, Pre, Early, Loop
<1>3. /\ k = "sigArrive" => s = "arrive" /\ j = IF cf.mtrrs THEN "awaitBackup" ELSE "apLoop"
      /\ k = "sigBackup" => s = "backup" /\ j = "awaitProgram"
      /\ k = "sigProgram" => s = "program" /\ j = "apLoop"
      /\ k = "sigRestore" => s = "exit" /\ j = "awaitRestore" /\ cf.mtrrs
      /\ k = "sigReset" => j = "awaitReset" /\ ((s = "exit" /\ ~cf.mtrrs) \/ s = "restore")
      /\ k = "sigDone" => s = "reset" /\ j = "runCheck"
  BY <1>2, StageOf
<1>4. m = b /\ y # TRUE
  <2>1. m = b
    BY <1>2 DEF Place
  <2>2. y # TRUE
    BY <1>2 DEF Place
  <2> QED BY <2>1, <2>2
<1> HIDE DEF s
<1>5. k \in Todo(cf, s) /\ j \notin Todo(cf, s)
  BY <1>2, <1>3 DEF Todo, Pre
<1>6. j # "runCheck" => j \in Done(cf, s)
  BY <1>2, <1>3 DEF Done
<1>7. s \in Gated => k # Gate(s) /\ j # Gate(s)
  BY <1>2, <1>3 DEF Gate
<1>8. r = 0 /\ (s \in Gated => Released(l, n, d))
  <2>1. CASE s \in Gated
    BY <1>7, <2>1 DEF Place, s
  <2>2. CASE s \notin Gated
    <3>1. s = "arrive"
      BY <1>2, <1>3, <2>2 DEF Gated
    <3> QED BY <1>2, <2>2, <3>1 DEF Place, s
  <2> QED BY <2>1, <2>2
<1>9. s = "arrive" => l \in InsideL
  BY <1>2 DEF Place, s
<1>10. j \notin Pre /\ s # "run"
  BY <1>2, <1>3 DEF Pre
<1>11. j # "runCheck" => j \in Member
  BY <1>6, TodoMember
<1>12. j # "runCheck" => Place(cf, b, l, n, d, j, r, y, m)
  BY <1>4, <1>6, <1>7, <1>8, <1>9, <1>10 DEF Place, s
<1>13. j = "runCheck" => l \in ResetL
  BY <1>1, <1>2, <1>3
<1> QED BY <1>4, <1>5, <1>8, <1>11, <1>12, <1>13 DEF s

-----------------------------------------------------------------------------
(* The steps of processors that do not lead *)

(* Pending SMIs. *)
LEMMA IpiType ==
  ASSUME NEW S, SendSmiIpi(S)
  PROVE  /\ smiPending' \in [Cpu -> BOOLEAN]
         /\ \A c \in Cpu : smiPending[c] \/ c \in S => smiPending'[c]
<1>1. smiPending' = [c \in Cpu |-> smiPending[c] \/ c \in S]
  BY DEF SendSmiIpi
<1>2. \A c \in Cpu : (smiPending[c] \/ c \in S) \in BOOLEAN
  OBVIOUS
<1>3. smiPending' \in [Cpu -> BOOLEAN]
  BY <1>1, <1>2, Zenon
<1>4. \A c \in Cpu : smiPending'[c] = (smiPending[c] \/ c \in S)
  BY <1>1
<1> QED BY <1>3, <1>4

(* The platform's steps touch nothing of the rendezvous. *)
LEMMA PlatformSteps ==
  ASSUME SInv, SmiTrigger \/ (\E c \in Cpu : Unblock(c)) \/ UNCHANGED vars
  PROVE  SInv'
<1>1. /\ config' = config /\ Counter' = Counter /\ InsideSmm' = InsideSmm
      /\ AllCpusInSync' = AllCpusInSync /\ BspIndex' = BspIndex
      /\ Run' = Run /\ Busy' = Busy /\ Present' = Present /\ Procedure' = Procedure
      /\ pc' = pc /\ loc' = loc /\ races' = races
  BY DEF SmiTrigger, Unblock, vars, mpSync, election, cpuData
<1>2. TypeOK'
  <2>0. TypeOK
    BY DEF SInv
  <2>1. CASE SmiTrigger
    <3>1. smiPending' \in [Cpu -> BOOLEAN]
      BY <2>1, IpiType DEF SmiTrigger
    <3>2. smis' \in 0 .. MaxSmi
      BY <2>0, <2>1, SmmAssumption DEF TypeOK, SmiTrigger
    <3>3. smiStatus' = TRUE /\ due' = TRUE /\ blocked' = blocked /\ calls' = calls /\ mtrr' = mtrr
          /\ SwitchBsp' = SwitchBsp /\ CandidateBsp' = CandidateBsp /\ Operation' = Operation
      BY <2>1 DEF SmiTrigger, election
    <3> QED BY <1>1, <2>0, <3>1, <3>2, <3>3 DEF TypeOK
  <2>2. CASE \E c \in Cpu : Unblock(c)
    BY <1>1, <2>0, <2>2 DEF TypeOK, Unblock, election, cpuData
  <2>3. CASE UNCHANGED vars
    BY <1>1, <2>0, <2>3 DEF TypeOK, vars, platform, election, cpuData
  <2> QED BY <2>1, <2>2, <2>3
<1>3. Idle => Idle'
  BY <1>1 DEF Idle, Num
<1>4. \A b \in Cpu : Led(b) => Led(b)'
  BY <1>1 DEF Led, TodoNow, Num
<1> QED BY <1>1, <1>2, <1>3, <1>4 DEF SInv, FixedBsp, Alone

(* SmiRendezvous before the check-in and after the handlers. *)
LEMMA EntryExit ==
  ASSUME SInv, NEW c \in Cpu,
         \/ Enter(c) \/ SampleValidSmi(c) \/ SampleBspInProgress(c) \/ RunCheck(c) \/ WaitForSync(c)
  PROVE  SInv'
<1>0. TypeOK /\ loc[c] \in Locals /\ InsideSmm \in BOOLEAN /\ smiStatus \in BOOLEAN
  BY Typed DEF SInv, TypeOK
<1>1. {"normal", "sampleSmi", "sampleBsp", "checkIn", "runCheck", "waitSync"} \subseteq Pc
  BY DEF Pc
<1>2. Outside = {"normal", "sampleSmi", "sampleBsp", "checkIn", "endSync", "runCheck", "waitSync"}
  BY DEF Outside
<1>3. pc[c] \in Outside /\ \E k \in Outside : Moves(c, k)
  <2>1. CASE Enter(c)
    BY <1>0, <1>1, <1>2, <2>1, JustGoto DEF Enter, At
  <2>2. CASE SampleValidSmi(c)
    <3>1. [loc[c] EXCEPT !.valid = smiStatus] \in Locals
      BY <1>0 DEF Locals
    <3> QED BY <1>0, <1>1, <1>2, <2>2, <3>1, GotoMoves DEF SampleValidSmi, At
  <2>3. CASE SampleBspInProgress(c)
    <3>1. [loc[c] EXCEPT !.inProgress = InsideSmm] \in Locals
      BY <1>0 DEF Locals
    <3>2. pc[c] = "sampleBsp"
      BY <2>3 DEF SampleBspInProgress, At
    <3>3. GotoWith(c, "checkIn", [loc[c] EXCEPT !.inProgress = InsideSmm]) \/ Exit(c)
      BY <2>3 DEF SampleBspInProgress
    <3>4. Moves(c, "checkIn") \/ Moves(c, "normal")
      BY <1>0, <1>1, <3>1, <3>3, GotoMoves, ExitMoves
    <3> QED BY <1>2, <3>2, <3>4
  <2>4. CASE RunCheck(c)
    BY <1>0, <1>1, <1>2, <2>4, JustGoto DEF RunCheck, At
  <2>5. CASE WaitForSync(c)
    BY <1>0, <1>1, <1>2, <2>5, ExitMoves DEF WaitForSync, At
  <2> QED BY <2>1, <2>2, <2>3, <2>4, <2>5
<1>4. PICK k \in Outside : Moves(c, k)
  BY <1>3
<1>5. Steady
  BY DEF Steady, Enter, SampleValidSmi, SampleBspInProgress, RunCheck, WaitForSync, mpSync,
         election, cpuData
<1>6. TypeOK'
  <2>1. pc' \in [Cpu -> Pc] /\ loc' \in [Cpu -> Locals]
    BY <1>4 DEF Moves
  <2>2. smiPending' \in [Cpu -> BOOLEAN] /\ smiStatus' \in BOOLEAN /\ blocked' = blocked
        /\ due' = due /\ smis' = smis /\ calls' = calls /\ mtrr' = mtrr
        /\ SwitchBsp' = SwitchBsp /\ CandidateBsp' = CandidateBsp /\ Operation' = Operation
        /\ AllCpusInSync' = AllCpusInSync /\ races' = races
    BY <1>0 DEF TypeOK, Enter, SampleValidSmi, SampleBspInProgress, RunCheck, WaitForSync, platform,
         election, mpSync
  <2> QED BY <1>0, <1>5, <2>1, <2>2 DEF TypeOK, Steady, Locals
<1> QED BY <1>3, <1>4, <1>5, <1>6, OutsideStep

(* ReleaseSemaphore (Counter). *)
LEMMA CheckInStep ==
  ASSUME SInv, NEW c \in Cpu, CheckIn(c)
  PROVE  SInv'
<1>0. TypeOK
  BY DEF SInv
<1>1. pc[c] = "checkIn"
  BY DEF CheckIn, At
<1>2. {"waitSync", "initBusy"} \subseteq Pc /\ {"checkIn", "waitSync"} \subseteq Outside
  BY DEF Pc, Outside
<1>3. /\ config' = config /\ InsideSmm' = InsideSmm /\ AllCpusInSync' = AllCpusInSync
      /\ BspIndex' = BspIndex /\ Run' = Run /\ Busy' = Busy /\ Present' = Present
      /\ Procedure' = Procedure
      /\ smiPending' = smiPending /\ smiStatus' = smiStatus /\ blocked' = blocked
      /\ due' = due /\ smis' = smis /\ calls' = calls /\ mtrr' = mtrr
      /\ SwitchBsp' = SwitchBsp /\ CandidateBsp' = CandidateBsp /\ Operation' = Operation
      /\ races' = races
  BY DEF CheckIn, platform, election, cpuData
<1>4. MaxWord \in Nat /\ Counter \in 0 .. MaxWord
  BY <1>0, Typed DEF TypeOK
<1>5. CASE Counter = MaxWord /\ Goto(c, "waitSync") /\ UNCHANGED Counter
  <2>1. Moves(c, "waitSync")
    BY <1>0, <1>2, <1>5, JustGoto
  <2>2. TypeOK'
    BY <1>0, <1>3, <1>5, <2>1 DEF TypeOK, Moves, Locals
  <2> QED BY <1>1, <1>2, <1>3, <1>5, <2>1, <2>2, OutsideStep DEF Steady
<1>6. CASE Counter # MaxWord /\ Goto(c, "initBusy") /\ Counter' = Counter + 1
  <2>1. Moves(c, "initBusy")
    BY <1>0, <1>2, <1>6, JustGoto
  <2>2. Counter' \in 0 .. MaxWord
    BY <1>4, <1>6
  <2>3. TypeOK'
    BY <1>0, <1>3, <2>1, <2>2 DEF TypeOK, Moves, Locals
  <2> QED BY <1>1, <1>3, <1>6, <2>1, <2>3, JoinStep
<1> QED BY <1>5, <1>6 DEF CheckIn

(* Nothing changes but positions, locals and Busy. *)
Calm ==
  /\ config' = config /\ Counter' = Counter /\ InsideSmm' = InsideSmm
  /\ AllCpusInSync' = AllCpusInSync /\ BspIndex' = BspIndex
  /\ Run' = Run /\ Present' = Present /\ Procedure' = Procedure
  /\ smiStatus' = smiStatus /\ blocked' = blocked
  /\ due' = due /\ smis' = smis /\ calls' = calls /\ mtrr' = mtrr /\ races' = races
  /\ SwitchBsp' = SwitchBsp /\ CandidateBsp' = CandidateBsp /\ Operation' = Operation

(* Then the types are kept. *)
LEMMA CalmType ==
  ASSUME TypeOK, Calm, NEW c \in Cpu, NEW k, Moves(c, k),
         Busy' \in [Cpu -> BOOLEAN], smiPending' \in [Cpu -> BOOLEAN]
  PROVE  TypeOK'
BY DEF TypeOK, Calm, Moves, Locals

(* The election, and waiting for the BSP. *)
LEMMA EarlySteps ==
  ASSUME SInv, NEW c \in Cpu,
         \/ InitializeBusy(c) \/ Elect(c) \/ WaitForBsp(c) \/ FirstTimeout(c)
         \/ CallBsp(c) \/ SecondTimeout(c)
  PROVE  SInv'
<1>0. TypeOK /\ InsideSmm \in BOOLEAN /\ Busy \in [Cpu -> BOOLEAN]
      /\ smiPending \in [Cpu -> BOOLEAN]
  BY DEF SInv, TypeOK
<1>1. {"elect", "cas", "compare", "apWait1", "apFirst", "apKnow", "apWait2", "apSecond", "giveUp",
       "apBsp"} \subseteq Pc
  BY DEF Pc, ApPc
<1>2. Early = {"initBusy", "elect", "cas", "compare", "apWait1", "apFirst", "apKnow", "apWait2",
               "apSecond", "giveUp"}
  BY DEF Early, Pre
<1>3. Calm
  BY DEF Calm, InitializeBusy, Elect, WaitForBsp, FirstTimeout, CallBsp, SecondTimeout, platform,
         mpSync, election, cpuData
<1>4. smiPending' \in [Cpu -> BOOLEAN]
  <2>1. (\E S : SendSmiIpi(S)) \/ smiPending' = smiPending
    BY DEF InitializeBusy, Elect, WaitForBsp, FirstTimeout, CallBsp, SecondTimeout, platform
  <2> QED BY <1>0, <2>1, IpiType
<1>5. ASSUME NEW k \in (Early \ {"initBusy"}) \union {"apBsp"}, k \in Pc, Goto(c, k),
             pc[c] \in Early \ {"compare"},
             IF pc[c] = "initBusy" THEN Busy' = [Busy EXCEPT ![c] = FALSE] ELSE Busy' = Busy,
             k = "apBsp" => InsideSmm = TRUE
      PROVE  SInv'
  <2>1. Moves(c, k)
    BY <1>0, <1>5, JustGoto
  <2>2. /\ Busy' \in [Cpu -> BOOLEAN] /\ \A d \in Cpu \ {c} : Busy'[d] = Busy[d]
        /\ IF pc[c] = "initBusy" THEN Busy'[c] = FALSE ELSE Busy'[c] = Busy[c]
    BY <1>0, <1>5
  <2>3. TypeOK'
    BY <1>0, <1>3, <1>4, <2>1, <2>2, CalmType
  <2> QED BY <1>3, <1>5, <2>1, <2>2, <2>3, EarlyStep DEF Calm
<1>6. CASE InitializeBusy(c)
  <2>1. pc[c] = "initBusy" /\ Busy' = [Busy EXCEPT ![c] = FALSE]
        /\ (Goto(c, "apWait1") \/ Goto(c, "elect"))
    BY <1>6 DEF InitializeBusy, At
  <2> QED BY <1>1, <1>2, <1>5, <2>1
<1>7. CASE Elect(c)
  <2>1. pc[c] = "elect" /\ Busy' = Busy /\ (Goto(c, "cas") \/ Goto(c, "compare"))
    BY <1>7 DEF Elect, At, cpuData
  <2> QED BY <1>1, <1>2, <1>5, <2>1
<1>8. CASE WaitForBsp(c)
  <2>1. /\ pc[c] \in {"apWait1", "apWait2"} /\ Busy' = Busy
        /\ \/ InsideSmm /\ Goto(c, "apBsp")
           \/ Goto(c, "apFirst") \/ Goto(c, "apSecond")
    BY <1>8 DEF WaitForBsp, At, cpuData
  <2> QED BY <1>0, <1>1, <1>2, <1>5, <2>1
<1>9. CASE FirstTimeout(c)
  <2>1. /\ pc[c] = "apFirst" /\ Busy' = Busy
        /\ (InsideSmm /\ Goto(c, "apBsp")) \/ Goto(c, "apKnow")
    BY <1>9 DEF FirstTimeout, At, cpuData
  <2> QED BY <1>0, <1>1, <1>2, <1>5, <2>1
<1>10. CASE CallBsp(c)
  <2>1. /\ pc[c] = "apKnow" /\ Busy' = Busy
        /\ Goto(c, "apWait2") \/ Goto(c, "giveUp")
    BY <1>10 DEF CallBsp, At, cpuData
  <2> QED BY <1>1, <1>2, <1>5, <2>1
<1>11. CASE SecondTimeout(c)
  <2>1. /\ pc[c] = "apSecond" /\ Busy' = Busy
        /\ (InsideSmm /\ Goto(c, "apBsp")) \/ (~InsideSmm /\ Goto(c, "giveUp"))
    BY <1>11 DEF SecondTimeout, At, cpuData
  <2> QED BY <1>0, <1>1, <1>2, <1>5, <2>1
<1> QED BY <1>6, <1>7, <1>8, <1>9, <1>10, <1>11

(* The compare exchange on BspIndex. *)
LEMMA CompareExchangeStep ==
  ASSUME SInv, NEW c \in Cpu, CompareExchangeBsp(c)
  PROVE  SInv'
<1>0. TypeOK
  BY DEF SInv
<1>1. pc[c] = "cas" /\ Goto(c, "compare") /\ BspIndex' = IF BspIndex = NoBsp THEN c ELSE BspIndex
  BY DEF CompareExchangeBsp, At
<1>2. "compare" \in Pc /\ "cas" \in Early /\ "compare" \in Early
  BY DEF Pc, Early, Pre
<1>3. Moves(c, "compare")
  BY <1>0, <1>1, <1>2, JustGoto
<1>4. /\ config' = config /\ Counter' = Counter /\ InsideSmm' = InsideSmm
      /\ AllCpusInSync' = AllCpusInSync
      /\ Run' = Run /\ Busy' = Busy /\ Present' = Present /\ Procedure' = Procedure
      /\ smiPending' = smiPending /\ smiStatus' = smiStatus /\ blocked' = blocked
      /\ due' = due /\ smis' = smis /\ calls' = calls /\ mtrr' = mtrr
      /\ SwitchBsp' = SwitchBsp /\ CandidateBsp' = CandidateBsp /\ Operation' = Operation
      /\ races' = races
  BY DEF CompareExchangeBsp, platform, mpSync, cpuData
<1>5. TypeOK'
  <2>1. BspIndex' \in Cpu \union {NoBsp}
    BY <1>0, <1>1 DEF TypeOK
  <2> QED BY <1>0, <1>3, <1>4, <2>1 DEF TypeOK, Moves, Locals
<1>6. CASE BspIndex = NoBsp
  BY <1>1, <1>3, <1>4, <1>5, <1>6, ElectStep
<1>7. CASE BspIndex # NoBsp
  BY <1>1, <1>2, <1>3, <1>4, <1>5, <1>7, EarlyStep
<1> QED BY <1>6, <1>7

(* Is it me? *)
LEMMA CompareStep ==
  ASSUME SInv, NEW c \in Cpu, CompareBsp(c)
  PROVE  SInv'
<1>0. TypeOK /\ Busy \in [Cpu -> BOOLEAN] /\ smiPending \in [Cpu -> BOOLEAN]
  BY DEF SInv, TypeOK
<1>1. pc[c] = "compare" /\ Goto(c, IF BspIndex = c THEN "bspClear" ELSE "apWait1")
  BY DEF CompareBsp, At
<1>2. "bspClear" \in Pc /\ "apWait1" \in Pc /\ "compare" \in Early /\ "apWait1" \in Early
  BY DEF Pc, ApPc, Early, Pre
<1>3. Calm /\ Busy' = Busy /\ smiPending' = smiPending
  BY DEF Calm, CompareBsp, platform, mpSync, election, cpuData
<1>4. CASE BspIndex = c
  <2>1. Moves(c, "bspClear")
    BY <1>0, <1>1, <1>2, <1>4, JustGoto
  <2>2. TypeOK'
    BY <1>0, <1>3, <2>1, CalmType
  <2>3. Steady
    BY <1>3 DEF Calm, Steady
  <2> QED BY <1>1, <1>4, <2>1, <2>2, <2>3, BecomeBsp
<1>5. CASE BspIndex # c
  <2>1. Moves(c, "apWait1")
    BY <1>0, <1>1, <1>2, <1>5, JustGoto
  <2>2. TypeOK'
    BY <1>0, <1>3, <2>1, CalmType
  <2> QED BY <1>1, <1>2, <1>3, <1>5, <2>1, <2>2, EarlyStep DEF Calm
<1> QED BY <1>4, <1>5

(* WaitForSemaphore (Counter) of a processor that gives up. *)
LEMMA GiveUpSteps ==
  ASSUME SInv, NEW c \in Cpu, GiveUp(c)
  PROVE  SInv'
<1>0. TypeOK
  BY DEF SInv
<1>1. pc[c] = "giveUp" /\ Goto(c, "runCheck") /\ Counter > 0 /\ Counter' = Counter - 1
  BY DEF GiveUp, At
<1>2. "runCheck" \in Pc
  BY DEF Pc
<1>3. Moves(c, "runCheck")
  BY <1>0, <1>1, <1>2, JustGoto
<1>4. /\ config' = config /\ InsideSmm' = InsideSmm /\ AllCpusInSync' = AllCpusInSync
      /\ BspIndex' = BspIndex /\ Run' = Run /\ Busy' = Busy /\ Present' = Present
      /\ Procedure' = Procedure
      /\ smiPending' = smiPending /\ smiStatus' = smiStatus /\ blocked' = blocked
      /\ due' = due /\ smis' = smis /\ calls' = calls /\ mtrr' = mtrr
      /\ SwitchBsp' = SwitchBsp /\ CandidateBsp' = CandidateBsp /\ Operation' = Operation
  BY DEF GiveUp, platform, election, cpuData
<1>7. races' \subseteq {"giveUp", "endSync"}
  BY <1>0 DEF GiveUp, TypeOK
<1>5. Counter' \in 0 .. MaxWord
  <2>1. MaxWord \in Nat /\ Counter \in 0 .. MaxWord
    BY <1>0, Typed DEF TypeOK
  <2> QED BY <1>1, <2>1
<1>6. TypeOK'
  BY <1>0, <1>3, <1>4, <1>5, <1>7 DEF TypeOK, Moves, Locals
<1> QED BY <1>1, <1>3, <1>4, <1>6, GiveUpStep

-----------------------------------------------------------------------------
(* The steps of members *)

(* The words that the steps of members leave alone. *)
Quiet ==
  /\ config' = config /\ Counter' = Counter /\ InsideSmm' = InsideSmm
  /\ AllCpusInSync' = AllCpusInSync /\ BspIndex' = BspIndex
  /\ smiStatus' = smiStatus /\ smiPending' = smiPending /\ blocked' = blocked
  /\ due' = due /\ smis' = smis /\ calls' = calls /\ races' = races
  /\ SwitchBsp' = SwitchBsp /\ CandidateBsp' = CandidateBsp /\ Operation' = Operation

(* Then the types are kept. *)
LEMMA QuietType ==
  ASSUME TypeOK, Quiet, NEW c \in Cpu, NEW k, Moves(c, k),
         Run' \in [Cpu -> 0 .. MaxWord], Busy' \in [Cpu -> BOOLEAN],
         Present' \in [Cpu -> BOOLEAN], Procedure' \in [Cpu -> BOOLEAN],
         mtrr' \in [Cpu -> {"os", "smm"}]
  PROVE  TypeOK'
BY DEF TypeOK, Quiet, Moves, Locals

(* The type of the MTRRs. *)
LEMMA MtrrType ==
  ASSUME TypeOK, NEW c \in Cpu, NEW v \in {"os", "smm"}, SetMtrr(c, v)
  PROVE  /\ mtrr' \in [Cpu -> {"os", "smm"}]
         /\ \A d \in Cpu : mtrr'[d] = IF CoreOf[d] = CoreOf[c] THEN v ELSE mtrr[d]
BY DEF TypeOK, SetMtrr

(* A member that has seen InsideSmm has a leader, which BspIndex names. *)
LEMMA Follower ==
  ASSUME SInv, NEW c \in Cpu, pc[c] \in Member, pc[c] \notin Early
  PROVE  \E b \in Cpu :
           /\ Led(b) /\ b # c /\ pc[b] \in Lead /\ BspIndex = b
           /\ InsideSmm = TRUE <=> pc[b] \in InsideL
           /\ Place(config, b, pc[b], loc[b].n, c, pc[c], Run[c], Busy[c], loc[c].bsp)
<1>1. PICK b \in Cpu : Led(b)
  BY DEF SInv, Idle
<1>2. pc[b] \in Lead /\ b # c
  BY <1>1, Positions DEF Led
<1>3. Place(config, b, pc[b], loc[b].n, c, pc[c], Run[c], Busy[c], loc[c].bsp)
  BY <1>1 DEF Led
<1>4. pc[b] \notin EndL
  BY <1>1, EndEmpty
<1>5. pc[b] # "resetCounter"
  BY <1>4 DEF EndL
<1>6. BspIndex = b /\ (InsideSmm = TRUE <=> pc[b] \in InsideL)
  BY <1>1, <1>5 DEF Led, Words
<1> QED BY <1>1, <1>2, <1>3, <1>6

(* The positions of members after their arrival. *)
LEMMA LatePositions ==
  /\ {"apBsp", "apPresent", "sigArrive", "apAbsent", "sigDone", "apLoop", "apCheck", "procedure",
      "relBusy", "sigRestore", "sigReset"} \subseteq Pc \cap Member
  /\ {"apBsp", "apPresent", "sigArrive", "apAbsent", "sigDone", "apLoop", "apCheck", "procedure",
      "relBusy", "sigRestore", "sigReset"} \cap Early = {}
  /\ Signals \subseteq Pc \cap Member /\ Awaits \subseteq Pc \cap Member
  /\ Signals \cap Early = {} /\ Awaits \cap Early = {}
  /\ \A k \in Member : k \notin Outside /\ k \notin Releases \union {"drain"}
  /\ {"sigArrive", "apAbsent", "apLoop", "apCheck", "procedure", "relBusy", "sigRestore",
      "sigReset"} \subseteq PresentPc
  /\ Awaits \subseteq PresentPc /\ Signals \ {"sigDone"} \subseteq PresentPc
  /\ {"apBsp", "apPresent", "sigDone"} \cap PresentPc = {}
<1>1. /\ {"apBsp", "apPresent", "sigArrive", "apAbsent", "sigDone", "apLoop", "apCheck", "procedure",
          "relBusy", "sigRestore", "sigReset"} \subseteq Member
      /\ {"apBsp", "apPresent", "sigArrive", "apAbsent", "sigDone", "apLoop", "apCheck", "procedure",
          "relBusy", "sigRestore", "sigReset"} \cap Early = {}
  BY DEF Member, Pre, Early, Loop, Signals
<1>2. Signals \cap Early = {} /\ Awaits \cap Early = {} /\ Signals \cap Pre = {} /\ Awaits \cap Pre = {}
      /\ Awaits \cap {"sigDone"} = {}
  BY DEF Pre, Early, Signals, Awaits
<1>3. \A k \in Member : k \notin Outside /\ k \notin Releases \union {"drain"}
  BY PlainPositions, Positions
<1>4. Member \subseteq Pc /\ Signals \subseteq Member /\ Awaits \subseteq Member
  BY Positions
<1>5. \A k \in Member \ Pre : k # "sigDone" => k \in PresentPc
  BY PlainPositions
<1>6. {"sigArrive", "apAbsent", "apLoop", "apCheck", "procedure", "relBusy", "sigRestore",
       "sigReset"} \cap Pre = {}
  BY DEF Pre
<1>7. {"sigArrive", "apAbsent", "apLoop", "apCheck", "procedure", "relBusy", "sigRestore",
       "sigReset"} \subseteq PresentPc
  BY <1>1, <1>5, <1>6
<1>8. Awaits \subseteq PresentPc /\ Signals \ {"sigDone"} \subseteq PresentPc
  BY <1>2, <1>4, <1>5
<1>9. "apBsp" \in Pre /\ "apPresent" \in Pre
  BY DEF Pre
<1>10. "sigDone" \notin PresentPc
  <2>1. "sigDone" \notin Lead
    BY <1>1, Positions
  <2> QED BY <2>1 DEF PresentPc, BspPresentL
<1>11. {"apBsp", "apPresent", "sigDone"} \cap PresentPc = {}
  BY <1>9, <1>10, PlainPositions
<1> QED BY <1>1, <1>2, <1>3, <1>4, <1>7, <1>8, <1>11

(* An AP notes who the BSP is and sets Present. *)
LEMMA ArriveSteps ==
  ASSUME SInv, NEW c \in Cpu, ReadBspIndex(c) \/ SetApPresent(c)
  PROVE  SInv'
<1>0. TypeOK /\ Present \in [Cpu -> BOOLEAN] /\ loc[c] \in Locals /\ BspIndex \in Cpu \union {NoBsp}
      /\ Run \in [Cpu -> 0 .. MaxWord] /\ Busy \in [Cpu -> BOOLEAN]
      /\ Procedure \in [Cpu -> BOOLEAN] /\ mtrr \in [Cpu -> {"os", "smm"}]
  BY Typed DEF SInv, TypeOK
<1>1. Quiet /\ Run' = Run /\ Busy' = Busy /\ Procedure' = Procedure /\ mtrr' = mtrr
  BY DEF Quiet, ReadBspIndex, SetApPresent, platform, mpSync, election, cpuData
<1>2. pc[c] \in {"apBsp", "apPresent"}
  BY DEF ReadBspIndex, SetApPresent, At
<1>3. pc[c] \in Member /\ pc[c] \notin Early
  BY <1>2, LatePositions
<1>4. PICK b \in Cpu : /\ Led(b) /\ b # c /\ pc[b] \in Lead /\ BspIndex = b
                       /\ Place(config, b, pc[b], loc[b].n, c, pc[c], Run[c], Busy[c], loc[c].bsp)
  BY <1>3, Follower
<1>5. Own(pc[c], Present[c], Run[c], Procedure[c], Busy[c], loc[c].n)
  BY DEF SInv, Alone
<1>6. CASE ReadBspIndex(c)
  <2>1. pc[c] = "apBsp" /\ GotoWith(c, "apPresent", [loc[c] EXCEPT !.bsp = BspIndex])
        /\ Present' = Present
    BY <1>6 DEF ReadBspIndex, At, cpuData
  <2>2. [loc[c] EXCEPT !.bsp = BspIndex] \in Locals /\ [loc[c] EXCEPT !.bsp = BspIndex].bsp = BspIndex
    BY <1>0 DEF Locals
  <2>3. Moves(c, "apPresent") /\ loc'[c].bsp = b
    <3> DEFINE f == [loc[c] EXCEPT !.bsp = BspIndex]
    <3>1. "apPresent" \in Pc /\ f \in Locals /\ f.bsp = b /\ GotoWith(c, "apPresent", f)
      BY <1>4, <2>1, <2>2, LatePositions
    <3> HIDE DEF f
    <3> QED BY <1>0, <3>1, GotoMoves
  <2>4. TypeOK'
    BY <1>0, <1>1, <2>1, <2>3, QuietType
  <2>5. /\ Place(config, b, pc[b], loc[b].n, c, "apPresent", Run[c], Busy[c], b)
        /\ {"apBsp", "apPresent"} \subseteq Todo(config, Stage(config, pc[b]))
    BY <1>4, <2>1, ArrivingPlace
  <2>6. Own("apPresent", Present[c], Run[c], Procedure[c], Busy[c], loc'[c].n)
    BY <1>5, <2>1, LatePositions DEF Own
  <2> QED BY <1>1, <1>4, <2>1, <2>3, <2>4, <2>5, <2>6, ApStep DEF Quiet
<1>7. CASE SetApPresent(c)
  <2> DEFINE j == IF GatherFirst THEN "sigArrive" ELSE "apLoop"
  <2>1. pc[c] = "apPresent" /\ Goto(c, j) /\ Present' = [Present EXCEPT ![c] = TRUE]
    BY <1>7 DEF SetApPresent, At
  <2>2. j \in {"sigArrive", "apLoop"} /\ j = IF Gathers(config) THEN "sigArrive" ELSE "apLoop"
    BY DEF GatherFirst, Gathers
  <2> HIDE DEF j
  <2>3. Moves(c, j) /\ loc'[c].bsp = loc[c].bsp
    BY <1>0, <2>1, <2>2, JustGoto, LatePositions
  <2>4. Present' \in [Cpu -> BOOLEAN] /\ Present'[c] = TRUE
        /\ \A d \in Cpu \ {c} : Present'[d] = Present[d]
    BY <1>0, <2>1
  <2>5. TypeOK'
    BY <1>0, <1>1, <2>3, <2>4, QuietType
  <2>6. /\ Place(config, b, pc[b], loc[b].n, c, j, Run[c], Busy[c], loc[c].bsp)
        /\ "apPresent" \in Todo(config, Stage(config, pc[b])) /\ j \in Todo(config, Stage(config, pc[b]))
    BY <1>4, <2>1, <2>2, ArrivingPlace
  <2>7. j \in PresentPc /\ j \in Member
    BY <2>2, LatePositions
  <2>8. Procedure[c] # TRUE
    BY <1>5, <2>1 DEF Own
  <2>9. Own(j, Present'[c], Run[c], Procedure[c], Busy[c], loc'[c].n)
    BY <2>4, <2>7, <2>8, LatePositions DEF Own
  <2> QED BY <1>1, <1>4, <2>1, <2>3, <2>4, <2>5, <2>6, <2>9, ApStep DEF Quiet
<1> QED BY <1>6, <1>7

(* An AP signals the BSP. *)
LEMMA SignalSteps ==
  ASSUME SInv, NEW c \in Cpu, SignalBsp(c)
  PROVE  SInv'
<1>0. TypeOK /\ Present \in [Cpu -> BOOLEAN] /\ Busy \in [Cpu -> BOOLEAN]
      /\ Run \in [Cpu -> 0 .. MaxWord]
      /\ Procedure \in [Cpu -> BOOLEAN] /\ mtrr \in [Cpu -> {"os", "smm"}]
  BY DEF SInv, TypeOK
<1>1. Quiet /\ Busy' = Busy /\ Present' = Present /\ Procedure' = Procedure /\ mtrr' = mtrr
  BY DEF Quiet, SignalBsp, platform, mpSync, election
<1> DEFINE j == AfterSignal(pc[c])
<1>2. pc[c] \in Signals /\ ReleaseRun(loc[c].bsp) /\ Goto(c, j)
  BY DEF SignalBsp, At
<1>3. pc[c] \in Member /\ pc[c] \notin Early
  BY <1>2, LatePositions
<1>4. PICK b \in Cpu : /\ Led(b) /\ b # c /\ pc[b] \in Lead
                       /\ Place(config, b, pc[b], loc[b].n, c, pc[c], Run[c], Busy[c], loc[c].bsp)
  BY <1>3, Follower
<1>5. j = (IF pc[c] = "sigArrive" THEN (IF config.mtrrs THEN "awaitBackup" ELSE "apLoop")
           ELSE IF pc[c] = "sigBackup" THEN "awaitProgram"
           ELSE IF pc[c] = "sigProgram" THEN "apLoop"
           ELSE IF pc[c] = "sigRestore" THEN "awaitRestore"
           ELSE IF pc[c] = "sigReset" THEN "awaitReset"
           ELSE "runCheck")
      /\ (j = "runCheck" <=> pc[c] = "sigDone")
      /\ j \in {"awaitBackup", "apLoop", "awaitProgram", "awaitRestore", "awaitReset", "runCheck"}
  BY <1>2 DEF AfterSignal, Signals
<1>6. {"awaitBackup", "apLoop", "awaitProgram", "awaitRestore", "awaitReset", "runCheck"} \subseteq Pc
      /\ {"awaitBackup", "apLoop", "awaitProgram", "awaitRestore", "awaitReset", "runCheck"} \cap Lead = {}
      /\ {"awaitBackup", "awaitProgram", "awaitRestore", "awaitReset"} \subseteq Awaits
  BY DEF Pc, ApPc, Awaits, Lead, BspPc, BspEntry, BspLocked, BspRun, Releases, Waits
<1> HIDE DEF j
<1>7. Moves(c, j) /\ loc'[c].bsp = loc[c].bsp
  <2>1. j \in Pc
    BY <1>5, <1>6
  <2> QED BY <1>0, <1>2, <2>1, JustGoto
<1>8. /\ j # "runCheck" => /\ Place(config, b, pc[b], loc[b].n, c, j, Run[c], Busy[c], loc[c].bsp)
                           /\ j \in Member
      /\ pc[c] \in Todo(config, Stage(config, pc[b]))
      /\ j \notin Todo(config, Stage(config, pc[b])) /\ loc[c].bsp = b
      /\ j = "runCheck" => pc[b] \in ResetL
      /\ Run[c] = 0
  BY <1>2, <1>4, <1>5, SignalPlace
<1>9. Run' = [Run EXCEPT ![b] = @ + 1]
  BY <1>2, <1>8 DEF ReleaseRun
<1>10. Run[b] + 1 \in 0 .. MaxWord
  <2>1. TodoNow(b) \in Nat /\ Run[b] \in Nat /\ loc[b].n \in 0 .. N /\ loc[b].apCount \in 0 .. N
        /\ MaxWord \in Nat /\ MaxWord > N + 1 /\ N \in Nat
    BY <1>0, NumSet, Typed DEF TodoNow
  <2>2. Num(pc, Counted) \in Nat /\ Num(pc, Counted) <= N
    BY NumSet
  <2>3. pc[b] \notin EndL
    BY <1>3, <1>4, EndEmpty
  <2>4. Counter \in 0 .. MaxWord
    BY <1>0 DEF TypeOK
  <2>5. Tally(config, pc[b], loc[b].n, loc[b].apCount, Counter, Run[b], TodoNow(b),
              Num(pc, Counted))
    BY <1>4 DEF Led
  <2>6. TodoNow(b) + Run[b] <= N
    <3>1. CASE ~Locked(config, pc[b])
      BY <2>1, <2>2, <2>5, <3>1 DEF Tally
    <3>2. CASE Locked(config, pc[b])
      <4>1. \/ TodoNow(b) + Run[b] + (MaxWord - Counter) = loc[b].n
            \/ TodoNow(b) + Run[b] + (MaxWord - Counter) = loc[b].apCount
        BY <2>3, <2>5, <3>2 DEF Tally
      <4> QED BY <2>1, <2>4, <4>1
    <3> QED BY <3>1, <3>2
  <2> QED BY <2>1, <2>6
<1>11. /\ Run' \in [Cpu -> 0 .. MaxWord] /\ Run'[b] = Run[b] + 1
       /\ \A d \in Cpu \ {b} : Run'[d] = Run[d]
  BY <1>0, <1>9, <1>10
<1>12. TypeOK'
  BY <1>0, <1>1, <1>7, <1>11, QuietType
<1>13. Own(pc[c], Present[c], Run[c], Procedure[c], Busy[c], loc[c].n)
  BY DEF SInv, Alone
<1>14. Own(j, Present[c], Run[c], Procedure[c], Busy[c], loc'[c].n)
  <2>1. Procedure[c] # TRUE
    BY <1>2, <1>13 DEF Own, Signals
  <2>2. CASE j = "runCheck"
    <3>1. Present[c] # TRUE
      BY <1>5, <1>13, <2>2, LatePositions DEF Own
    <3>2. "runCheck" \in Outside
      BY DEF Outside
    <3> QED BY <1>8, <2>1, <2>2, <3>1, <3>2, PlainPositions DEF Own
  <2>3. CASE j # "runCheck"
    <3>1. j \in PresentPc /\ j \in Member
      BY <1>5, <1>6, <1>8, <2>3, LatePositions
    <3>2. pc[c] \in PresentPc
      BY <1>2, <1>5, <2>3, LatePositions
    <3> QED BY <1>13, <2>1, <3>1, <3>2, LatePositions DEF Own
  <2> QED BY <2>2, <2>3
<1>15. j \notin Lead /\ (j \in Member \/ pc[b] \in ResetL)
       /\ (j \in Member => j # "runCheck")
  <2>1. "runCheck" \notin Member
    BY Positions DEF Outside
  <2> QED BY <1>5, <1>6, <1>8, <2>1
<1> QED BY <1>1, <1>4, <1>7, <1>8, <1>11, <1>12, <1>14, <1>15, SignalStep DEF Quiet

(* An AP passes a gate of a barrier. *)
LEMMA AwaitSteps ==
  ASSUME SInv, NEW c \in Cpu, AwaitBsp(c)
  PROVE  SInv'
<1>0. TypeOK /\ Present \in [Cpu -> BOOLEAN] /\ loc[c] \in Locals /\ Busy \in [Cpu -> BOOLEAN]
      /\ Run \in [Cpu -> 0 .. MaxWord] /\ Run[c] \in 0 .. MaxWord /\ Run[c] \in Nat
      /\ Procedure \in [Cpu -> BOOLEAN] /\ mtrr \in [Cpu -> {"os", "smm"}] /\ MaxWord \in Nat
  BY Typed DEF SInv, TypeOK
<1>1. Quiet /\ Busy' = Busy /\ Present' = Present /\ Procedure' = Procedure
  BY DEF Quiet, AwaitBsp, platform, mpSync, election
<1>2. pc[c] \in Awaits /\ Run[c] > 0 /\ Run' = [Run EXCEPT ![c] = @ - 1]
  BY DEF AwaitBsp, At, WaitForRun
<1>3. pc[c] \in Member /\ pc[c] \notin Early
  BY <1>2, LatePositions
<1>4. PICK b \in Cpu : /\ Led(b) /\ b # c /\ pc[b] \in Lead
                       /\ Place(config, b, pc[b], loc[b].n, c, pc[c], Run[c], Busy[c], loc[c].bsp)
  BY <1>3, Follower
<1> DEFINE j == NextAwait(pc[c])
<1>5. /\ Place(config, b, pc[b], loc[b].n, c, j, Run[c] - 1, Busy[c], loc[c].bsp)
      /\ pc[c] \in Todo(config, Stage(config, pc[b])) /\ j \in Todo(config, Stage(config, pc[b]))
      /\ j \in Signals \union {"apAbsent"}
  BY <1>0, <1>2, <1>4, AwaitPlace
<1>6. Moves(c, j) /\ loc'[c].bsp = loc[c].bsp /\ mtrr' \in [Cpu -> {"os", "smm"}]
  <2>1. j \in Pc
    BY <1>5, LatePositions
  <2>2. CASE pc[c] = "awaitBackup"
    <3>1. j = "sigBackup" /\ mtrr' = mtrr /\ GotoWith(c, "sigBackup", [loc[c] EXCEPT !.saved = mtrr[c]])
      BY <2>2 DEF AwaitBsp, NextAwait
    <3>2. [loc[c] EXCEPT !.saved = mtrr[c]] \in Locals
          /\ [loc[c] EXCEPT !.saved = mtrr[c]].bsp = loc[c].bsp
      BY <1>0 DEF Locals
    <3> QED BY <1>0, <2>1, <3>1, <3>2, GotoMoves
  <2>3. CASE pc[c] # "awaitBackup"
    <3>0. loc[c].saved \in {"os", "smm"}
      BY <1>0 DEF Locals
    <3>1. /\ Goto(c, j)
          /\ SetMtrr(c, "smm") \/ SetMtrr(c, loc[c].saved) \/ mtrr' = mtrr
      BY <2>3 DEF AwaitBsp, NextAwait
    <3>2. Moves(c, j) /\ loc'[c].bsp = loc[c].bsp
      BY <1>0, <2>1, <3>1, JustGoto
    <3>3. mtrr' \in [Cpu -> {"os", "smm"}]
      BY <1>0, <3>0, <3>1, MtrrType
    <3> QED BY <3>2, <3>3
  <2> QED BY <2>2, <2>3
<1> HIDE DEF j
<1>7. /\ Run' \in [Cpu -> 0 .. MaxWord] /\ Run'[c] = Run[c] - 1
      /\ \A d \in Cpu \ {c} : Run'[d] = Run[d]
  BY <1>0, <1>2
<1>8. TypeOK'
  BY <1>0, <1>1, <1>6, <1>7, QuietType
<1>9. Own(j, Present[c], Run'[c], Procedure[c], Busy[c], loc'[c].n)
  <2>1. Own(pc[c], Present[c], Run[c], Procedure[c], Busy[c], loc[c].n)
    BY DEF SInv, Alone
  <2>2. pc[c] \in PresentPc
    BY <1>2, LatePositions
  <2>3. Procedure[c] # TRUE
    BY <1>2, <2>1 DEF Own, Awaits
  <2>4. j # "sigDone"
    BY <1>2 DEF j, NextAwait, Awaits
  <2>5. j \in PresentPc /\ j \in Member
    BY <1>5, <2>4, LatePositions
  <2> QED BY <2>1, <2>2, <2>3, <2>5, LatePositions DEF Own
<1> QED BY <1>1, <1>4, <1>5, <1>6, <1>7, <1>8, <1>9, ApStep DEF Quiet

(* The loop of an AP: it is woken, finds a procedure or the end, runs the procedure
   and releases Busy; and it clears Present when it leaves. *)
LEMMA LoopSteps ==
  ASSUME SInv, NEW c \in Cpu,
         \/ WaitForWork(c) \/ CheckForExit(c) \/ RunProcedure(c) \/ ReleaseBusy(c)
         \/ ClearApPresent(c)
  PROVE  SInv'
<1>0. TypeOK /\ Present \in [Cpu -> BOOLEAN] /\ Busy \in [Cpu -> BOOLEAN]
      /\ Run \in [Cpu -> 0 .. MaxWord] /\ Run[c] \in 0 .. MaxWord /\ Run[c] \in Nat
      /\ Procedure \in [Cpu -> BOOLEAN] /\ mtrr \in [Cpu -> {"os", "smm"}] /\ MaxWord \in Nat
      /\ InsideSmm \in BOOLEAN
  BY Typed DEF SInv, TypeOK
<1>1. Quiet /\ mtrr' = mtrr
  BY DEF Quiet, WaitForWork, CheckForExit, RunProcedure, ReleaseBusy, ClearApPresent, platform,
         mpSync, election
<1>2. pc[c] \in {"apLoop", "apCheck", "procedure", "relBusy", "apAbsent"}
  BY DEF WaitForWork, CheckForExit, RunProcedure, ReleaseBusy, ClearApPresent, At
<1>3. pc[c] \in Member /\ pc[c] \notin Early /\ pc[c] \in PresentPc
  BY <1>2, LatePositions
<1>4. PICK b \in Cpu : /\ Led(b) /\ b # c /\ pc[b] \in Lead
                       /\ InsideSmm = TRUE <=> pc[b] \in InsideL
                       /\ Place(config, b, pc[b], loc[b].n, c, pc[c], Run[c], Busy[c], loc[c].bsp)
  BY <1>3, Follower
<1>5. Own(pc[c], Present[c], Run[c], Procedure[c], Busy[c], loc[c].n) /\ Present[c] = TRUE
  BY <1>3 DEF SInv, Alone, Own
<1>6. ASSUME NEW j \in {"apCheck", "procedure", "relBusy", "apLoop", "sigRestore", "sigReset",
                        "sigDone"}, Goto(c, j)
      PROVE  /\ Moves(c, j) /\ loc'[c].bsp = loc[c].bsp
             /\ j \notin Outside /\ j \notin Releases \union {"drain"}
             /\ j # "sigDone" <=> j \in PresentPc
  <2>1. j \in Pc /\ j \in Member
    BY LatePositions
  <2>2. j # "sigDone" <=> j \in PresentPc
    BY LatePositions
  <2> QED BY <1>0, <1>6, <2>1, <2>2, JustGoto, LatePositions
<1>7. CASE WaitForWork(c)
  <2>1. pc[c] = "apLoop" /\ Run[c] > 0 /\ Run' = [Run EXCEPT ![c] = @ - 1] /\ Goto(c, "apCheck")
        /\ Busy' = Busy /\ Present' = Present /\ Procedure' = Procedure
    BY <1>7 DEF WaitForWork, At, WaitForRun
  <2>2. /\ Run' \in [Cpu -> 0 .. MaxWord] /\ Run'[c] = Run[c] - 1
        /\ \A d \in Cpu \ {c} : Run'[d] = Run[d]
    BY <1>0, <2>1
  <2>3. TypeOK'
    BY <1>0, <1>1, <1>6, <2>1, <2>2, QuietType
  <2>4. /\ Place(config, b, pc[b], loc[b].n, c, "apCheck", Run[c] - 1, Busy[c], loc[c].bsp)
        /\ {"apLoop", "apCheck"} \subseteq Todo(config, Stage(config, pc[b]))
    BY <1>0, <1>4, <2>1, LoopPlace
  <2>5. Own("apCheck", Present[c], Run'[c], Procedure[c], Busy[c], loc'[c].n)
    BY <1>5, <1>6, <2>1 DEF Own
  <2> QED BY <1>1, <1>4, <1>6, <2>1, <2>2, <2>3, <2>4, <2>5, ApStep DEF Quiet
<1>8. CASE CheckForExit(c)
  <2>1. pc[c] = "apCheck" /\ Run' = Run /\ Busy' = Busy /\ Present' = Present /\ Procedure' = Procedure
    BY <1>8 DEF CheckForExit, At, cpuData
  <2>2. CASE InsideSmm
    <3>1. Goto(c, "procedure")
      BY <1>8, <2>2 DEF CheckForExit
    <3>2. TypeOK'
      BY <1>0, <1>1, <1>6, <2>1, <3>1, QuietType
    <3>3. /\ Place(config, b, pc[b], loc[b].n, c, "procedure", Run[c], Busy[c], loc[c].bsp)
          /\ {"apCheck", "procedure"} \subseteq Todo(config, Stage(config, pc[b]))
      BY <1>0, <1>4, <2>1, <2>2, LoopPlace
    <3>4. Own("procedure", Present[c], Run[c], Procedure[c], Busy[c], loc'[c].n)
      BY <1>5, <1>6, <3>1 DEF Own
    <3> QED BY <1>1, <1>4, <1>6, <2>1, <3>1, <3>2, <3>3, <3>4, ApStep DEF Quiet
  <2>3. CASE ~InsideSmm
    <3> DEFINE j == IF config.mtrrs THEN "sigRestore" ELSE "sigReset"
    <3>1. Goto(c, j)
      <4>1. CASE config.mtrrs
        BY <1>8, <2>3, <4>1 DEF CheckForExit
      <4>2. CASE ~config.mtrrs
        BY <1>8, <2>3, <4>2 DEF CheckForExit
      <4> QED BY <4>1, <4>2
    <3>2. /\ Place(config, b, pc[b], loc[b].n, c, j, Run[c], Busy[c], loc[c].bsp)
          /\ {"apCheck", j} \subseteq Todo(config, Stage(config, pc[b])) /\ Free(Busy[c])
      BY <1>0, <1>4, <2>1, <2>3, LoopPlace
    <3>3. j \in {"sigRestore", "sigReset"}
      OBVIOUS
    <3> HIDE DEF j
    <3>4. TypeOK'
      BY <1>0, <1>1, <1>6, <2>1, <3>1, <3>3, QuietType
    <3>5. Procedure[c] # TRUE
      BY <1>5, <3>2 DEF Own, Free
    <3>6. Own(j, Present[c], Run[c], Procedure[c], Busy[c], loc'[c].n)
      BY <1>5, <1>6, <3>1, <3>3, <3>5 DEF Own
    <3> QED BY <1>1, <1>4, <1>6, <2>1, <3>1, <3>2, <3>3, <3>4, <3>6, ApStep DEF Quiet
  <2> QED BY <2>2, <2>3
<1>9. CASE RunProcedure(c)
  <2>1. pc[c] = "procedure" /\ Run' = Run /\ Busy' = Busy /\ Present' = Present
        /\ Procedure' = [Procedure EXCEPT ![c] = FALSE] /\ Goto(c, "relBusy")
    BY <1>9 DEF RunProcedure, At
  <2>2. /\ Procedure' \in [Cpu -> BOOLEAN] /\ Procedure'[c] = FALSE
        /\ \A d \in Cpu \ {c} : Procedure'[d] = Procedure[d]
    BY <1>0, <2>1
  <2>3. TypeOK'
    BY <1>0, <1>1, <1>6, <2>1, <2>2, QuietType
  <2>4. /\ Place(config, b, pc[b], loc[b].n, c, "relBusy", Run[c], Busy[c], loc[c].bsp)
        /\ {"procedure", "relBusy"} \subseteq Todo(config, Stage(config, pc[b]))
    BY <1>4, <2>1, ProcedurePlace
  <2>5. Own("relBusy", Present[c], Run[c], Procedure'[c], Busy[c], loc'[c].n)
    BY <1>5, <1>6, <2>1, <2>2 DEF Own
  <2> QED BY <1>1, <1>4, <1>6, <2>1, <2>2, <2>3, <2>4, <2>5, ApStep DEF Quiet
<1>10. CASE ReleaseBusy(c)
  <2>1. pc[c] = "relBusy" /\ Run' = Run /\ Present' = Present /\ Procedure' = Procedure
        /\ Busy' = [Busy EXCEPT ![c] = FALSE] /\ Goto(c, "apLoop")
    BY <1>10 DEF ReleaseBusy, At
  <2>2. /\ Busy' \in [Cpu -> BOOLEAN] /\ Busy'[c] = FALSE
        /\ \A d \in Cpu \ {c} : Busy'[d] = Busy[d]
    BY <1>0, <2>1
  <2>3. TypeOK'
    BY <1>0, <1>1, <1>6, <2>1, <2>2, QuietType
  <2>4. /\ Place(config, b, pc[b], loc[b].n, c, "apLoop", Run[c], FALSE, loc[c].bsp)
        /\ {"relBusy", "apLoop"} \subseteq Todo(config, Stage(config, pc[b]))
    BY <1>4, <2>1, ProcedurePlace
  <2>5. Procedure[c] # TRUE
    BY <1>5, <2>1 DEF Own
  <2>6. Own("apLoop", Present[c], Run[c], Procedure[c], Busy'[c], loc'[c].n)
    BY <1>5, <1>6, <2>1, <2>5 DEF Own
  <2> QED BY <1>1, <1>4, <1>6, <2>1, <2>2, <2>3, <2>4, <2>6, ApStep DEF Quiet
<1>11. CASE ClearApPresent(c)
  <2>1. pc[c] = "apAbsent" /\ Run' = Run /\ Busy' = Busy /\ Procedure' = Procedure
        /\ Present' = [Present EXCEPT ![c] = FALSE] /\ Goto(c, "sigDone")
    BY <1>11 DEF ClearApPresent, At
  <2>2. /\ Present' \in [Cpu -> BOOLEAN] /\ Present'[c] = FALSE
        /\ \A d \in Cpu \ {c} : Present'[d] = Present[d]
    BY <1>0, <2>1
  <2>3. TypeOK'
    BY <1>0, <1>1, <1>6, <2>1, <2>2, QuietType
  <2>4. /\ Place(config, b, pc[b], loc[b].n, c, "sigDone", Run[c], Busy[c], loc[c].bsp)
        /\ {"apAbsent", "sigDone"} \subseteq Todo(config, Stage(config, pc[b]))
    BY <1>4, <2>1, AbsentPlace
  <2>5. Procedure[c] # TRUE
    BY <1>5, <2>1 DEF Own
  <2>6. Own("sigDone", Present'[c], Run[c], Procedure[c], Busy[c], loc'[c].n)
    BY <1>5, <1>6, <2>1, <2>2, <2>5 DEF Own
  <2> QED BY <1>1, <1>4, <1>6, <2>1, <2>2, <2>3, <2>4, <2>6, ApStep DEF Quiet
<1> QED BY <1>7, <1>8, <1>9, <1>10, <1>11

-----------------------------------------------------------------------------
(* The leader moves *)

(* A processor at a position of the BSP is the leader. *)
LEMMA LeaderIs ==
  ASSUME SInv, NEW c \in Cpu, pc[c] \in Lead
  PROVE  Led(c) /\ TypeOK
BY DEF SInv, Idle, Led

(* The leader moves from l to l2 and everybody has a place under l2. *)
LEMMA LeaderLed ==
  ASSUME NEW b \in Cpu, Led(b), NEW l2 \in Lead, Moves(b, l2), config' = config,
         Words(config, b, l2, BspIndex', InsideSmm'), Path(config, l2),
         \A d \in Cpu \ {b} : pc[d] \in Member =>
           Place(config, b, l2, loc'[b].n, d, pc[d], Run'[d], Busy'[d], loc[d].bsp),
         Tally(config, l2, loc'[b].n, loc'[b].apCount, Counter', Run'[b],
               Num(pc, Todo(config, Stage(config, l2))), Num(pc, Counted))
  PROVE  Led(b)'
<1>1. pc'[b] = l2 /\ \A d \in Cpu \ {b} : pc'[d] = pc[d] /\ loc'[d] = loc[d]
  BY DEF Moves
<1>2. pc[b] \in Lead /\ pc[b] \notin Member /\ l2 \notin Member /\ pc[b] \in Counted /\ l2 \in Counted
  BY Positions DEF Led
<1>3. Num(pc', Counted) = Num(pc, Counted)
  BY <1>2, MoveNum
<1> DEFINE S == Todo(config, Stage(config, l2))
<1>4. pc[b] \notin S /\ l2 \notin S
  BY <1>2, TodoMember
<1>5. Num(pc', S) = Num(pc, S)
  BY <1>4, MoveNum
<1>6. \A d \in Cpu \ {b} : pc'[d] \notin Lead
  BY <1>1 DEF Led
<1>7. \A d \in Cpu : pc'[d] \in Member =>
        Place(config', b, pc'[b], loc'[b].n, d, pc'[d], Run'[d], Busy'[d], loc'[d].bsp)
  BY <1>1, <1>2
<1>8. Tally(config', pc'[b], loc'[b].n, loc'[b].apCount, Counter', Run'[b],
            Num(pc', Todo(config', Stage(config', pc'[b]))), Num(pc', Counted))
  BY <1>1, <1>3, <1>5
<1> QED BY <1>1, <1>6, <1>7, <1>8 DEF Led, TodoNow

(* What holds of each processor alone when the leader moves. *)
LEMMA LeaderAlone ==
  ASSUME Alone, NEW b \in Cpu, pc[b] \in Lead, NEW l2 \in Lead, Moves(b, l2),
         \A d \in Cpu \ {b} : /\ Present'[d] = Present[d] /\ Procedure'[d] = Procedure[d]
                              /\ Busy'[d] = Busy[d]
                              /\ Run'[d] = Run[d] \/ pc[d] \notin Outside,
         Procedure'[b] = Procedure[b], Present'[b] = TRUE <=> l2 \in BspPresentL,
         l2 \in Releases \union {"drain"} => loc'[b].n > 0
  PROVE  Alone'
<1>1. Own(pc[b], Present[b], Run[b], Procedure[b], Busy[b], loc[b].n)
  BY DEF Alone
<1>2. pc[b] \notin Member /\ l2 \notin Member /\ l2 \notin Outside
  BY Positions
<1>3. {"apLoop", "apCheck", "procedure"} \subseteq Member
  BY LatePositions
<1>4. Procedure[b] # TRUE
  BY <1>1, <1>2, <1>3 DEF Own
<1>5. l2 \in PresentPc <=> l2 \in BspPresentL
  BY <1>2 DEF PresentPc
<1>6. Own(l2, Present'[b], Run'[b], Procedure'[b], Busy'[b], loc'[b].n)
  BY <1>2, <1>4, <1>5 DEF Own
<1> QED BY <1>6, KeepsAlone

(* The leader goes from l to l2 in the same stage, nothing else happens. *)
Similar(cf, l, l2) ==
  /\ Stage(cf, l2) = Stage(cf, l)
  /\ Locked(cf, l2) <=> Locked(cf, l)
  /\ l \in InsideL => l2 \in InsideL
  /\ l \notin Waits \union EndL \union Releases /\ l2 \notin EndL \union Releases
  /\ l2 \in Waits => Locked(cf, l)
  /\ l2 \notin OpenL
  /\ Path(cf, l) => Path(cf, l2)

(* How long Busy may be held while the leader goes from l to l2. *)
Holds(l, n, l2, n2, d) ==
  (l \in Serving /\ (l = "drain" => d < n)) => (l2 \in Serving /\ (l2 = "drain" => d < n2))

(* A member keeps its place. *)
LEMMA SimilarPlace ==
  ASSUME NEW cf, NEW b, NEW l, NEW l2, NEW n, NEW n2, NEW d, NEW k, NEW r, NEW y, NEW m,
         Place(cf, b, l, n, d, k, r, y, m), Similar(cf, l, l2),
         k \in Pre => l2 # "clearInside",
         k = "initBusy" \/ Free(y) \/ Holds(l, n, l2, n2, d)
  PROVE  Place(cf, b, l2, n2, d, k, r, y, m)
<1>1. Stage(cf, l2) = Stage(cf, l) /\ l \notin Releases /\ l2 \notin Releases
      /\ (l \in InsideL => l2 \in InsideL)
  BY DEF Similar
<1>2. Released(l, n, d) /\ Released(l2, n2, d)
  BY <1>1 DEF Released
<1>3. (y = TRUE /\ k # "initBusy") =>
        Stage(cf, l) = "run" /\ l2 \in Serving /\ k \in Loop /\ (l2 = "drain" => d < n2)
  BY DEF Place, Free, Holds
<1> HIDE DEF Similar
<1> QED BY <1>1, <1>2, <1>3 DEF Place

(* Such a step of the leader. *)
LEMMA SimilarStep ==
  ASSUME SInv, TypeOK', NEW b \in Cpu, pc[b] \in Lead, NEW l2 \in Lead, Moves(b, l2),
         Similar(config, pc[b], l2), config' = config, BspIndex' = BspIndex,
         Words(config, b, l2, BspIndex', InsideSmm'),
         Counter' = Counter, Run' = Run, Procedure' = Procedure,
         loc'[b].apCount = loc[b].apCount, l2 \in Waits => loc'[b].n = loc[b].apCount,
         l2 = "drain" => loc'[b].n > 0, pc[b] \in OpenL => Counter = MaxWord,
         \A d \in Cpu \ {b} : Busy'[d] = Busy[d] /\ Present'[d] = Present[d],
         \A d \in Cpu \ {b} : pc[d] \in Member =>
           /\ pc[d] \in Pre => l2 # "clearInside"
           /\ pc[d] = "initBusy" \/ Free(Busy[d]) \/ Holds(pc[b], loc[b].n, l2, loc'[b].n, d),
         Present'[b] = TRUE <=> l2 \in BspPresentL
  PROVE  SInv'
<1>1. Led(b)
  BY LeaderIs
<1>2. ASSUME NEW d \in Cpu \ {b}, pc[d] \in Member
      PROVE  Place(config, b, l2, loc'[b].n, d, pc[d], Run'[d], Busy'[d], loc[d].bsp)
  <2>1. Place(config, b, pc[b], loc[b].n, d, pc[d], Run[d], Busy[d], loc[d].bsp)
    BY <1>1, <1>2 DEF Led
  <2>2. /\ pc[d] \in Pre => l2 # "clearInside"
        /\ pc[d] = "initBusy" \/ Free(Busy[d]) \/ Holds(pc[b], loc[b].n, l2, loc'[b].n, d)
    BY <1>2
  <2>3. Place(config, b, l2, loc'[b].n, d, pc[d], Run[d], Busy[d], loc[d].bsp)
    BY <2>1, <2>2, SimilarPlace
  <2> QED BY <2>3
<1>3. Path(config, l2)
  BY <1>1 DEF Led, Similar
<1>4. Num(pc, Todo(config, Stage(config, l2))) = TodoNow(b)
  BY DEF Similar, TodoNow
<1>5. Tally(config, pc[b], loc[b].n, loc[b].apCount, Counter, Run[b], TodoNow(b), Num(pc, Counted))
  BY <1>1 DEF Led
<1>6. pc[b] \in ResetL <=> l2 \in ResetL
  BY Stages DEF Similar
<1>7. Tally(config, l2, loc'[b].n, loc'[b].apCount, Counter', Run'[b],
            Num(pc, Todo(config, Stage(config, l2))), Num(pc, Counted))
  BY <1>4, <1>5, <1>6 DEF Tally, Similar
<1>8. Led(b)'
  BY <1>1, <1>2, <1>3, <1>7, LeaderLed
<1>9. l2 \notin Releases
  BY DEF Similar
<1>10. Alone'
  BY <1>9, LeaderAlone DEF SInv
<1>11. FixedBsp'
  BY DEF SInv, FixedBsp
<1> QED BY <1>8, <1>10, <1>11 DEF SInv

(* The moves of the leader within a stage. *)
LEMMA SimilarMoves ==
  ASSUME NEW cf
  PROVE  /\ Similar(cf, "bspClear", "bspInside") /\ Similar(cf, "bspInside", "bspPresent")
         /\ Similar(cf, "bspPresent", "clearSmi")
         /\ Gathers(cf) => Similar(cf, "clearSmi", "arrive1")
         /\ ~Gathers(cf) => Similar(cf, "clearSmi", "acquire")
         /\ Similar(cf, "arrive1", "sendIpi") /\ Similar(cf, "sendIpi", "arrive2")
         /\ Similar(cf, "sendIpi", "inSync") /\ Similar(cf, "arrive2", "inSync")
         /\ Similar(cf, "inSync", "lockdown")
         /\ Similar(cf, "backup", "waitBackup") /\ Similar(cf, "program", "waitProgram")
         /\ Similar(cf, "restore", "waitRestore")
         /\ Similar(cf, "acquire", "handler") /\ Similar(cf, "blockBusy", "handler")
         /\ Similar(cf, "handler", "drain") /\ Similar(cf, "drain", "drain")
         /\ Gathers(cf) => Similar(cf, "drain", "clearInside")
         /\ ~Gathers(cf) => Similar(cf, "drain", "inSync")
         /\ Similar(cf, "countPresent", "clearInside")
         /\ Similar(cf, "update", "bspAbsent") /\ Similar(cf, "bspAbsent", "waitReset")
<1> USE DEF Similar, Stage, Locked, Path, InsideL, ArriveL, BackupL, ProgramL, RunL, ExitL,
            RestoreL, ResetL, EndL, OpenL, Waits, Releases, BspLocked, BspRun
<1>1. Similar(cf, "bspClear", "bspInside") /\ Similar(cf, "bspInside", "bspPresent")
  OBVIOUS
<1>2. Similar(cf, "bspPresent", "clearSmi")
  OBVIOUS
<1>3. Gathers(cf) => Similar(cf, "clearSmi", "arrive1")
  OBVIOUS
<1>4. ~Gathers(cf) => Similar(cf, "clearSmi", "acquire")
  OBVIOUS
<1>5. Similar(cf, "arrive1", "sendIpi") /\ Similar(cf, "sendIpi", "arrive2")
  OBVIOUS
<1>6. Similar(cf, "sendIpi", "inSync") /\ Similar(cf, "arrive2", "inSync")
  OBVIOUS
<1>7. Similar(cf, "inSync", "lockdown")
  OBVIOUS
<1>8. Similar(cf, "backup", "waitBackup") /\ Similar(cf, "program", "waitProgram")
  OBVIOUS
<1>9. Similar(cf, "restore", "waitRestore")
  OBVIOUS
<1>10. Similar(cf, "acquire", "handler") /\ Similar(cf, "blockBusy", "handler")
  OBVIOUS
<1>11. Similar(cf, "handler", "drain") /\ Similar(cf, "drain", "drain")
  OBVIOUS
<1>12. Gathers(cf) => Similar(cf, "drain", "clearInside")
  OBVIOUS
<1>13. ~Gathers(cf) => Similar(cf, "drain", "inSync")
  OBVIOUS
<1>14. Similar(cf, "countPresent", "clearInside")
  OBVIOUS
<1>15. Similar(cf, "update", "bspAbsent") /\ Similar(cf, "bspAbsent", "waitReset")
  OBVIOUS
<1> HIDE DEF Similar
<1> QED BY <1>1, <1>2, <1>3, <1>4, <1>5, <1>6, <1>7, <1>8, <1>9, <1>10, <1>11, <1>12, <1>13, <1>14,
          <1>15

(* The leader's Present. *)
LEMMA LeaderPresent ==
  ASSUME SInv, NEW b \in Cpu, pc[b] \in Lead
  PROVE  Present[b] = TRUE <=> pc[b] \in BspPresentL
<1>1. Own(pc[b], Present[b], Run[b], Procedure[b], Busy[b], loc[b].n)
  BY DEF SInv, Alone
<1>2. pc[b] \notin Member
  BY Positions
<1>3. pc[b] \in PresentPc <=> pc[b] \in BspPresentL
  BY <1>2 DEF PresentPc
<1> QED BY <1>1, <1>3 DEF Own

(* Moves that do not touch the shared words. *)
Plain(l, l2) ==
  /\ l2 \notin {"clearInside", "drain", "lockdown"} /\ l # "lockdown" /\ l \notin OpenL
  /\ l2 \in InsideL <=> l \in InsideL
  /\ l \in Serving => l2 \in Serving

(* Such a step of the leader. *)
LEMMA PlainStep ==
  ASSUME SInv, TypeOK', NEW b \in Cpu, pc[b] \in Lead, NEW l2 \in Lead, Moves(b, l2),
         Similar(config, pc[b], l2), Plain(pc[b], l2),
         config' = config, BspIndex' = BspIndex, InsideSmm' = InsideSmm,
         Counter' = Counter, Run' = Run, Procedure' = Procedure,
         loc'[b].apCount = loc[b].apCount, l2 \in Waits => loc'[b].n = loc[b].apCount,
         \A d \in Cpu \ {b} : Busy'[d] = Busy[d] /\ Present'[d] = Present[d],
         \/ Present' = Present /\ (pc[b] \in BspPresentL <=> l2 \in BspPresentL)
         \/ Present'[b] = TRUE <=> l2 \in BspPresentL
  PROVE  SInv'
<1>1. Words(config, b, pc[b], BspIndex, InsideSmm)
  BY LeaderIs DEF Led
<1>2. Words(config, b, l2, BspIndex', InsideSmm')
  BY <1>1 DEF Words, Plain, Similar, EndL
<1>3. ASSUME NEW d \in Cpu \ {b} PROVE Holds(pc[b], loc[b].n, l2, loc'[b].n, d)
  BY DEF Holds, Plain
<1>4. l2 # "clearInside" /\ l2 # "drain" /\ pc[b] \notin OpenL
  BY DEF Plain
<1>5. Present'[b] = TRUE <=> l2 \in BspPresentL
  BY LeaderPresent
<1> QED BY <1>2, <1>3, <1>4, <1>5, SimilarStep

(* The moves that are plain, and those that change the BSP's Present. *)
LEMMA PlainMoves ==
  /\ Plain("bspClear", "bspInside") /\ Plain("bspPresent", "clearSmi")
  /\ Plain("clearSmi", "arrive1") /\ Plain("clearSmi", "acquire")
  /\ Plain("arrive1", "sendIpi") /\ Plain("sendIpi", "arrive2") /\ Plain("sendIpi", "inSync")
  /\ Plain("arrive2", "inSync") /\ Plain("backup", "waitBackup") /\ Plain("program", "waitProgram")
  /\ Plain("restore", "waitRestore") /\ Plain("acquire", "handler") /\ Plain("blockBusy", "handler")
  /\ Plain("update", "bspAbsent") /\ Plain("bspAbsent", "waitReset")
<1> USE DEF Plain, InsideL, OpenL, ArriveL, BackupL, ProgramL, RunL, BspRun, Serving
<1>1. /\ Plain("bspClear", "bspInside") /\ Plain("bspPresent", "clearSmi")
      /\ Plain("clearSmi", "arrive1") /\ Plain("clearSmi", "acquire")
      /\ Plain("arrive1", "sendIpi") /\ Plain("sendIpi", "arrive2") /\ Plain("sendIpi", "inSync")
  OBVIOUS
<1>2. /\ Plain("arrive2", "inSync") /\ Plain("backup", "waitBackup") /\ Plain("program", "waitProgram")
      /\ Plain("restore", "waitRestore") /\ Plain("acquire", "handler") /\ Plain("blockBusy", "handler")
  OBVIOUS
<1>3. Plain("update", "bspAbsent") /\ Plain("bspAbsent", "waitReset")
  OBVIOUS
<1> QED BY <1>1, <1>2, <1>3

(* The positions of the leader, and those with Present set. *)
LEMMA LeadPositions ==
  /\ Lead \subseteq Pc
  /\ {"bspClear", "bspInside", "bspPresent", "clearSmi", "arrive1", "sendIpi", "arrive2", "inSync",
      "lockdown", "acquire", "handler", "blockBusy", "drain", "clearInside", "backup", "program",
      "restore", "countPresent", "update", "bspAbsent", "resetBsp", "resetCounter"}
       \subseteq Lead
  /\ Waits \subseteq Lead /\ Releases \subseteq Lead
  /\ {"clearSmi", "arrive1", "sendIpi", "arrive2", "inSync", "lockdown", "acquire", "handler",
      "blockBusy", "drain", "clearInside", "backup", "program", "restore", "countPresent", "update",
      "bspAbsent"} \subseteq BspPresentL
  /\ Waits \ {"waitReset"} \subseteq BspPresentL /\ Releases \subseteq BspPresentL
  /\ {"bspClear", "bspInside", "bspPresent", "waitReset", "resetBsp", "resetCounter"}
       \cap BspPresentL = {}
<1>1. Lead \subseteq Pc
  BY Positions
<1>2. {"bspClear", "bspInside", "bspPresent", "clearSmi", "arrive1", "sendIpi", "arrive2", "inSync",
       "lockdown", "acquire", "handler", "blockBusy", "drain", "clearInside", "backup", "program",
       "restore", "countPresent", "update", "bspAbsent", "resetBsp", "resetCounter"}
        \subseteq Lead
  BY DEF Lead, BspPc, BspEntry, BspLocked, BspRun
<1>3. Waits \subseteq Lead /\ Releases \subseteq Lead
  BY DEF Lead, BspPc, BspLocked
<1>4. {"clearSmi", "arrive1", "sendIpi", "arrive2", "inSync", "lockdown", "acquire", "handler",
      "blockBusy", "drain", "clearInside", "backup", "program", "restore", "countPresent", "update",
      "bspAbsent"} \subseteq BspPresentL
  BY <1>2 DEF BspPresentL, EndL
<1>5. Waits \ {"waitReset"} \subseteq BspPresentL /\ Releases \subseteq BspPresentL
  <2>1. (Waits \ {"waitReset"}) \cap ({"bspClear", "bspInside", "bspPresent", "waitReset"} \union EndL) = {}
        /\ Releases \cap ({"bspClear", "bspInside", "bspPresent", "waitReset"} \union EndL) = {}
    BY DEF Waits, Releases, EndL
  <2> QED BY <1>3, <2>1 DEF BspPresentL
<1>6. {"bspClear", "bspInside", "bspPresent", "waitReset", "resetBsp", "resetCounter"}
       \cap BspPresentL = {}
  BY DEF BspPresentL, EndL
<1> QED BY <1>1, <1>2, <1>3, <1>4, <1>5, <1>6

(* The BSP up to the lock of the counter: the steps that are plain. *)
LEMMA GatherSteps ==
  ASSUME SInv, NEW c \in Cpu,
         \/ ClearSwitchBsp(c) \/ ClearTopLevelSmiStatus(c) \/ WaitForApArrival1(c) \/ SendSmiIpis(c)
         \/ WaitForApArrival2(c)
  PROVE  SInv'
<1>0. TypeOK
  BY DEF SInv
<1>1. Steady
  BY DEF Steady, ClearSwitchBsp, ClearTopLevelSmiStatus, WaitForApArrival1, SendSmiIpis,
         WaitForApArrival2, platform, mpSync, election, cpuData
<1>2. /\ smiStatus' \in BOOLEAN /\ blocked' = blocked /\ due' = due /\ smis' = smis
      /\ calls' = calls /\ mtrr' = mtrr /\ SwitchBsp' \in BOOLEAN /\ CandidateBsp' \in SUBSET Cpu
      /\ Operation' = Operation /\ AllCpusInSync' = AllCpusInSync /\ races' = races
  BY <1>0 DEF TypeOK, ClearSwitchBsp, ClearTopLevelSmiStatus, WaitForApArrival1, SendSmiIpis,
         WaitForApArrival2, platform, election, mpSync
<1>3. smiPending' \in [Cpu -> BOOLEAN]
  <2>1. (\E S : SendSmiIpi(S)) \/ smiPending' = smiPending
    BY DEF ClearSwitchBsp, ClearTopLevelSmiStatus, WaitForApArrival1, SendSmiIpis,
           WaitForApArrival2, platform
  <2>2. smiPending \in [Cpu -> BOOLEAN]
    BY <1>0 DEF TypeOK
  <2> QED BY <2>1, <2>2, IpiType
<1>4. ASSUME NEW l2 \in {"bspInside", "arrive1", "acquire", "sendIpi", "arrive2", "inSync"},
             Goto(c, l2), pc[c] \in {"bspClear", "clearSmi", "arrive1", "sendIpi", "arrive2"},
             Similar(config, pc[c], l2), Plain(pc[c], l2),
             pc[c] = "bspClear" <=> l2 = "bspInside"
      PROVE  SInv'
  <2>1. l2 \in Lead /\ l2 \in Pc /\ pc[c] \in Lead
    BY <1>4, LeadPositions
  <2>2. /\ Moves(c, l2) /\ loc'[c].apCount = loc[c].apCount
    BY <1>0, <1>4, <2>1, JustGoto
  <2>3. l2 \notin Waits /\ (pc[c] \in BspPresentL <=> l2 \in BspPresentL)
    <3>1. l2 \notin Waits
      BY DEF Waits
    <3>2. CASE pc[c] = "bspClear"
      BY <1>4, <3>1, <3>2, LeadPositions
    <3>3. CASE pc[c] # "bspClear"
      BY <1>4, <3>1, <3>3, LeadPositions
    <3> QED BY <3>2, <3>3
  <2>4. TypeOK'
    BY <1>0, <1>1, <1>2, <1>3, <2>2 DEF TypeOK, Steady, Moves, Locals
  <2> QED BY <1>1, <1>4, <2>1, <2>2, <2>3, <2>4, PlainStep DEF Steady
<1>5. CASE ClearSwitchBsp(c)
  <2>1. pc[c] = "bspClear" /\ Goto(c, "bspInside")
    BY <1>5 DEF ClearSwitchBsp, At
  <2> QED BY <1>4, <2>1, SimilarMoves, PlainMoves
<1>6. CASE ClearTopLevelSmiStatus(c)
  <2>1. pc[c] = "clearSmi" /\ Goto(c, IF Gathers(config) THEN "arrive1" ELSE "acquire")
    BY <1>6 DEF ClearTopLevelSmiStatus, At, GatherFirst, Gathers
  <2>2. CASE Gathers(config)
    BY <1>4, <2>1, <2>2, SimilarMoves, PlainMoves
  <2>3. CASE ~Gathers(config)
    BY <1>4, <2>1, <2>3, SimilarMoves, PlainMoves
  <2> QED BY <2>2, <2>3
<1>7. CASE WaitForApArrival1(c)
  <2>1. pc[c] = "arrive1" /\ Goto(c, "sendIpi")
    BY <1>7 DEF WaitForApArrival1, At
  <2> QED BY <1>4, <2>1, SimilarMoves, PlainMoves
<1>8. CASE SendSmiIpis(c)
  <2>1. pc[c] = "sendIpi" /\ (Goto(c, "arrive2") \/ Goto(c, "inSync"))
    BY <1>8 DEF SendSmiIpis, At
  <2> QED BY <1>4, <2>1, SimilarMoves, PlainMoves
<1>9. CASE WaitForApArrival2(c)
  <2>1. pc[c] = "arrive2" /\ Goto(c, "inSync")
    BY <1>9 DEF WaitForApArrival2, At
  <2> QED BY <1>4, <2>1, SimilarMoves, PlainMoves
<1> QED BY <1>5, <1>6, <1>7, <1>8, <1>9

(* The BSP sets and clears Present, and takes over the requests to switch the BSP. *)
LEMMA BspPresentSteps ==
  ASSUME SInv, NEW c \in Cpu, SetBspPresent(c) \/ SmmCpuUpdate(c) \/ ClearBspPresent(c)
  PROVE  SInv'
<1>0. TypeOK
  BY DEF SInv
<1>1. /\ config' = config /\ Counter' = Counter /\ InsideSmm' = InsideSmm
      /\ AllCpusInSync' = AllCpusInSync /\ BspIndex' = BspIndex
      /\ smiStatus' = smiStatus /\ smiPending' = smiPending /\ blocked' = blocked
      /\ due' = due /\ smis' = smis /\ calls' = calls /\ mtrr' = mtrr
      /\ Run' = Run /\ Busy' = Busy /\ Procedure' = Procedure /\ races' = races
  BY DEF SetBspPresent, SmmCpuUpdate, ClearBspPresent, platform, mpSync, election, cpuData
<1>2. SwitchBsp' \in BOOLEAN /\ CandidateBsp' \in SUBSET Cpu /\ Operation' \in SUBSET Cpu
  BY <1>0 DEF TypeOK, SetBspPresent, SmmCpuUpdate, ClearBspPresent, election
<1>3. PICK l2 \in {"clearSmi", "bspAbsent", "waitReset"} :
        /\ Goto(c, l2) /\ pc[c] \in {"bspPresent", "update", "bspAbsent"}
        /\ Similar(config, pc[c], l2) /\ Plain(pc[c], l2)
        /\ \/ l2 = "clearSmi" /\ Present' = [Present EXCEPT ![c] = TRUE]
           \/ l2 = "bspAbsent" /\ pc[c] = "update" /\ Present' = Present
           \/ l2 = "waitReset" /\ Present' = [Present EXCEPT ![c] = FALSE]
  BY SimilarMoves, PlainMoves DEF SetBspPresent, SmmCpuUpdate, ClearBspPresent, At, cpuData
<1>4. l2 \in Lead /\ l2 \in Pc /\ pc[c] \in Lead
  <2>1. "waitReset" \in Waits
    BY DEF Waits
  <2> QED BY <1>3, <2>1, LeadPositions
<1>5. /\ Moves(c, l2) /\ loc'[c].apCount = loc[c].apCount
      /\ loc'[c].n = LoopStart(l2, loc[c].apCount)
  BY <1>0, <1>3, <1>4, JustGoto
<1>6. l2 \in Waits => loc'[c].n = loc[c].apCount
  BY <1>0, <1>5, LoopStarts, Typed
<1>7. Present \in [Cpu -> BOOLEAN]
  BY <1>0 DEF TypeOK
<1>8. Present' \in [Cpu -> BOOLEAN] /\ \A d \in Cpu \ {c} : Present'[d] = Present[d]
  BY <1>3, <1>7
<1>9. \/ Present' = Present /\ (pc[c] \in BspPresentL <=> l2 \in BspPresentL)
      \/ Present'[c] = TRUE <=> l2 \in BspPresentL
  BY <1>3, <1>7, LeadPositions
<1>10. TypeOK'
  BY <1>0, <1>1, <1>2, <1>5, <1>8 DEF TypeOK, Moves, Locals
<1> QED BY <1>1, <1>3, <1>4, <1>5, <1>6, <1>8, <1>9, <1>10, PlainStep

(* The BSP's work on the MTRRs, and its own Busy lock. *)
LEMMA BspWorkSteps ==
  ASSUME SInv, NEW c \in Cpu,
         \/ BspBackupMtrrs(c) \/ BspProgramMtrrs(c) \/ AcquireBspBusy(c) \/ WaitForProcedure(c)
  PROVE  SInv'
<1>0. TypeOK /\ loc[c] \in Locals /\ mtrr \in [Cpu -> {"os", "smm"}] /\ mtrr[c] \in {"os", "smm"}
      /\ Busy \in [Cpu -> BOOLEAN]
  BY Typed DEF SInv, TypeOK
<1>1. /\ config' = config /\ Counter' = Counter /\ InsideSmm' = InsideSmm
      /\ AllCpusInSync' = AllCpusInSync /\ BspIndex' = BspIndex
      /\ smiStatus' = smiStatus /\ smiPending' = smiPending /\ blocked' = blocked
      /\ due' \in BOOLEAN /\ smis' = smis /\ calls' = calls
      /\ Run' = Run /\ Procedure' = Procedure /\ Present' = Present /\ races' = races
      /\ SwitchBsp' = SwitchBsp /\ CandidateBsp' = CandidateBsp /\ Operation' = Operation
  BY <1>0 DEF TypeOK, BspBackupMtrrs, BspProgramMtrrs, AcquireBspBusy, WaitForProcedure, platform,
         mpSync, election, cpuData
<1>2. Busy' \in [Cpu -> BOOLEAN] /\ \A d \in Cpu \ {c} : Busy'[d] = Busy[d]
  BY <1>0 DEF BspBackupMtrrs, BspProgramMtrrs, AcquireBspBusy, WaitForProcedure, cpuData
<1>3. loc[c].saved \in {"os", "smm"}
  BY <1>0 DEF Locals
<1>4. mtrr' \in [Cpu -> {"os", "smm"}]
  <2>1. mtrr' = mtrr \/ SetMtrr(c, "smm") \/ SetMtrr(c, loc[c].saved)
    BY DEF BspBackupMtrrs, BspProgramMtrrs, AcquireBspBusy, WaitForProcedure
  <2> QED BY <1>0, <1>3, <2>1, MtrrType
<1>5. ASSUME NEW l2 \in {"waitBackup", "waitProgram", "waitRestore", "handler"},
             NEW f \in Locals, f.apCount = loc[c].apCount, GotoWith(c, l2, f),
             pc[c] \in {"backup", "program", "restore", "acquire", "blockBusy"},
             Similar(config, pc[c], l2), Plain(pc[c], l2)
      PROVE  SInv'
  <2>1. l2 \in Lead /\ l2 \in Pc /\ pc[c] \in Lead /\ pc[c] \in BspPresentL /\ l2 \in BspPresentL
    <3>1. {"waitBackup", "waitProgram", "waitRestore"} \subseteq Waits
      BY DEF Waits
    <3> QED BY <1>5, <3>1, LeadPositions
  <2>2. Moves(c, l2) /\ loc'[c].apCount = loc[c].apCount /\ loc'[c].n = LoopStart(l2, loc[c].apCount)
    BY <1>0, <1>5, <2>1, GotoMoves
  <2>3. l2 \in Waits => loc'[c].n = loc[c].apCount
    BY <1>0, <2>2, LoopStarts, Typed
  <2>4. TypeOK'
    BY <1>0, <1>1, <1>2, <1>4, <2>2 DEF TypeOK, Moves, Locals
  <2> QED BY <1>1, <1>2, <1>5, <2>1, <2>2, <2>3, <2>4, PlainStep
<1>6. CASE BspBackupMtrrs(c)
  <2>1. pc[c] = "backup" /\ GotoWith(c, "waitBackup", [loc[c] EXCEPT !.saved = mtrr[c]])
    BY <1>6 DEF BspBackupMtrrs, At
  <2>2. [loc[c] EXCEPT !.saved = mtrr[c]] \in Locals
        /\ [loc[c] EXCEPT !.saved = mtrr[c]].apCount = loc[c].apCount
    BY <1>0 DEF Locals
  <2> QED BY <1>5, <2>1, <2>2, SimilarMoves, PlainMoves
<1>7. CASE BspProgramMtrrs(c)
  <2>1. \/ pc[c] = "program" /\ Goto(c, "waitProgram")
        \/ pc[c] = "restore" /\ Goto(c, "waitRestore")
    BY <1>7 DEF BspProgramMtrrs, At
  <2> QED BY <1>0, <1>5, <2>1, SimilarMoves, PlainMoves DEF Goto
<1>8. CASE AcquireBspBusy(c)
  <2>1. pc[c] = "acquire" /\ Goto(c, "handler")
    BY <1>8 DEF AcquireBspBusy, At
  <2> QED BY <1>0, <1>5, <2>1, SimilarMoves, PlainMoves DEF Goto
<1>9. CASE WaitForProcedure(c)
  <2>1. pc[c] = "blockBusy" /\ GotoWith(c, "handler", [loc[c] EXCEPT !.bsp = NoBsp])
    BY <1>9 DEF WaitForProcedure, At
  <2>2. [loc[c] EXCEPT !.bsp = NoBsp] \in Locals
        /\ [loc[c] EXCEPT !.bsp = NoBsp].apCount = loc[c].apCount
    BY <1>0 DEF Locals
  <2> QED BY <1>5, <2>1, <2>2, SimilarMoves, PlainMoves
<1> QED BY <1>6, <1>7, <1>8, <1>9

(* The BSP announces itself. *)
LEMMA SetInsideStep ==
  ASSUME SInv, NEW c \in Cpu, SetInsideSmm(c)
  PROVE  SInv'
<1>0. TypeOK
  BY DEF SInv
<1>1. pc[c] = "bspInside" /\ Goto(c, "bspPresent") /\ InsideSmm' = TRUE
  BY DEF SetInsideSmm, At
<1>2. /\ config' = config /\ Counter' = Counter
      /\ AllCpusInSync' = AllCpusInSync /\ BspIndex' = BspIndex
      /\ smiStatus' = smiStatus /\ smiPending' = smiPending /\ blocked' = blocked
      /\ due' = due /\ smis' = smis /\ calls' = calls /\ mtrr' = mtrr
      /\ Run' = Run /\ Busy' = Busy /\ Procedure' = Procedure /\ Present' = Present
      /\ SwitchBsp' = SwitchBsp /\ CandidateBsp' = CandidateBsp /\ Operation' = Operation
      /\ races' = races
  BY DEF SetInsideSmm, platform, election, cpuData
<1>3. "bspPresent" \in Lead /\ "bspPresent" \in Pc /\ "bspInside" \in Lead
      /\ "bspPresent" \notin BspPresentL /\ "bspInside" \notin BspPresentL
  BY LeadPositions
<1>4. Moves(c, "bspPresent") /\ loc'[c].apCount = loc[c].apCount
  BY <1>0, <1>1, <1>3, JustGoto
<1>5. TypeOK'
  BY <1>0, <1>1, <1>2, <1>4 DEF TypeOK, Moves, Locals
<1>6. Words(config, c, "bspInside", BspIndex, InsideSmm)
  BY <1>1, <1>3, LeaderIs DEF Led
<1>7. /\ "bspPresent" \in InsideL
      /\ ~Locked(config, "bspPresent") /\ ~Locked(config, "bspInside")
      /\ "bspPresent" \notin Waits /\ "bspInside" \notin Serving /\ "bspInside" \notin OpenL
  BY DEF InsideL, ArriveL, Locked, BspLocked, BspRun, Releases, Waits, Serving, OpenL
<1>8. Words(config, c, "bspPresent", BspIndex', InsideSmm')
  BY <1>1, <1>2, <1>6, <1>7 DEF Words
<1>9. Present'[c] = TRUE <=> "bspPresent" \in BspPresentL
  BY <1>1, <1>2, <1>3, LeaderPresent
<1>10. \A d : Holds(pc[c], loc[c].n, "bspPresent", loc'[c].n, d)
  BY <1>1, <1>7 DEF Holds
<1>11. Similar(config, "bspInside", "bspPresent")
  BY SimilarMoves
<1> QED BY <1>1, <1>2, <1>3, <1>4, <1>5, <1>7, <1>8, <1>9, <1>10, <1>11, SimilarStep

(* The BSP says that everybody is in. *)
LEMMA SetInSyncStep ==
  ASSUME SInv, NEW c \in Cpu, SetAllCpusInSync(c)
  PROVE  SInv'
<1>0. TypeOK
  BY DEF SInv
<1>1. pc[c] = "inSync" /\ Goto(c, "lockdown") /\ AllCpusInSync' = TRUE
  BY DEF SetAllCpusInSync, At
<1>2. /\ config' = config /\ Counter' = Counter
      /\ InsideSmm' = InsideSmm /\ BspIndex' = BspIndex
      /\ smiStatus' = smiStatus /\ smiPending' = smiPending /\ blocked' = blocked
      /\ due' = due /\ smis' = smis /\ calls' = calls /\ mtrr' = mtrr
      /\ Run' = Run /\ Busy' = Busy /\ Procedure' = Procedure /\ Present' = Present
      /\ SwitchBsp' = SwitchBsp /\ CandidateBsp' = CandidateBsp /\ Operation' = Operation
      /\ races' = races
  BY DEF SetAllCpusInSync, platform, election, cpuData
<1>3. "lockdown" \in Lead /\ "lockdown" \in Pc /\ "inSync" \in Lead
      /\ "lockdown" \in BspPresentL /\ "inSync" \in BspPresentL
  BY LeadPositions
<1>4. Moves(c, "lockdown") /\ loc'[c].apCount = loc[c].apCount
  BY <1>0, <1>1, <1>3, JustGoto
<1>5. TypeOK'
  BY <1>0, <1>1, <1>2, <1>4 DEF TypeOK, Moves, Locals
<1>6. Words(config, c, "inSync", BspIndex, InsideSmm)
  BY <1>1, <1>3, LeaderIs DEF Led
<1>7. /\ "lockdown" \in InsideL /\ "inSync" \in InsideL
      /\ "lockdown" \notin Waits /\ "inSync" \notin Serving /\ "inSync" \notin OpenL
  BY DEF InsideL, ArriveL, Waits, Serving, OpenL
<1>8. Words(config, c, "lockdown", BspIndex', InsideSmm')
  BY <1>1, <1>2, <1>6, <1>7 DEF Words
<1>9. Present'[c] = TRUE <=> "lockdown" \in BspPresentL
  BY <1>1, <1>2, <1>3, LeaderPresent
<1>10. \A d : Holds(pc[c], loc[c].n, "lockdown", loc'[c].n, d)
  BY <1>1, <1>7 DEF Holds
<1>11. Similar(config, "inSync", "lockdown")
  BY SimilarMoves
<1> QED BY <1>1, <1>2, <1>3, <1>4, <1>5, <1>7, <1>8, <1>9, <1>10, <1>11, SimilarStep

(* Nothing is shared in the step but the position of the leader. *)
LEMMA DrainMove ==
  ASSUME SInv, NEW c \in Cpu, pc[c] \in {"handler", "drain", "countPresent"},
         NEW l2 \in {"drain", "clearInside", "inSync"}, Moves(c, l2),
         Similar(config, pc[c], l2), Quiet, Run' = Run, Busy' = Busy, Procedure' = Procedure,
         Present' = Present, mtrr' = mtrr,
         loc'[c].apCount = loc[c].apCount, l2 = "drain" => loc'[c].n > 0,
         pc[c] = "countPresent" => Counter = MaxWord,
         \A d \in Cpu \ {c} : pc[d] \in Member =>
           /\ pc[d] \in Pre => l2 # "clearInside"
           /\ pc[d] = "initBusy" \/ Free(Busy[d]) \/ Holds(pc[c], loc[c].n, l2, loc'[c].n, d)
  PROVE  SInv'
<1>0. TypeOK
  BY DEF SInv
<1>1. l2 \in Lead /\ pc[c] \in Lead /\ l2 \in BspPresentL /\ pc[c] \in BspPresentL
  BY LeadPositions
<1>2. /\ l2 \in InsideL /\ pc[c] \in InsideL /\ l2 \notin Waits
      /\ pc[c] # "resetCounter" /\ l2 # "resetCounter" /\ (pc[c] \in OpenL => pc[c] = "countPresent")
  BY DEF InsideL, ArriveL, RunL, BspRun, Waits, OpenL
<1>3. TypeOK'
  <2>1. /\ Run' \in [Cpu -> 0 .. MaxWord] /\ Busy' \in [Cpu -> BOOLEAN]
        /\ Present' \in [Cpu -> BOOLEAN] /\ Procedure' \in [Cpu -> BOOLEAN]
        /\ mtrr' \in [Cpu -> {"os", "smm"}]
    BY <1>0 DEF TypeOK
  <2> QED BY <1>0, <2>1, QuietType
<1>4. Words(config, c, pc[c], BspIndex, InsideSmm) /\ Led(c)
  BY <1>1, LeaderIs DEF Led
<1>5. Words(config, c, l2, BspIndex', InsideSmm')
  BY <1>2, <1>4 DEF Words, Quiet, Similar
<1>6. Present'[c] = TRUE <=> l2 \in BspPresentL
  BY <1>1, LeaderPresent
<1> QED BY <1>1, <1>2, <1>3, <1>5, <1>6, SimilarStep DEF Quiet

(* The SMI handlers return and the BSP waits for the procedures. *)
LEMMA HandlersReturnStep ==
  ASSUME SInv, NEW c \in Cpu, HandlersReturn(c)
  PROVE  SInv'
<1>0. TypeOK
  BY DEF SInv
<1>1. pc[c] = "handler" /\ Goto(c, "drain")
  BY DEF HandlersReturn, At
<1>2. Quiet /\ Run' = Run /\ Busy' = Busy /\ Procedure' = Procedure /\ Present' = Present
      /\ mtrr' = mtrr
  BY DEF HandlersReturn, Quiet, platform, mpSync, election, cpuData
<1>3. "drain" \in Pc
  BY LeadPositions
<1>4. Moves(c, "drain") /\ loc'[c].apCount = loc[c].apCount
      /\ loc'[c].n = LoopStart("drain", loc[c].apCount)
  BY <1>0, <1>1, <1>3, JustGoto
<1>5. loc'[c].n = N /\ N > 0
  <2>1. loc[c].apCount \in 0 .. N
    BY <1>0, Typed
  <2> QED BY <1>4, <2>1, LoopStarts
<1>6. \A d \in Cpu : Holds(pc[c], loc[c].n, "drain", loc'[c].n, d)
  <2>1. \A d \in Cpu : d < N
    BY <1>0, Typed
  <2> QED BY <1>5, <2>1 DEF Holds, Serving
<1>7. Similar(config, "handler", "drain")
  BY SimilarMoves
<1> QED BY <1>1, <1>2, <1>4, <1>5, <1>6, <1>7, DrainMove

(* One turn of the loop that waits for the procedures, or its end. *)
LEMMA DrainStep ==
  ASSUME SInv, NEW c \in Cpu, DrainProcedures(c)
  PROVE  SInv'
<1>0. TypeOK /\ loc[c].n \in Nat /\ loc[c].n \in 0 .. N /\ loc[c] \in Locals /\ N \in Nat
      /\ loc \in [Cpu -> Locals] /\ pc \in [Cpu -> Pc]
  BY Typed DEF SInv, TypeOK, Locals
<1>1. pc[c] = "drain" /\ pc[c] \in Lead
  BY LeadPositions DEF DrainProcedures, At
<1>2. Quiet /\ Run' = Run /\ Busy' = Busy /\ Procedure' = Procedure /\ Present' = Present
      /\ mtrr' = mtrr
  BY DEF DrainProcedures, Quiet, platform, mpSync, election, cpuData
<1>3. Led(c) /\ loc[c].n > 0
  <2>1. Own(pc[c], Present[c], Run[c], Procedure[c], Busy[c], loc[c].n)
    BY DEF SInv, Alone
  <2> QED BY <1>1, <2>1, LeaderIs DEF Own
<1> DEFINE e == loc[c].n - 1
<1>4. /\ e # c /\ Present[e] => ~Busy[e]
      /\ \/ e = 0 /\ Goto(c, IF Gathers(config) THEN "clearInside" ELSE "inSync")
         \/ e # 0 /\ loc' = [loc EXCEPT ![c].n = e] /\ pc' = pc
  BY DEF DrainProcedures, GatherFirst, Gathers
<1>5. e \in Nat /\ loc[c].n = e + 1 /\ e \in 0 .. N
  BY <1>0, <1>3
<1> HIDE DEF e
<1>6. ASSUME NEW d \in Cpu \ {c}, pc[d] \in Member
      PROVE  /\ pc[d] \in Pre => ~Gathers(config)
             /\ pc[d] = "initBusy" \/ Free(Busy[d]) \/ d < e
  <2>1. Place(config, c, "drain", loc[c].n, d, pc[d], Run[d], Busy[d], loc[d].bsp)
    BY <1>1, <1>3, <1>6 DEF Led
  <2>2. Stage(config, "drain") = "run"
    BY DEF Stage, ArriveL, BackupL, ProgramL, RunL, BspRun
  <2>3. pc[d] \in Pre => ~Gathers(config)
    BY <2>1, <2>2 DEF Place
  <2>4. ASSUME pc[d] # "initBusy", Busy[d] = TRUE PROVE d < e
    <3>1. pc[d] \in Loop /\ d < loc[c].n
      BY <2>1, <2>4 DEF Place
    <3>2. pc[d] \in PresentPc
      BY <3>1, LatePositions DEF Loop
    <3>3. Own(pc[d], Present[d], Run[d], Procedure[d], Busy[d], loc[d].n)
      BY DEF SInv, Alone
    <3>4. Present[d] = TRUE
      BY <3>2, <3>3 DEF Own
    <3>5. d # e
      BY <1>4, <2>4, <3>4
    <3>6. d \in Nat
      BY <1>0, Typed
    <3> QED BY <1>5, <3>1, <3>5, <3>6
  <2> QED BY <2>3, <2>4 DEF Free
<1>7. CASE e # 0
  <2>1. loc' = [loc EXCEPT ![c].n = e] /\ pc' = pc
    BY <1>4, <1>7
  <2>2. Moves(c, "drain") /\ loc'[c].n = e /\ loc'[c].apCount = loc[c].apCount
    BY <1>0, <1>1, <1>5, <2>1 DEF Moves, Locals
  <2>3. \A d : d < e => Holds(pc[c], loc[c].n, "drain", loc'[c].n, d)
    BY <2>2 DEF Holds, Serving
  <2>4. e > 0
    BY <1>5, <1>7
  <2>5. Similar(config, "drain", "drain")
    BY SimilarMoves
  <2> QED BY <1>1, <1>2, <1>6, <2>2, <2>3, <2>4, <2>5, DrainMove
<1>8. CASE e = 0
  <2> DEFINE l2 == IF Gathers(config) THEN "clearInside" ELSE "inSync"
  <2>1. Goto(c, l2)
    BY <1>4, <1>8
  <2>2. l2 \in {"clearInside", "inSync"} /\ (l2 = "clearInside" => Gathers(config))
        /\ Similar(config, "drain", l2)
    BY SimilarMoves
  <2> HIDE DEF l2
  <2>3. l2 \in Pc
    BY <2>2, LeadPositions
  <2>4. Moves(c, l2) /\ loc'[c].apCount = loc[c].apCount
    BY <1>0, <2>1, <2>3, JustGoto
  <2>5. ASSUME NEW d \in Cpu \ {c}, pc[d] \in Member
        PROVE  pc[d] = "initBusy" \/ Free(Busy[d])
    <3>1. ~(d < e)
      BY <1>0, <1>8, Typed
    <3> QED BY <1>6, <2>5, <3>1
  <2> QED BY <1>1, <1>2, <1>6, <2>2, <2>4, <2>5, DrainMove
<1> QED BY <1>7, <1>8

(* In relaxed mode, the BSP has seen that everybody it counted is present. *)
LEMMA CountPresentStep ==
  ASSUME SInv, NEW c \in Cpu, CountPresent(c)
  PROVE  SInv'
<1>0. TypeOK
  BY DEF SInv
<1>1. /\ pc[c] = "countPresent" /\ Goto(c, "clearInside")
      /\ Cardinality({d \in Cpu : Present[d]}) > loc[c].apCount
  BY DEF CountPresent, At
<1>2. Quiet /\ Run' = Run /\ Busy' = Busy /\ Procedure' = Procedure /\ Present' = Present
      /\ mtrr' = mtrr
  BY DEF CountPresent, Quiet, platform, mpSync, election, cpuData
<1>3. pc[c] \in Lead /\ "clearInside" \in Pc
  BY <1>1, LeadPositions
<1>4. Led(c)
  BY <1>3, LeaderIs
<1>5. Moves(c, "clearInside") /\ loc'[c].apCount = loc[c].apCount
  BY <1>0, <1>1, <1>3, JustGoto
<1>6. Num(pc, Counted) + (MaxWord - Counter) = loc[c].apCount + 1
  <2>1. /\ Locked(config, "countPresent") /\ "countPresent" \notin ResetL \union EndL
    BY DEF Locked, BspLocked, ResetL, EndL
  <2>2. Tally(config, pc[c], loc[c].n, loc[c].apCount, Counter, Run[c], TodoNow(c), Num(pc, Counted))
    BY <1>4 DEF Led
  <2> QED BY <1>1, <2>1, <2>2 DEF Tally
<1>7. Num(pc, PresentPc) > loc[c].apCount
  <2>1. ASSUME NEW d \in Cpu PROVE Present[d] <=> pc[d] \in PresentPc
    <3>1. Own(pc[d], Present[d], Run[d], Procedure[d], Busy[d], loc[d].n)
      BY DEF SInv, Alone
    <3>2. Present[d] \in BOOLEAN
      BY <1>0, Typed
    <3> QED BY <3>1, <3>2 DEF Own
  <2>2. {d \in Cpu : Present[d]} = {d \in Cpu : pc[d] \in PresentPc}
    BY <2>1
  <2> QED BY <1>1, <2>2 DEF Num
<1>11. \A q \in Cpu : pc[q] \in PresentPc => pc[q] \in Counted
  BY DEF PresentPc, BspPresentL, Counted
<1>12. /\ Num(pc, PresentPc) \in Nat /\ Num(pc, Counted) \in Nat /\ loc[c].apCount \in Nat
       /\ MaxWord \in Nat /\ Counter \in 0 .. MaxWord
  BY <1>0, NumSet, Typed DEF TypeOK
<1>8. ASSUME NEW d \in Cpu, pc[d] \in Pre PROVE FALSE
  <2>1. pc[d] \notin PresentPc /\ pc[d] \in Counted
    BY <1>8, PlainPositions, Positions
  <2>2. Num(pc, PresentPc) < Num(pc, Counted)
    BY <1>11, <2>1, NumLess
  <2> QED BY <1>6, <1>7, <1>12, <2>2
<1>13. Counter = MaxWord
  <2>1. Num(pc, PresentPc) <= Num(pc, Counted)
    <3>1. {q \in Cpu : pc[q] \in PresentPc} \in SUBSET {q \in Cpu : pc[q] \in Counted}
      BY <1>11
    <3> QED BY <3>1, NumSet, FS_Subset DEF Num
  <2> QED BY <1>6, <1>7, <1>12, <2>1
<1>9. \A d : Holds(pc[c], loc[c].n, "clearInside", loc'[c].n, d)
  BY <1>1 DEF Holds, Serving
<1>10. Similar(config, "countPresent", "clearInside")
  BY SimilarMoves
<1> QED BY <1>1, <1>2, <1>5, <1>8, <1>9, <1>10, <1>13, DrainMove

(* An SMI handler asks to switch the BSP. *)
LEMMA SwitchStep ==
  ASSUME SInv, NEW c \in Cpu, NEW d \in Cpu, SmmSwitchBsp(c, d)
  PROVE  SInv'
<1>1. /\ config' = config /\ Counter' = Counter /\ InsideSmm' = InsideSmm
      /\ AllCpusInSync' = AllCpusInSync /\ BspIndex' = BspIndex
      /\ Run' = Run /\ Busy' = Busy /\ Present' = Present /\ Procedure' = Procedure
      /\ pc' = pc /\ loc' = loc /\ races' = races
  BY DEF SmmSwitchBsp, mpSync, cpuData
<1>2. TypeOK'
  <2>0. TypeOK
    BY DEF SInv
  <2>1. calls' \in 0 .. MaxCalls
    BY <2>0, SmmAssumption DEF TypeOK, SmmSwitchBsp
  <2>2. Operation' \in SUBSET Cpu
    BY <2>0 DEF TypeOK, SmmSwitchBsp
  <2> QED BY <1>1, <2>0, <2>1, <2>2 DEF TypeOK, SmmSwitchBsp, platform
<1>3. Idle => Idle'
  BY <1>1 DEF Idle, Num
<1>4. \A b \in Cpu : Led(b) => Led(b)'
  BY <1>1 DEF Led, TodoNow, Num
<1> QED BY <1>1, <1>2, <1>3, <1>4 DEF SInv, FixedBsp, Alone

(* The leader locks the counter: a member keeps its place. *)
LEMMA LockPlace ==
  ASSUME NEW cf, NEW b, NEW n, NEW n2, NEW d, NEW k, NEW r, NEW y, NEW m,
         Place(cf, b, "lockdown", n, d, k, r, y, m)
  PROVE  Place(cf, b, IF Gathers(cf) THEN "waitArrive" ELSE "countPresent", n2, d, k, r, y, m)
<1>1. /\ Gathers(cf) => Stage(cf, "lockdown") = "arrive" /\ Stage(cf, "waitArrive") = "arrive"
      /\ ~Gathers(cf) => Stage(cf, "lockdown") = "run" /\ Stage(cf, "countPresent") = "run"
  BY DEF Stage, ArriveL, BackupL, ProgramL, RunL, BspRun
<1>2. {"lockdown", "waitArrive", "countPresent"} \subseteq InsideL /\ "lockdown" \notin Serving
      /\ "arrive" \notin Gated /\ "run" \notin Gated
  BY DEF InsideL, ArriveL, RunL, BspRun, Serving, Gated
<1>3. CASE Gathers(cf)
  BY <1>1, <1>2, <1>3 DEF Place
<1>4. CASE ~Gathers(cf)
  BY <1>1, <1>2, <1>4 DEF Place
<1> QED BY <1>3, <1>4

(* ApCount = LockdownSemaphore (Counter) - 1. *)
LEMMA LockdownStep ==
  ASSUME SInv, NEW c \in Cpu, LockdownCounter(c)
  PROVE  SInv'
<1>0. TypeOK /\ loc[c] \in Locals /\ MaxWord \in Nat /\ N \in Nat /\ Run[c] \in Nat
  BY Typed DEF SInv
<1> DEFINE l2 == IF Gathers(config) THEN "waitArrive" ELSE "countPresent"
           f == [loc[c] EXCEPT !.apCount = Counter - 1]
<1>1. pc[c] = "lockdown" /\ Counter' = MaxWord /\ GotoWith(c, l2, f)
  BY DEF LockdownCounter, At, GatherFirst, Gathers
<1>2. /\ config' = config
      /\ InsideSmm' = InsideSmm /\ BspIndex' = BspIndex /\ AllCpusInSync' = AllCpusInSync
      /\ smiStatus' = smiStatus /\ smiPending' = smiPending /\ blocked' = blocked
      /\ due' = due /\ smis' = smis /\ calls' = calls /\ mtrr' = mtrr
      /\ Run' = Run /\ Busy' = Busy /\ Procedure' = Procedure /\ Present' = Present
      /\ SwitchBsp' = SwitchBsp /\ CandidateBsp' = CandidateBsp /\ Operation' = Operation
      /\ races' = races
  BY DEF LockdownCounter, platform, election, cpuData
<1>3. pc[c] \in Lead
  BY <1>1, LeadPositions
<1>4. Led(c)
  BY <1>3, LeaderIs
<1> DEFINE todo == Num(pc, Todo(config, Stage(config, "lockdown")))
           num == Num(pc, Counted)
<1>5. todo \in Nat /\ num \in Nat /\ num <= N
  BY NumSet
<1>6. ~Locked(config, "lockdown")
  BY DEF Locked, BspLocked, BspRun, Releases, Waits
<1>7. Counter = num /\ todo + Run[c] + 1 = num
  <2>1. Tally(config, pc[c], loc[c].n, loc[c].apCount, Counter, Run[c], TodoNow(c), Num(pc, Counted))
    BY <1>4 DEF Led
  <2> QED BY <1>1, <1>6, <2>1 DEF Tally, TodoNow
<1> HIDE DEF todo, num
<1>8. Counter - 1 \in 0 .. N /\ Counter - 1 = todo + Run[c] /\ num = (Counter - 1) + 1
  <2>1. N \in Nat /\ Run[c] \in Nat /\ num \in Nat /\ todo \in Nat
    BY <1>0, <1>5
  <2>2. num - 1 \in 0 .. N /\ num - 1 = todo + Run[c] /\ num = (num - 1) + 1
    BY <1>5, <1>7, <2>1
  <2> QED BY <1>7, <2>2
<1>9. f \in Locals /\ f.apCount = Counter - 1
  BY <1>0, <1>8 DEF Locals
<1>10. /\ l2 \in {"waitArrive", "countPresent"} /\ (l2 = "waitArrive" <=> Gathers(config))
  OBVIOUS
<1>11. \A n2 : \A d \in Cpu \ {c} : pc[d] \in Member =>
         Place(config, c, l2, n2, d, pc[d], Run[d], Busy[d], loc[d].bsp)
  <2> TAKE n2
  <2> TAKE d \in Cpu \ {c}
  <2> HAVE pc[d] \in Member
  <2>1. Place(config, c, "lockdown", loc[c].n, d, pc[d], Run[d], Busy[d], loc[d].bsp)
    BY <1>1, <1>4 DEF Led
  <2> QED BY <2>1, LockPlace
<1> HIDE DEF l2, f
<1>12. "waitArrive" \in Waits
  BY DEF Waits
<1>13. l2 \in Lead /\ l2 \in Pc /\ l2 \in BspPresentL /\ "lockdown" \in BspPresentL
  BY <1>10, <1>12, LeadPositions
<1>14. Moves(c, l2) /\ loc'[c].apCount = Counter - 1 /\ loc'[c].n = LoopStart(l2, Counter - 1)
  BY <1>0, <1>1, <1>9, <1>13, GotoMoves
<1>15. l2 \in Waits => loc'[c].n = Counter - 1
  BY <1>8, <1>14, LoopStarts
<1>16. TypeOK'
  <2>1. Counter' \in 0 .. MaxWord
    BY <1>0, <1>1
  <2> QED BY <1>0, <1>2, <1>14, <2>1 DEF TypeOK, Moves, Locals
<1>17. /\ Locked(config, l2) /\ l2 \in InsideL /\ "lockdown" \in InsideL
       /\ l2 \notin ResetL \union EndL /\ l2 \notin Releases \union {"drain"}
       /\ l2 # "resetCounter"
       /\ Path(config, l2) /\ Stage(config, l2) = Stage(config, "lockdown")
  BY <1>10 DEF Locked, BspLocked, InsideL, ArriveL, BackupL, ProgramL, RunL, BspRun, ResetL, EndL,
               Releases, Waits, Path, RestoreL, Stage
<1>18. Words(config, c, l2, BspIndex', InsideSmm')
  <2>1. Words(config, c, "lockdown", BspIndex, InsideSmm)
    BY <1>1, <1>4 DEF Led
  <2> QED BY <1>2, <1>17, <2>1 DEF Words
<1>19. Tally(config, l2, loc'[c].n, loc'[c].apCount, Counter', Run'[c],
             Num(pc, Todo(config, Stage(config, l2))), Num(pc, Counted))
  <2>1. Num(pc, Todo(config, Stage(config, l2))) = todo /\ Num(pc, Counted) = num
    BY <1>17 DEF todo, num
  <2>2. /\ Counter' \in 0 .. MaxWord /\ MaxWord - Counter' = 0
        /\ todo + Run[c] + 0 = Counter - 1 /\ num + 0 = (Counter - 1) + 1
    BY <1>0, <1>1, <1>5, <1>8
  <2> QED BY <1>1, <1>2, <1>14, <1>15, <1>17, <2>1, <2>2 DEF Tally
<1>20. Led(c)'
  BY <1>2, <1>4, <1>11, <1>13, <1>14, <1>17, <1>18, <1>19, LeaderLed
<1>21. Present'[c] = TRUE <=> l2 \in BspPresentL
  BY <1>1, <1>2, <1>3, <1>13, LeaderPresent
<1>22. Alone'
  BY <1>2, <1>3, <1>13, <1>14, <1>17, <1>21, LeaderAlone DEF SInv
<1>23. FixedBsp'
  BY <1>2 DEF SInv, FixedBsp
<1> QED BY <1>16, <1>20, <1>22, <1>23 DEF SInv

(* The leader has received all signals of a stage: the members are at the gate of
   the next one. *)
LEMMA BarrierPlace ==
  ASSUME NEW cf, NEW b, NEW l \in Waits, NEW l2, NEW n, NEW n2, NEW d, NEW k, NEW r, NEW y, NEW m,
         l2 = (IF l = "waitArrive" THEN (IF cf.mtrrs THEN "relBackup" ELSE "acquire")
               ELSE IF l = "waitBackup" THEN "relProgram"
               ELSE IF l = "waitProgram" THEN "acquire"
               ELSE IF l = "waitExit" THEN (IF cf.mtrrs THEN "relRestore" ELSE "relReset")
               ELSE IF l = "waitRestore" THEN "relReset"
               ELSE "resetBsp"),
         Path(cf, l), Place(cf, b, l, n, d, k, r, y, m), k \notin Todo(cf, Stage(cf, l)),
         l2 \in Releases => ~(d >= n2)
  PROVE  /\ Place(cf, b, l2, n2, d, k, r, y, m)
         /\ k \in Todo(cf, Stage(cf, l2))
<1> DEFINE s == Stage(cf, l)
           s2 == Stage(cf, l2)
<1>0. l \in {"waitArrive", "waitBackup", "waitProgram", "waitExit", "waitRestore", "waitReset"}
  BY DEF Waits
<1>1. l = "waitArrive" => Gathers(cf)
  BY DEF Path
<1>2. s = (IF l = "waitArrive" THEN "arrive"
           ELSE IF l = "waitBackup" THEN "backup"
           ELSE IF l = "waitProgram" THEN "program"
           ELSE IF l = "waitExit" THEN "exit"
           ELSE IF l = "waitRestore" THEN "restore"
           ELSE "reset")
  BY <1>0, <1>1 DEF Stage, ArriveL, BackupL, ProgramL, RunL, BspRun, ExitL, RestoreL, ResetL, EndL
<1>3. l2 \in {"relBackup", "relProgram", "acquire", "relRestore", "relReset", "resetBsp"}
  OBVIOUS
<1>4. s2 = (IF l2 = "relBackup" THEN "backup"
            ELSE IF l2 = "relProgram" THEN "program"
            ELSE IF l2 = "acquire" THEN "run"
            ELSE IF l2 = "relRestore" THEN "restore"
            ELSE IF l2 = "relReset" THEN "reset"
            ELSE "end")
  BY <1>3 DEF Stage, ArriveL, BackupL, ProgramL, RunL, BspRun, ExitL, RestoreL, ResetL, EndL
<1>5. l2 # "acquire" /\ l2 # "resetBsp" => l2 \in Releases
  BY <1>3 DEF Releases
<1>6. k \in Done(cf, s)
  BY DEF Place
<1> HIDE DEF s, s2
<1>7. s # "reset"
  BY <1>6 DEF Done
<1>8. l # "waitReset" /\ l2 # "resetBsp"
  BY <1>0, <1>2, <1>7
<1>9. /\ s2 \in Gated => k = Gate(s2)
      /\ s2 = "run" => k = "apLoop"
      /\ k \in {"awaitBackup", "apLoop", "awaitProgram", "awaitRestore", "awaitReset"}
      /\ s2 # "arrive"
  BY <1>0, <1>2, <1>4, <1>6, <1>8 DEF Done, Gate, Gated
<1>10. k \in Todo(cf, s2)
  BY <1>3, <1>4, <1>8, <1>9 DEF Todo, Loop, Gate, Gated
<1>11. k \notin Pre /\ k \notin Early \union {"apBsp"} /\ k # "initBusy"
  BY <1>9 DEF Pre, Early
<1>12. m = b
  BY <1>11 DEF Place
<1>13. l \notin Serving /\ s # "run"
  BY <1>0, <1>2 DEF Serving
<1>14. Free(y)
  BY <1>11, <1>13 DEF Place, s, Free
<1>15. r = 0
  <2>1. CASE s \in Gated
    <3>1. k # Gate(s)
      BY <1>0, <1>2, <1>6, <1>7, <2>1 DEF Gate, Done
    <3> QED BY <2>1, <3>1 DEF Place, s
  <2>2. CASE s = "arrive"
    BY <2>2 DEF Place, s
  <2> QED BY <1>0, <1>2, <2>1, <2>2 DEF Gated
<1>16. s2 \in Gated => l2 \in Releases
  BY <1>3, <1>4, <1>5, <1>8 DEF Gated
<1>17. l2 \in Releases => ~Released(l2, n2, d)
  BY DEF Released
<1>18. l2 = "acquire" => l2 \in InsideL
  BY DEF InsideL, RunL, BspRun
<1>19. s2 = "run" => l2 = "acquire"
  BY <1>3, <1>4
<1>20. y # TRUE
  BY <1>14 DEF Free
<1>21. Place(cf, b, l2, n2, d, k, r, y, m)
  BY <1>9, <1>10, <1>11, <1>12, <1>15, <1>16, <1>17, <1>18, <1>19, <1>20 DEF Place, s2
<1> QED BY <1>10, <1>21 DEF s2

(* A leader whose members all have yet to signal. *)
LEMMA AllTodo ==
  ASSUME NEW b \in Cpu, Led(b), NEW S, S \subseteq Member,
         \A d \in Cpu \ {b} : pc[d] \in Member => pc[d] \in S
  PROVE  Num(pc, Counted) = Num(pc, S) + 1
<1>1. pc[b] \in Lead /\ pc[b] \notin Member /\ pc[b] \in Counted
  BY Positions DEF Led
<1>2. \A d \in Cpu \ {b} : pc[d] \notin Lead
  BY DEF Led
<1>3. pc[b] \notin S
  BY <1>1
<1>4. \A d \in Cpu \ {b} : pc[d] \in S <=> pc[d] \in Counted
  BY <1>2 DEF Counted
<1>5. ~(pc[b] \in S) /\ b \in Cpu
  BY <1>3
<1> QED BY ONLY <1>1, <1>4, <1>5, NumAdd, SMTT(30)

(* One turn of WaitForAllAPs, or its end. *)
LEMMA WaitStep ==
  ASSUME SInv, NEW c \in Cpu, WaitForAllAPs(c)
  PROVE  SInv'
<1>0. /\ TypeOK /\ loc[c] \in Locals /\ MaxWord \in Nat /\ N \in Nat /\ N > 0 /\ Run[c] \in Nat
      /\ loc[c].n \in Nat /\ loc[c].n \in 0 .. N /\ loc[c].apCount \in 0 .. N
      /\ Run \in [Cpu -> 0 .. MaxWord] /\ loc \in [Cpu -> Locals] /\ pc \in [Cpu -> Pc]
  BY Typed DEF SInv, TypeOK, Locals
<1>1. pc[c] \in Waits
  BY DEF WaitForAllAPs, At
<1>2. Quiet /\ Busy' = Busy /\ Procedure' = Procedure /\ Present' = Present /\ mtrr' = mtrr
  BY DEF WaitForAllAPs, Quiet, platform, mpSync, election
<1>3. pc[c] \in Lead
  BY <1>1, LeadPositions
<1>4. Led(c)
  BY <1>3, LeaderIs
<1> DEFINE l == pc[c]
           todo == Num(pc, Todo(config, Stage(config, l)))
           num == Num(pc, Counted)
<1>5. todo \in Nat /\ num \in Nat
  BY NumSet
<1>15. Counter \in 0 .. MaxWord
  BY <1>0 DEF TypeOK
<1>6. Tally(config, l, loc[c].n, loc[c].apCount, Counter, Run[c], todo, num)
  BY <1>4 DEF Led, TodoNow
<1>7. Words(config, c, l, BspIndex, InsideSmm) /\ Path(config, l)
  BY <1>4 DEF Led
<1>8. ASSUME NEW d \in Cpu \ {c}, pc[d] \in Member
      PROVE  Place(config, c, l, loc[c].n, d, pc[d], Run[d], Busy[d], loc[d].bsp)
  BY <1>4, <1>8 DEF Led
<1>9. BspIndex = c /\ l \notin EndL /\ l \notin Releases \union {"drain"} /\ l \in BspLocked
      /\ Locked(config, l)
  <2>1. l \notin EndL /\ l # "resetCounter" /\ l \notin Releases \union {"drain"}
        /\ l \in BspLocked
    BY <1>1 DEF Waits, EndL, Releases, BspLocked
  <2> QED BY <1>7, <2>1 DEF Words, Locked
<1>10. Present[c] = TRUE <=> l \in BspPresentL
  BY <1>3, LeaderPresent
<1>11. ASSUME Run' \in [Cpu -> 0 .. MaxWord], NEW k, Moves(c, k) PROVE TypeOK'
  <2>1. /\ Busy' \in [Cpu -> BOOLEAN] /\ Present' \in [Cpu -> BOOLEAN]
        /\ Procedure' \in [Cpu -> BOOLEAN] /\ mtrr' \in [Cpu -> {"os", "smm"}]
    BY <1>0, <1>2 DEF TypeOK
  <2> QED BY <1>0, <1>2, <1>11, <2>1, QuietType
<1>12. FixedBsp'
  BY <1>2 DEF SInv, FixedBsp, Quiet
<1>13. CASE loc[c].n > 0 /\ WaitForRun(BspIndex) /\ loc' = [loc EXCEPT ![c].n = @ - 1] /\ UNCHANGED pc
  <2>1. Run[c] > 0 /\ Run' = [Run EXCEPT ![c] = @ - 1]
    BY <1>9, <1>13 DEF WaitForRun
  <2>2. /\ Run' \in [Cpu -> 0 .. MaxWord] /\ Run'[c] = Run[c] - 1
        /\ \A d \in Cpu \ {c} : Run'[d] = Run[d]
    BY <1>0, <2>1
  <2>3. loc[c].n - 1 \in 0 .. N
    BY <1>0, <1>13
  <2>4. Moves(c, l) /\ loc'[c].n = loc[c].n - 1 /\ loc'[c].apCount = loc[c].apCount
    BY <1>0, <1>13, <2>3 DEF Moves, Locals
  <2>5. ASSUME NEW d \in Cpu \ {c}, pc[d] \in Member
        PROVE  Place(config, c, l, loc'[c].n, d, pc[d], Run'[d], Busy'[d], loc[d].bsp)
    <3>1. Place(config, c, l, loc[c].n, d, pc[d], Run[d], Busy[d], loc[d].bsp)
      BY <1>8, <2>5
    <3>2. Released(l, loc[c].n, d) /\ Released(l, loc'[c].n, d) /\ l # "drain"
      BY <1>9 DEF Released
    <3>3. Place(config, c, l, loc'[c].n, d, pc[d], Run[d], Busy[d], loc[d].bsp)
      BY <3>1, <3>2 DEF Place
    <3> QED BY <1>2, <2>2, <3>3
  <2>6. Tally(config, l, loc'[c].n, loc'[c].apCount, Counter', Run'[c], todo, num)
    <3>1. todo + (Run[c] - 1) + (MaxWord - Counter) = loc[c].n - 1
            <=> todo + Run[c] + (MaxWord - Counter) = loc[c].n
      BY <1>0, <1>5, <1>15
    <3> HIDE DEF todo, num, l
    <3> QED BY <1>1, <1>2, <1>6, <1>9, <2>2, <2>4, <3>1 DEF Tally, Quiet, l
  <2>7. Led(c)'
    BY <1>2, <1>3, <1>4, <1>7, <2>4, <2>5, <2>6, LeaderLed DEF Quiet
  <2>8. Alone'
    BY <1>2, <1>3, <1>9, <1>10, <2>2, <2>4, LeaderAlone DEF SInv
  <2> QED BY <1>11, <1>12, <2>2, <2>4, <2>7, <2>8 DEF SInv
<1>14. CASE loc[c].n = 0 /\ Goto(c, AfterWait(pc[c])) /\ UNCHANGED Run
  <2> DEFINE l2 == AfterWait(l)
  <2>1. l2 = (IF l = "waitArrive" THEN (IF config.mtrrs THEN "relBackup" ELSE "acquire")
              ELSE IF l = "waitBackup" THEN "relProgram"
              ELSE IF l = "waitProgram" THEN "acquire"
              ELSE IF l = "waitExit" THEN (IF config.mtrrs THEN "relRestore" ELSE "relReset")
              ELSE IF l = "waitRestore" THEN "relReset"
              ELSE "resetBsp")
    BY <1>1 DEF AfterWait, Waits
  <2>2. /\ l2 \in {"relBackup", "relProgram", "acquire", "relRestore", "relReset", "resetBsp"}
        /\ l2 = "resetBsp" <=> l = "waitReset"
        /\ l = "waitProgram" \/ l2 # "acquire" \/ l = "waitArrive"
        /\ (l2 \in {"relBackup", "relProgram", "relRestore"}) => config.mtrrs
        /\ (l2 = "acquire") => Gathers(config)
    <3>1. l \in {"waitBackup", "waitProgram", "waitRestore"} => config.mtrrs
      BY <1>7 DEF Path, BackupL, ProgramL, RestoreL
    <3>2. l = "waitArrive" => Gathers(config)
      BY <1>7 DEF Path
    <3> QED BY <1>1, <2>1, <3>1, <3>2 DEF Waits, Gathers
  <2>3. todo = 0 /\ Run[c] = 0 /\ Counter = MaxWord
    <3>1. todo + Run[c] + (MaxWord - Counter) = 0
      BY <1>1, <1>6, <1>14 DEF Tally
    <3> QED BY <1>0, <1>5, <1>15, <3>1
  <2>4. \A d \in Cpu : pc[d] \notin Todo(config, Stage(config, l))
    BY <2>3, NumZero
  <2> HIDE DEF l2
  <2>5. l2 \in Lead /\ l2 \in Pc
    <3>1. {"relBackup", "relProgram", "relRestore", "relReset"} \subseteq Releases
      BY DEF Releases
    <3> QED BY <2>2, <3>1, LeadPositions
  <2>6. /\ Moves(c, l2) /\ loc'[c].apCount = loc[c].apCount
        /\ loc'[c].n = LoopStart(l2, loc[c].apCount)
    <3>1. Goto(c, l2)
      BY <1>14 DEF l2
    <3> QED BY <1>0, <2>5, <3>1, JustGoto
  <2>7. l2 \in Releases => loc'[c].n = N
    BY <1>0, <2>6, LoopStarts
  <2>8. ASSUME NEW d \in Cpu \ {c}, pc[d] \in Member
        PROVE  /\ Place(config, c, l2, loc'[c].n, d, pc[d], Run[d], Busy[d], loc[d].bsp)
               /\ pc[d] \in Todo(config, Stage(config, l2))
    <3>1. Place(config, c, l, loc[c].n, d, pc[d], Run[d], Busy[d], loc[d].bsp)
      BY <1>8, <2>8
    <3>2. l2 \in Releases => ~(d >= loc'[c].n)
      BY <1>0, <2>7, Typed
    <3>3. pc[d] \notin Todo(config, Stage(config, l)) /\ l \in Waits /\ Path(config, l)
      BY <1>1, <1>7, <2>4
    <3> HIDE DEF l
    <3> QED BY <2>1, <3>1, <3>2, <3>3, BarrierPlace
  <2>9. num = Num(pc, Todo(config, Stage(config, l2))) + 1
    <3>1. Todo(config, Stage(config, l2)) \subseteq Member
      BY TodoMember
    <3> QED BY <1>4, <2>8, <3>1, AllTodo
  <2>10. /\ Locked(config, l2) /\ l2 \notin Waits
         /\ l2 # "resetCounter"
         /\ l2 \in EndL <=> l2 = "resetBsp"
         /\ l2 \in InsideL <=> l2 \in {"relBackup", "relProgram", "acquire"}
         /\ l2 # "drain"
    BY <2>2 DEF Locked, BspLocked, Releases, Waits, BspRun, EndL, InsideL, ArriveL, BackupL,
                ProgramL, RunL
  <2>11. Path(config, l2)
    BY <2>2 DEF Path, BackupL, ProgramL, RestoreL
  <2>12. Words(config, c, l2, BspIndex', InsideSmm')
    <3>1. l \in InsideL <=> l2 \in InsideL
      BY <1>1, <2>1, <2>10 DEF Waits, InsideL, ArriveL, BackupL, ProgramL, RunL, BspRun
    <3>2. l # "resetCounter"
      BY <1>1 DEF Waits
    <3> QED BY <1>2, <1>7, <1>9, <2>10, <3>1, <3>2 DEF Words, Quiet
  <2>13. Tally(config, l2, loc'[c].n, loc'[c].apCount, Counter', Run'[c],
               Num(pc, Todo(config, Stage(config, l2))), num)
    <3>1. Num(pc, Todo(config, Stage(config, l2))) \in Nat /\ loc[c].apCount \in Nat
      BY <1>0, NumSet, Typed
    <3>2. MaxWord - Counter = 0 /\ Counter' = Counter
      BY <1>0, <1>2, <2>3 DEF Quiet
    <3>3. l2 # "resetBsp" => num + (MaxWord - Counter) = loc[c].apCount + 1
      <4>1. l2 # "resetBsp" => l \notin ResetL \union EndL
        BY <1>1, <2>2 DEF Waits, ResetL, EndL
      <4> QED BY <1>6, <1>9, <4>1 DEF Tally
    <3>4. l2 # "resetBsp" =>
            Num(pc, Todo(config, Stage(config, l2))) + Run[c] + (MaxWord - Counter) = loc[c].apCount
      BY <2>3, <2>9, <3>1, <3>2, <3>3
    <3> HIDE DEF num, l
    <3> QED BY <1>14, <1>15, <2>3, <2>6, <2>10, <3>2, <3>3, <3>4 DEF Tally
  <2>14. Led(c)'
    BY <1>2, <1>4, <1>14, <2>5, <2>6, <2>8, <2>11, <2>12, <2>13, LeaderLed DEF Quiet
  <2>15. Present'[c] = TRUE <=> l2 \in BspPresentL
    <3>1. l \in BspPresentL <=> l2 \in BspPresentL
      <4>1. l = "waitReset" => l \notin BspPresentL /\ l2 \notin BspPresentL
        BY <2>2, LeadPositions
      <4>2. l # "waitReset" => l \in BspPresentL
        BY <1>1, LeadPositions
      <4>3. {"relBackup", "relProgram", "relRestore", "relReset"} \subseteq Releases
        BY DEF Releases
      <4>4. l2 # "resetBsp" => l2 \in BspPresentL
        BY <2>2, <4>3, LeadPositions
      <4> QED BY <2>2, <4>1, <4>2, <4>4
    <3> QED BY <1>2, <1>10, <3>1
  <2>16. l2 \in Releases \union {"drain"} => loc'[c].n > 0
    BY <1>0, <2>7, <2>10
  <2>17. Alone'
    BY <1>2, <1>3, <1>14, <2>5, <2>6, <2>15, <2>16, LeaderAlone DEF SInv
  <2>18. Run' \in [Cpu -> 0 .. MaxWord]
    BY <1>0, <1>14
  <2> QED BY <1>11, <1>12, <2>6, <2>14, <2>17, <2>18 DEF SInv
<1> QED BY <1>13, <1>14 DEF WaitForAllAPs

(* One turn of the release loop, for the processor of index e, leads from l, n to
   l2, n2; d is any processor. *)
Turn(cf, l, n, l2, n2, d, e) ==
  /\ n \in Nat /\ n > 0 /\ d \in Nat /\ e = n - 1
  /\ \/ l2 = l /\ n2 = n - 1
     \/ n = 1 /\ l2 \notin Releases /\ Stage(cf, l2) = Stage(cf, l) /\ l2 \notin Serving

(* The member of index n - 1 is released. *)
LEMMA ReleasePlace ==
  ASSUME NEW cf, NEW b, NEW l \in Releases, NEW l2, NEW n, NEW n2, NEW d, NEW e, NEW k,
         NEW r, NEW y, NEW m,
         Place(cf, b, l, n, d, k, r, y, m),
         Turn(cf, l, n, l2, n2, d, e)
  PROVE  /\ d # e => Place(cf, b, l2, n2, d, k, r, y, m)
         /\ d = e => /\ k = Gate(Stage(cf, l)) /\ r = 0
                     /\ Place(cf, b, l2, n2, d, k, 1, y, m)
<1> DEFINE s == Stage(cf, l)
<1>0. /\ l \in {"relBackup", "relProgram", "relExit", "relRestore", "relReset"}
      /\ n \in Nat /\ n > 0 /\ d \in Nat /\ e = n - 1
  BY DEF Releases, Turn
<1>1. s \in Gated /\ s \notin {"arrive", "run"} /\ Stage(cf, l2) = s
  <2>1. s \in Gated /\ s \notin {"arrive", "run"}
    BY <1>0 DEF Stage, Gated, ArriveL, BackupL, ProgramL, RunL, BspRun, ExitL, RestoreL, ResetL
  <2> QED BY <2>1 DEF Turn
<1> HIDE DEF s
<1>2. /\ k \in Todo(cf, s) \union Done(cf, s) /\ k \notin Pre
      /\ k \notin Early \union {"apBsp"} => m = b
      /\ r = IF k = Gate(s) /\ Released(l, n, d) THEN 1 ELSE 0
      /\ k # Gate(s) => Released(l, n, d)
  BY <1>1 DEF Place, s
<1>3. y = TRUE => k = "initBusy"
  BY <1>1 DEF Place, s
<1>4. k # "initBusy"
  BY <1>2 DEF Pre
<1>5. y # TRUE
  BY <1>3, <1>4
<1>6. ASSUME NEW q, q = IF k = Gate(s) /\ Released(l2, n2, d) THEN 1 ELSE 0,
             k # Gate(s) => Released(l2, n2, d)
      PROVE  Place(cf, b, l2, n2, d, k, q, y, m)
  BY <1>1, <1>2, <1>4, <1>5, <1>6 DEF Place
<1>7. d # e => (Released(l, n, d) <=> Released(l2, n2, d))
  <2>1. CASE l2 = l /\ n2 = n - 1
    BY <1>0, <2>1 DEF Released
  <2>2. CASE n = 1 /\ l2 \notin Releases
    BY <1>0, <2>2 DEF Released
  <2> QED BY <2>1, <2>2 DEF Turn
<1>8. d = e => ~Released(l, n, d) /\ Released(l2, n2, d)
  <2>1. CASE l2 = l /\ n2 = n - 1
    BY <1>0, <2>1 DEF Released
  <2>2. CASE n = 1 /\ l2 \notin Releases
    BY <1>0, <2>2 DEF Released
  <2> QED BY <2>1, <2>2 DEF Turn
<1>9. d # e => Place(cf, b, l2, n2, d, k, r, y, m)
  BY <1>2, <1>6, <1>7
<1>10. d = e => k = Gate(s) /\ r = 0 /\ Place(cf, b, l2, n2, d, k, 1, y, m)
  BY <1>2, <1>6, <1>8
<1> QED BY <1>9, <1>10 DEF s

(* Where the release loops lead. *)
LEMMA ReleaseMoves ==
  ASSUME NEW cf, NEW l \in Releases
  PROVE  /\ AfterRelease(l) \in Lead /\ AfterRelease(l) \in BspPresentL /\ l \in BspPresentL
         /\ AfterRelease(l) \notin Releases /\ AfterRelease(l) \notin Serving
         /\ Stage(cf, AfterRelease(l)) = Stage(cf, l)
         /\ Locked(cf, AfterRelease(l)) /\ Locked(cf, l)
         /\ AfterRelease(l) \in InsideL <=> l \in InsideL
         /\ AfterRelease(l) \notin EndL \union OpenL /\ l \notin EndL \union Waits \union OpenL
         /\ Path(cf, l) => Path(cf, AfterRelease(l))
         /\ Gate(Stage(cf, l)) \in PresentPc
<1>0. l \in {"relBackup", "relProgram", "relExit", "relRestore", "relReset"}
  BY DEF Releases
<1> DEFINE l2 == AfterRelease(l)
<1>1. l2 = IF l = "relBackup" THEN "backup"
           ELSE IF l = "relProgram" THEN "program"
           ELSE IF l = "relExit" THEN "waitExit"
           ELSE IF l = "relRestore" THEN "restore"
           ELSE "update"
  BY <1>0 DEF AfterRelease
<1> HIDE DEF l2
<1>2. "waitExit" \in Waits \ {"waitReset"}
  BY DEF Waits
<1>3. l2 \in Lead /\ l2 \in BspPresentL /\ l \in BspPresentL
  BY <1>1, <1>2, LeadPositions
<1>4. /\ l2 \notin Releases /\ l2 \notin Serving /\ l2 \notin EndL \union OpenL
      /\ l \notin EndL \union Waits \union OpenL
  BY <1>0, <1>1 DEF Releases, Serving, EndL, Waits, OpenL
<1>5. Stage(cf, l2) = Stage(cf, l)
  BY <1>0, <1>1 DEF Stage, ArriveL, BackupL, ProgramL, RunL, BspRun, ExitL, RestoreL, ResetL
<1>6. Locked(cf, l2) /\ Locked(cf, l)
  BY <1>0, <1>1 DEF Locked, BspLocked, Releases, Waits
<1>7. l2 \in InsideL <=> l \in InsideL
  BY <1>0, <1>1 DEF InsideL, ArriveL, BackupL, ProgramL, RunL, BspRun
<1>8. Path(cf, l) => Path(cf, l2)
  BY <1>0, <1>1 DEF Path, BackupL, ProgramL, RestoreL
<1>9. Gate(Stage(cf, l)) \in Awaits \union {"apLoop"}
  BY DEF Gate, Awaits
<1> QED BY <1>3, <1>4, <1>5, <1>6, <1>7, <1>8, <1>9, LatePositions DEF l2

(* One turn of ReleaseAllAPs, the last one included. *)
LEMMA ReleaseStep ==
  ASSUME SInv, NEW c \in Cpu, ReleaseAllAPs(c)
  PROVE  SInv'
<1>0. /\ TypeOK /\ loc[c] \in Locals /\ MaxWord \in Nat /\ N \in Nat /\ N > 0 /\ Run[c] \in Nat
      /\ loc[c].n \in Nat /\ loc[c].n \in 0 .. N /\ loc[c].apCount \in 0 .. N
      /\ Run \in [Cpu -> 0 .. MaxWord] /\ loc \in [Cpu -> Locals] /\ pc \in [Cpu -> Pc]
      /\ MaxWord > N + 1
  BY Typed DEF SInv, TypeOK, Locals
<1>1. pc[c] \in Releases
  BY DEF ReleaseAllAPs, At
<1>2. Quiet /\ Busy' = Busy /\ Procedure' = Procedure /\ Present' = Present /\ mtrr' = mtrr
  BY DEF ReleaseAllAPs, Quiet, platform, mpSync, election
<1>3. pc[c] \in Lead
  BY <1>1, LeadPositions
<1>4. Led(c)
  BY <1>3, LeaderIs
<1> DEFINE l == pc[c]
           e == loc[c].n - 1
<1>5. /\ IF e # BspIndex /\ Present[e] THEN ReleaseRun(e) ELSE UNCHANGED Run
      /\ IF e = 0 THEN Goto(c, AfterRelease(l))
         ELSE loc' = [loc EXCEPT ![c].n = e] /\ UNCHANGED pc
  BY DEF ReleaseAllAPs
<1>6. Words(config, c, l, BspIndex, InsideSmm) /\ Path(config, l)
  BY <1>4 DEF Led
<1>7. BspIndex = c
  BY <1>1, <1>6 DEF Words, Releases
<1>8. loc[c].n > 0
  <2>1. Own(pc[c], Present[c], Run[c], Procedure[c], Busy[c], loc[c].n)
    BY DEF SInv, Alone
  <2> QED BY <1>1, <2>1 DEF Own
<1>9. e \in Nat /\ e \in Cpu /\ e \in 0 .. N /\ loc[c].n = e + 1
  BY <1>0, <1>8 DEF Cpu
<1> DEFINE l2 == pc'[c]
<1>10. /\ Moves(c, l2) /\ loc'[c].apCount = loc[c].apCount
       /\ \/ l2 = l /\ loc'[c].n = e /\ e # 0
          \/ e = 0 /\ l2 = AfterRelease(l) /\ loc'[c].n = LoopStart(l2, loc[c].apCount)
  <2>1. CASE e # 0
    <3>1. loc' = [loc EXCEPT ![c].n = e] /\ pc' = pc
      BY <1>5, <2>1
    <3> HIDE DEF e
    <3> QED BY <1>0, <1>9, <2>1, <3>1 DEF Moves, Locals
  <2>2. CASE e = 0
    <3>1. Goto(c, AfterRelease(l))
      BY <1>5, <2>2
    <3>2. AfterRelease(l) \in Pc
      BY <1>1, ReleaseMoves, LeadPositions
    <3> HIDE DEF e, l
    <3>3. Moves(c, AfterRelease(l)) /\ loc'[c].apCount = loc[c].apCount
          /\ loc'[c].n = LoopStart(AfterRelease(l), loc[c].apCount)
      BY <1>0, <3>1, <3>2, JustGoto
    <3>4. pc'[c] = AfterRelease(l)
      BY <3>3 DEF Moves
    <3> QED BY <2>2, <3>3, <3>4
  <2> QED BY <2>1, <2>2
<1> HIDE DEF e, l2
<1>11. /\ l2 \in Lead /\ l2 \in BspPresentL /\ l \in BspPresentL
       /\ Stage(config, l2) = Stage(config, l)
       /\ Locked(config, l2) /\ Locked(config, l)
       /\ l2 \in InsideL <=> l \in InsideL
       /\ l2 \notin EndL \union OpenL /\ l \notin EndL \union Waits \union OpenL /\ l2 # "drain"
       /\ Path(config, l2)
  <2>1. l \notin Serving
    BY <1>1 DEF Releases, Serving
  <2>2. \/ l2 = l \/ l2 = AfterRelease(l)
    BY <1>10
  <2>3. "drain" \in Serving
    BY DEF Serving
  <2> QED BY <1>1, <1>3, <1>6, <2>1, <2>2, <2>3, ReleaseMoves
<1>12. ASSUME NEW d \in Cpu \ {c}, pc[d] \in Member
       PROVE  /\ d # e => Place(config, c, l2, loc'[c].n, d, pc[d], Run[d], Busy[d], loc[d].bsp)
              /\ d = e => /\ pc[d] \in PresentPc /\ Run[d] = 0
                          /\ Place(config, c, l2, loc'[c].n, d, pc[d], 1, Busy[d], loc[d].bsp)
  <2>1. Place(config, c, l, loc[c].n, d, pc[d], Run[d], Busy[d], loc[d].bsp)
    BY <1>4, <1>12 DEF Led
  <2>3. d \in Nat /\ e = loc[c].n - 1 /\ l \in Releases
    BY <1>0, <1>1, Typed DEF e
  <2>2. Turn(config, l, loc[c].n, l2, loc'[c].n, d, e)
    <3>1. CASE l2 = l /\ loc'[c].n = e
      BY <1>0, <1>8, <2>3, <3>1 DEF Turn
    <3>2. CASE e = 0 /\ l2 = AfterRelease(l)
      BY <1>0, <1>1, <1>8, <1>9, <2>3, <3>2, ReleaseMoves DEF Turn
    <3> QED BY <1>10, <3>1, <3>2
  <2>4. Gate(Stage(config, l)) \in PresentPc
    BY <1>1, ReleaseMoves
  <2>6. l \in Releases
    BY <1>1
  <2> HIDE DEF l
  <2>5. /\ d # e =>
             Place(config, c, l2, loc'[c].n, d, pc[d], Run[d], Busy[d], loc[d].bsp)
        /\ d = e =>
             /\ pc[d] = Gate(Stage(config, l)) /\ Run[d] = 0
             /\ Place(config, c, l2, loc'[c].n, d, pc[d], 1, Busy[d], loc[d].bsp)
    BY <2>1, <2>2, <2>6, ReleasePlace
  <2> QED BY <2>3, <2>4, <2>5
<1>13. ASSUME NEW d \in Cpu PROVE Present[d] <=> pc[d] \in PresentPc
  <2>1. Own(pc[d], Present[d], Run[d], Procedure[d], Busy[d], loc[d].n)
    BY DEF SInv, Alone
  <2>2. Present[d] \in BOOLEAN
    BY <1>0, Typed
  <2> QED BY <2>1, <2>2 DEF Own
<1>14. ASSUME e # c, Present[e] PROVE pc[e] \in Member
  <2>1. pc[e] \in PresentPc /\ pc[e] \notin Lead
    BY <1>4, <1>9, <1>13, <1>14 DEF Led
  <2> QED BY <2>1 DEF PresentPc, BspPresentL
<1>15. /\ Run' \in [Cpu -> 0 .. MaxWord] /\ Run'[c] = Run[c]
       /\ \A d \in Cpu \ {e} : Run'[d] = Run[d]
       /\ (e # c /\ Present[e]) => Run'[e] = 1
       /\ ~(e # c /\ Present[e]) => Run' = Run
  <2>1. CASE e # c /\ Present[e]
    <3>1. Run' = [Run EXCEPT ![e] = @ + 1]
      BY <1>5, <1>7, <2>1 DEF ReleaseRun
    <3>2. Run[e] = 0
      BY <1>9, <1>12, <1>14, <2>1
    <3> QED BY <1>0, <1>9, <2>1, <3>1, <3>2
  <2>2. CASE ~(e # c /\ Present[e])
    BY <1>0, <1>5, <1>7, <2>2
  <2> QED BY <2>1, <2>2
<1>16. ASSUME NEW d \in Cpu \ {c}, pc[d] \in Member
       PROVE  Place(config, c, l2, loc'[c].n, d, pc[d], Run'[d], Busy'[d], loc[d].bsp)
  <2>1. CASE d # e
    BY <1>2, <1>12, <1>15, <1>16, <2>1
  <2>2. CASE d = e
    <3>1. pc[d] \in PresentPc
      BY <1>12, <1>16, <2>2
    <3>2. Present[e]
      BY <1>13, <2>2, <3>1
    <3>3. Run'[d] = 1
      BY <1>15, <1>16, <2>2, <3>2
    <3> QED BY <1>2, <1>12, <1>16, <2>2, <3>3
  <2> QED BY <2>1, <2>2
<1>17. Words(config, c, l2, BspIndex', InsideSmm')
  <2>1. l # "resetCounter"
    BY <1>1 DEF Releases
  <2>2. l2 # "resetCounter"
    BY <1>11 DEF EndL
  <2> QED BY <1>2, <1>6, <1>11, <2>1, <2>2 DEF Words, Quiet
<1>18. Tally(config, l2, loc'[c].n, loc'[c].apCount, Counter', Run'[c],
             Num(pc, Todo(config, Stage(config, l2))), Num(pc, Counted))
  <2>1. Tally(config, l, loc[c].n, loc[c].apCount, Counter, Run[c],
              Num(pc, Todo(config, Stage(config, l))), Num(pc, Counted))
    BY <1>4 DEF Led, TodoNow
  <2>2. l2 \in Waits => loc'[c].n = loc[c].apCount
    <3>1. l2 \in Waits => loc'[c].n = LoopStart(l2, loc[c].apCount)
      BY <1>10, <1>11
    <3> QED BY <1>0, <3>1, LoopStarts
  <2>3. l \in ResetL <=> l2 \in ResetL
    BY <1>3, <1>11, Stages
  <2>4. Counter' = Counter
    BY <1>2 DEF Quiet
  <2> HIDE DEF l
  <2> QED BY <1>10, <1>11, <1>15, <2>1, <2>2, <2>3, <2>4 DEF Tally
<1>19. Led(c)'
  BY <1>2, <1>4, <1>10, <1>11, <1>16, <1>17, <1>18, LeaderLed DEF Quiet
<1>20. Present'[c] = TRUE <=> l2 \in BspPresentL
  BY <1>2, <1>3, <1>11, LeaderPresent
<1>21. l2 \in Releases \union {"drain"} => loc'[c].n > 0
  BY <1>1, <1>9, <1>10, <1>11, ReleaseMoves
<1>22. \A d \in Cpu \ {c} : Run'[d] = Run[d] \/ pc[d] \notin Outside
  <2>1. Member \cap Outside = {}
    BY Positions
  <2> QED BY <1>14, <1>15, <2>1
<1>23. Alone'
  BY <1>2, <1>3, <1>10, <1>11, <1>20, <1>21, <1>22, LeaderAlone DEF SInv
<1>24. TypeOK'
  <2>1. /\ Busy' \in [Cpu -> BOOLEAN] /\ Present' \in [Cpu -> BOOLEAN]
        /\ Procedure' \in [Cpu -> BOOLEAN] /\ mtrr' \in [Cpu -> {"os", "smm"}]
    BY <1>0, <1>2 DEF TypeOK
  <2> QED BY <1>0, <1>2, <1>10, <1>15, <2>1, QuietType
<1>25. FixedBsp'
  BY <1>2 DEF SInv, FixedBsp, Quiet
<1> QED BY <1>19, <1>23, <1>24, <1>25 DEF SInv

(* The leader ends the stage in which procedures run: the members are in the loop. *)
LEMMA ClearPlace ==
  ASSUME NEW cf, NEW b, NEW n, NEW n2, NEW d, NEW k, NEW r, NEW y, NEW m,
         Place(cf, b, "clearInside", n, d, k, r, y, m), ~(d >= n2)
  PROVE  Place(cf, b, "relExit", n2, d, k, r, y, m) /\ k = "apLoop"
<1>1. /\ Stage(cf, "clearInside") = "run" /\ Stage(cf, "relExit") = "exit"
      /\ "run" \notin Gated /\ "exit" \in Gated /\ Gate("exit") = "apLoop"
  BY DEF Stage, ArriveL, BackupL, ProgramL, RunL, BspRun, ExitL, Gated, Gate
<1>2. /\ k \in Todo(cf, "run") \union Done(cf, "run") /\ k \notin Pre
      /\ y = TRUE => k = "initBusy"
  BY <1>1 DEF Place, Serving
<1>3. Todo(cf, "run") \union Done(cf, "run") = Pre \union Loop /\ "apLoop" \in Todo(cf, "exit")
  BY DEF Todo, Done
<1>4. k \in Loop /\ k # "initBusy"
  BY <1>2, <1>3 DEF Pre, Loop
<1>5. y # TRUE
  BY <1>2, <1>4
<1>6. k = "apLoop"
  BY <1>1, <1>4, <1>5 DEF Place, Loop
<1>7. r = 0 /\ m = b
  <2>1. "apLoop" \notin Early \union {"apBsp"}
    BY DEF Early, Pre
  <2> QED BY <1>1, <1>5, <1>6, <2>1 DEF Place
<1>8. ~Released("relExit", n2, d)
  BY DEF Released, Releases
<1>9. "apLoop" \notin Pre /\ "apLoop" \in Loop
  BY DEF Pre, Loop
<1> QED BY <1>1, <1>3, <1>5, <1>6, <1>7, <1>8, <1>9 DEF Place

(* The BSP begins to leave. *)
LEMMA ClearInsideStep ==
  ASSUME SInv, NEW c \in Cpu, ClearInsideSmm(c)
  PROVE  SInv'
<1>0. TypeOK /\ loc[c].apCount \in 0 .. N /\ N \in Nat /\ N > 0
  BY Typed DEF SInv
<1>1. pc[c] = "clearInside" /\ Goto(c, "relExit") /\ InsideSmm' = FALSE
  BY DEF ClearInsideSmm, At
<1>2. /\ config' = config /\ Counter' = Counter
      /\ AllCpusInSync' = AllCpusInSync /\ BspIndex' = BspIndex
      /\ smiStatus' = smiStatus /\ smiPending' = smiPending /\ blocked' = blocked
      /\ due' = due /\ smis' = smis /\ calls' = calls /\ mtrr' = mtrr
      /\ Run' = Run /\ Busy' = Busy /\ Procedure' = Procedure /\ Present' = Present
      /\ SwitchBsp' = SwitchBsp /\ CandidateBsp' = CandidateBsp /\ Operation' = Operation
      /\ races' = races
  BY DEF ClearInsideSmm, platform, election, cpuData
<1>3. "relExit" \in Releases
  BY DEF Releases
<1>4. "relExit" \in Lead /\ "relExit" \in Pc /\ "clearInside" \in Lead
      /\ "relExit" \in BspPresentL /\ "clearInside" \in BspPresentL
  BY <1>3, LeadPositions
<1>5. /\ Moves(c, "relExit") /\ loc'[c].apCount = loc[c].apCount
      /\ loc'[c].n = LoopStart("relExit", loc[c].apCount)
  BY <1>0, <1>1, <1>4, JustGoto
<1>6. loc'[c].n = N
  BY <1>0, <1>3, <1>5, LoopStarts
<1>7. TypeOK'
  BY <1>0, <1>1, <1>2, <1>5 DEF TypeOK, Moves, Locals
<1>8. Led(c)
  BY <1>1, <1>4, LeaderIs
<1>9. Words(config, c, "clearInside", BspIndex, InsideSmm)
  BY <1>1, <1>8 DEF Led
<1>10. /\ "relExit" \notin InsideL
       /\ Locked(config, "relExit") /\ Locked(config, "clearInside")
       /\ "relExit" \notin Waits \union EndL \union ResetL \union OpenL
       /\ "clearInside" \notin Waits \union EndL \union ResetL \union OpenL
       /\ Path(config, "relExit")
  BY DEF InsideL, ArriveL, BackupL, ProgramL, RunL, BspRun, Locked, BspLocked, Releases, Waits,
         EndL, ResetL, OpenL, Path, RestoreL
<1>11. Words(config, c, "relExit", BspIndex', InsideSmm')
  BY <1>1, <1>2, <1>9, <1>10 DEF Words
<1>12. ASSUME NEW d \in Cpu \ {c}, pc[d] \in Member
       PROVE  Place(config, c, "relExit", loc'[c].n, d, pc[d], Run[d], Busy[d], loc[d].bsp)
              /\ pc[d] = "apLoop"
  <2>1. Place(config, c, "clearInside", loc[c].n, d, pc[d], Run[d], Busy[d], loc[d].bsp)
    BY <1>1, <1>8, <1>12 DEF Led
  <2>2. ~(d >= loc'[c].n)
    BY <1>0, <1>6, Typed
  <2> QED BY <2>1, <2>2, ClearPlace
<1>13. "apLoop" \in Todo(config, Stage(config, "relExit"))
       /\ "apLoop" \in Todo(config, Stage(config, "clearInside"))
  BY DEF Stage, ArriveL, BackupL, ProgramL, RunL, BspRun, ExitL, Todo, Loop
<1>14. Num(pc, Todo(config, Stage(config, "relExit"))) + 1 = Num(pc, Counted)
       /\ Num(pc, Todo(config, Stage(config, "clearInside"))) + 1 = Num(pc, Counted)
  <2>1. \A d \in Cpu \ {c} : pc[d] \in Member =>
          /\ pc[d] \in Todo(config, Stage(config, "relExit"))
          /\ pc[d] \in Todo(config, Stage(config, "clearInside"))
    BY <1>12, <1>13
  <2>2. /\ Todo(config, Stage(config, "relExit")) \subseteq Member
        /\ Todo(config, Stage(config, "clearInside")) \subseteq Member
    BY TodoMember
  <2>3. Num(pc, Counted) = Num(pc, Todo(config, Stage(config, "relExit"))) + 1
    BY <1>8, <2>1, <2>2, AllTodo
  <2>4. Num(pc, Counted) = Num(pc, Todo(config, Stage(config, "clearInside"))) + 1
    BY <1>8, <2>1, <2>2, AllTodo
  <2> QED BY <2>3, <2>4
<1>15. Num(pc, Todo(config, Stage(config, "relExit")))
         = Num(pc, Todo(config, Stage(config, "clearInside")))
  <2>1. /\ Num(pc, Todo(config, Stage(config, "relExit"))) \in Nat
        /\ Num(pc, Todo(config, Stage(config, "clearInside"))) \in Nat
    BY NumSet
  <2> QED BY <1>14, <2>1
<1>16. Tally(config, "relExit", loc'[c].n, loc'[c].apCount, Counter', Run'[c],
             Num(pc, Todo(config, Stage(config, "relExit"))), Num(pc, Counted))
  <2>1. Tally(config, "clearInside", loc[c].n, loc[c].apCount, Counter, Run[c],
              Num(pc, Todo(config, Stage(config, "clearInside"))), Num(pc, Counted))
    BY <1>1, <1>8 DEF Led, TodoNow
  <2> QED BY <1>2, <1>5, <1>10, <1>15, <2>1 DEF Tally
<1>17. Led(c)'
  BY <1>2, <1>4, <1>5, <1>8, <1>10, <1>11, <1>12, <1>16, LeaderLed
<1>18. Present'[c] = TRUE <=> "relExit" \in BspPresentL
  BY <1>1, <1>2, <1>4, LeaderPresent
<1>19. Alone'
  BY <1>0, <1>1, <1>2, <1>4, <1>5, <1>6, <1>18, LeaderAlone DEF SInv
<1>20. FixedBsp'
  BY <1>2 DEF SInv, FixedBsp
<1> QED BY <1>7, <1>17, <1>19, <1>20 DEF SInv

(* Where a call of SmmStartupThisAp leaves the leader. *)
StartL == {"handler", "blockBusy"}

(* The SMI handlers go on. *)
LEMMA StartPlace ==
  ASSUME NEW cf, NEW b, NEW l2, NEW n, NEW n2, NEW d, NEW k, NEW r, NEW y, NEW m,
         l2 \in StartL, Place(cf, b, "handler", n, d, k, r, y, m)
  PROVE  Place(cf, b, l2, n2, d, k, r, y, m)
<1>1. /\ Stage(cf, "handler") = "run" /\ Stage(cf, l2) = "run" /\ "run" \notin Gated
      /\ l2 \in Serving /\ l2 # "drain" /\ l2 # "clearInside"
      /\ l2 \in InsideL /\ "handler" \in InsideL
  BY DEF Stage, ArriveL, BackupL, ProgramL, RunL, BspRun, Gated, Serving, InsideL, StartL
<1> QED BY <1>1 DEF Place

(* A procedure is given to a member in the loop. *)
LEMMA GivenPlace ==
  ASSUME NEW cf, NEW b, NEW l2, NEW n, NEW n2, NEW d, NEW k, NEW r, NEW y, NEW m,
         l2 \in StartL, k \notin Pre, Free(y), Place(cf, b, "handler", n, d, k, r, y, m)
  PROVE  k = "apLoop" /\ r = 0 /\ Place(cf, b, l2, n2, d, k, 1, TRUE, m)
<1>1. /\ Stage(cf, "handler") = "run" /\ Stage(cf, l2) = "run" /\ "run" \notin Gated
      /\ l2 \in Serving /\ l2 # "drain" /\ l2 # "clearInside"
      /\ l2 \in InsideL /\ "handler" \in InsideL
  BY DEF Stage, ArriveL, BackupL, ProgramL, RunL, BspRun, Gated, Serving, InsideL, StartL
<1>2. Place(cf, b, l2, n2, d, k, r, y, m)
  BY StartPlace
<1>3. k \in Loop
  BY <1>1 DEF Place, Todo, Done
<1>4. y # TRUE
  BY DEF Free
<1>5. k = "apLoop" /\ r = 0
  BY <1>1, <1>3, <1>4 DEF Place, Loop
<1>6. "apLoop" \notin Early \union {"apBsp"} /\ "apLoop" \in Loop
  BY DEF Early, Pre, Loop
<1> QED BY <1>1, <1>2, <1>5, <1>6 DEF Place

(* InternalSmmStartupThisAp. *)
LEMMA StartupStep ==
  ASSUME SInv, NEW c \in Cpu, NEW e \in Cpu, SmmStartupThisAp(c, e)
  PROVE  SInv'
<1>0. /\ TypeOK /\ loc[c] \in Locals /\ loc \in [Cpu -> Locals] /\ pc \in [Cpu -> Pc]
      /\ Run \in [Cpu -> 0 .. MaxWord] /\ Busy \in [Cpu -> BOOLEAN] /\ Procedure \in [Cpu -> BOOLEAN]
      /\ MaxWord \in Nat /\ MaxWord > N + 1 /\ N \in Nat
  BY Typed DEF SInv, TypeOK, Locals
<1>1. /\ pc[c] = "handler" /\ e # c /\ Present[e] /\ ~Busy[e]
      /\ Busy' = [Busy EXCEPT ![e] = TRUE] /\ Procedure' = [Procedure EXCEPT ![e] = TRUE]
      /\ Run' = [Run EXCEPT ![e] = @ + 1]
      /\ calls < MaxCalls /\ calls' = calls + 1
  BY DEF SmmStartupThisAp, At, ReleaseRun
<1>2. /\ config' = config /\ Counter' = Counter /\ InsideSmm' = InsideSmm
      /\ AllCpusInSync' = AllCpusInSync /\ BspIndex' = BspIndex
      /\ smiStatus' = smiStatus /\ smiPending' = smiPending /\ blocked' = blocked
      /\ due' = due /\ smis' = smis /\ mtrr' = mtrr /\ Present' = Present
      /\ SwitchBsp' = SwitchBsp /\ CandidateBsp' = CandidateBsp /\ Operation' = Operation
      /\ races' = races
  BY DEF SmmStartupThisAp, platform, mpSync, election
<1>3. "handler" \in Lead /\ "blockBusy" \in Lead /\ "handler" \in BspPresentL
      /\ "blockBusy" \in BspPresentL /\ "blockBusy" \in Pc
  BY LeadPositions
<1>4. Led(c)
  BY <1>1, <1>3, LeaderIs
<1> DEFINE l2 == pc'[c]
<1>5. Moves(c, l2) /\ loc'[c].apCount = loc[c].apCount /\ l2 \in {"handler", "blockBusy"}
  <2>1. CASE config.blocking
    <3> DEFINE f == [loc[c] EXCEPT !.bsp = e]
    <3>1. GotoWith(c, "blockBusy", f)
      BY <2>1 DEF SmmStartupThisAp
    <3>2. f \in Locals /\ f.apCount = loc[c].apCount
      BY <1>0 DEF Locals
    <3> HIDE DEF f
    <3>3. Moves(c, "blockBusy") /\ loc'[c].apCount = loc[c].apCount
      BY <1>0, <1>3, <3>1, <3>2, GotoMoves
    <3>4. pc'[c] = "blockBusy"
      BY <3>3 DEF Moves
    <3> QED BY <3>3, <3>4
  <2>2. CASE ~config.blocking
    <3>1. pc' = pc /\ loc' = loc
      BY <2>2 DEF SmmStartupThisAp
    <3> QED BY <1>0, <1>1, <3>1 DEF Moves
  <2> QED BY <2>1, <2>2
<1> HIDE DEF l2
<1>6. pc[e] \in Member /\ pc[e] \notin Pre
  <2>1. Own(pc[e], Present[e], Run[e], Procedure[e], Busy[e], loc[e].n)
    BY DEF SInv, Alone
  <2>2. Present[e] = TRUE
    BY <1>0, <1>1, Typed
  <2>3. pc[e] \in PresentPc /\ pc[e] \notin Lead
    BY <1>1, <1>4, <2>1, <2>2 DEF Own, Led
  <2> QED BY <2>3 DEF PresentPc, BspPresentL
<1>7. Free(Busy[e])
  BY <1>1 DEF Free
<1>8. ASSUME NEW d \in Cpu \ {c}, pc[d] \in Member
      PROVE  Place(config, c, "handler", loc[c].n, d, pc[d], Run[d], Busy[d], loc[d].bsp)
             /\ Place(config, c, l2, loc'[c].n, d, pc[d], Run[d], Busy[d], loc[d].bsp)
  <2>1. Place(config, c, "handler", loc[c].n, d, pc[d], Run[d], Busy[d], loc[d].bsp)
    BY <1>1, <1>4, <1>8 DEF Led
  <2>2. l2 \in StartL
    BY <1>5 DEF StartL
  <2>3. Place(config, c, l2, loc'[c].n, d, pc[d], Run[d], Busy[d], loc[d].bsp)
    BY ONLY <2>1, <2>2, StartPlace
  <2> QED BY <2>1, <2>3
<1>9. pc[e] = "apLoop" /\ Run[e] = 0
      /\ Place(config, c, l2, loc'[c].n, e, pc[e], 1, TRUE, loc[e].bsp)
  <2>1. Place(config, c, "handler", loc[c].n, e, pc[e], Run[e], Busy[e], loc[e].bsp)
    BY <1>1, <1>6, <1>8
  <2>2. l2 \in StartL
    BY <1>5 DEF StartL
  <2>3. pc[e] \notin Pre
    BY <1>6
  <2> QED BY ONLY <1>7, <2>1, <2>2, <2>3, GivenPlace
<1>10. /\ Run' \in [Cpu -> 0 .. MaxWord] /\ Run'[e] = 1 /\ \A d \in Cpu \ {e} : Run'[d] = Run[d]
       /\ Busy' \in [Cpu -> BOOLEAN] /\ Busy'[e] = TRUE /\ \A d \in Cpu \ {e} : Busy'[d] = Busy[d]
  BY <1>0, <1>1, <1>9
<1>11. /\ Procedure' \in [Cpu -> BOOLEAN] /\ Procedure'[e] = TRUE
       /\ \A d \in Cpu \ {e} : Procedure'[d] = Procedure[d]
  BY <1>0, <1>1
<1>12. ASSUME NEW d \in Cpu \ {c}, pc[d] \in Member
       PROVE  Place(config, c, l2, loc'[c].n, d, pc[d], Run'[d], Busy'[d], loc[d].bsp)
  <2>1. CASE d = e
    BY <1>9, <1>10, <2>1
  <2>2. CASE d # e
    BY <1>8, <1>10, <1>12, <2>2
  <2> QED BY <2>1, <2>2
<1>13. /\ Stage(config, l2) = Stage(config, "handler")
       /\ Locked(config, l2) <=> Locked(config, "handler")
       /\ l2 \in InsideL /\ "handler" \in InsideL
       /\ l2 \notin Waits \union EndL \union ResetL \union OpenL
       /\ "handler" \notin Waits \union EndL \union ResetL \union OpenL
       /\ Path(config, l2) /\ l2 \notin Releases \union {"drain"}
       /\ l2 # "resetCounter"
  BY <1>5 DEF Stage, ArriveL, BackupL, ProgramL, RunL, BspRun, Locked, BspLocked, Releases, Waits,
         EndL, ResetL, OpenL, Path, RestoreL, InsideL
<1>14. Words(config, c, l2, BspIndex', InsideSmm')
  <2>1. Words(config, c, "handler", BspIndex, InsideSmm)
    BY <1>1, <1>4 DEF Led
  <2> QED BY <1>2, <1>13, <2>1 DEF Words
<1>15. Tally(config, l2, loc'[c].n, loc'[c].apCount, Counter', Run'[c],
             Num(pc, Todo(config, Stage(config, l2))), Num(pc, Counted))
  <2>1. Tally(config, "handler", loc[c].n, loc[c].apCount, Counter, Run[c],
              Num(pc, Todo(config, Stage(config, "handler"))), Num(pc, Counted))
    BY <1>1, <1>4 DEF Led, TodoNow
  <2>2. Run'[c] = Run[c]
    BY <1>1, <1>10
  <2> QED BY <1>2, <1>5, <1>13, <2>1, <2>2 DEF Tally
<1>16. l2 \in Lead /\ l2 \in BspPresentL
  BY <1>3, <1>5
<1>17. Led(c)'
  BY <1>2, <1>4, <1>5, <1>12, <1>13, <1>14, <1>15, <1>16, LeaderLed
<1>18. Alone'
  <2> SUFFICES ASSUME NEW d \in Cpu
               PROVE  Own(pc'[d], Present'[d], Run'[d], Procedure'[d], Busy'[d], loc'[d].n)
    BY DEF Alone
  <2>0. Own(pc[d], Present[d], Run[d], Procedure[d], Busy[d], loc[d].n)
    BY DEF SInv, Alone
  <2>1. CASE d = c
    <3>1. Present[c] = TRUE /\ Procedure[c] # TRUE
      BY <1>1, <1>3, <2>0, <2>1, LeaderPresent DEF Own
    <3>2. l2 \notin Outside /\ l2 \in PresentPc
      BY <1>16, Positions DEF PresentPc
    <3>3. Procedure'[c] # TRUE
      BY <1>1, <1>11, <3>1
    <3> QED BY <1>2, <1>13, <2>1, <3>1, <3>2, <3>3 DEF Own, l2
  <2>2. CASE d = e
    <3>1. pc'[e] = "apLoop" /\ loc'[e] = loc[e]
      BY <1>1, <1>5, <1>9 DEF Moves
    <3>2. "apLoop" \notin Outside
      BY DEF Outside
    <3>3. Present[e] = TRUE <=> "apLoop" \in PresentPc
      BY <1>9, <2>0, <2>2 DEF Own
    <3>4. "apLoop" \notin Releases \union {"drain"}
      BY DEF Releases
    <3> QED BY <1>2, <1>10, <1>11, <2>2, <3>1, <3>2, <3>3, <3>4 DEF Own
  <2>3. CASE d # c /\ d # e
    <3>1. pc'[d] = pc[d] /\ loc'[d] = loc[d]
      BY <1>5, <2>3 DEF Moves
    <3> QED BY <1>2, <1>10, <1>11, <2>0, <2>3, <3>1
  <2> QED BY <2>1, <2>2, <2>3
<1>19. FixedBsp'
  BY <1>2 DEF SInv, FixedBsp
<1>20. TypeOK'
  <2>1. calls' \in 0 .. MaxCalls
    BY <1>0, <1>1, SmmAssumption DEF TypeOK
  <2> QED BY <1>0, <1>2, <1>5, <1>10, <1>11, <2>1 DEF TypeOK, Moves, Locals
<1> QED BY <1>17, <1>18, <1>19, <1>20 DEF SInv

(* BspIndex is reset. *)
LEMMA ResetBspStep ==
  ASSUME SInv, NEW c \in Cpu, ResetBspIndex(c)
  PROVE  SInv'
<1>0. TypeOK
  BY DEF SInv
<1>1. /\ pc[c] = "resetBsp" /\ Goto(c, "resetCounter")
      /\ BspIndex' = IF config.election THEN NoBsp ELSE BspIndex
  BY DEF ResetBspIndex, At
<1>2. /\ config' = config /\ Counter' = Counter
      /\ InsideSmm' = InsideSmm /\ AllCpusInSync' = AllCpusInSync
      /\ smiStatus' = smiStatus /\ smiPending' = smiPending /\ blocked' = blocked
      /\ due' = due /\ smis' = smis /\ calls' = calls /\ mtrr' = mtrr
      /\ Run' = Run /\ Busy' = Busy /\ Procedure' = Procedure /\ Present' = Present
      /\ SwitchBsp' = SwitchBsp /\ CandidateBsp' = CandidateBsp /\ Operation' = Operation
      /\ races' = races
  BY DEF ResetBspIndex, platform, mpSync, cpuData
<1>3. /\ {"resetBsp", "resetCounter"} \subseteq EndL /\ "resetBsp" \in Lead
      /\ "resetCounter" \in Lead /\ "resetCounter" \in Pc
      /\ "resetBsp" \notin BspPresentL /\ "resetCounter" \notin BspPresentL
  BY LeadPositions DEF EndL
<1>4. Led(c)
  BY <1>1, <1>3, LeaderIs
<1>5. \A d \in Cpu : pc[d] \notin Member
  BY <1>1, <1>3, <1>4, EndEmpty
<1>6. Moves(c, "resetCounter") /\ loc'[c].apCount = loc[c].apCount
  BY <1>0, <1>1, <1>3, JustGoto
<1>7. TypeOK'
  <2>1. BspIndex' \in Cpu \union {NoBsp}
    BY <1>0, <1>1 DEF TypeOK
  <2> QED BY <1>0, <1>2, <1>6, <2>1 DEF TypeOK, Moves, Locals
<1>8. /\ "resetCounter" \notin InsideL /\ "resetBsp" \notin InsideL /\ Path(config, "resetCounter")
      /\ "resetCounter" \notin Waits \union Releases \union OpenL \union {"drain"}
      /\ "resetBsp" \notin OpenL
      /\ Locked(config, "resetCounter") /\ Locked(config, "resetBsp")
  BY DEF InsideL, ArriveL, BackupL, ProgramL, RunL, BspRun, Path, RestoreL, Waits, Releases,
         OpenL, Locked, BspLocked
<1>9. Words(config, c, "resetCounter", BspIndex', InsideSmm')
  <2>1. Words(config, c, "resetBsp", BspIndex, InsideSmm)
    BY <1>1, <1>4 DEF Led
  <2> QED BY <1>1, <1>2, <1>8, <2>1 DEF Words
<1>10. Tally(config, "resetCounter", loc'[c].n, loc'[c].apCount, Counter', Run'[c],
             Num(pc, Todo(config, Stage(config, "resetCounter"))), Num(pc, Counted))
  <2>1. Tally(config, "resetBsp", loc[c].n, loc[c].apCount, Counter, Run[c], TodoNow(c),
              Num(pc, Counted))
    BY <1>1, <1>4 DEF Led
  <2>2. Run[c] = 0 /\ Counter = MaxWord /\ Counter \in 0 .. MaxWord
    BY <1>3, <1>8, <2>1 DEF Tally
  <2> QED BY <1>2, <1>3, <1>8, <2>2 DEF Tally
<1>11. Led(c)'
  BY <1>2, <1>3, <1>4, <1>5, <1>6, <1>8, <1>9, <1>10, LeaderLed
<1>12. Present'[c] = TRUE <=> "resetCounter" \in BspPresentL
  BY <1>1, <1>2, <1>3, LeaderPresent
<1>13. Alone'
  BY <1>1, <1>2, <1>3, <1>6, <1>8, <1>12, LeaderAlone DEF SInv
<1>14. FixedBsp'
  BY <1>1, <1>2 DEF SInv, FixedBsp
<1> QED BY <1>7, <1>11, <1>13, <1>14 DEF SInv

(* Counter is reset: the BSP leads no more. *)
LEMMA ResetCounterStep ==
  ASSUME SInv, NEW c \in Cpu, ResetCounter(c)
  PROVE  SInv' /\ Led(c) /\ Idle'
<1>0. TypeOK /\ MaxWord \in Nat
  BY Typed DEF SInv
<1>1. pc[c] = "resetCounter" /\ Goto(c, "endSync") /\ Counter' = 0
  BY DEF ResetCounter, At
<1>2. /\ config' = config /\ BspIndex' = BspIndex
      /\ InsideSmm' = InsideSmm /\ AllCpusInSync' = AllCpusInSync
      /\ smiStatus' = smiStatus /\ smiPending' = smiPending /\ blocked' = blocked
      /\ due' = due /\ smis' = smis /\ calls' = calls /\ mtrr' = mtrr
      /\ Run' = Run /\ Busy' = Busy /\ Procedure' = Procedure /\ Present' = Present
      /\ SwitchBsp' = SwitchBsp /\ CandidateBsp' = CandidateBsp /\ Operation' = Operation
      /\ races' = races
  BY DEF ResetCounter, platform, election, cpuData
<1>3. "resetCounter" \in EndL /\ "resetCounter" \in Lead /\ "resetCounter" \notin BspPresentL
      /\ "endSync" \in Pc /\ "endSync" \in Outside /\ "resetCounter" \notin InsideL
  BY LeadPositions DEF EndL, Pc, BspPc, Outside, InsideL, ArriveL, BackupL, ProgramL, RunL, BspRun
<1>4. Led(c)
  BY <1>1, <1>3, LeaderIs
<1>5. \A d \in Cpu : pc[d] \notin Member
  BY <1>1, <1>3, <1>4, EndEmpty
<1>6. Moves(c, "endSync")
  BY <1>0, <1>1, <1>3, JustGoto
<1>7. TypeOK'
  <2>1. Counter' \in 0 .. MaxWord
    BY <1>0, <1>1
  <2> QED BY <1>0, <1>2, <1>6, <2>1 DEF TypeOK, Moves, Locals
<1>8. Run[c] = 0
  <2>1. Tally(config, pc[c], loc[c].n, loc[c].apCount, Counter, Run[c], TodoNow(c), Num(pc, Counted))
    BY <1>4 DEF Led
  <2> QED BY <1>1, <1>3, <2>1 DEF Tally
<1>9. Words(config, c, "resetCounter", BspIndex, InsideSmm)
  BY <1>1, <1>4 DEF Led
<1>10. \A d \in Cpu : pc'[d] \notin Lead /\ pc'[d] \notin Member
  BY <1>3, <1>4, <1>5, <1>6, Positions DEF Moves, Led
<1>11. Num(pc', Counted) = 0
  BY <1>10, NumZero DEF Counted
<1>12. Idle'
  <2>1. InsideSmm' = FALSE
    BY <1>0, <1>2, <1>3, <1>9 DEF Words, TypeOK
  <2>2. config.election => BspIndex' = NoBsp
    BY <1>2, <1>9 DEF Words
  <2> QED BY <1>1, <1>2, <1>10, <1>11, <2>1, <2>2 DEF Idle
<1>13. Alone'
  <2>1. Own(pc[c], Present[c], Run[c], Procedure[c], Busy[c], loc[c].n)
    BY DEF SInv, Alone
  <2>2. Present[c] # TRUE
    BY <1>1, <1>3, LeaderPresent
  <2>3. Procedure[c] # TRUE
    BY <1>1, <2>1 DEF Own
  <2>4. Own("endSync", Present'[c], Run'[c], Procedure'[c], Busy'[c], loc'[c].n)
    BY <1>2, <1>3, <1>8, <2>2, <2>3, PlainPositions DEF Own
  <2> QED BY <1>2, <1>6, <2>4, KeepsAlone DEF SInv
<1>14. FixedBsp'
  BY <1>2 DEF SInv, FixedBsp
<1> QED BY <1>4, <1>7, <1>12, <1>13, <1>14 DEF SInv

(* AllCpusInSync is cleared, perhaps long after. *)
LEMMA EndSyncStep ==
  ASSUME SInv, NEW c \in Cpu, ClearAllCpusInSync(c)
  PROVE  SInv'
<1>0. TypeOK
  BY DEF SInv
<1>1. pc[c] = "endSync" /\ Goto(c, "runCheck") /\ AllCpusInSync' = FALSE
  BY DEF ClearAllCpusInSync, At
<1>2. "runCheck" \in Pc /\ {"endSync", "runCheck"} \subseteq Outside
  BY DEF Pc, Outside
<1>3. Moves(c, "runCheck")
  BY <1>0, <1>1, <1>2, JustGoto
<1>4. Steady
  BY DEF Steady, ClearAllCpusInSync, election, cpuData
<1>5. TypeOK'
  <2>1. /\ smiStatus' = smiStatus /\ smiPending' = smiPending /\ blocked' = blocked
        /\ due' = due /\ smis' = smis /\ calls' = calls /\ mtrr' = mtrr
        /\ SwitchBsp' = SwitchBsp /\ CandidateBsp' = CandidateBsp /\ Operation' = Operation
    BY DEF ClearAllCpusInSync, platform, election
  <2>2. races' \subseteq {"giveUp", "endSync"}
    BY <1>0 DEF TypeOK, ClearAllCpusInSync
  <2> QED BY <1>0, <1>1, <1>3, <1>4, <2>1, <2>2 DEF TypeOK, Moves, Locals, Steady
<1> QED BY <1>1, <1>2, <1>3, <1>4, <1>5, OutsideStep

-----------------------------------------------------------------------------
(* The invariant holds *)

(* Initially nobody is in SMM. *)
LEMMA InitSInv == Init => SInv
<1> SUFFICES ASSUME Init PROVE SInv
  OBVIOUS
<1>1. /\ N \in Nat /\ N > 0 /\ MaxWord \in Nat /\ MaxSmi \in Nat /\ MaxCalls \in Nat
      /\ 0 \in Cpu /\ "normal" \in Pc
  BY SmmAssumption DEF MaxWord, Cpu, Pc
<1>2. NoLocals \in [valid : BOOLEAN, inProgress : BOOLEAN, bsp : Cpu \union {NoBsp},
                    apCount : 0 .. N, saved : {"os", "smm"}, n : 0 .. N]
  BY <1>1 DEF NoLocals
<1>3. TypeOK
  <2>0. 0 \in 0 .. MaxSmi /\ 0 \in 0 .. MaxCalls /\ 0 \in 0 .. MaxWord
    BY <1>1
  <2>1. /\ config \in Configs /\ smiStatus \in BOOLEAN /\ due \in BOOLEAN
        /\ InsideSmm \in BOOLEAN /\ AllCpusInSync \in BOOLEAN /\ SwitchBsp \in BOOLEAN
    BY DEF Init
  <2>7. smis \in 0 .. MaxSmi /\ calls \in 0 .. MaxCalls /\ Counter \in 0 .. MaxWord
    BY <2>0 DEF Init
  <2>5. CandidateBsp \in SUBSET Cpu /\ Operation \in SUBSET Cpu
    BY DEF Init
  <2>6. BspIndex \in Cpu \union {NoBsp}
    BY <1>1 DEF Init
  <2>2. /\ smiPending \in [Cpu -> BOOLEAN] /\ blocked \in [Cpu -> BOOLEAN]
        /\ Busy \in [Cpu -> BOOLEAN] /\ Present \in [Cpu -> BOOLEAN]
        /\ Procedure \in [Cpu -> BOOLEAN]
    BY DEF Init
  <2>3. /\ Run \in [Cpu -> 0 .. MaxWord] /\ mtrr \in [Cpu -> {"os", "smm"}]
        /\ pc \in [Cpu -> Pc]
    BY <1>1 DEF Init
  <2>4. loc \in [Cpu -> [valid : BOOLEAN, inProgress : BOOLEAN, bsp : Cpu \union {NoBsp},
                         apCount : 0 .. N, saved : {"os", "smm"}, n : 0 .. N]]
    BY <1>2 DEF Init
  <2>8. races \subseteq {"giveUp", "endSync"}
    BY DEF Init
  <2> QED BY <2>1, <2>2, <2>3, <2>4, <2>5, <2>6, <2>7, <2>8 DEF TypeOK
<1>4. \A d \in Cpu : pc[d] = "normal" /\ Run[d] = 0 /\ Present[d] = FALSE
                     /\ Procedure[d] = FALSE
  BY DEF Init
<1>5. "normal" \in Outside /\ "normal" \notin Lead /\ "normal" \notin Member
      /\ "normal" \notin Counted
  <2>1. "normal" \in Outside
    BY DEF Outside
  <2> QED BY <2>1, Positions
<1>6. "normal" \notin PresentPc /\ "normal" \notin Releases \union {"drain"}
  BY <1>5 DEF PresentPc, BspPresentL, Releases
<1>7. Alone
  BY <1>4, <1>6 DEF Alone, Own
<1>8. FixedBsp
  BY DEF FixedBsp, Init
<1>9. Num(pc, Counted) = 0
  BY <1>4, <1>5, NumZero
<1>10. Idle
  BY <1>4, <1>5, <1>9 DEF Idle, Init
<1> QED BY <1>3, <1>7, <1>8, <1>10 DEF SInv

(* Every step of a processor keeps it. *)
LEMMA CpuStepSInv ==
  ASSUME SInv, NEW c \in Cpu, CpuStep(c)
  PROVE  SInv'
<1>1. CASE \/ Enter(c) \/ SampleValidSmi(c) \/ SampleBspInProgress(c) \/ RunCheck(c)
           \/ WaitForSync(c)
  BY <1>1, EntryExit
<1>2. CASE CheckIn(c)
  BY <1>2, CheckInStep
<1>3. CASE \/ InitializeBusy(c) \/ Elect(c) \/ WaitForBsp(c) \/ FirstTimeout(c)
           \/ CallBsp(c) \/ SecondTimeout(c)
  BY <1>3, EarlySteps
<1>4. CASE CompareExchangeBsp(c)
  BY <1>4, CompareExchangeStep
<1>5. CASE CompareBsp(c)
  BY <1>5, CompareStep
<1>6. CASE GiveUp(c)
  BY <1>6, GiveUpSteps
<1>7. CASE ReadBspIndex(c) \/ SetApPresent(c)
  BY <1>7, ArriveSteps
<1>8. CASE SignalBsp(c)
  BY <1>8, SignalSteps
<1>9. CASE AwaitBsp(c)
  BY <1>9, AwaitSteps
<1>10. CASE \/ WaitForWork(c) \/ CheckForExit(c) \/ RunProcedure(c) \/ ReleaseBusy(c)
            \/ ClearApPresent(c)
  BY <1>10, LoopSteps
<1>11. CASE \/ ClearSwitchBsp(c) \/ ClearTopLevelSmiStatus(c) \/ WaitForApArrival1(c)
            \/ SendSmiIpis(c) \/ WaitForApArrival2(c)
  BY <1>11, GatherSteps
<1>12. CASE SetBspPresent(c) \/ SmmCpuUpdate(c) \/ ClearBspPresent(c)
  BY <1>12, BspPresentSteps
<1>13. CASE \/ BspBackupMtrrs(c) \/ BspProgramMtrrs(c) \/ AcquireBspBusy(c)
            \/ WaitForProcedure(c)
  BY <1>13, BspWorkSteps
<1>14. CASE SetInsideSmm(c)
  BY <1>14, SetInsideStep
<1>15. CASE SetAllCpusInSync(c)
  BY <1>15, SetInSyncStep
<1>16. CASE LockdownCounter(c)
  BY <1>16, LockdownStep
<1>17. CASE WaitForAllAPs(c)
  BY <1>17, WaitStep
<1>18. CASE ReleaseAllAPs(c)
  BY <1>18, ReleaseStep
<1>19. CASE HandlersReturn(c)
  BY <1>19, HandlersReturnStep
<1>20. CASE \E d \in Cpu : SmmStartupThisAp(c, d) \/ SmmSwitchBsp(c, d)
  BY <1>20, StartupStep, SwitchStep
<1>21. CASE DrainProcedures(c)
  BY <1>21, DrainStep
<1>22. CASE CountPresent(c)
  BY <1>22, CountPresentStep
<1>23. CASE ClearInsideSmm(c)
  BY <1>23, ClearInsideStep
<1>24. CASE ResetBspIndex(c) \/ ResetCounter(c)
  BY <1>24, ResetBspStep, ResetCounterStep
<1>25. CASE ClearAllCpusInSync(c)
  BY <1>25, EndSyncStep
<1> QED
  BY <1>1, <1>2, <1>3, <1>4, <1>5, <1>6, <1>7, <1>8, <1>9, <1>10, <1>11, <1>12, <1>13, <1>14,
     <1>15, <1>16, <1>17, <1>18, <1>19, <1>20, <1>21, <1>22, <1>23, <1>24, <1>25
  DEF CpuStep

(* Every step keeps it. *)
LEMMA NextSInv ==
  ASSUME SInv, [Next]_vars
  PROVE  SInv'
<1>1. CASE SmiTrigger \/ (\E c \in Cpu : Unblock(c)) \/ UNCHANGED vars
  BY <1>1, PlatformSteps
<1>2. CASE \E c \in Cpu : CpuStep(c)
  BY <1>2, CpuStepSInv
<1> QED BY <1>1, <1>2 DEF Next, Quiescent

(* SInv is an invariant of the rendezvous. *)
THEOREM RendezvousInvariant == Spec => []SInv
<1>1. Init => SInv
  BY InitSInv
<1>2. SInv /\ [Next]_vars => SInv'
  BY NextSInv
<1> QED BY <1>1, <1>2, PTL DEF Spec

(* The variables have their types: in particular no semaphore overflows and no
   loop index leaves the processors. *)
THEOREM SmmTypes == Spec => []TypeOK
<1>1. SInv => TypeOK
  BY DEF SInv
<1> QED BY <1>1, RendezvousInvariant, PTL

(* At most one processor is between its election as the BSP and the end of
   BSPHandler, however many processors arrive together, whichever mode and
   election the platform uses. *)
THEOREM OneBspAlways == Spec => []OneBsp
<1>1. SInv => OneBsp
  <2> SUFFICES ASSUME SInv, NEW c \in Cpu, NEW d \in Cpu,
                      pc[c] \in BspPc \ {"endSync"}, pc[d] \in BspPc \ {"endSync"}
               PROVE  c = d
    BY DEF OneBsp
  <2>1. pc[c] \in Lead /\ pc[d] \in Lead
    BY DEF Lead, BspPc
  <2>2. Led(c)
    BY <2>1, LeaderIs
  <2> QED BY <2>1, <2>2 DEF Led
<1> QED BY <1>1, RendezvousInvariant, PTL

(* Once the members are gathered each of them is present, until the last barrier. *)
LEMMA GatheredPlace ==
  ASSUME NEW cf, NEW b, NEW l \in Lead, NEW n, NEW d, NEW k, NEW r, NEW y, NEW m,
         Locked(cf, l), l \notin OpenL \union ResetL \union EndL,
         Place(cf, b, l, n, d, k, r, y, m)
  PROVE  k \in PresentPc
<1>1. Stage(cf, l) \notin {"reset", "end", "arrive"}
  <2>1. l \notin ArriveL
    BY DEF ArriveL, Locked, BspLocked, BspRun, Releases, Waits, OpenL
  <2> QED BY <2>1, Stages
<1>2. Stage(cf, l) = "run" => Gathers(cf) \/ l = "clearInside"
  BY DEF Stage, ArriveL, RunL, ExitL, Locked, BspLocked, BspRun, Releases, Waits, OpenL
<1>3. k \notin Pre
  BY <1>1, <1>2 DEF Place
<1>4. k \in Todo(cf, Stage(cf, l)) \union Done(cf, Stage(cf, l))
  BY DEF Place
<1>5. k \in Member
  BY <1>4, TodoMember
<1>6. k # "sigDone"
  <2>1. "sigDone" \notin Pre \union Loop
    BY DEF Pre, Loop
  <2> QED BY <1>1, <1>4, <2>1 DEF Todo, Done
<1> QED BY <1>3, <1>5, <1>6, PlainPositions

(* Once the BSP has gathered its APs nobody joins or leaves until it resets the
   counter, whichever processors come late, and whichever gave up while the BSP
   counted them. *)
THEOREM RunIsClosedAlways == Spec => []RunIsClosed
<1>1. SInv => RunIsClosed
  <2> SUFFICES ASSUME SInv, NEW c \in Cpu, pc[c] \in Gathered
               PROVE  /\ Counter = MaxWord
                      /\ pc[c] \notin ResetL \union EndL =>
                           Cardinality({d \in Cpu : Present[d]}) = loc[c].apCount + 1
    BY DEF RunIsClosed, ResetL, EndL
  <2>1. pc[c] \in Lead
    BY DEF Gathered, Synced, Lead, BspRun
  <2>2. Led(c) /\ TypeOK
    BY <2>1, LeaderIs
  <2>3. Locked(config, pc[c]) /\ pc[c] \notin OpenL
    BY DEF Gathered, Synced, Locked, GatherFirst, Gathers, OpenL
  <2>4. Tally(config, pc[c], loc[c].n, loc[c].apCount, Counter, Run[c], TodoNow(c),
              Num(pc, Counted))
    BY <2>2 DEF Led
  <2>5. Counter = MaxWord
    BY <2>3, <2>4 DEF Tally
  <2>6. ASSUME pc[c] \notin ResetL \union EndL
        PROVE  Cardinality({d \in Cpu : Present[d]}) = loc[c].apCount + 1
    <3>1. ASSUME NEW d \in Cpu PROVE Present[d] <=> pc[d] \in PresentPc
      <4>1. Own(pc[d], Present[d], Run[d], Procedure[d], Busy[d], loc[d].n)
        BY DEF SInv, Alone
      <4>2. Present[d] \in BOOLEAN
        BY <2>2, Typed
      <4> QED BY <4>1, <4>2 DEF Own
    <3>2. PresentPc \subseteq Counted
      BY DEF PresentPc, BspPresentL, Counted
    <3>3. ASSUME NEW d \in Cpu, pc[d] \in Counted PROVE pc[d] \in PresentPc
      <4>1. CASE pc[d] \in Member
        <5>1. Place(config, c, pc[c], loc[c].n, d, pc[d], Run[d], Busy[d], loc[d].bsp)
          BY <2>2, <4>1 DEF Led
        <5> QED BY <2>1, <2>3, <2>6, <5>1, GatheredPlace
      <4>2. CASE pc[d] \in Lead
        <5>1. pc[d] = pc[c]
          BY <2>2, <4>2 DEF Led
        <5>2. pc[c] \notin {"bspClear", "bspInside", "bspPresent", "waitReset"}
          BY <2>3, <2>6 DEF Locked, BspLocked, BspRun, Releases, Waits, ResetL
        <5> QED BY <2>1, <2>6, <5>1, <5>2 DEF PresentPc, BspPresentL
      <4> QED BY <3>3, <4>1, <4>2 DEF Counted
    <3>4. {d \in Cpu : Present[d]} = {d \in Cpu : pc[d] \in Counted}
      BY <3>1, <3>2, <3>3
    <3>5. Num(pc, Counted) + (MaxWord - Counter) = loc[c].apCount + 1
      BY <2>3, <2>4, <2>6 DEF Tally
    <3>6. Num(pc, Counted) \in Nat /\ MaxWord \in Nat /\ loc[c].apCount \in Nat
      BY <2>2, NumSet, Typed
    <3>7. Num(pc, Counted) = loc[c].apCount + 1
      BY <2>5, <3>5, <3>6
    <3> QED BY <3>4, <3>7 DEF Num
  <2> QED BY <2>5, <2>6
<1> QED BY <1>1, RendezvousInvariant, PTL

(* The ASSERT of SmiRendezvous never fails: a processor returns from its handler
   with every signal sent to it consumed. *)
THEOREM RunDrainedAlways == Spec => []RunDrained
<1>1. "runCheck" \in Outside
  BY DEF Outside
<1>2. SInv => RunDrained
  BY <1>1 DEF SInv, Alone, Own, RunDrained
<1> QED BY <1>2, RendezvousInvariant, PTL

(* A procedure scheduled on a processor is never overwritten, and has run before
   the BSP leads the processors out. *)
THEOREM ProceduresCompleteAlways == Spec => []ProceduresComplete
<1>1. SInv => ProceduresComplete
  <2> SUFFICES ASSUME SInv PROVE ProceduresComplete
    OBVIOUS
  <2>0. {"apLoop", "apCheck", "procedure"} \subseteq Member
        /\ {"apLoop", "apCheck", "procedure"} \cap Early = {}
    BY LatePositions
  <2>1. ASSUME NEW d \in Cpu, pc[d] = "procedure"
        PROVE  Busy[d] = TRUE
    <3>1. PICK b \in Cpu :
             /\ pc[b] \in Lead
             /\ Place(config, b, pc[b], loc[b].n, d, pc[d], Run[d], Busy[d], loc[d].bsp)
      BY <2>0, <2>1, Follower
    <3>2. "procedure" \in Todo(config, Stage(config, pc[b])) \union Done(config, Stage(config, pc[b]))
      BY <2>1, <3>1 DEF Place
    <3>3. "procedure" \notin Pre
      BY DEF Pre
    <3>4. Stage(config, pc[b]) = "run"
      BY <3>2, <3>3 DEF Todo, Done
    <3>5. "procedure" \in Loop \ {"apLoop"}
      BY DEF Loop
    <3> QED BY <2>1, <3>1, <3>4, <3>5 DEF Place
  <2>2. ASSUME NEW d \in Cpu, Procedure[d]
        PROVE  Busy[d] = TRUE /\ pc[d] \in {"apLoop", "apCheck", "procedure"}
    <3>1. Own(pc[d], Present[d], Run[d], Procedure[d], Busy[d], loc[d].n)
      BY DEF SInv, Alone
    <3>2. Procedure[d] = TRUE
      BY <2>2, Typed DEF SInv
    <3> QED BY <3>1, <3>2 DEF Own
  <2>3. ASSUME NEW c \in Cpu, pc[c] \in BspPc \ {"handler", "blockBusy", "drain", "endSync"},
               NEW d \in Cpu, Procedure[d] \/ pc[d] = "procedure"
        PROVE  FALSE
    <3>1. Busy[d] = TRUE /\ pc[d] \in {"apLoop", "apCheck", "procedure"}
      BY <2>1, <2>2, <2>3
    <3>2. pc[c] \in Lead /\ pc[c] \notin Serving
      BY <2>3 DEF Lead, BspPc, Serving
    <3>3. Led(c)
      BY <3>2, LeaderIs
    <3>4. pc[d] \in Member /\ pc[d] # "initBusy"
      BY <2>0, <3>1
    <3>5. Place(config, c, pc[c], loc[c].n, d, pc[d], Run[d], Busy[d], loc[d].bsp)
      BY <3>3, <3>4 DEF Led
    <3> QED BY <3>1, <3>2, <3>4, <3>5 DEF Place
  <2>4. \A d \in Cpu : Procedure[d] \/ pc[d] = "procedure" => Busy[d]
    BY <2>1, <2>2
  <2> QED BY <2>3, <2>4 DEF ProceduresComplete
<1> QED BY <1>1, RendezvousInvariant, PTL

=============================================================================
