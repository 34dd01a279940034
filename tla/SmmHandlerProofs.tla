-------------------------- MODULE SmmHandlerProofs --------------------------
(* Proofs about what surrounds the SMI handlers: no processor executes normal mode
   code meanwhile, the handlers run with SMM's MTRRs, and the OS's come back.

   Both follow from the stages of SmmProofs.  For normal mode code: from the SMI
   IPIs on, a processor in normal mode has an SMI pending, since it can come back
   to normal mode only while AllCpusInSync does not hold it; for this nobody may
   clear AllCpusInSync behind the leader, or leave the counter after it has come
   (races).  For the MTRRs: the
   stage, and for the two stages that change them the position, say which values a
   processor that takes part has; the threads of a core agree, and SMM's values
   are only on the core of a processor that takes part, so that nobody outside is
   left with them. *)
EXTENDS SmmProofs

-----------------------------------------------------------------------------
(* The steps *)

(* A step of c that drops no SMI and does not clear AllCpusInSync; one that in
   addition changes no MTRRs and nothing that was saved. *)
Still(c) ==
  /\ config' = config
  /\ \A d \in Cpu \ {c} : pc'[d] = pc[d]
  /\ \A d \in Cpu : smiPending[d] = TRUE => smiPending'[d] = TRUE
  /\ AllCpusInSync = TRUE => AllCpusInSync' = TRUE
MtrrsLeft(c) ==
  /\ Still(c) /\ mtrr' = mtrr
  /\ \A d \in Cpu : loc'[d].saved = loc[d].saved

(* What Goto does to the positions and to what was saved. *)
LEMMA GotoWithShape ==
  ASSUME TypeOK, NEW c \in Cpu, NEW k, NEW f \in Locals, GotoWith(c, k, f)
  PROVE  /\ pc'[c] = k /\ \A d \in Cpu \ {c} : pc'[d] = pc[d] /\ loc'[d].saved = loc[d].saved
         /\ loc'[c].saved = f.saved
<1>1. pc \in [Cpu -> Pc] /\ loc \in [Cpu -> Locals]
  BY DEF TypeOK, Locals
<1>2. pc' = [pc EXCEPT ![c] = k]
      /\ loc' = [loc EXCEPT ![c] = [f EXCEPT !.n = LoopStart(k, f.apCount)]]
  BY DEF GotoWith
<1>3. \A x : [f EXCEPT !.n = x].saved = f.saved
  BY DEF Locals
<1> QED BY <1>1, <1>2, <1>3

(* The same with the locals kept. *)
LEMMA GotoShape ==
  ASSUME TypeOK, NEW c \in Cpu, NEW k, Goto(c, k)
  PROVE  /\ pc'[c] = k /\ \A d \in Cpu \ {c} : pc'[d] = pc[d]
         /\ \A d \in Cpu : loc'[d].saved = loc[d].saved
<1>1. loc[c] \in Locals
  BY Typed
<1>2. GotoWith(c, k, loc[c])
  BY DEF Goto
<1>3. /\ pc'[c] = k /\ \A d \in Cpu \ {c} : pc'[d] = pc[d] /\ loc'[d].saved = loc[d].saved
      /\ loc'[c].saved = loc[c].saved
  BY <1>1, <1>2, GotoWithShape
<1> QED BY <1>3

(* A step that goes on at k and leaves the rest alone is calm. *)
LEMMA GotoCalm ==
  ASSUME TypeOK, NEW c \in Cpu, NEW k, Goto(c, k), config' = config, mtrr' = mtrr,
         smiPending' = smiPending, AllCpusInSync' = AllCpusInSync
  PROVE  MtrrsLeft(c) /\ pc'[c] = k
<1>1. /\ pc'[c] = k /\ \A d \in Cpu \ {c} : pc'[d] = pc[d]
      /\ \A d \in Cpu : loc'[d].saved = loc[d].saved
  BY GotoShape
<1> QED BY <1>1 DEF MtrrsLeft, Still

(* The steps of members that stay members, except those that wait for the leader. *)
LEMMA MemberCalm ==
  ASSUME SInv, NEW c \in Cpu,
         \/ InitializeBusy(c) \/ Elect(c) \/ CompareExchangeBsp(c)
         \/ WaitForBsp(c) \/ FirstTimeout(c) \/ CallBsp(c) \/ SecondTimeout(c)
         \/ ReadBspIndex(c) \/ SetApPresent(c)
         \/ WaitForWork(c) \/ CheckForExit(c) \/ RunProcedure(c) \/ ReleaseBusy(c)
         \/ ClearApPresent(c)
  PROVE  MtrrsLeft(c) /\ pc[c] \in Member \ Awaits /\ pc'[c] \in Member
<1>0. TypeOK /\ loc[c] \in Locals
  BY Typed DEF SInv
<1>1. {"initBusy", "elect", "cas", "compare", "apWait1", "apFirst", "apKnow", "apWait2", "apSecond",
       "giveUp", "apBsp", "apPresent", "apLoop", "apCheck", "procedure", "relBusy", "apAbsent",
       "sigArrive", "sigRestore", "sigReset", "sigDone"} \subseteq Member \ Awaits
  BY DEF Member, Pre, Loop, Signals, Awaits
<1>2. CASE \/ InitializeBusy(c) \/ Elect(c) \/ CompareExchangeBsp(c) \/ WaitForBsp(c)
           \/ FirstTimeout(c) \/ SecondTimeout(c) \/ SetApPresent(c) \/ WaitForWork(c)
           \/ CheckForExit(c) \/ RunProcedure(c) \/ ReleaseBusy(c) \/ ClearApPresent(c)
  <2>1. /\ config' = config /\ mtrr' = mtrr
        /\ smiPending' = smiPending /\ AllCpusInSync' = AllCpusInSync
    BY <1>2 DEF InitializeBusy, Elect, CompareExchangeBsp, WaitForBsp, FirstTimeout,
         SecondTimeout, SetApPresent, WaitForWork, CheckForExit, RunProcedure, ReleaseBusy,
         ClearApPresent, platform, mpSync
  <2>2. pc[c] \in {"initBusy", "elect", "cas", "apWait1", "apFirst", "apWait2", "apSecond",
                   "apPresent", "apLoop", "apCheck", "procedure", "relBusy", "apAbsent"}
    BY <1>2 DEF InitializeBusy, Elect, CompareExchangeBsp, WaitForBsp, FirstTimeout,
         SecondTimeout, SetApPresent, WaitForWork, CheckForExit, RunProcedure, ReleaseBusy,
         ClearApPresent, At
  <2>3. \E k \in {"apWait1", "elect", "cas", "compare", "apBsp", "apFirst", "apSecond", "apKnow",
                  "giveUp", "sigArrive", "apLoop", "apCheck", "procedure", "sigRestore",
                  "sigReset", "relBusy", "sigDone"} : Goto(c, k)
    BY <1>0, <1>2 DEF InitializeBusy, Elect, CompareExchangeBsp, WaitForBsp, FirstTimeout,
         SecondTimeout, SetApPresent, WaitForWork, CheckForExit, RunProcedure, ReleaseBusy,
         ClearApPresent
  <2>4. PICK k \in {"apWait1", "elect", "cas", "compare", "apBsp", "apFirst", "apSecond", "apKnow",
                    "giveUp", "sigArrive", "apLoop", "apCheck", "procedure", "sigRestore",
                    "sigReset", "relBusy", "sigDone"} : Goto(c, k)
    BY <2>3
  <2>5. MtrrsLeft(c) /\ pc'[c] = k
    BY <1>0, <2>1, <2>4, GotoCalm
  <2> QED BY <1>1, <2>2, <2>4, <2>5
<1>3. CASE CallBsp(c)
  <2>1. /\ config' = config /\ mtrr' = mtrr /\ AllCpusInSync' = AllCpusInSync /\ pc[c] = "apKnow"
    BY <1>3 DEF CallBsp, mpSync, At
  <2>2. \E k \in {"apWait2", "giveUp"} : Goto(c, k)
    BY <1>3 DEF CallBsp
  <2>3. PICK k \in {"apWait2", "giveUp"} : Goto(c, k)
    BY <2>2
  <2>4. \A d \in Cpu : smiPending[d] = TRUE => smiPending'[d] = TRUE
    <3>1. CASE SendSmiIpi({BspIndex})
      <4>1. smiPending' \in [Cpu -> BOOLEAN] /\ \A d \in Cpu : smiPending[d] => smiPending'[d]
        BY <3>1, IpiType
      <4> QED BY <4>1
    <3>2. CASE smiPending' = smiPending
      BY <3>2
    <3> QED BY <1>3, <3>1, <3>2 DEF CallBsp
  <2>5. /\ pc'[c] = k /\ \A d \in Cpu \ {c} : pc'[d] = pc[d]
        /\ \A d \in Cpu : loc'[d].saved = loc[d].saved
    BY <1>0, <2>3, GotoShape
  <2>6. MtrrsLeft(c)
    BY <2>1, <2>4, <2>5 DEF MtrrsLeft, Still
  <2> QED BY <1>1, <2>1, <2>3, <2>5, <2>6
<1>4. CASE ReadBspIndex(c)
  <2> DEFINE f == [loc[c] EXCEPT !.bsp = BspIndex]
  <2>1. /\ config' = config /\ mtrr' = mtrr /\ pc[c] = "apBsp"
        /\ smiPending' = smiPending /\ AllCpusInSync' = AllCpusInSync
    BY <1>4 DEF ReadBspIndex, platform, mpSync, At
  <2>2. f \in Locals /\ f.saved = loc[c].saved
    BY <1>0 DEF Locals, TypeOK
  <2>3. GotoWith(c, "apPresent", f)
    BY <1>4 DEF ReadBspIndex
  <2> HIDE DEF f
  <2>4. /\ pc'[c] = "apPresent"
        /\ \A d \in Cpu \ {c} : pc'[d] = pc[d] /\ loc'[d].saved = loc[d].saved
        /\ loc'[c].saved = f.saved
    BY <1>0, <2>2, <2>3, GotoWithShape
  <2>5. MtrrsLeft(c)
    BY <2>1, <2>2, <2>4 DEF MtrrsLeft, Still
  <2> QED BY <1>1, <2>1, <2>4, <2>5
<1> QED BY <1>2, <1>3, <1>4

(* The positions of a leader that has called the absent processors and still has
   InsideSmm set. *)
CalledL == {"arrive2", "inSync", "lockdown", "waitArrive"} \union BackupL \union ProgramL
           \union RunL

(* The positions, in traditional mode, of a leader that has set AllCpusInSync. *)
SyncL == {"lockdown"} \union BspLocked \union BspRun

(* A step of the leader within a stage that programs no MTRRs. *)
NoProgram(cf, l, l2) ==
  /\ Stage(cf, l2) = Stage(cf, l)
  /\ l2 \in {"waitProgram", "waitRestore"} => l2 = l
  /\ (l2 \in CalledL /\ ~cf.relaxed) => l \in CalledL
  /\ (l2 \in SyncL /\ ~cf.relaxed) => l \in SyncL \/ l = "inSync"
  /\ (l \in SyncL /\ ~cf.relaxed) => l2 \in SyncL

(* The steps of the code that are such steps. *)
LEMMA SteadyPairs ==
  ASSUME NEW cf
  PROVE  /\ NoProgram(cf, "bspClear", "bspInside") /\ NoProgram(cf, "bspInside", "bspPresent")
         /\ NoProgram(cf, "bspPresent", "clearSmi") /\ NoProgram(cf, "clearSmi", "arrive1")
         /\ ~Gathers(cf) => NoProgram(cf, "clearSmi", "acquire")
         /\ NoProgram(cf, "arrive1", "sendIpi") /\ NoProgram(cf, "arrive2", "inSync")
         /\ NoProgram(cf, "inSync", "lockdown") /\ NoProgram(cf, "lockdown", "waitArrive")
         /\ ~Gathers(cf) => NoProgram(cf, "lockdown", "countPresent")
         /\ NoProgram(cf, "backup", "waitBackup")
         /\ NoProgram(cf, "acquire", "handler") /\ NoProgram(cf, "handler", "blockBusy")
         /\ NoProgram(cf, "blockBusy", "handler") /\ NoProgram(cf, "handler", "drain")
         /\ NoProgram(cf, "drain", "clearInside") /\ NoProgram(cf, "countPresent", "clearInside")
         /\ ~Gathers(cf) => NoProgram(cf, "drain", "inSync")
         /\ NoProgram(cf, "update", "bspAbsent") /\ NoProgram(cf, "bspAbsent", "waitReset")
         /\ NoProgram(cf, "resetBsp", "resetCounter")
<1>1. /\ NoProgram(cf, "bspClear", "bspInside") /\ NoProgram(cf, "bspInside", "bspPresent")
      /\ NoProgram(cf, "bspPresent", "clearSmi") /\ NoProgram(cf, "clearSmi", "arrive1")
      /\ NoProgram(cf, "arrive1", "sendIpi")
  BY DEF NoProgram, SyncL, BspLocked, Releases, Waits, Stage, CalledL, ArriveL, BackupL, ProgramL, RunL, BspRun
<1>2. /\ NoProgram(cf, "arrive2", "inSync")
      /\ NoProgram(cf, "inSync", "lockdown") /\ NoProgram(cf, "lockdown", "waitArrive")
  BY DEF NoProgram, SyncL, BspLocked, Releases, Waits, Stage, CalledL, ArriveL, BspRun
<1>3. ~Gathers(cf) => NoProgram(cf, "clearSmi", "acquire")
  BY DEF NoProgram, SyncL, BspLocked, Releases, Waits, Stage, CalledL, ArriveL, BackupL, ProgramL, RunL, BspRun, Gathers
<1>4. ~Gathers(cf) => NoProgram(cf, "lockdown", "countPresent")
  BY DEF NoProgram, SyncL, BspLocked, Releases, Waits, Stage, CalledL, ArriveL, BackupL, ProgramL, RunL, Gathers
<1>5. ~Gathers(cf) => NoProgram(cf, "drain", "inSync")
  BY DEF NoProgram, SyncL, BspLocked, Releases, Waits, Stage, CalledL, ArriveL, BackupL, ProgramL, RunL, BspRun, Gathers
<1>6. NoProgram(cf, "backup", "waitBackup")
  BY DEF NoProgram, SyncL, BspLocked, Releases, Waits, Stage, CalledL, BackupL, ArriveL
<1>7. /\ NoProgram(cf, "acquire", "handler") /\ NoProgram(cf, "handler", "blockBusy")
      /\ NoProgram(cf, "blockBusy", "handler") /\ NoProgram(cf, "handler", "drain")
      /\ NoProgram(cf, "drain", "clearInside") /\ NoProgram(cf, "countPresent", "clearInside")
  BY DEF NoProgram, SyncL, BspLocked, Releases, Waits, Stage, CalledL, ArriveL, BackupL, ProgramL, RunL, BspRun
<1>8. /\ NoProgram(cf, "update", "bspAbsent") /\ NoProgram(cf, "bspAbsent", "waitReset")
      /\ NoProgram(cf, "resetBsp", "resetCounter")
  BY DEF NoProgram, SyncL, BspLocked, Releases, Waits, Stage, CalledL, ArriveL, BackupL, ProgramL, RunL, BspRun, ResetL, ExitL,
         RestoreL, EndL
<1> QED BY <1>1, <1>2, <1>3, <1>4, <1>5, <1>6, <1>7, <1>8

(* A release loop stays in its stage. *)
LEMMA SteadyRelease ==
  ASSUME NEW cf, NEW l \in Releases
  PROVE  NoProgram(cf, l, AfterRelease(l)) /\ NoProgram(cf, l, l)
<1>1. CASE l = "relBackup"
  BY <1>1 DEF NoProgram, SyncL, BspLocked, Releases, Waits, Stage, CalledL, ArriveL, BackupL, AfterRelease
<1>2. CASE l = "relProgram"
  BY <1>2 DEF NoProgram, SyncL, BspLocked, Releases, Waits, Stage, CalledL, ArriveL, BackupL, ProgramL, AfterRelease
<1>3. CASE l = "relExit"
  BY <1>3 DEF NoProgram, SyncL, BspLocked, Releases, Waits, Stage, CalledL, ArriveL, BackupL, ProgramL, RunL, BspRun, ExitL, AfterRelease
<1>4. CASE l = "relRestore"
  BY <1>4 DEF NoProgram, SyncL, BspLocked, Releases, Waits, Stage, CalledL, ArriveL, BackupL, ProgramL, RunL, BspRun, ExitL, RestoreL,
              AfterRelease
<1>5. CASE l = "relReset"
  BY <1>5 DEF NoProgram, SyncL, BspLocked, Releases, Waits, Stage, CalledL, ArriveL, BackupL, ProgramL, RunL, BspRun, ExitL, RestoreL,
              ResetL, AfterRelease
<1> QED BY <1>1, <1>2, <1>3, <1>4, <1>5 DEF Releases

(* The steps of the leader that only go on to a fixed place of the same stage. *)
LEMMA LeaderCalmPlain ==
  ASSUME SInv, NEW c \in Cpu,
         \/ ClearSwitchBsp(c) \/ SetInsideSmm(c) \/ SetBspPresent(c) \/ ClearTopLevelSmiStatus(c)
         \/ WaitForApArrival1(c) \/ WaitForApArrival2(c) \/ SetAllCpusInSync(c)
         \/ AcquireBspBusy(c) \/ HandlersReturn(c) \/ CountPresent(c)
         \/ SmmCpuUpdate(c) \/ ClearBspPresent(c) \/ ResetBspIndex(c)
  PROVE  /\ MtrrsLeft(c) /\ NoProgram(config, pc[c], pc'[c]) /\ pc[c] \in Lead /\ pc'[c] \in Lead
         /\ pc[c] = "inSync" => AllCpusInSync' = TRUE
<1>0. TypeOK
  BY DEF SInv
<1>1. {"bspClear", "bspInside", "bspPresent", "clearSmi", "arrive1", "sendIpi", "arrive2", "inSync",
       "lockdown", "acquire", "handler", "blockBusy", "drain", "clearInside", "countPresent",
       "update", "bspAbsent", "resetBsp", "resetCounter", "waitReset"} \subseteq Lead
  BY LeadPositions DEF Waits
<1> DEFINE Goes(l, l2) == pc[c] = l /\ Goto(c, l2) /\ NoProgram(config, l, l2) /\ l \in Lead /\ l2 \in Lead
<1>2. /\ config' = config /\ mtrr' = mtrr /\ smiPending' = smiPending
      /\ AllCpusInSync = TRUE => AllCpusInSync' = TRUE
  BY DEF ClearSwitchBsp, SetInsideSmm, SetBspPresent, ClearTopLevelSmiStatus, WaitForApArrival1,
         WaitForApArrival2, SetAllCpusInSync, AcquireBspBusy, HandlersReturn, CountPresent,
         SmmCpuUpdate, ClearBspPresent, ResetBspIndex, platform, mpSync
<1>3. \E l, l2 : Goes(l, l2)
  <2>1. CASE ClearSwitchBsp(c)
    <3>1. Goes("bspClear", "bspInside")
      BY <1>1, <2>1, SteadyPairs DEF ClearSwitchBsp, At
    <3> QED BY <3>1
  <2>2. CASE SetInsideSmm(c)
    <3>1. Goes("bspInside", "bspPresent")
      BY <1>1, <2>2, SteadyPairs DEF SetInsideSmm, At
    <3> QED BY <3>1
  <2>3. CASE SetBspPresent(c)
    <3>1. Goes("bspPresent", "clearSmi")
      BY <1>1, <2>3, SteadyPairs DEF SetBspPresent, At
    <3> QED BY <3>1
  <2>4. CASE ClearTopLevelSmiStatus(c)
    <3>1. CASE GatherFirst
      <4>1. Goes("clearSmi", "arrive1")
        BY <1>1, <2>4, <3>1, SteadyPairs DEF ClearTopLevelSmiStatus, At
      <4> QED BY <4>1
    <3>2. CASE ~GatherFirst
      <4>1. NoProgram(config, "clearSmi", "acquire")
        BY <3>2, SteadyPairs DEF GatherFirst, Gathers
      <4>2. Goes("clearSmi", "acquire")
        BY <1>1, <2>4, <3>2, <4>1 DEF ClearTopLevelSmiStatus, At
      <4> QED BY <4>2
    <3> QED BY <3>1, <3>2
  <2>5. CASE WaitForApArrival1(c)
    <3>1. Goes("arrive1", "sendIpi")
      BY <1>1, <2>5, SteadyPairs DEF WaitForApArrival1, At
    <3> QED BY <3>1
  <2>6. CASE WaitForApArrival2(c)
    <3>1. Goes("arrive2", "inSync")
      BY <1>1, <2>6, SteadyPairs DEF WaitForApArrival2, At
    <3> QED BY <3>1
  <2>7. CASE SetAllCpusInSync(c)
    <3>1. Goes("inSync", "lockdown")
      BY <1>1, <2>7, SteadyPairs DEF SetAllCpusInSync, At
    <3> QED BY <3>1
  <2>8. CASE AcquireBspBusy(c)
    <3>1. Goes("acquire", "handler")
      BY <1>1, <2>8, SteadyPairs DEF AcquireBspBusy, At
    <3> QED BY <3>1
  <2>9. CASE HandlersReturn(c)
    <3>1. Goes("handler", "drain")
      BY <1>1, <2>9, SteadyPairs DEF HandlersReturn, At
    <3> QED BY <3>1
  <2>10. CASE CountPresent(c)
    <3>1. Goes("countPresent", "clearInside")
      BY <1>1, <2>10, SteadyPairs DEF CountPresent, At
    <3> QED BY <3>1
  <2>11. CASE SmmCpuUpdate(c)
    <3>1. Goes("update", "bspAbsent")
      BY <1>1, <2>11, SteadyPairs DEF SmmCpuUpdate, At
    <3> QED BY <3>1
  <2>12. CASE ClearBspPresent(c)
    <3>1. Goes("bspAbsent", "waitReset")
      BY <1>1, <2>12, SteadyPairs DEF ClearBspPresent, At
    <3> QED BY <3>1
  <2>13. CASE ResetBspIndex(c)
    <3>1. Goes("resetBsp", "resetCounter")
      BY <1>1, <2>13, SteadyPairs DEF ResetBspIndex, At
    <3> QED BY <3>1
  <2> QED BY <2>1, <2>2, <2>3, <2>4, <2>5, <2>6, <2>7, <2>8, <2>9, <2>10, <2>11, <2>12, <2>13
<1>4. PICK l, l2 : Goes(l, l2)
  BY <1>3
<1>5. /\ pc'[c] = l2 /\ \A d \in Cpu \ {c} : pc'[d] = pc[d]
      /\ \A d \in Cpu : loc'[d].saved = loc[d].saved
  BY <1>0, <1>4, GotoShape
<1>6. MtrrsLeft(c)
  BY <1>2, <1>5 DEF MtrrsLeft, Still
<1>7. pc[c] = "inSync" => AllCpusInSync' = TRUE
  BY DEF ClearSwitchBsp, SetInsideSmm, SetBspPresent, ClearTopLevelSmiStatus, WaitForApArrival1,
         WaitForApArrival2, SetAllCpusInSync, AcquireBspBusy, HandlersReturn, CountPresent,
         SmmCpuUpdate, ClearBspPresent, ResetBspIndex, At
<1> QED BY <1>4, <1>5, <1>6, <1>7

(* The other steps of the leader within a stage, except those that save or program
   MTRRs or send IPIs. *)
LEMMA LeaderCalmLocals ==
  ASSUME SInv, NEW c \in Cpu,
         \/ LockdownCounter(c) \/ WaitForProcedure(c) \/ (\E d \in Cpu : SmmStartupThisAp(c, d))
         \/ (\E d \in Cpu : SmmSwitchBsp(c, d)) \/ DrainProcedures(c) \/ ReleaseAllAPs(c)
  PROVE  /\ MtrrsLeft(c) /\ NoProgram(config, pc[c], pc'[c]) /\ pc[c] \in Lead /\ pc'[c] \in Lead
         /\ pc[c] # "inSync"
<1>0. TypeOK /\ loc[c] \in Locals /\ loc \in [Cpu -> Locals] /\ pc \in [Cpu -> Pc]
  BY Typed DEF SInv, TypeOK, Locals
<1>1. /\ {"inSync", "lockdown", "waitArrive", "countPresent", "handler", "blockBusy", "drain",
          "clearInside"} \subseteq Lead
      /\ Releases \subseteq Lead
  BY LeadPositions DEF Waits
<1>2. /\ config' = config /\ mtrr' = mtrr /\ smiPending' = smiPending
      /\ AllCpusInSync' = AllCpusInSync
  BY DEF LockdownCounter, WaitForProcedure, SmmStartupThisAp, SmmSwitchBsp, DrainProcedures,
         ReleaseAllAPs, platform, mpSync
<1> DEFINE Shape == /\ \A d \in Cpu \ {c} : pc'[d] = pc[d]
                    /\ \A d \in Cpu : loc'[d].saved = loc[d].saved
<1>3. Shape => MtrrsLeft(c)
  BY <1>2 DEF MtrrsLeft, Still
<1>4. CASE LockdownCounter(c)
  <2> DEFINE l2 == IF GatherFirst THEN "waitArrive" ELSE "countPresent"
  <2>1. pc' = [pc EXCEPT ![c] = l2] /\ pc[c] = "lockdown"
    BY <1>4 DEF LockdownCounter, GotoWith, At
  <2>2. \A x, y : [[loc[c] EXCEPT !.apCount = x] EXCEPT !.n = y].saved = loc[c].saved
    BY <1>0 DEF Locals
  <2>3. \E x, y : loc' = [loc EXCEPT ![c] = [[loc[c] EXCEPT !.apCount = x] EXCEPT !.n = y]]
    BY <1>4 DEF LockdownCounter, GotoWith
  <2>4. \A d \in Cpu : loc'[d].saved = loc[d].saved
    BY <1>0, <2>2, <2>3
  <2>5. NoProgram(config, "lockdown", l2) /\ l2 \in Lead
    BY <1>1, SteadyPairs DEF GatherFirst, Gathers
  <2> HIDE DEF l2
  <2> QED BY <1>0, <1>1, <1>3, <2>1, <2>4, <2>5
<1>5. CASE WaitForProcedure(c)
  <2> DEFINE f == [loc[c] EXCEPT !.bsp = NoBsp]
  <2>1. f \in Locals /\ f.saved = loc[c].saved
    BY <1>0 DEF Locals
  <2>2. GotoWith(c, "handler", f) /\ pc[c] = "blockBusy"
    BY <1>5 DEF WaitForProcedure, At
  <2> HIDE DEF f
  <2>3. /\ pc'[c] = "handler"
        /\ \A d \in Cpu \ {c} : pc'[d] = pc[d] /\ loc'[d].saved = loc[d].saved
        /\ loc'[c].saved = f.saved
    BY <1>0, <2>1, <2>2, GotoWithShape
  <2> QED BY <1>1, <1>3, <2>1, <2>2, <2>3, SteadyPairs
<1>6. CASE \E d \in Cpu : SmmStartupThisAp(c, d)
  <2>1. PICK e \in Cpu : SmmStartupThisAp(c, e)
    BY <1>6
  <2>2. pc[c] = "handler"
    BY <2>1 DEF SmmStartupThisAp, At
  <2>3. CASE config.blocking
    <3> DEFINE f == [loc[c] EXCEPT !.bsp = e]
    <3>1. f \in Locals /\ f.saved = loc[c].saved
      BY <1>0 DEF Locals
    <3>2. GotoWith(c, "blockBusy", f)
      BY <2>1, <2>3 DEF SmmStartupThisAp
    <3> HIDE DEF f
    <3>3. /\ pc'[c] = "blockBusy"
          /\ \A d \in Cpu \ {c} : pc'[d] = pc[d] /\ loc'[d].saved = loc[d].saved
          /\ loc'[c].saved = f.saved
      BY <1>0, <3>1, <3>2, GotoWithShape
    <3> QED BY <1>1, <1>3, <2>2, <3>1, <3>3, SteadyPairs
  <2>4. CASE ~config.blocking
    <3>1. pc' = pc /\ loc' = loc
      BY <2>1, <2>4 DEF SmmStartupThisAp
    <3>2. NoProgram(config, "handler", "handler")
      BY DEF NoProgram
    <3> QED BY <1>1, <1>3, <2>2, <3>1, <3>2
  <2> QED BY <2>3, <2>4
<1>7. CASE \E d \in Cpu : SmmSwitchBsp(c, d)
  <2>1. pc' = pc /\ loc' = loc /\ pc[c] = "handler"
    BY <1>7 DEF SmmSwitchBsp, At
  <2>2. NoProgram(config, "handler", "handler")
    BY DEF NoProgram
  <2> QED BY <1>1, <1>3, <2>1, <2>2
<1>8. CASE DrainProcedures(c)
  <2>1. pc[c] = "drain"
    BY <1>8 DEF DrainProcedures, At
  <2>2. CASE loc' = [loc EXCEPT ![c].n = loc[c].n - 1] /\ pc' = pc
    <3>1. \A d \in Cpu : loc'[d].saved = loc[d].saved
      BY <1>0, <2>2 DEF Locals
    <3>2. NoProgram(config, "drain", "drain")
      BY DEF NoProgram
    <3> QED BY <1>1, <1>3, <2>1, <2>2, <3>1, <3>2
  <2>3. CASE Goto(c, IF GatherFirst THEN "clearInside" ELSE "inSync")
    <3> DEFINE l2 == IF GatherFirst THEN "clearInside" ELSE "inSync"
    <3>1. NoProgram(config, "drain", l2) /\ l2 \in Lead
      BY <1>1, SteadyPairs DEF GatherFirst, Gathers
    <3> HIDE DEF l2
    <3>2. /\ pc'[c] = l2 /\ \A d \in Cpu \ {c} : pc'[d] = pc[d]
          /\ \A d \in Cpu : loc'[d].saved = loc[d].saved
      <4>1. Goto(c, l2)
        BY <2>3 DEF l2
      <4> QED BY <1>0, <4>1, GotoShape
    <3> QED BY <1>1, <1>3, <2>1, <3>1, <3>2
  <2> QED BY <1>8, <2>2, <2>3 DEF DrainProcedures
<1>9. CASE ReleaseAllAPs(c)
  <2>1. pc[c] \in Releases /\ pc[c] # "inSync"
    BY <1>9 DEF ReleaseAllAPs, At, Releases
  <2>2. NoProgram(config, pc[c], AfterRelease(pc[c])) /\ NoProgram(config, pc[c], pc[c])
    BY <2>1, SteadyRelease
  <2>3. CASE loc' = [loc EXCEPT ![c].n = loc[c].n - 1] /\ pc' = pc
    <3>1. \A d \in Cpu : loc'[d].saved = loc[d].saved
      BY <1>0, <2>3 DEF Locals
    <3> QED BY <1>1, <1>3, <2>1, <2>2, <2>3, <3>1
  <2>4. CASE Goto(c, AfterRelease(pc[c]))
    <3>1. AfterRelease(pc[c]) \in Lead
      <4>1. {"backup", "program", "restore", "update", "waitExit"} \subseteq Lead
        BY LeadPositions DEF Waits
      <4> QED BY <2>1, <4>1 DEF AfterRelease, Releases
    <3>2. /\ pc'[c] = AfterRelease(pc[c]) /\ \A d \in Cpu \ {c} : pc'[d] = pc[d]
          /\ \A d \in Cpu : loc'[d].saved = loc[d].saved
      BY <1>0, <2>4, GotoShape
    <3> QED BY <1>1, <1>3, <2>1, <2>2, <3>1, <3>2
  <2> QED BY <1>9, <2>3, <2>4 DEF ReleaseAllAPs
<1> QED BY <1>4, <1>5, <1>6, <1>7, <1>8, <1>9

(* The steps of an AP that signals, gives up or waits for the BSP, and the rest of
   the election. *)
LEMMA ApCalm ==
  ASSUME SInv, NEW c \in Cpu
  PROVE  /\ CompareBsp(c) => /\ MtrrsLeft(c) /\ pc[c] = "compare"
                             /\ pc'[c] = IF BspIndex = c THEN "bspClear" ELSE "apWait1"
         /\ SignalBsp(c) => MtrrsLeft(c) /\ pc[c] \in Signals /\ pc'[c] = AfterSignal(pc[c])
         /\ GiveUp(c) => MtrrsLeft(c) /\ pc[c] = "giveUp" /\ pc'[c] = "runCheck"
<1>0. TypeOK
  BY DEF SInv
<1>1. ASSUME CompareBsp(c)
      PROVE  /\ MtrrsLeft(c) /\ pc[c] = "compare"
             /\ pc'[c] = IF BspIndex = c THEN "bspClear" ELSE "apWait1"
  <2>1. /\ config' = config /\ mtrr' = mtrr /\ pc[c] = "compare"
        /\ smiPending' = smiPending /\ AllCpusInSync' = AllCpusInSync
        /\ Goto(c, IF BspIndex = c THEN "bspClear" ELSE "apWait1")
    BY <1>1 DEF CompareBsp, platform, mpSync, At
  <2> QED BY <1>0, <2>1, GotoCalm
<1>2. ASSUME SignalBsp(c)
      PROVE  MtrrsLeft(c) /\ pc[c] \in Signals /\ pc'[c] = AfterSignal(pc[c])
  <2>1. /\ config' = config /\ mtrr' = mtrr /\ pc[c] \in Signals
        /\ smiPending' = smiPending /\ AllCpusInSync' = AllCpusInSync
        /\ Goto(c, AfterSignal(pc[c]))
    BY <1>2 DEF SignalBsp, platform, mpSync, At
  <2> QED BY <1>0, <2>1, GotoCalm
<1>3. ASSUME GiveUp(c)
      PROVE  MtrrsLeft(c) /\ pc[c] = "giveUp" /\ pc'[c] = "runCheck"
  <2>1. /\ config' = config /\ mtrr' = mtrr /\ pc[c] = "giveUp"
        /\ smiPending' = smiPending /\ AllCpusInSync' = AllCpusInSync
        /\ Goto(c, "runCheck")
    BY <1>3 DEF GiveUp, platform, mpSync, At
  <2> QED BY <1>0, <2>1, GotoCalm
<1> QED BY <1>1, <1>2, <1>3

(* WaitForAllAPs and the end of the run of the handlers. *)
LEMMA BarrierCalm ==
  ASSUME SInv, NEW c \in Cpu
  PROVE  /\ ClearInsideSmm(c) => MtrrsLeft(c) /\ pc[c] = "clearInside" /\ pc'[c] = "relExit"
         /\ WaitForAllAPs(c) => /\ MtrrsLeft(c) /\ pc[c] \in Waits
                                /\ pc'[c] = pc[c] \/ pc'[c] = AfterWait(pc[c])
<1>0. TypeOK /\ loc \in [Cpu -> Locals] /\ pc \in [Cpu -> Pc]
  BY DEF SInv, TypeOK, Locals
<1>1. ASSUME ClearInsideSmm(c)
      PROVE  MtrrsLeft(c) /\ pc[c] = "clearInside" /\ pc'[c] = "relExit"
  <2>1. /\ config' = config /\ mtrr' = mtrr /\ pc[c] = "clearInside"
        /\ smiPending' = smiPending /\ AllCpusInSync' = AllCpusInSync
        /\ Goto(c, "relExit")
    BY <1>1 DEF ClearInsideSmm, platform, mpSync, At
  <2> QED BY <1>0, <2>1, GotoCalm
<1>2. ASSUME WaitForAllAPs(c)
      PROVE  MtrrsLeft(c) /\ pc[c] \in Waits /\ (pc'[c] = pc[c] \/ pc'[c] = AfterWait(pc[c]))
  <2>1. /\ config' = config /\ mtrr' = mtrr /\ pc[c] \in Waits
        /\ smiPending' = smiPending /\ AllCpusInSync' = AllCpusInSync
    BY <1>2 DEF WaitForAllAPs, platform, mpSync, At
  <2>2. CASE Goto(c, AfterWait(pc[c]))
    BY <1>0, <2>1, <2>2, GotoCalm
  <2>3. CASE loc' = [loc EXCEPT ![c].n = @ - 1] /\ pc' = pc
    <3>1. \A d \in Cpu : loc'[d].saved = loc[d].saved
      BY <1>0, <2>3 DEF Locals
    <3> QED BY <2>1, <2>3, <3>1 DEF MtrrsLeft, Still
  <2> QED BY <1>2, <2>2, <2>3 DEF WaitForAllAPs
<1> QED BY <1>1, <1>2

(* The steps that save or program MTRRs. *)
LEMMA MtrrStill ==
  ASSUME SInv, NEW c \in Cpu, AwaitBsp(c) \/ BspBackupMtrrs(c) \/ BspProgramMtrrs(c)
  PROVE  /\ Still(c)
         /\ \/ pc[c] \in Awaits /\ pc'[c] \in Member
            \/ pc[c] = "backup" /\ pc'[c] = "waitBackup"
            \/ pc[c] = "program" /\ pc'[c] = "waitProgram"
            \/ pc[c] = "restore" /\ pc'[c] = "waitRestore"
<1>0. pc \in [Cpu -> Pc]
  BY DEF SInv, TypeOK
<1>1. config' = config /\ smiPending' = smiPending /\ AllCpusInSync' = AllCpusInSync
  BY DEF AwaitBsp, BspBackupMtrrs, BspProgramMtrrs, platform, mpSync
<1>2. {"sigBackup", "sigProgram", "sigReset", "apAbsent"} \subseteq Member
  BY DEF Member, Signals
<1>3. \E k : /\ pc' = [pc EXCEPT ![c] = k]
             /\ \/ pc[c] \in Awaits /\ k \in Member
                \/ pc[c] = "backup" /\ k = "waitBackup"
                \/ pc[c] = "program" /\ k = "waitProgram"
                \/ pc[c] = "restore" /\ k = "waitRestore"
  BY <1>2 DEF AwaitBsp, BspBackupMtrrs, BspProgramMtrrs, At, Goto, GotoWith
<1> QED BY <1>0, <1>1, <1>3 DEF Still

-----------------------------------------------------------------------------
(* Normal mode code *)

Idler == {"normal", "endSync", "runCheck", "waitSync"}

(* A processor at k with smiPending = s, while the leader is at l, executes no
   normal mode instruction before it takes an SMI. *)
Called(k, s, l) ==
  /\ k = "normal" => s = TRUE
  /\ k \in Idler => (s = TRUE \/ l \in SyncL)

(* The leader holds the others as long as it is in sync, and before it has called
   them. *)
NCore ==
  ~config.relaxed =>
    \A b \in Cpu : /\ pc[b] \in SyncL => AllCpusInSync = TRUE
                   /\ pc[b] \in CalledL => \A d \in Cpu : Called(pc[d], smiPending[d], pc[b])
NInv == races = {} => NCore

(* Positions of the leader with InsideSmm. *)
LEMMA CalledPositions ==
  /\ CalledL \subseteq InsideL /\ CalledL \subseteq Lead /\ Idler \subseteq Outside
  /\ SyncL \subseteq Lead
  /\ Outside \cap Lead = {} /\ Member \cap Lead = {} /\ Member \cap Outside = {}
<1>1. CalledL \subseteq InsideL
  BY DEF CalledL, InsideL, ArriveL
<1>2. CalledL \subseteq Lead
  BY DEF CalledL, Lead, BspPc, BspEntry, BspLocked, Waits, Releases, BackupL, ProgramL, RunL
<1>3. Idler \subseteq Outside
  BY DEF Idler, Outside
<1>4. SyncL \subseteq Lead
  BY DEF SyncL, Lead
<1> QED BY <1>1, <1>2, <1>3, <1>4, Positions

(* A step to a place that is not outside SMM, and not a new place of CalledL or
   SyncL. *)
LEMMA StillCalled ==
  ASSUME NCore, NEW c \in Cpu, Still(c), pc'[c] \notin Idler,
         (pc'[c] \in CalledL /\ ~config.relaxed) => pc[c] \in CalledL,
         (pc'[c] \in SyncL /\ ~config.relaxed) => pc[c] \in SyncL \/ AllCpusInSync' = TRUE,
         (pc[c] \in SyncL /\ ~config.relaxed) => pc'[c] \in SyncL
  PROVE  NCore'
<1> SUFFICES ASSUME ~config.relaxed, NEW b \in Cpu
             PROVE  /\ pc'[b] \in SyncL => AllCpusInSync' = TRUE
                    /\ pc'[b] \in CalledL =>
                         \A d \in Cpu : Called(pc'[d], smiPending'[d], pc'[b])
  BY DEF NCore, Still
<1>1. /\ pc'[b] \in SyncL => pc[b] \in SyncL \/ AllCpusInSync' = TRUE
      /\ pc[b] \in SyncL => pc'[b] \in SyncL
      /\ pc'[b] \in CalledL => pc[b] \in CalledL
  BY DEF Still
<1>2. pc'[b] \in SyncL => AllCpusInSync' = TRUE
  BY <1>1 DEF NCore, Still
<1>3. ASSUME pc'[b] \in CalledL, NEW d \in Cpu
      PROVE  Called(pc'[d], smiPending'[d], pc'[b])
  <2>1. Called(pc[d], smiPending[d], pc[b])
    BY <1>1, <1>3 DEF NCore
  <2>2. CASE d = c
    BY <2>2 DEF Called, Idler
  <2>3. CASE d # c
    BY <1>1, <2>1, <2>3 DEF Called, Still
  <2> QED BY <2>2, <2>3
<1> QED BY <1>2, <1>3

(* A processor outside SMM or leaving its handler: it is still called, or nobody
   leads. *)
LEMMA LeavesCalled ==
  ASSUME NCore, NEW c \in Cpu, config' = config, \A d \in Cpu \ {c} : pc'[d] = pc[d],
         \A d \in Cpu \ {c} : smiPending[d] = TRUE => smiPending'[d] = TRUE,
         AllCpusInSync = TRUE => AllCpusInSync' = TRUE,
         pc'[c] \notin CalledL, pc'[c] \notin SyncL,
         ASSUME NEW b \in Cpu, pc[b] \in CalledL, ~config.relaxed
         PROVE  Called(pc'[c], smiPending'[c], pc[b])
  PROVE  NCore'
<1> SUFFICES ASSUME ~config.relaxed, NEW b \in Cpu
             PROVE  /\ pc'[b] \in SyncL => AllCpusInSync' = TRUE
                    /\ pc'[b] \in CalledL =>
                         \A d \in Cpu : Called(pc'[d], smiPending'[d], pc'[b])
  BY DEF NCore
<1>1. pc'[b] \in SyncL => AllCpusInSync' = TRUE
  BY DEF NCore
<1>2. ASSUME pc'[b] \in CalledL, NEW d \in Cpu
      PROVE  Called(pc'[d], smiPending'[d], pc'[b])
  <2>1. b # c /\ pc[b] \in CalledL /\ pc'[b] = pc[b]
    BY <1>2
  <2>2. Called(pc[d], smiPending[d], pc[b])
    BY <2>1 DEF NCore
  <2>3. CASE d = c
    BY <2>1, <2>3
  <2>4. CASE d # c
    BY <2>1, <2>2, <2>4 DEF Called
  <2> QED BY <2>3, <2>4
<1> QED BY <1>1, <1>2

(* While there is a leader in CalledL, InsideSmm is set. *)
LEMMA CalledInside ==
  ASSUME SInv, NEW b \in Cpu, pc[b] \in CalledL
  PROVE  /\ Led(b) /\ pc[b] \in Lead /\ InsideSmm = TRUE
         /\ (Counter = MaxWord /\ ~config.relaxed) => pc[b] \in SyncL
         /\ \A c \in Cpu : pc[c] \in Member =>
              Place(config, b, pc[b], loc[b].n, c, pc[c], Run[c], Busy[c], loc[c].bsp)
<1>1. pc[b] \in Lead /\ pc[b] \in InsideL
  BY CalledPositions
<1>2. Led(b) /\ TypeOK
  BY <1>1, LeaderIs
<1>3. InsideSmm = TRUE
  BY <1>1, <1>2 DEF Led, Words
<1>4. ASSUME Counter = MaxWord, ~config.relaxed PROVE pc[b] \in SyncL
  <2>1. MaxWord \in Nat /\ MaxWord > N + 1 /\ N \in Nat
    BY <1>2, Typed
  <2>2. Num(pc, Counted) \in Nat /\ Num(pc, Counted) <= N
    BY NumSet
  <2>3. Counter # Num(pc, Counted)
    BY <1>4, <2>1, <2>2
  <2>4. Locked(config, pc[b])
    BY <1>2, <2>3 DEF Led, Tally
  <2> QED BY <2>4 DEF Locked, SyncL, BspRun
<1> QED BY <1>1, <1>2, <1>3, <1>4 DEF Led

(* The steps outside SMM. *)
LEMMA OutsideCalled ==
  ASSUME SInv, NCore, NEW c \in Cpu,
         \/ Enter(c) \/ SampleValidSmi(c) \/ SampleBspInProgress(c) \/ RunCheck(c)
         \/ WaitForSync(c) \/ CheckIn(c)
  PROVE  NCore'
<1>0. TypeOK /\ pc \in [Cpu -> Pc] /\ smiPending \in [Cpu -> BOOLEAN] /\ AllCpusInSync \in BOOLEAN
  BY DEF SInv, TypeOK
<1>1. config' = config /\ AllCpusInSync' = AllCpusInSync
  BY DEF Enter, SampleValidSmi, SampleBspInProgress, RunCheck, WaitForSync, CheckIn, mpSync
<1>2. \A d \in Cpu \ {c} : smiPending[d] = TRUE => smiPending'[d] = TRUE
  BY <1>0 DEF Enter, SampleValidSmi, SampleBspInProgress, RunCheck, WaitForSync, CheckIn, platform
<1>3. ~Enter(c) => smiPending' = smiPending
  BY DEF SampleValidSmi, SampleBspInProgress, RunCheck, WaitForSync, CheckIn, platform
<1>4. \E k \in Outside \union {"initBusy"} : pc' = [pc EXCEPT ![c] = k]
  <2>1. {"normal", "sampleSmi", "sampleBsp", "checkIn", "waitSync"} \subseteq Outside
    BY DEF Outside
  <2> QED BY <2>1 DEF Enter, SampleValidSmi, SampleBspInProgress, RunCheck, WaitForSync, CheckIn,
          Exit, Goto, GotoWith
<1>5. /\ pc'[c] \in Outside \union {"initBusy"} /\ \A d \in Cpu \ {c} : pc'[d] = pc[d]
  BY <1>0, <1>4
<1>6. pc'[c] \notin CalledL /\ pc'[c] \notin SyncL
  <2>1. "initBusy" \in Member
    BY DEF Member, Pre
  <2> QED BY <1>5, <2>1, CalledPositions
<1>7. ASSUME NEW b \in Cpu, pc[b] \in CalledL, ~config.relaxed
      PROVE  Called(pc'[c], smiPending'[c], pc[b])
  <2>1. InsideSmm = TRUE /\ (Counter = MaxWord => pc[b] \in SyncL)
    BY <1>7, CalledInside
  <2>2. /\ Called(pc[c], smiPending[c], pc[b])
        /\ pc[b] \in SyncL => AllCpusInSync = TRUE
    BY <1>7 DEF NCore
  <2>3. CASE Enter(c) \/ SampleValidSmi(c)
    <3>1. pc'[c] \in {"sampleSmi", "sampleBsp"}
      BY <1>0, <2>3 DEF Enter, SampleValidSmi, Goto, GotoWith
    <3> QED BY <3>1 DEF Called, Idler
  <2>4. CASE SampleBspInProgress(c)
    <3>1. pc'[c] = "checkIn"
      BY <1>0, <2>1, <2>4 DEF SampleBspInProgress, GotoWith
    <3> QED BY <3>1 DEF Called, Idler
  <2>5. CASE RunCheck(c)
    <3>1. pc[c] = "runCheck" /\ pc'[c] = "waitSync" /\ smiPending' = smiPending
      BY <1>0, <2>5 DEF RunCheck, Goto, GotoWith, At, platform
    <3> QED BY <2>2, <3>1 DEF Called, Idler
  <2>6. CASE WaitForSync(c)
    <3>1. pc[c] = "waitSync" /\ ~AllCpusInSync /\ pc'[c] = "normal" /\ smiPending' = smiPending
      BY <1>0, <2>6 DEF WaitForSync, Exit, GotoWith, At, platform
    <3>2. smiPending[c] = TRUE
      BY <2>2, <3>1 DEF Called, Idler
    <3> QED BY <3>1, <3>2 DEF Called
  <2>7. CASE CheckIn(c)
    <3>1. CASE Counter = MaxWord
      <4>1. pc'[c] = "waitSync"
        BY <1>0, <2>7, <3>1 DEF CheckIn, Goto, GotoWith
      <4> QED BY <2>1, <3>1, <4>1 DEF Called
    <3>2. CASE Counter # MaxWord
      <4>1. pc'[c] = "initBusy"
        BY <1>0, <2>7, <3>2 DEF CheckIn, Goto, GotoWith
      <4> QED BY <4>1 DEF Called, Idler
    <3> QED BY <3>1, <3>2
  <2> QED BY <2>3, <2>4, <2>5, <2>6, <2>7
<1> QED BY <1>1, <1>2, <1>5, <1>6, <1>7, LeavesCalled

(* SmmWaitForApArrival calls every processor that is not in SMM. *)
LEMMA SendCalled ==
  ASSUME SInv, NEW c \in Cpu, SendSmiIpis(c)
  PROVE  NCore'
<1>0. TypeOK /\ pc \in [Cpu -> Pc] /\ Present \in [Cpu -> BOOLEAN]
  BY DEF SInv, TypeOK
<1>1. pc[c] = "sendIpi"
  BY DEF SendSmiIpis, At
<1>2. "sendIpi" \in Lead
  BY LeadPositions
<1>3. Led(c)
  BY <1>1, <1>2, LeaderIs
<1>4. \E k \in {"arrive2", "inSync"} : pc' = [pc EXCEPT ![c] = k]
  BY DEF SendSmiIpis, Goto, GotoWith
<1>5. pc'[c] \in {"arrive2", "inSync"} /\ \A d \in Cpu \ {c} : pc'[d] = pc[d]
  BY <1>0, <1>4
<1>6. ASSUME NEW d \in Cpu, pc'[d] \in Idler
      PROVE  smiPending'[d] = TRUE
  <2>1. pc[d] \in Idler /\ d # c
    BY <1>5, <1>6 DEF Idler
  <2>2. pc[d] \notin Counted /\ pc[d] \in Pc
    BY <1>0, <2>1, CalledPositions DEF Counted
  <2>3. Counter = Num(pc, Counted)
    <3>1. ~Locked(config, "sendIpi")
      BY DEF Locked, BspLocked, BspRun, Releases, Waits
    <3> QED BY <1>1, <1>3, <3>1 DEF Led, Tally
  <2>4. Num(pc, Counted) < Num(pc, Pc) /\ Num(pc, Pc) <= N /\ N \in Nat
        /\ Num(pc, Counted) \in Nat /\ Num(pc, Pc) \in Nat
    <3>1. \A e \in Cpu : pc[e] \in Counted => pc[e] \in Pc
      BY <1>0
    <3>2. Num(pc, Counted) < Num(pc, Pc)
      BY <2>2, <3>1, NumLess
    <3>3. N \in Nat
      BY SmmAssumption
    <3> QED BY <3>2, <3>3, NumSet
  <2>5. Counter < N
    BY <2>3, <2>4
  <2>6. SendSmiIpi({e \in Cpu : ~Present[e]})
    BY <2>5 DEF SendSmiIpis
  <2>7. ~Present[d]
    <3>1. Own(pc[d], Present[d], Run[d], Procedure[d], Busy[d], loc[d].n)
      BY DEF SInv, Alone
    <3>2. pc[d] \notin PresentPc
      BY <2>2 DEF PresentPc, Counted, BspPresentL
    <3> QED BY <1>0, <3>1, <3>2 DEF Own
  <2>8. smiPending' \in [Cpu -> BOOLEAN] /\ smiPending'[d]
    <3>1. d \in {e \in Cpu : ~Present[e]}
      BY <2>7
    <3> QED BY <2>6, <3>1, IpiType
  <2> QED BY <2>8
<1>7. \A l : \A d \in Cpu : Called(pc'[d], smiPending'[d], l)
  BY <1>6 DEF Called, Idler
<1>8. \A b \in Cpu : pc'[b] \notin SyncL
  <2>1. "arrive2" \notin SyncL /\ "inSync" \notin SyncL
    BY DEF SyncL, BspLocked, BspRun, Releases, Waits
  <2> QED BY <1>3, <1>5, <2>1, CalledPositions DEF Led
<1> QED BY <1>7, <1>8 DEF NCore

(* Whoever leaves APHandler while there is a leader leaves it at the end. *)
LEMMA ApCalled ==
  ASSUME SInv, NCore, NEW c \in Cpu, CompareBsp(c) \/ SignalBsp(c) \/ GiveUp(c), races' = {}
  PROVE  NCore'
<1>0. Still(c)
  BY ApCalm DEF MtrrsLeft
<1>1. CASE CompareBsp(c)
  <2>1. pc'[c] \in {"bspClear", "apWait1"}
    BY <1>1, ApCalm
  <2>2. pc'[c] \notin Idler /\ pc'[c] \notin CalledL /\ pc'[c] \notin SyncL
    BY <2>1 DEF Idler, CalledL, BackupL, ProgramL, RunL, BspRun, SyncL, BspLocked, Releases, Waits
  <2>3. pc[c] \notin SyncL
    BY <1>1, ApCalm DEF SyncL, BspRun, BspLocked, Releases, Waits
  <2> QED BY <1>0, <2>2, <2>3, StillCalled
<1>2. CASE SignalBsp(c) \/ GiveUp(c)
  <2>1. /\ pc[c] \in Signals \union {"giveUp"} /\ pc'[c] \notin CalledL /\ pc'[c] \notin SyncL
        /\ pc'[c] \in Idler => pc[c] \in {"giveUp", "sigDone"}
    <3>1. CASE GiveUp(c)
      <4>1. pc[c] = "giveUp" /\ pc'[c] = "runCheck"
        BY <3>1, ApCalm
      <4> QED BY <4>1 DEF CalledL, BackupL, ProgramL, RunL, BspRun, SyncL, BspLocked, Releases, Waits
    <3>2. CASE SignalBsp(c)
      <4>1. pc[c] \in Signals /\ pc'[c] = AfterSignal(pc[c])
        BY <3>2, ApCalm
      <4>2. /\ pc'[c] \in {"awaitBackup", "apLoop", "awaitProgram", "awaitRestore", "awaitReset",
                           "runCheck"}
            /\ pc[c] # "sigDone" => pc'[c] # "runCheck"
        BY <4>1 DEF AfterSignal, Signals
      <4>3. {"awaitBackup", "apLoop", "awaitProgram", "awaitRestore", "awaitReset"} \cap Idler = {}
        BY DEF Idler
      <4>4. pc'[c] \notin CalledL /\ pc'[c] \notin SyncL
        BY <4>2 DEF CalledL, BackupL, ProgramL, RunL, BspRun, SyncL, BspLocked, Releases, Waits
      <4> QED BY <4>1, <4>2, <4>3, <4>4
    <3> QED BY <1>2, <3>1, <3>2
  <2>2. ASSUME NEW b \in Cpu, pc[b] \in CalledL, ~config.relaxed
        PROVE  Called(pc'[c], smiPending'[c], pc[b])
    <3>1. pc[c] \in Member
      BY <2>1 DEF Member, Pre
    <3>2. /\ Place(config, b, pc[b], loc[b].n, c, pc[c], Run[c], Busy[c], loc[c].bsp)
          /\ pc[b] \in Lead /\ InsideSmm = TRUE
      BY <2>2, <3>1, CalledInside
    <3>3. pc[c] # "giveUp"
      <4>1. ~GiveUp(c)
        BY <3>2 DEF GiveUp
      <4>2. pc[c] \in Signals
        BY <1>2, <4>1, ApCalm
      <4> QED BY <4>2 DEF Signals
    <3>4. Stage(config, pc[b]) \notin {"reset", "end"}
      <4>1. pc[b] \notin ResetL \union EndL
        BY <2>2 DEF ResetL, EndL, CalledL, BackupL, ProgramL, RunL, BspRun
      <4> QED BY <3>2, <4>1, Stages
    <3>5. pc[c] \in Todo(config, Stage(config, pc[b])) \union Done(config, Stage(config, pc[b]))
      BY <3>2 DEF Place
    <3>6. pc[c] # "sigDone"
      BY <3>4, <3>5 DEF Todo, Done, Pre, Loop
    <3>7. pc'[c] \notin Idler
      BY <2>1, <3>3, <3>6
    <3> QED BY <3>7 DEF Called, Idler
  <2>3. /\ config' = config /\ \A d \in Cpu \ {c} : pc'[d] = pc[d]
        /\ \A d \in Cpu \ {c} : smiPending[d] = TRUE => smiPending'[d] = TRUE
        /\ AllCpusInSync = TRUE => AllCpusInSync' = TRUE
    BY <1>0 DEF Still
  <2> QED BY <2>1, <2>2, <2>3, LeavesCalled
<1> QED BY <1>1, <1>2

(* The BSP resets the counter: there is no leader. *)
LEMMA ResetCalled ==
  ASSUME SInv, NEW c \in Cpu, ResetCounter(c)
  PROVE  NCore'
<1>1. \A d \in Cpu : pc'[d] \notin Lead
  BY ResetCounterStep DEF Idle
<1>2. \A d \in Cpu : pc'[d] \notin CalledL /\ pc'[d] \notin SyncL
  BY <1>1, CalledPositions
<1> QED BY <1>2 DEF NCore

(* The BSP clears AllCpusInSync, and no other has set it. *)
LEMMA EndCalled ==
  ASSUME SInv, NCore, NEW c \in Cpu, ClearAllCpusInSync(c), races' = {}
  PROVE  NCore'
<1>0. TypeOK
  BY DEF SInv
<1>1. /\ pc[c] = "endSync" /\ Goto(c, "runCheck") /\ config' = config /\ smiPending' = smiPending
  BY DEF ClearAllCpusInSync, At, platform
<1>2. pc'[c] = "runCheck" /\ \A d \in Cpu \ {c} : pc'[d] = pc[d]
  BY <1>0, <1>1, GotoShape
<1>3. "runCheck" \notin Lead
  BY CalledPositions DEF Outside
<1>4. \A d \in Cpu : pc[d] \notin Synced
  BY DEF ClearAllCpusInSync
<1> SUFFICES ASSUME ~config.relaxed, NEW b \in Cpu
             PROVE  /\ pc'[b] \notin SyncL
                    /\ pc'[b] \in CalledL =>
                         \A d \in Cpu : Called(pc'[d], smiPending'[d], pc'[b])
  BY <1>1 DEF NCore
<1>5. SyncL = Synced
  BY DEF SyncL, Synced, GatherFirst
<1>6. pc'[b] \notin SyncL
  BY <1>2, <1>3, <1>4, <1>5, CalledPositions
<1>7. ASSUME pc'[b] \in CalledL, NEW d \in Cpu
      PROVE  Called(pc'[d], smiPending'[d], pc'[b])
  <2>1. b # c /\ pc'[b] = pc[b]
    BY <1>2, <1>3, <1>7, CalledPositions
  <2>2. Called(pc[d], smiPending[d], pc[b])
    BY <1>7, <2>1 DEF NCore
  <2>3. CASE d = c
    BY <1>1, <1>2, <2>1, <2>2, <2>3 DEF Called, Idler
  <2>4. CASE d # c
    BY <1>1, <1>2, <2>1, <2>2, <2>4
  <2> QED BY <2>3, <2>4
<1> QED BY <1>6, <1>7

(* The barriers of the leader. *)
LEMMA BarrierCalled ==
  ASSUME SInv, NCore, NEW c \in Cpu, WaitForAllAPs(c) \/ ClearInsideSmm(c)
  PROVE  NCore'
<1>0. Still(c)
  BY BarrierCalm DEF MtrrsLeft
<1>1. CASE ClearInsideSmm(c)
  <2>1. pc[c] = "clearInside" /\ pc'[c] = "relExit"
    BY <1>1, BarrierCalm
  <2>2. pc'[c] \notin Idler /\ pc'[c] \notin CalledL /\ pc'[c] \in SyncL /\ pc[c] \in SyncL
    BY <2>1 DEF Idler, CalledL, BackupL, ProgramL, RunL, BspRun, SyncL, BspLocked, Releases
  <2> QED BY <1>0, <2>2, StillCalled
<1>2. CASE WaitForAllAPs(c)
  <2>1. pc[c] \in Waits /\ (pc'[c] = pc[c] \/ pc'[c] = AfterWait(pc[c]))
    BY <1>2, BarrierCalm
  <2>2. pc[c] \notin Idler /\ AfterWait(pc[c]) \notin Idler
    BY <2>1 DEF Waits, AfterWait, Idler
  <2>3. AfterWait(pc[c]) \in CalledL => pc[c] \in CalledL
    <3>1. CASE pc[c] \in {"waitArrive", "waitBackup", "waitProgram"}
      BY <3>1 DEF CalledL, BackupL, ProgramL
    <3>2. CASE pc[c] \in {"waitExit", "waitRestore", "waitReset"}
      <4>1. AfterWait(pc[c]) \in {"relRestore", "relReset", "resetBsp"}
        BY <3>2 DEF AfterWait
      <4> QED BY <4>1 DEF CalledL, BackupL, ProgramL, RunL, BspRun
    <3> QED BY <2>1, <3>1, <3>2 DEF Waits
  <2>4. pc'[c] \notin Idler /\ (pc'[c] \in CalledL => pc[c] \in CalledL)
    BY <2>1, <2>2, <2>3
  <2>5. pc[c] \in SyncL /\ AfterWait(pc[c]) \in SyncL
    <3>1. {"relBackup", "relProgram", "acquire", "relRestore", "relReset", "resetBsp"}
            \subseteq SyncL /\ Waits \subseteq SyncL
      BY DEF SyncL, BspLocked, BspRun, Releases
    <3> QED BY <2>1, <3>1 DEF AfterWait, Waits
  <2> QED BY <1>0, <2>1, <2>4, <2>5, StillCalled
<1> QED BY <1>1, <1>2

(* Every step but the two races keeps NCore. *)
LEMMA NextNCore ==
  ASSUME SInv, NCore, [Next]_vars, races' = {}
  PROVE  NCore'
<1>1. CASE SmiTrigger
  <2>1. config' = config /\ pc' = pc /\ AllCpusInSync' = AllCpusInSync
    BY <1>1 DEF SmiTrigger, mpSync
  <2>2. \E S : SendSmiIpi(S)
    BY <1>1 DEF SmiTrigger
  <2>3. \A d \in Cpu : smiPending[d] = TRUE => smiPending'[d] = TRUE
    <3>1. PICK S : SendSmiIpi(S)
      BY <2>2
    <3>2. smiPending' \in [Cpu -> BOOLEAN] /\ \A d \in Cpu : smiPending[d] => smiPending'[d]
      BY <3>1, IpiType
    <3> QED BY <3>2
  <2> QED BY <2>1, <2>3 DEF NCore, Called
<1>2. CASE (\E c \in Cpu : Unblock(c)) \/ UNCHANGED vars
  <2>1. config' = config /\ pc' = pc /\ AllCpusInSync' = AllCpusInSync /\ smiPending' = smiPending
    BY <1>2 DEF Unblock, vars, mpSync, platform
  <2> QED BY <2>1 DEF NCore, Called
<1>3. ASSUME NEW c \in Cpu, CpuStep(c)
      PROVE  NCore'
  <2>1. CASE \/ Enter(c) \/ SampleValidSmi(c) \/ SampleBspInProgress(c) \/ RunCheck(c)
             \/ WaitForSync(c) \/ CheckIn(c)
    BY <2>1, OutsideCalled
  <2>2. CASE SendSmiIpis(c)
    BY <2>2, SendCalled
  <2>3. CASE CompareBsp(c) \/ SignalBsp(c) \/ GiveUp(c)
    BY <2>3, ApCalled
  <2>4. CASE ResetCounter(c) \/ ClearAllCpusInSync(c)
    BY <2>4, EndCalled, ResetCalled
  <2>5. CASE WaitForAllAPs(c) \/ ClearInsideSmm(c)
    BY <2>5, BarrierCalled
  <2>6. CASE AwaitBsp(c) \/ BspBackupMtrrs(c) \/ BspProgramMtrrs(c)
    <3>1. /\ Still(c)
          /\ \/ pc[c] \in Awaits /\ pc'[c] \in Member
             \/ pc[c] = "backup" /\ pc'[c] = "waitBackup"
             \/ pc[c] = "program" /\ pc'[c] = "waitProgram"
             \/ pc[c] = "restore" /\ pc'[c] = "waitRestore"
      BY <2>6, MtrrStill
    <3>2. {"backup", "program"} \subseteq CalledL /\ "waitRestore" \notin CalledL
          /\ {"waitBackup", "waitProgram", "waitRestore"} \cap Idler = {}
      BY DEF CalledL, BackupL, ProgramL, RunL, BspRun, Idler
    <3>3. {"backup", "program", "restore", "waitBackup", "waitProgram", "waitRestore"}
            \subseteq SyncL
      BY DEF SyncL, BspLocked, Waits
    <3>4. pc'[c] \notin Idler /\ (pc'[c] \in CalledL => pc[c] \in CalledL)
      BY <3>1, <3>2, CalledPositions
    <3>5. pc[c] \in SyncL <=> pc'[c] \in SyncL
      <4>1. Awaits \subseteq Member
        BY Positions
      <4> QED BY <3>1, <3>3, <4>1, CalledPositions
    <3> QED BY <3>1, <3>4, <3>5, StillCalled
  <2>7. CASE \/ InitializeBusy(c) \/ Elect(c) \/ CompareExchangeBsp(c)
             \/ WaitForBsp(c) \/ FirstTimeout(c) \/ CallBsp(c) \/ SecondTimeout(c)
             \/ ReadBspIndex(c) \/ SetApPresent(c)
             \/ WaitForWork(c) \/ CheckForExit(c) \/ RunProcedure(c) \/ ReleaseBusy(c)
             \/ ClearApPresent(c)
    <3>1. Still(c) /\ pc'[c] \in Member /\ pc[c] \in Member
      BY <2>7, MemberCalm DEF MtrrsLeft
    <3>2. pc'[c] \notin Idler /\ pc'[c] \notin CalledL /\ pc'[c] \notin SyncL /\ pc[c] \notin SyncL
      BY <3>1, CalledPositions
    <3> QED BY <3>1, <3>2, StillCalled
  <2>8. CASE \/ ClearSwitchBsp(c) \/ SetInsideSmm(c) \/ SetBspPresent(c)
             \/ ClearTopLevelSmiStatus(c) \/ WaitForApArrival1(c) \/ WaitForApArrival2(c)
             \/ SetAllCpusInSync(c) \/ AcquireBspBusy(c) \/ HandlersReturn(c) \/ CountPresent(c)
             \/ SmmCpuUpdate(c) \/ ClearBspPresent(c) \/ ResetBspIndex(c)
             \/ LockdownCounter(c) \/ WaitForProcedure(c)
             \/ (\E d \in Cpu : SmmStartupThisAp(c, d) \/ SmmSwitchBsp(c, d))
             \/ DrainProcedures(c) \/ ReleaseAllAPs(c)
    <3>1. /\ MtrrsLeft(c) /\ NoProgram(config, pc[c], pc'[c]) /\ pc'[c] \in Lead
          /\ pc[c] = "inSync" => AllCpusInSync' = TRUE
      BY <2>8, LeaderCalmPlain, LeaderCalmLocals
    <3>2. /\ pc'[c] \notin Idler
          /\ (pc'[c] \in CalledL /\ ~config.relaxed) => pc[c] \in CalledL
          /\ (pc'[c] \in SyncL /\ ~config.relaxed) => pc[c] \in SyncL \/ AllCpusInSync' = TRUE
          /\ (pc[c] \in SyncL /\ ~config.relaxed) => pc'[c] \in SyncL
      BY <3>1, CalledPositions DEF NoProgram
    <3>3. Still(c)
      BY <3>1 DEF MtrrsLeft
    <3> QED BY <3>2, <3>3, StillCalled
  <2> QED BY <1>3, <2>1, <2>2, <2>3, <2>4, <2>5, <2>6, <2>7, <2>8 DEF CpuStep
<1> QED BY <1>1, <1>2, <1>3 DEF Next, Quiescent

(* What happened is not forgotten. *)
LEMMA RacesGrow ==
  ASSUME [Next]_vars
  PROVE  races \subseteq races'
<1>1. CASE SmiTrigger \/ (\E c \in Cpu : Unblock(c)) \/ UNCHANGED vars
  BY <1>1 DEF SmiTrigger, Unblock, vars
<1>2. ASSUME NEW c \in Cpu, CpuStep(c)
      PROVE  races \subseteq races'
  <2>1. CASE \/ Enter(c) \/ SampleValidSmi(c) \/ SampleBspInProgress(c) \/ CheckIn(c)
             \/ InitializeBusy(c) \/ Elect(c) \/ CompareExchangeBsp(c) \/ CompareBsp(c)
             \/ ClearSwitchBsp(c) \/ RunCheck(c) \/ WaitForSync(c)
    BY <2>1 DEF Enter, SampleValidSmi, SampleBspInProgress, CheckIn, InitializeBusy, Elect,
                CompareExchangeBsp, CompareBsp, ClearSwitchBsp, RunCheck, WaitForSync
  <2>2. CASE \/ SetInsideSmm(c) \/ SetBspPresent(c) \/ ClearTopLevelSmiStatus(c)
             \/ WaitForApArrival1(c) \/ SendSmiIpis(c) \/ WaitForApArrival2(c)
             \/ SetAllCpusInSync(c) \/ LockdownCounter(c) \/ WaitForAllAPs(c)
             \/ ReleaseAllAPs(c) \/ BspBackupMtrrs(c) \/ BspProgramMtrrs(c)
    BY <2>2 DEF SetInsideSmm, SetBspPresent, ClearTopLevelSmiStatus, WaitForApArrival1, SendSmiIpis,
                WaitForApArrival2, SetAllCpusInSync, LockdownCounter, WaitForAllAPs, ReleaseAllAPs,
                BspBackupMtrrs, BspProgramMtrrs
  <2>3. CASE \/ AcquireBspBusy(c) \/ WaitForProcedure(c) \/ HandlersReturn(c)
             \/ (\E d \in Cpu : SmmStartupThisAp(c, d) \/ SmmSwitchBsp(c, d))
             \/ DrainProcedures(c) \/ CountPresent(c) \/ ClearInsideSmm(c) \/ SmmCpuUpdate(c)
             \/ ClearBspPresent(c) \/ ResetBspIndex(c) \/ ResetCounter(c) \/ ClearAllCpusInSync(c)
    BY <2>3 DEF AcquireBspBusy, WaitForProcedure, HandlersReturn, SmmStartupThisAp, SmmSwitchBsp,
                DrainProcedures, CountPresent, ClearInsideSmm, SmmCpuUpdate, ClearBspPresent,
                ResetBspIndex, ResetCounter, ClearAllCpusInSync
  <2>4. CASE \/ WaitForBsp(c) \/ FirstTimeout(c) \/ CallBsp(c) \/ SecondTimeout(c) \/ GiveUp(c)
             \/ ReadBspIndex(c) \/ SetApPresent(c) \/ SignalBsp(c) \/ AwaitBsp(c)
             \/ WaitForWork(c) \/ CheckForExit(c) \/ RunProcedure(c) \/ ReleaseBusy(c)
             \/ ClearApPresent(c)
    BY <2>4 DEF WaitForBsp, FirstTimeout, CallBsp, SecondTimeout, GiveUp, ReadBspIndex, SetApPresent,
                SignalBsp, AwaitBsp, WaitForWork, CheckForExit, RunProcedure, ReleaseBusy,
                ClearApPresent
  <2> QED BY <1>2, <2>1, <2>2, <2>3, <2>4 DEF CpuStep
<1> QED BY <1>1, <1>2 DEF Next, Quiescent

(* While the SMI handlers run in traditional mode no processor executes normal
   mode code: whatever the SMI was sent to, whoever is blocked or late, and
   whenever the time limits of SmmWaitForApArrival expire.  Only an AP that gave up
   after the BSP had come, or a BSP that cleared AllCpusInSync after the next one
   had set it, can have been the end of that. *)
THEOREM NoNormalModeCodeAlways == Spec => []NoNormalModeCode
<1>1. Init => NInv
  <2> SUFFICES ASSUME Init PROVE NInv
    OBVIOUS
  <2>1. \A b \in Cpu : pc[b] = "normal"
    BY DEF Init
  <2>2. "normal" \notin CalledL
    BY DEF CalledL, BackupL, ProgramL, RunL, BspRun
  <2>3. "normal" \notin SyncL
    BY DEF SyncL, BspLocked, BspRun, Releases, Waits
  <2> QED BY <2>1, <2>2, <2>3 DEF NInv, NCore
<1>2. SInv /\ NInv /\ [Next]_vars => NInv'
  <2> SUFFICES ASSUME SInv, NInv, [Next]_vars, races' = {}
               PROVE  NCore'
    BY DEF NInv
  <2>1. races = {}
    BY RacesGrow
  <2> QED BY <2>1, NextNCore DEF NInv
<1>3. NInv => NoNormalModeCode
  <2> SUFFICES ASSUME NInv, races = {}, ~config.relaxed, NEW c \in Cpu, pc[c] \in BspRun,
                      NEW d \in Cpu, pc[d] = "normal"
               PROVE  smiPending[d]
    BY DEF NoNormalModeCode
  <2>1. pc[c] \in CalledL
    BY DEF CalledL, RunL
  <2>2. Called(pc[d], smiPending[d], pc[c])
    BY <2>1 DEF NInv, NCore
  <2> QED BY <2>2 DEF Called
<1> QED BY <1>1, <1>2, <1>3, RendezvousInvariant, PTL DEF Spec

-----------------------------------------------------------------------------
(* The MTRRs *)

OsStages == {"arrive", "backup", "reset", "end"}
PastProgram == {"sigProgram", "apLoop", "waitProgram"}
PastRestore == {"sigReset", "awaitReset", "waitRestore"}

(* A processor that takes part and is at k has MTRRs v while the leader is at l. *)
Level(cf, l, k, v) ==
  /\ (Stage(cf, l) = "program" /\ k \in PastProgram) => v = "smm"
  /\ (Stage(cf, l) \in {"run", "exit"} /\ cf.mtrrs) => v = "smm"
  /\ (Stage(cf, l) = "restore" /\ k \in PastRestore) => v = "os"

AllOs == \A d \in Cpu : mtrr[d] = "os"
AllSaved == \A d \in Cpu : loc[d].saved = "os"
Cores == \A c, d \in Cpu : CoreOf[c] = CoreOf[d] => mtrr[c] = mtrr[d]
Owned == \A c \in Cpu : mtrr[c] = "smm" =>
           config.mtrrs /\ \E d \in Cpu : pc[d] \in Counted /\ CoreOf[d] = CoreOf[c]
MLed(b) ==
  /\ Stage(config, pc[b]) \in OsStages => AllOs
  /\ \A d \in Cpu : pc[d] \in Counted => Level(config, pc[b], pc[d], mtrr[d])

MInv ==
  /\ AllSaved /\ Cores /\ Owned
  /\ (\A c \in Cpu : pc[c] \notin Lead) => AllOs
  /\ \A b \in Cpu : pc[b] \in Lead => MLed(b)

(* Without the configuration of MTRRs they are the OS's. *)
LEMMA OsWithout ==
  ASSUME TypeOK, Owned, ~config.mtrrs
  PROVE  AllOs
<1>1. \A d \in Cpu : mtrr[d] \in {"os", "smm"}
  BY DEF TypeOK
<1> QED BY <1>1 DEF Owned, AllOs

(* When everybody who takes part has the OS's, everybody has. *)
LEMMA OsCounted ==
  ASSUME TypeOK, Owned, Cores, \A d \in Cpu : pc[d] \in Counted => mtrr[d] = "os"
  PROVE  AllOs
<1> SUFFICES ASSUME NEW c \in Cpu, mtrr[c] # "os" PROVE FALSE
  BY DEF AllOs
<1>1. mtrr[c] = "smm"
  BY DEF TypeOK
<1>2. PICK d \in Cpu : pc[d] \in Counted /\ CoreOf[d] = CoreOf[c]
  BY <1>1 DEF Owned
<1>3. mtrr[d] = mtrr[c]
  BY <1>2 DEF Cores
<1> QED BY <1>1, <1>2, <1>3

(* A step to a state where the OS's MTRRs are everywhere. *)
LEMMA OsStep ==
  ASSUME SInv', AllOs', AllSaved',
         \A b \in Cpu : pc'[b] \in Lead =>
           Stage(config', pc'[b]) \in OsStages \/ ~config'.mtrrs
  PROVE  MInv'
<1>1. Cores' /\ Owned'
  BY DEF AllOs, Cores, Owned
<1>2. ASSUME NEW b \in Cpu, pc'[b] \in Lead
      PROVE  MLed(b)'
  <2>1. Led(b)'
    BY <1>2 DEF SInv, Idle, Led
  <2>2. ASSUME NEW d \in Cpu
        PROVE  Level(config', pc'[b], pc'[d], mtrr'[d])
    <3>1. mtrr'[d] = "os"
      BY DEF AllOs
    <3>2. Stage(config', pc'[b]) # "program"
      <4>1. CASE Stage(config', pc'[b]) \in OsStages
        BY <4>1 DEF OsStages
      <4>2. CASE ~config'.mtrrs
        <5>1. pc'[b] \notin ProgramL
          BY <2>1, <4>2 DEF Led, Path
        <5> QED BY <1>2, <5>1, Stages
      <4> QED BY <1>2, <4>1, <4>2
    <3>3. Stage(config', pc'[b]) \in {"run", "exit"} => ~config'.mtrrs
      BY <1>2 DEF OsStages
    <3> QED BY <3>1, <3>2, <3>3 DEF Level
  <2> QED BY <2>2 DEF MLed
<1> QED BY <1>1, <1>2 DEF MInv

(* A member that does not change MTRRs has, in every stage, those it must have at
   any other place of the stage. *)
LEMMA LevelKeep ==
  ASSUME NEW cf, NEW b, NEW l, NEW n, NEW d, NEW k, NEW r, NEW y, NEW m, NEW k2, NEW v,
         Place(cf, b, l, n, d, k, r, y, m), k \notin {"awaitProgram", "awaitRestore"},
         Level(cf, l, k, v)
  PROVE  Level(cf, l, k2, v)
<1>1. k \in Todo(cf, Stage(cf, l)) \union Done(cf, Stage(cf, l))
  BY DEF Place
<1>2. Stage(cf, l) = "program" => k \in PastProgram
  BY <1>1 DEF Todo, Done, PastProgram
<1>3. Stage(cf, l) = "restore" => k \in PastRestore
  BY <1>1 DEF Todo, Done, PastRestore
<1> QED BY <1>2, <1>3 DEF Level

(* A member stays a member and changes no MTRRs. *)
LEMMA MemberMtrr ==
  ASSUME SInv, MInv, NEW c \in Cpu, Still(c), mtrr' = mtrr, AllSaved',
         pc[c] \in Member \ {"awaitProgram", "awaitRestore"}, pc'[c] \in Member
  PROVE  MInv'
<1>1. config' = config /\ \A d \in Cpu \ {c} : pc'[d] = pc[d]
  BY DEF Still
<1>2. pc[c] \notin Lead /\ pc'[c] \notin Lead /\ pc[c] \in Counted /\ pc'[c] \in Counted
  BY CalledPositions DEF Counted
<1>3. Cores' /\ Owned'
  BY <1>1, <1>2 DEF MInv, Cores, Owned
<1>4. (\A d \in Cpu : pc'[d] \notin Lead) => AllOs'
  BY <1>1, <1>2 DEF MInv, AllOs
<1>5. ASSUME NEW b \in Cpu, pc'[b] \in Lead
      PROVE  MLed(b)'
  <2>1. b # c /\ pc'[b] = pc[b] /\ pc[b] \in Lead
    BY <1>1, <1>2, <1>5
  <2>2. MLed(b) /\ Led(b)
    BY <2>1, LeaderIs DEF MInv
  <2>3. ASSUME NEW d \in Cpu, pc'[d] \in Counted
        PROVE  Level(config, pc[b], pc'[d], mtrr[d])
    <3>1. CASE d # c
      BY <1>1, <2>2, <2>3, <3>1 DEF MLed
    <3>2. CASE d = c
      <4>1. Place(config, b, pc[b], loc[b].n, c, pc[c], Run[c], Busy[c], loc[c].bsp)
        BY <2>2 DEF Led
      <4>2. Level(config, pc[b], pc[c], mtrr[c])
        BY <1>2, <2>2 DEF MLed
      <4>3. Level(config, pc[b], pc'[c], mtrr[c])
        BY <4>1, <4>2, LevelKeep
      <4> QED BY <3>2, <4>3
    <3> QED BY <3>1, <3>2
  <2> QED BY <1>1, <2>1, <2>2, <2>3 DEF MLed, AllOs
<1> QED BY <1>3, <1>4, <1>5 DEF MInv

(* The leader moves and changes no MTRRs. *)
LEMMA LeaderMtrr ==
  ASSUME SInv, MInv, NEW c \in Cpu, Still(c), mtrr' = mtrr, AllSaved',
         pc[c] \in Lead, pc'[c] \in Lead,
         Stage(config, pc'[c]) \in OsStages => AllOs,
         \A d \in Cpu : pc'[d] \in Counted => Level(config, pc'[c], pc'[d], mtrr[d])
  PROVE  MInv'
<1>1. config' = config /\ \A d \in Cpu \ {c} : pc'[d] = pc[d]
  BY DEF Still
<1>2. pc[c] \in Counted /\ pc'[c] \in Counted
  BY DEF Counted
<1>3. Cores' /\ Owned'
  BY <1>1, <1>2 DEF MInv, Cores, Owned
<1>4. Led(c)
  BY LeaderIs
<1>5. ASSUME NEW b \in Cpu, pc'[b] \in Lead
      PROVE  MLed(b)'
  <2>1. b = c
    BY <1>1, <1>4, <1>5 DEF Led
  <2> QED BY <1>1, <2>1 DEF MLed, AllOs
<1> QED BY <1>3, <1>5 DEF MInv

(* Within a stage it needs nothing more. *)
LEMMA SteadyMtrr ==
  ASSUME SInv, MInv, NEW c \in Cpu, Still(c), mtrr' = mtrr, AllSaved',
         pc[c] \in Lead, pc'[c] \in Lead, NoProgram(config, pc[c], pc'[c])
  PROVE  MInv'
<1>1. \A d \in Cpu \ {c} : pc'[d] = pc[d]
  BY DEF Still
<1>2. MLed(c)
  BY DEF MInv
<1>3. Stage(config, pc'[c]) = Stage(config, pc[c])
      /\ (pc'[c] \in {"waitProgram", "waitRestore"} => pc'[c] = pc[c])
  BY DEF NoProgram
<1>4. {"sigProgram", "apLoop", "sigReset", "awaitReset"} \cap Lead = {}
  BY Positions DEF Member, Loop, Signals, Awaits
<1>5. ASSUME NEW d \in Cpu, pc'[d] \in Counted
      PROVE  Level(config, pc'[c], pc'[d], mtrr[d])
  <2>1. CASE d # c
    <3>1. Level(config, pc[c], pc[d], mtrr[d]) /\ pc'[d] = pc[d]
      BY <1>1, <1>2, <1>5, <2>1 DEF MLed
    <3> QED BY <1>3, <3>1 DEF Level
  <2>2. CASE d = c
    <3>1. Level(config, pc[c], pc[c], mtrr[c])
      BY <1>2 DEF MLed, Counted
    <3>2. /\ pc'[c] \in PastProgram => pc[c] \in PastProgram
          /\ pc'[c] \in PastRestore => pc[c] \in PastRestore
      BY <1>3, <1>4 DEF PastProgram, PastRestore
    <3> QED BY <1>3, <2>2, <3>1, <3>2 DEF Level
  <2> QED BY <2>1, <2>2
<1>6. Stage(config, pc'[c]) \in OsStages => AllOs
  BY <1>2, <1>3 DEF MLed
<1> QED BY <1>5, <1>6, LeaderMtrr

(* A processor outside SMM stays outside. *)
LEMMA OutsideMtrr ==
  ASSUME SInv, MInv, NEW c \in Cpu, config' = config, mtrr' = mtrr, AllSaved',
         \A d \in Cpu \ {c} : pc'[d] = pc[d], pc[c] \in Outside, pc'[c] \in Outside
  PROVE  MInv'
<1>1. pc[c] \notin Counted /\ pc'[c] \notin Counted /\ pc[c] \notin Lead /\ pc'[c] \notin Lead
  BY CalledPositions DEF Counted
<1>2. Cores' /\ Owned'
  BY <1>1 DEF MInv, Cores, Owned
<1>3. (\A d \in Cpu : pc'[d] \notin Lead) => AllOs'
  BY <1>1 DEF MInv, AllOs
<1>4. ASSUME NEW b \in Cpu, pc'[b] \in Lead
      PROVE  MLed(b)'
  <2>1. b # c /\ pc'[b] = pc[b] /\ MLed(b)
    BY <1>1, <1>4 DEF MInv
  <2>2. \A d \in Cpu : pc'[d] \in Counted => pc[d] \in Counted /\ pc'[d] = pc[d]
    BY <1>1
  <2> QED BY <2>1, <2>2 DEF MLed, AllOs
<1> QED BY <1>2, <1>3, <1>4 DEF MInv

(* A processor checks in. *)
LEMMA CheckInMtrr ==
  ASSUME SInv, SInv', MInv, NEW c \in Cpu, config' = config, mtrr' = mtrr, AllSaved',
         \A d \in Cpu \ {c} : pc'[d] = pc[d], pc[c] \in Outside, pc'[c] = "initBusy"
  PROVE  MInv'
<1>0. "initBusy" \in Member /\ "initBusy" \in Pre
  BY DEF Member, Pre
<1>1. pc[c] \notin Counted /\ pc[c] \notin Lead /\ pc'[c] \notin Lead
  BY <1>0, CalledPositions DEF Counted
<1>2. Cores' /\ Owned'
  BY <1>1 DEF MInv, Cores, Owned
<1>3. (\A d \in Cpu : pc'[d] \notin Lead) => AllOs'
  BY <1>1 DEF MInv, AllOs
<1>4. ASSUME NEW b \in Cpu, pc'[b] \in Lead
      PROVE  MLed(b)'
  <2>1. b # c /\ pc'[b] = pc[b] /\ MLed(b)
    BY <1>1, <1>4 DEF MInv
  <2>2. Led(b)'
    BY <1>4 DEF SInv, Idle, Led
  <2>3. Place(config', b, pc'[b], loc'[b].n, c, pc'[c], Run'[c], Busy'[c], loc'[c].bsp)
    BY <1>0, <2>2 DEF Led
  <2>4. Stage(config, pc[b]) = "arrive" \/ (Stage(config, pc[b]) = "run" /\ ~Gathers(config))
    BY <1>0, <2>1, <2>3 DEF Place
  <2>5. Level(config, pc[b], "initBusy", mtrr[c])
    BY <2>4 DEF Level, Gathers
  <2>6. ASSUME NEW d \in Cpu, pc'[d] \in Counted
        PROVE  Level(config, pc[b], pc'[d], mtrr[d])
    BY <2>1, <2>5, <2>6 DEF MLed
  <2> QED BY <2>1, <2>6 DEF MLed, AllOs
<1> QED BY <1>2, <1>3, <1>4 DEF MInv

(* A member that leaves, after the run or instead of it, leaves when all MTRRs are
   the OS's. *)
LEMMA LeaveMtrr ==
  ASSUME SInv, SInv', MInv, NEW c \in Cpu, Still(c), mtrr' = mtrr, AllSaved',
         pc[c] \in {"giveUp", "sigDone"}, pc'[c] = "runCheck"
  PROVE  MInv'
<1>1. config' = config /\ \A d \in Cpu \ {c} : pc'[d] = pc[d]
  BY DEF Still
<1>2. pc[c] \in Member
  BY DEF Member, Pre, Signals
<1>3. pc[c] \notin Lead /\ pc'[c] \notin Lead
  <2>1. "runCheck" \in Outside
    BY DEF Outside
  <2> QED BY <1>2, <2>1, CalledPositions
<1>4. TypeOK /\ Owned
  BY DEF SInv, MInv
<1>5. ASSUME NEW b \in Cpu, pc[b] \in Lead
      PROVE  Stage(config, pc[b]) \in OsStages \/ ~config.mtrrs
  <2>1. Led(b)
    BY <1>5, LeaderIs
  <2>2. Place(config, b, pc[b], loc[b].n, c, pc[c], Run[c], Busy[c], loc[c].bsp)
    BY <1>2, <2>1 DEF Led
  <2>3. CASE pc[c] = "giveUp"
    <3>1. pc[c] \in Pre
      BY <2>3 DEF Pre
    <3> QED BY <2>2, <3>1 DEF Place, OsStages, Gathers
  <2>4. CASE pc[c] = "sigDone"
    <3>1. "sigDone" \in Todo(config, Stage(config, pc[b])) \union Done(config, Stage(config, pc[b]))
      BY <2>2, <2>4 DEF Place
    <3>2. Stage(config, pc[b]) = "reset"
      BY <3>1 DEF Todo, Done, Pre, Loop
    <3> QED BY <3>2 DEF OsStages
  <2> QED BY <2>3, <2>4
<1>6. AllOs
  BY <1>4, <1>5, OsWithout DEF MInv, MLed
<1>7. AllOs'
  BY <1>6 DEF AllOs
<1>8. \A b \in Cpu : pc'[b] \in Lead =>
        Stage(config', pc'[b]) \in OsStages \/ ~config'.mtrrs
  BY <1>1, <1>3, <1>5
<1> QED BY <1>7, <1>8, OsStep

(* A leader is elected, or ends. *)
LEMMA ElectMtrr ==
  ASSUME SInv, SInv', MInv, NEW c \in Cpu, config' = config, mtrr' = mtrr, AllSaved',
         \A d \in Cpu \ {c} : pc'[d] = pc[d], pc[c] = "compare", pc'[c] = "bspClear"
  PROVE  MInv'
<1>1. "bspClear" \in Lead /\ "compare" \notin Lead
  <2>1. "compare" \in Member
    BY DEF Member, Pre
  <2> QED BY <2>1, CalledPositions, LeadPositions
<1>2. Led(c)'
  BY <1>1 DEF SInv, Idle, Led
<1>3. \A d \in Cpu : pc[d] \notin Lead
  BY <1>1, <1>2 DEF Led
<1>4. AllOs'
  BY <1>3 DEF MInv, AllOs
<1>5. \A b \in Cpu : pc'[b] \in Lead => b = c
  BY <1>3
<1>6. Stage(config', "bspClear") \in OsStages \/ ~config'.mtrrs
  BY DEF Stage, ArriveL, OsStages, Gathers
<1> QED BY <1>4, <1>5, <1>6, OsStep

(* The end of the run of the handlers. *)
LEMMA ExitMtrr ==
  ASSUME SInv, MInv, NEW c \in Cpu, ClearInsideSmm(c)
  PROVE  MInv'
<1>1. MtrrsLeft(c) /\ pc[c] = "clearInside" /\ pc'[c] = "relExit"
  BY BarrierCalm
<1>2. /\ Still(c) /\ mtrr' = mtrr /\ AllSaved' /\ \A d \in Cpu \ {c} : pc'[d] = pc[d]
  BY <1>1 DEF MtrrsLeft, Still, MInv, AllSaved
<1>3. "clearInside" \in Lead /\ "relExit" \in Lead
  BY LeadPositions DEF Releases
<1>4. Stage(config, "clearInside") = "run" /\ Stage(config, "relExit") = "exit"
  BY DEF Stage, ArriveL, BackupL, ProgramL, RunL, BspRun, ExitL
<1>5. MLed(c)
  BY <1>1, <1>3 DEF MInv
<1>6. ASSUME NEW d \in Cpu, pc'[d] \in Counted
      PROVE  Level(config, pc'[c], pc'[d], mtrr[d])
  <2>1. pc[d] \in Counted
    BY <1>1, <1>2, <1>3, <1>6 DEF Counted
  <2>2. Level(config, "clearInside", pc[d], mtrr[d])
    BY <1>1, <1>5, <2>1 DEF MLed
  <2> QED BY <1>1, <1>4, <2>2 DEF Level
<1>7. Stage(config, pc'[c]) \in OsStages => AllOs
  BY <1>1, <1>4 DEF OsStages
<1>8. pc[c] \in Lead /\ pc'[c] \in Lead
  BY <1>1, <1>3
<1> QED BY <1>2, <1>6, <1>7, <1>8, LeaderMtrr

(* The stages of the ends of a barrier. *)
LEMMA WaitStages ==
  ASSUME NEW cf
  PROVE  /\ Gathers(cf) => Stage(cf, "waitArrive") = "arrive"
         /\ Stage(cf, "relBackup") = "backup" /\ Stage(cf, "waitBackup") = "backup"
         /\ Stage(cf, "relProgram") = "program" /\ Stage(cf, "waitProgram") = "program"
         /\ Stage(cf, "program") = "program" /\ Stage(cf, "restore") = "restore"
         /\ Stage(cf, "acquire") = "run" /\ Stage(cf, "waitExit") = "exit"
         /\ Stage(cf, "relRestore") = "restore" /\ Stage(cf, "waitRestore") = "restore"
         /\ Stage(cf, "relReset") = "reset" /\ Stage(cf, "waitReset") = "reset"
         /\ Stage(cf, "resetBsp") = "end"
<1>1. Gathers(cf) => Stage(cf, "waitArrive") = "arrive"
  BY DEF Stage, ArriveL
<1>2. /\ Stage(cf, "relBackup") = "backup" /\ Stage(cf, "waitBackup") = "backup"
      /\ Stage(cf, "relProgram") = "program" /\ Stage(cf, "waitProgram") = "program"
      /\ Stage(cf, "program") = "program" /\ Stage(cf, "acquire") = "run"
  BY DEF Stage, ArriveL, BackupL, ProgramL, RunL, BspRun
<1>3. /\ Stage(cf, "relRestore") = "restore" /\ Stage(cf, "waitRestore") = "restore"
      /\ Stage(cf, "restore") = "restore" /\ Stage(cf, "waitExit") = "exit"
  BY DEF Stage, ArriveL, BackupL, ProgramL, RunL, BspRun, ExitL, RestoreL
<1>4. /\ Stage(cf, "relReset") = "reset" /\ Stage(cf, "waitReset") = "reset"
      /\ Stage(cf, "resetBsp") = "end"
  BY DEF Stage, ArriveL, BackupL, ProgramL, RunL, BspRun, ExitL, RestoreL, ResetL
<1> QED BY <1>1, <1>2, <1>3, <1>4

(* A barrier ends: where the members are before and after it says which of them
   have done the work of the stage. *)
LEMMA WaitMtrr ==
  ASSUME SInv, SInv', MInv, NEW c \in Cpu, WaitForAllAPs(c)
  PROVE  MInv'
<1>1. MtrrsLeft(c) /\ pc[c] \in Waits /\ (pc'[c] = pc[c] \/ pc'[c] = AfterWait(pc[c]))
  BY BarrierCalm
<1>2. /\ Still(c) /\ mtrr' = mtrr /\ AllSaved' /\ \A d \in Cpu \ {c} : pc'[d] = pc[d]
      /\ config' = config
  BY <1>1 DEF MtrrsLeft, Still, MInv, AllSaved
<1>3. pc[c] \in Lead
  BY <1>1, LeadPositions
<1>4. Led(c) /\ MLed(c) /\ TypeOK /\ Owned /\ Cores
  BY <1>3, LeaderIs DEF MInv
<1>5. CASE pc'[c] = pc[c]
  <2>1. NoProgram(config, pc[c], pc'[c])
    BY <1>5 DEF NoProgram
  <2> QED BY <1>2, <1>3, <1>5, <2>1, SteadyMtrr
<1>6. CASE pc'[c] # pc[c] /\ pc'[c] = AfterWait(pc[c])
  <2>0. pc'[c] \in {"relBackup", "acquire", "relProgram", "relRestore", "relReset", "resetBsp"}
    BY <1>1, <1>6 DEF AfterWait, Waits
  <2>1. pc'[c] \in Lead
    <3>1. {"relBackup", "acquire", "relProgram", "relRestore", "relReset", "resetBsp"} \subseteq Lead
      BY LeadPositions DEF Releases
    <3> QED BY <2>0, <3>1
  <2>2. Led(c)'
    BY <2>1 DEF SInv, Idle, Led
  <2>3. ASSUME NEW d \in Cpu, pc'[d] \in Counted, d # c
        PROVE  /\ pc[d] \in Todo(config, Stage(config, pc[c])) \union Done(config, Stage(config, pc[c]))
               /\ pc[d] \in Todo(config, Stage(config, pc'[c])) \union Done(config, Stage(config, pc'[c]))
               /\ Level(config, pc[c], pc[d], mtrr[d]) /\ pc'[d] = pc[d]
    <3>1. pc'[d] = pc[d] /\ pc[d] \in Member
      BY <1>2, <1>4, <2>3 DEF Led, Counted
    <3>2. Place(config, c, pc[c], loc[c].n, d, pc[d], Run[d], Busy[d], loc[d].bsp)
      BY <1>4, <3>1 DEF Led
    <3>3. Place(config', c, pc'[c], loc'[c].n, d, pc'[d], Run'[d], Busy'[d], loc'[d].bsp)
      BY <2>2, <3>1 DEF Led
    <3>4. pc[d] \in Todo(config, Stage(config, pc[c])) \union Done(config, Stage(config, pc[c]))
      BY <3>2 DEF Place
    <3>5. pc'[d] \in Todo(config', Stage(config', pc'[c])) \union Done(config', Stage(config', pc'[c]))
      BY <3>3 DEF Place
    <3>6. Level(config, pc[c], pc[d], mtrr[d])
      BY <1>4, <3>1 DEF MLed, Counted
    <3> QED BY <1>2, <3>1, <3>4, <3>5, <3>6
  <2>4. Level(config, pc[c], pc[c], mtrr[c])
    BY <1>3, <1>4 DEF MLed, Counted
  <2> DEFINE Goal == /\ Stage(config, pc'[c]) \in OsStages => AllOs
                     /\ \A d \in Cpu : pc'[d] \in Counted => Level(config, pc'[c], pc'[d], mtrr[d])
  <2>5. ASSUME AllOs, Stage(config, pc'[c]) \in OsStages
        PROVE  Goal
    <3>1. \A k, v : Level(config, pc'[c], k, v)
      BY <2>5 DEF Level, OsStages
    <3> QED BY <2>5, <3>1
  <2>6. ASSUME pc[c] = "waitArrive" PROVE Goal
    <3>1. Gathers(config) /\ Stage(config, pc[c]) = "arrive"
      BY <1>4, <2>6, WaitStages DEF Led, Path
    <3>2. AllOs
      BY <1>4, <3>1 DEF MLed, OsStages
    <3>3. CASE config.mtrrs
      <4>1. pc'[c] = "relBackup"
        BY <1>6, <2>6, <3>3 DEF AfterWait
      <4>2. Stage(config, pc'[c]) \in OsStages
        BY <4>1, WaitStages DEF OsStages
      <4> QED BY <2>5, <3>2, <4>2
    <3>4. CASE ~config.mtrrs
      <4>1. pc'[c] = "acquire"
        BY <1>6, <2>6, <3>4 DEF AfterWait
      <4>2. Stage(config, pc'[c]) = "run"
        BY <4>1, WaitStages
      <4>3. \A k, v : Level(config, pc'[c], k, v)
        BY <3>4, <4>2 DEF Level
      <4> QED BY <3>2, <4>3
    <3> QED BY <3>3, <3>4
  <2>7. ASSUME pc[c] = "waitBackup" PROVE Goal
    <3>1. pc'[c] = "relProgram"
      BY <1>6, <2>7 DEF AfterWait
    <3>2. Stage(config, pc'[c]) = "program" /\ Stage(config, pc[c]) = "backup"
      BY <2>7, <3>1, WaitStages
    <3>3. ASSUME NEW d \in Cpu, pc'[d] \in Counted
          PROVE  pc'[d] \notin PastProgram
      <4>1. CASE d = c
        BY <3>1, <4>1 DEF PastProgram
      <4>2. CASE d # c
        BY <2>3, <3>2, <3>3, <4>2 DEF Todo, Done, PastProgram
      <4> QED BY <4>1, <4>2
    <3> QED BY <3>2, <3>3 DEF Level, OsStages
  <2>8. ASSUME pc[c] = "waitProgram" PROVE Goal
    <3>1. pc'[c] = "acquire"
      BY <1>6, <2>8 DEF AfterWait
    <3>2. Stage(config, pc'[c]) = "run" /\ Stage(config, pc[c]) = "program"
      BY <2>8, <3>1, WaitStages
    <3>3. ASSUME NEW d \in Cpu, pc'[d] \in Counted
          PROVE  mtrr[d] = "smm"
      <4>1. CASE d = c
        BY <2>4, <2>8, <3>2, <4>1 DEF Level, PastProgram
      <4>2. CASE d # c
        <5>1. /\ pc[d] \in {"awaitProgram", "sigProgram", "apLoop"}
              /\ pc[d] \in Pre \union Loop
          BY <2>3, <3>2, <3>3, <4>2 DEF Todo, Done
        <5>2. pc[d] = "apLoop"
          BY <5>1 DEF Pre, Loop
        <5> QED BY <2>3, <3>2, <3>3, <4>2, <5>2 DEF Level, PastProgram
      <4> QED BY <4>1, <4>2
    <3> QED BY <3>2, <3>3 DEF Level, OsStages
  <2>9. ASSUME pc[c] = "waitExit" PROVE Goal
    <3>1. Stage(config, pc[c]) = "exit"
      BY <2>9, WaitStages
    <3>2. CASE config.mtrrs
      <4>1. pc'[c] = "relRestore"
        BY <1>6, <2>9, <3>2 DEF AfterWait
      <4>2. Stage(config, pc'[c]) = "restore"
        BY <4>1, WaitStages
      <4>3. ASSUME NEW d \in Cpu, pc'[d] \in Counted
            PROVE  pc'[d] \notin PastRestore
        <5>1. CASE d = c
          BY <4>1, <5>1 DEF PastRestore
        <5>2. CASE d # c
          BY <2>3, <3>1, <3>2, <4>3, <5>2 DEF Todo, Done, PastRestore
        <5> QED BY <5>1, <5>2
      <4> QED BY <4>2, <4>3 DEF Level, OsStages
    <3>3. CASE ~config.mtrrs
      <4>1. pc'[c] = "relReset"
        BY <1>6, <2>9, <3>3 DEF AfterWait
      <4>2. Stage(config, pc'[c]) \in OsStages
        BY <4>1, WaitStages DEF OsStages
      <4>3. AllOs
        BY <1>4, <3>3, OsWithout
      <4> QED BY <2>5, <4>2, <4>3
    <3> QED BY <3>2, <3>3
  <2>10. ASSUME pc[c] = "waitRestore" PROVE Goal
    <3>1. pc'[c] = "relReset"
      BY <1>6, <2>10 DEF AfterWait
    <3>2. Stage(config, pc'[c]) = "reset" /\ Stage(config, pc[c]) = "restore"
      BY <2>10, <3>1, WaitStages
    <3>3. ASSUME NEW d \in Cpu, pc[d] \in Counted
          PROVE  mtrr[d] = "os"
      <4>1. CASE d = c
        BY <2>4, <2>10, <3>2, <4>1 DEF Level, PastRestore
      <4>2. CASE d # c
        <5>0. pc'[d] \in Counted
          BY <1>2, <3>3, <4>2
        <5>1. /\ pc[d] \in {"awaitRestore", "sigReset", "awaitReset"}
              /\ pc[d] \in {"awaitReset", "apAbsent", "sigDone"}
          BY <2>3, <3>2, <4>2, <5>0 DEF Todo, Done
        <5>2. pc[d] = "awaitReset"
          BY <5>1
        <5> QED BY <2>3, <3>2, <4>2, <5>0, <5>2 DEF Level, PastRestore
      <4> QED BY <4>1, <4>2
    <3>4. AllOs
      BY <1>4, <3>3, OsCounted
    <3>5. Stage(config, pc'[c]) \in OsStages
      BY <3>2 DEF OsStages
    <3> QED BY <2>5, <3>4, <3>5
  <2>11. ASSUME pc[c] = "waitReset" PROVE Goal
    <3>1. pc'[c] = "resetBsp"
      BY <1>6, <2>11 DEF AfterWait
    <3>2. Stage(config, pc'[c]) \in OsStages /\ Stage(config, pc[c]) \in OsStages
      BY <2>11, <3>1, WaitStages DEF OsStages
    <3>3. AllOs
      BY <1>4, <3>2 DEF MLed
    <3> QED BY <2>5, <3>2, <3>3
  <2>12. Goal
    BY <1>1, <2>6, <2>7, <2>8, <2>9, <2>10, <2>11 DEF Waits
  <2> QED BY <1>2, <1>3, <2>1, <2>12, LeaderMtrr
<1> QED BY <1>1, <1>5, <1>6

(* A processor that takes part sets the MTRRs of its core, in the stage of leader b
   that is for it. *)
LEMMA SetMtrrStep ==
  ASSUME SInv, SInv', MInv, NEW c \in Cpu, NEW b \in Cpu, NEW v \in {"os", "smm"},
         Still(c), SetMtrr(c, v), AllSaved', pc[b] \in Lead, pc'[b] \in Lead,
         pc[c] \in Counted, pc'[c] \in Counted, config.mtrrs,
         Stage(config, pc'[b]) = Stage(config, pc[b]),
         \/ v = "smm" /\ Stage(config, pc[b]) = "program"
         \/ v = "os" /\ Stage(config, pc[b]) = "restore"
  PROVE  MInv'
<1>0. TypeOK
  BY DEF SInv
<1>1. config' = config /\ \A d \in Cpu \ {c} : pc'[d] = pc[d]
  BY DEF Still
<1>2. \A d \in Cpu : mtrr'[d] = IF CoreOf[d] = CoreOf[c] THEN v ELSE mtrr[d]
  BY <1>0, MtrrType
<1>3. Cores'
  <2> SUFFICES ASSUME NEW d \in Cpu, NEW e \in Cpu, CoreOf[d] = CoreOf[e]
               PROVE  mtrr'[d] = mtrr'[e]
    BY DEF Cores
  <2>1. mtrr[d] = mtrr[e]
    BY DEF MInv, Cores
  <2> QED BY <1>2, <2>1
<1>4. Owned'
  <2> SUFFICES ASSUME NEW d \in Cpu, mtrr'[d] = "smm"
               PROVE  config'.mtrrs /\ \E e \in Cpu : pc'[e] \in Counted /\ CoreOf[e] = CoreOf[d]
    BY DEF Owned
  <2>1. CASE CoreOf[d] = CoreOf[c]
    BY <1>1, <2>1
  <2>2. CASE CoreOf[d] # CoreOf[c]
    <3>1. mtrr[d] = "smm"
      BY <1>2, <2>2
    <3>2. PICK e \in Cpu : pc[e] \in Counted /\ CoreOf[e] = CoreOf[d]
      BY <3>1 DEF MInv, Owned
    <3>3. pc'[e] \in Counted
      BY <1>1, <3>2
    <3> QED BY <1>1, <3>2, <3>3
  <2> QED BY <2>1, <2>2
<1>5. Led(b)' /\ MLed(b)
  BY DEF SInv, Idle, Led, MInv
<1>6. ASSUME NEW a \in Cpu, pc'[a] \in Lead
      PROVE  MLed(a)'
  <2>1. a = b
    BY <1>5, <1>6 DEF Led
  <2>2. Stage(config', pc'[b]) \notin OsStages
    BY <1>1 DEF OsStages
  <2>3. ASSUME NEW d \in Cpu, pc'[d] \in Counted
        PROVE  Level(config', pc'[b], pc'[d], mtrr'[d])
    <3>1. mtrr'[d] = v \/ (d # c /\ mtrr'[d] = mtrr[d] /\ pc'[d] = pc[d])
      BY <1>1, <1>2
    <3>2. CASE mtrr'[d] = v
      <4>1. CASE v = "smm" /\ Stage(config, pc[b]) = "program"
        BY <1>1, <3>2, <4>1 DEF Level
      <4>2. CASE v = "os" /\ Stage(config, pc[b]) = "restore"
        BY <1>1, <3>2, <4>2 DEF Level
      <4> QED BY <4>1, <4>2
    <3>3. CASE d # c /\ mtrr'[d] = mtrr[d] /\ pc'[d] = pc[d]
      <4>1. Level(config, pc[b], pc[d], mtrr[d])
        BY <1>5, <2>3, <3>3 DEF MLed
      <4> QED BY <1>1, <3>3, <4>1 DEF Level
    <3> QED BY <3>1, <3>2, <3>3
  <2> QED BY <2>1, <2>2, <2>3 DEF MLed
<1> QED BY <1>3, <1>4, <1>6 DEF MInv

(* BSPHandler saves, programs and restores. *)
LEMMA BspMtrr ==
  ASSUME SInv, SInv', MInv, NEW c \in Cpu, BspBackupMtrrs(c) \/ BspProgramMtrrs(c)
  PROVE  MInv'
<1>0. TypeOK /\ loc[c] \in Locals /\ Still(c)
  BY Typed, MtrrStill DEF SInv
<1>1. CASE BspBackupMtrrs(c)
  <2> DEFINE f == [loc[c] EXCEPT !.saved = mtrr[c]]
  <2>1. GotoWith(c, "waitBackup", f) /\ mtrr' = mtrr /\ pc[c] = "backup"
    BY <1>1 DEF BspBackupMtrrs, At
  <2>2. f \in Locals /\ f.saved = mtrr[c]
    BY <1>0 DEF Locals, TypeOK
  <2> HIDE DEF f
  <2>3. /\ pc'[c] = "waitBackup" /\ \A d \in Cpu \ {c} : loc'[d].saved = loc[d].saved
        /\ loc'[c].saved = f.saved
    BY <1>0, <2>1, <2>2, GotoWithShape
  <2>4. "backup" \in Lead /\ "waitBackup" \in Lead
    BY LeadPositions DEF Waits
  <2>5. Stage(config, "backup") \in OsStages
    BY DEF Stage, ArriveL, BackupL, OsStages
  <2>6. AllOs
    BY <2>1, <2>4, <2>5 DEF MInv, MLed
  <2>7. AllSaved'
    BY <2>2, <2>3, <2>6 DEF AllSaved, MInv, AllOs
  <2>8. NoProgram(config, pc[c], pc'[c])
    BY <2>1, <2>3, SteadyPairs
  <2> QED BY <1>0, <2>1, <2>3, <2>4, <2>7, <2>8, SteadyMtrr
<1>2. CASE BspProgramMtrrs(c)
  <2>1. \E k \in {"waitProgram", "waitRestore"} : Goto(c, k)
    BY <1>2 DEF BspProgramMtrrs
  <2>2. \A d \in Cpu : loc'[d].saved = loc[d].saved
    BY <1>0, <2>1, GotoShape
  <2>3. AllSaved'
    BY <2>2 DEF MInv, AllSaved
  <2>4. \/ pc[c] = "program" /\ pc'[c] = "waitProgram" /\ SetMtrr(c, "smm")
        \/ pc[c] = "restore" /\ pc'[c] = "waitRestore" /\ SetMtrr(c, "os")
    <3>1. CASE At(c, {"program"}) /\ SetMtrr(c, "smm") /\ Goto(c, "waitProgram")
      BY <1>0, <3>1, GotoShape DEF At
    <3>2. CASE At(c, {"restore"}) /\ SetMtrr(c, loc[c].saved) /\ Goto(c, "waitRestore")
      <4>1. loc[c].saved = "os"
        BY DEF MInv, AllSaved
      <4>2. pc'[c] = "waitRestore"
        BY <1>0, <3>2, GotoShape
      <4> QED BY <3>2, <4>1, <4>2 DEF At
    <3> QED BY <1>2, <3>1, <3>2 DEF BspProgramMtrrs
  <2>5. /\ {"program", "restore", "waitProgram", "waitRestore"} \subseteq Lead
        /\ {"program", "restore"} \subseteq BackupL \union ProgramL \union RestoreL
    BY LeadPositions DEF Waits, ProgramL, RestoreL
  <2>6. pc[c] \in Lead /\ pc'[c] \in Lead /\ pc[c] \in Counted /\ pc'[c] \in Counted
    BY <2>4, <2>5 DEF Counted
  <2>7. config.mtrrs
    <3>1. Led(c)
      BY <2>6, LeaderIs
    <3> QED BY <2>4, <2>5, <3>1 DEF Led, Path
  <2>8. CASE pc[c] = "program" /\ pc'[c] = "waitProgram" /\ SetMtrr(c, "smm")
    <3>1. Stage(config, pc[c]) = "program" /\ Stage(config, pc'[c]) = Stage(config, pc[c])
      BY <2>8, WaitStages
    <3> QED BY <1>0, <2>3, <2>6, <2>7, <2>8, <3>1, SetMtrrStep
  <2>9. CASE pc[c] = "restore" /\ pc'[c] = "waitRestore" /\ SetMtrr(c, "os")
    <3>1. Stage(config, pc[c]) = "restore" /\ Stage(config, pc'[c]) = Stage(config, pc[c])
      BY <2>9, WaitStages
    <3> QED BY <1>0, <2>3, <2>6, <2>7, <2>9, <3>1, SetMtrrStep
  <2> QED BY <2>4, <2>8, <2>9
<1> QED BY <1>1, <1>2

(* APHandler does so when the BSP says. *)
LEMMA AwaitMtrr ==
  ASSUME SInv, SInv', MInv, NEW c \in Cpu, AwaitBsp(c)
  PROVE  MInv'
<1>0. TypeOK /\ loc[c] \in Locals /\ Still(c) /\ Run[c] \in Nat
  BY Typed, MtrrStill DEF SInv
<1>1. /\ pc[c] \in Awaits /\ Run[c] > 0
  BY DEF AwaitBsp, At, WaitForRun
<1>2. pc[c] \in Member /\ pc[c] \notin Early /\ pc[c] \in Counted
  BY <1>1, LatePositions, CalledPositions DEF Counted
<1>3. pc'[c] \in Member /\ pc'[c] \in Counted
  <2>1. {"backup", "program", "restore"} \cap Awaits = {}
    BY DEF Awaits
  <2>2. pc'[c] \in Member
    BY <1>1, <2>1, MtrrStill
  <2> QED BY <2>2 DEF Counted
<1>4. PICK b \in Cpu :
        /\ Led(b) /\ b # c /\ pc[b] \in Lead
        /\ Place(config, b, pc[b], loc[b].n, c, pc[c], Run[c], Busy[c], loc[c].bsp)
  BY <1>2, Follower
<1>5. pc'[b] = pc[b]
  BY <1>0, <1>4 DEF Still
<1>6. /\ pc[c] \in Todo(config, Stage(config, pc[b])) \union Done(config, Stage(config, pc[b]))
      /\ Stage(config, pc[b]) \in Gated => pc[c] = Gate(Stage(config, pc[b]))
  BY <1>1, <1>4 DEF Place
<1>7. CASE pc[c] = "awaitBackup"
  <2> DEFINE f == [loc[c] EXCEPT !.saved = mtrr[c]]
  <2>1. GotoWith(c, "sigBackup", f) /\ mtrr' = mtrr
    BY <1>7 DEF AwaitBsp
  <2>2. f \in Locals /\ f.saved = mtrr[c]
    BY <1>0 DEF Locals, TypeOK
  <2> HIDE DEF f
  <2>3. /\ \A d \in Cpu \ {c} : loc'[d].saved = loc[d].saved
        /\ loc'[c].saved = f.saved
    BY <1>0, <2>1, <2>2, GotoWithShape
  <2>4. Stage(config, pc[b]) \in OsStages
    BY <1>6, <1>7 DEF Todo, Done, Pre, Loop, OsStages
  <2>5. AllOs
    BY <1>4, <2>4 DEF MInv, MLed
  <2>6. AllSaved'
    BY <2>2, <2>3, <2>5 DEF AllSaved, MInv, AllOs
  <2>7. pc[c] \in Member \ {"awaitProgram", "awaitRestore"}
    BY <1>2, <1>7
  <2> QED BY <1>0, <1>3, <2>1, <2>6, <2>7, MemberMtrr
<1>8. ASSUME pc[c] # "awaitBackup" PROVE AllSaved'
  <2>1. \E k : Goto(c, k)
    BY <1>8 DEF AwaitBsp
  <2>2. \A d \in Cpu : loc'[d].saved = loc[d].saved
    BY <1>0, <2>1, GotoShape
  <2> QED BY <2>2 DEF MInv, AllSaved
<1>9. CASE pc[c] = "awaitReset"
  <2>1. mtrr' = mtrr /\ AllSaved'
    BY <1>8, <1>9 DEF AwaitBsp
  <2>2. pc[c] \in Member \ {"awaitProgram", "awaitRestore"}
    BY <1>2, <1>9
  <2> QED BY <1>0, <1>3, <2>1, <2>2, MemberMtrr
<1>10. CASE pc[c] = "awaitProgram"
  <2>1. SetMtrr(c, "smm") /\ AllSaved'
    BY <1>8, <1>10 DEF AwaitBsp
  <2>2. Stage(config, pc[b]) = "program"
    <3>1. Stage(config, pc[b]) \in {"backup", "program"}
      BY <1>6, <1>10 DEF Todo, Done, Pre, Loop
    <3>2. Stage(config, pc[b]) # "backup"
      BY <1>6, <1>10 DEF Gated, Gate
    <3> QED BY <3>1, <3>2
  <2>3. pc[b] \in ProgramL
    BY <1>4, <2>2, Stages
  <2>4. config.mtrrs
    BY <1>4, <2>3 DEF Led, Path
  <2> QED BY <1>0, <1>2, <1>3, <1>4, <1>5, <2>1, <2>2, <2>4, SetMtrrStep
<1>11. CASE pc[c] = "awaitRestore"
  <2>1. SetMtrr(c, loc[c].saved) /\ AllSaved'
    BY <1>8, <1>11 DEF AwaitBsp
  <2>2. SetMtrr(c, "os")
    BY <2>1 DEF MInv, AllSaved
  <2>3. Stage(config, pc[b]) = "restore"
    <3>1. Stage(config, pc[b]) \in {"exit", "restore"}
      BY <1>6, <1>11 DEF Todo, Done, Pre, Loop
    <3>2. Stage(config, pc[b]) # "exit"
      BY <1>6, <1>11 DEF Gated, Gate
    <3> QED BY <3>1, <3>2
  <2>4. pc[b] \in RestoreL
    BY <1>4, <2>3, Stages
  <2>5. config.mtrrs
    BY <1>4, <2>4 DEF Led, Path
  <2> QED BY <1>0, <1>2, <1>3, <1>4, <1>5, <2>1, <2>2, <2>3, <2>5, SetMtrrStep
<1> QED BY <1>1, <1>7, <1>9, <1>10, <1>11 DEF Awaits

(* The steps outside SMM. *)
LEMMA EntryMtrr ==
  ASSUME SInv, SInv', MInv, NEW c \in Cpu,
         \/ Enter(c) \/ SampleValidSmi(c) \/ SampleBspInProgress(c) \/ RunCheck(c)
         \/ WaitForSync(c) \/ CheckIn(c) \/ ClearAllCpusInSync(c)
  PROVE  MInv'
<1>0. TypeOK /\ loc[c] \in Locals /\ smiStatus \in BOOLEAN /\ InsideSmm \in BOOLEAN
  BY Typed DEF SInv, TypeOK
<1>1. config' = config /\ mtrr' = mtrr
  BY DEF Enter, SampleValidSmi, SampleBspInProgress, RunCheck, WaitForSync, CheckIn,
         ClearAllCpusInSync
<1>2. pc[c] \in Outside
  BY DEF Enter, SampleValidSmi, SampleBspInProgress, RunCheck, WaitForSync, CheckIn,
         ClearAllCpusInSync, At, Outside
<1>3. {"normal", "sampleSmi", "sampleBsp", "checkIn", "runCheck", "waitSync"} \subseteq Outside
  BY DEF Outside
<1> DEFINE Goes(k, f) == /\ k \in Outside \union {"initBusy"} /\ f \in Locals /\ f.saved = "os"
                         /\ GotoWith(c, k, f)
<1>4. loc[c].saved = "os"
  BY DEF MInv, AllSaved
<1>5. \E k, f : Goes(k, f)
  <2>1. CASE Enter(c) \/ RunCheck(c) \/ CheckIn(c) \/ ClearAllCpusInSync(c)
    <3>1. \E k \in Outside \union {"initBusy"} : Goto(c, k)
      BY <1>3, <2>1 DEF Enter, RunCheck, CheckIn, ClearAllCpusInSync
    <3>2. PICK k \in Outside \union {"initBusy"} : Goto(c, k)
      BY <3>1
    <3>3. Goes(k, loc[c])
      BY <1>0, <1>4, <3>2 DEF Goto
    <3> QED BY <3>3
  <2>2. CASE SampleValidSmi(c)
    <3> DEFINE f == [loc[c] EXCEPT !.valid = smiStatus]
    <3>1. f \in Locals /\ f.saved = "os"
      BY <1>0, <1>4 DEF Locals
    <3>2. GotoWith(c, "sampleBsp", f)
      BY <2>2 DEF SampleValidSmi
    <3> HIDE DEF f
    <3>3. Goes("sampleBsp", f)
      BY <1>3, <3>1, <3>2
    <3> QED BY <3>3
  <2>3. NoLocals \in Locals /\ NoLocals.saved = "os"
    <3>1. N \in Nat
      BY SmmAssumption
    <3> QED BY <3>1 DEF NoLocals, Locals
  <2>4. CASE Exit(c)
    <3>1. Goes("normal", NoLocals)
      BY <1>3, <2>3, <2>4 DEF Exit
    <3> QED BY <3>1
  <2>5. CASE SampleBspInProgress(c) /\ ~Exit(c)
    <3> DEFINE f == [loc[c] EXCEPT !.inProgress = InsideSmm]
    <3>1. f \in Locals /\ f.saved = "os"
      BY <1>0, <1>4 DEF Locals
    <3>2. GotoWith(c, "checkIn", f)
      BY <2>5 DEF SampleBspInProgress
    <3> HIDE DEF f
    <3>3. Goes("checkIn", f)
      BY <1>3, <3>1, <3>2
    <3> QED BY <3>3
  <2> QED BY <2>1, <2>2, <2>4, <2>5 DEF WaitForSync
<1>6. PICK k, f : Goes(k, f)
  BY <1>5
<1>7. /\ pc'[c] = k /\ \A d \in Cpu \ {c} : pc'[d] = pc[d] /\ loc'[d].saved = loc[d].saved
      /\ loc'[c].saved = f.saved
  BY <1>0, <1>6, GotoWithShape
<1>8. AllSaved'
  BY <1>6, <1>7 DEF MInv, AllSaved
<1>9. CASE k \in Outside
  BY <1>1, <1>2, <1>7, <1>8, <1>9, OutsideMtrr
<1>10. CASE k = "initBusy"
  BY <1>1, <1>2, <1>7, <1>8, <1>10, CheckInMtrr
<1> QED BY <1>6, <1>9, <1>10

(* The steps of the election and of the APs that signal or leave. *)
LEMMA ApMtrr ==
  ASSUME SInv, SInv', MInv, NEW c \in Cpu, CompareBsp(c) \/ SignalBsp(c) \/ GiveUp(c)
  PROVE  MInv'
<1>0. MtrrsLeft(c)
  BY ApCalm
<1>1. /\ Still(c) /\ config' = config /\ mtrr' = mtrr /\ AllSaved'
      /\ \A d \in Cpu \ {c} : pc'[d] = pc[d]
  BY <1>0 DEF MtrrsLeft, Still, MInv, AllSaved
<1>2. {"compare", "apWait1", "awaitBackup", "apLoop", "awaitProgram", "awaitRestore",
       "awaitReset"} \subseteq Member
  BY DEF Member, Pre, Loop, Awaits
<1>3. CASE CompareBsp(c)
  <2>1. pc[c] = "compare" /\ pc'[c] \in {"bspClear", "apWait1"}
    BY <1>3, ApCalm
  <2>2. CASE pc'[c] = "bspClear"
    BY <1>1, <2>1, <2>2, ElectMtrr
  <2>3. CASE pc'[c] = "apWait1"
    BY <1>1, <1>2, <2>1, <2>3, MemberMtrr
  <2> QED BY <2>1, <2>2, <2>3
<1>4. CASE GiveUp(c)
  <2>1. pc[c] \in {"giveUp", "sigDone"} /\ pc'[c] = "runCheck"
    BY <1>4, ApCalm
  <2> QED BY <1>1, <2>1, LeaveMtrr
<1>5. CASE SignalBsp(c)
  <2>1. pc[c] \in Signals /\ pc'[c] = AfterSignal(pc[c])
    BY <1>5, ApCalm
  <2>2. CASE pc[c] = "sigDone"
    <3>1. pc[c] \in {"giveUp", "sigDone"} /\ pc'[c] = "runCheck"
      BY <2>1, <2>2 DEF AfterSignal
    <3> QED BY <1>1, <3>1, LeaveMtrr
  <2>3. CASE pc[c] # "sigDone"
    <3>1. pc'[c] \in Member
      BY <1>2, <2>1, <2>3 DEF AfterSignal, Signals
    <3>2. pc[c] \in Member \ {"awaitProgram", "awaitRestore"}
      BY <2>1 DEF Member, Signals
    <3> QED BY <1>1, <3>1, <3>2, MemberMtrr
  <2> QED BY <2>2, <2>3
<1> QED BY <1>3, <1>4, <1>5

(* The leader ends. *)
LEMMA EndMtrr ==
  ASSUME SInv, SInv', MInv, NEW c \in Cpu, ResetCounter(c)
  PROVE  MInv'
<1>0. TypeOK
  BY DEF SInv
<1>1. pc[c] = "resetCounter" /\ mtrr' = mtrr /\ Goto(c, "endSync")
  BY DEF ResetCounter, At
<1>2. "resetCounter" \in Lead /\ Stage(config, "resetCounter") \in OsStages
  <2>1. "resetCounter" \in Lead
    BY LeadPositions
  <2>2. Stage(config, "resetCounter") = "end"
    BY <2>1, Stages DEF EndL
  <2> QED BY <2>1, <2>2 DEF OsStages
<1>3. AllOs'
  BY <1>1, <1>2 DEF MInv, MLed, AllOs
<1>4. \A d \in Cpu : loc'[d].saved = loc[d].saved
  BY <1>0, <1>1, GotoShape
<1>5. AllSaved'
  BY <1>4 DEF MInv, AllSaved
<1>6. \A b \in Cpu : pc'[b] \notin Lead
  BY ResetCounterStep DEF Idle
<1> QED BY <1>3, <1>5, <1>6, OsStep

(* SmmWaitForApArrival calls the absent processors. *)
LEMMA SendMtrr ==
  ASSUME SInv, MInv, NEW c \in Cpu, SendSmiIpis(c)
  PROVE  MInv'
<1>0. TypeOK
  BY DEF SInv
<1>1. /\ config' = config /\ mtrr' = mtrr /\ AllCpusInSync' = AllCpusInSync /\ pc[c] = "sendIpi"
  BY DEF SendSmiIpis, mpSync, At
<1>2. \E k \in {"arrive2", "inSync"} : Goto(c, k)
  BY DEF SendSmiIpis
<1>3. PICK k \in {"arrive2", "inSync"} : Goto(c, k)
  BY <1>2
<1>4. \A d \in Cpu : smiPending[d] = TRUE => smiPending'[d] = TRUE
  <2>1. CASE SendSmiIpi({d \in Cpu : ~Present[d]})
    <3>1. smiPending' \in [Cpu -> BOOLEAN] /\ \A d \in Cpu : smiPending[d] => smiPending'[d]
      BY <2>1, IpiType
    <3> QED BY <3>1
  <2>2. CASE smiPending' = smiPending
    BY <2>2
  <2> QED BY <2>1, <2>2 DEF SendSmiIpis
<1>5. /\ pc'[c] = k /\ \A d \in Cpu \ {c} : pc'[d] = pc[d]
      /\ \A d \in Cpu : loc'[d].saved = loc[d].saved
  BY <1>0, <1>3, GotoShape
<1>6. Still(c) /\ AllSaved'
  BY <1>1, <1>4, <1>5 DEF Still, MInv, AllSaved
<1>7. pc[c] \in Lead /\ pc'[c] \in Lead
  BY <1>1, <1>3, <1>5, LeadPositions
<1>8. MLed(c)
  BY <1>7 DEF MInv
<1>9. /\ Stage(config, pc'[c]) = Stage(config, pc[c])
      /\ pc'[c] \notin PastProgram \union PastRestore
  BY <1>1, <1>3, <1>5 DEF Stage, ArriveL, PastProgram, PastRestore
<1>10. ASSUME NEW d \in Cpu, pc'[d] \in Counted
       PROVE  Level(config, pc'[c], pc'[d], mtrr[d])
  <2>1. pc[d] \in Counted
    BY <1>5, <1>7, <1>10 DEF Counted
  <2>2. Level(config, pc[c], pc[d], mtrr[d])
    BY <1>8, <2>1 DEF MLed
  <2>3. CASE d = c
    BY <1>9, <2>2, <2>3 DEF Level
  <2>4. CASE d # c
    BY <1>5, <1>9, <2>2, <2>4 DEF Level
  <2> QED BY <2>3, <2>4
<1>11. Stage(config, pc'[c]) \in OsStages => AllOs
  BY <1>8, <1>9 DEF MLed
<1> QED BY <1>1, <1>6, <1>7, <1>10, <1>11, LeaderMtrr

(* Every step keeps MInv. *)
LEMMA NextMInv ==
  ASSUME SInv, SInv', MInv, [Next]_vars
  PROVE  MInv'
<1>1. CASE SmiTrigger \/ (\E c \in Cpu : Unblock(c)) \/ UNCHANGED vars
  <2>1. config' = config /\ pc' = pc /\ loc' = loc /\ mtrr' = mtrr
    BY <1>1 DEF SmiTrigger, Unblock, vars
  <2> QED BY <2>1 DEF MInv, AllSaved, Cores, Owned, MLed, AllOs
<1>2. ASSUME NEW c \in Cpu, CpuStep(c)
      PROVE  MInv'
  <2>1. CASE \/ Enter(c) \/ SampleValidSmi(c) \/ SampleBspInProgress(c) \/ RunCheck(c)
             \/ WaitForSync(c) \/ CheckIn(c) \/ ClearAllCpusInSync(c)
    BY <2>1, EntryMtrr
  <2>2. CASE SendSmiIpis(c)
    BY <2>2, SendMtrr
  <2>3. CASE CompareBsp(c) \/ SignalBsp(c) \/ GiveUp(c)
    BY <2>3, ApMtrr
  <2>4. CASE ResetCounter(c)
    BY <2>4, EndMtrr
  <2>5. CASE WaitForAllAPs(c)
    BY <2>5, WaitMtrr
  <2>6. CASE ClearInsideSmm(c)
    BY <2>6, ExitMtrr
  <2>7. CASE AwaitBsp(c)
    BY <2>7, AwaitMtrr
  <2>8. CASE BspBackupMtrrs(c) \/ BspProgramMtrrs(c)
    BY <2>8, BspMtrr
  <2>9. CASE \/ InitializeBusy(c) \/ Elect(c) \/ CompareExchangeBsp(c)
             \/ WaitForBsp(c) \/ FirstTimeout(c) \/ CallBsp(c) \/ SecondTimeout(c)
             \/ ReadBspIndex(c) \/ SetApPresent(c)
             \/ WaitForWork(c) \/ CheckForExit(c) \/ RunProcedure(c) \/ ReleaseBusy(c)
             \/ ClearApPresent(c)
    <3>1. MtrrsLeft(c) /\ pc[c] \in Member \ Awaits /\ pc'[c] \in Member
      BY <2>9, MemberCalm
    <3>2. Still(c) /\ mtrr' = mtrr /\ AllSaved'
      BY <3>1 DEF MtrrsLeft, MInv, AllSaved
    <3>3. pc[c] \in Member \ {"awaitProgram", "awaitRestore"}
      BY <3>1 DEF Awaits
    <3> QED BY <3>1, <3>2, <3>3, MemberMtrr
  <2>10. CASE \/ ClearSwitchBsp(c) \/ SetInsideSmm(c) \/ SetBspPresent(c)
              \/ ClearTopLevelSmiStatus(c) \/ WaitForApArrival1(c) \/ WaitForApArrival2(c)
              \/ SetAllCpusInSync(c) \/ AcquireBspBusy(c) \/ HandlersReturn(c) \/ CountPresent(c)
              \/ SmmCpuUpdate(c) \/ ClearBspPresent(c) \/ ResetBspIndex(c)
              \/ LockdownCounter(c) \/ WaitForProcedure(c)
              \/ (\E d \in Cpu : SmmStartupThisAp(c, d) \/ SmmSwitchBsp(c, d))
              \/ DrainProcedures(c) \/ ReleaseAllAPs(c)
    <3>1. MtrrsLeft(c) /\ NoProgram(config, pc[c], pc'[c]) /\ pc[c] \in Lead /\ pc'[c] \in Lead
      BY <2>10, LeaderCalmPlain, LeaderCalmLocals
    <3>2. Still(c) /\ mtrr' = mtrr /\ AllSaved'
      BY <3>1 DEF MtrrsLeft, MInv, AllSaved
    <3> QED BY <3>1, <3>2, SteadyMtrr
  <2> QED BY <1>2, <2>1, <2>2, <2>3, <2>4, <2>5, <2>6, <2>7, <2>8, <2>9, <2>10 DEF CpuStep
<1> QED BY <1>1, <1>2 DEF Next, Quiescent

(* The stages determine the MTRRs. *)
THEOREM MtrrInvariant == Spec => [](SInv /\ MInv)
<1>1. Init => MInv
  <2> SUFFICES ASSUME Init PROVE MInv
    OBVIOUS
  <2>1. \A c \in Cpu : mtrr[c] = "os" /\ loc[c].saved = "os" /\ pc[c] = "normal"
    BY DEF Init, NoLocals
  <2>2. "normal" \notin Lead
    BY CalledPositions DEF Outside
  <2> QED BY <2>1, <2>2 DEF MInv, AllSaved, Cores, Owned, AllOs
<1>2. SInv /\ SInv' /\ MInv /\ [Next]_vars => MInv'
  BY NextMInv
<1> QED BY <1>1, <1>2, RendezvousInvariant, PTL DEF Spec

(* However the threads share cores, what a processor saved are the OS's MTRRs, and
   they are back when nobody is in BSPHandler or APHandler. *)
THEOREM MtrrsSavedAndRestoredAlways == Spec => []MtrrsSavedAndRestored
<1>1. SInv /\ MInv => MtrrsSavedAndRestored
  <2> SUFFICES ASSUME SInv, MInv PROVE MtrrsSavedAndRestored
    OBVIOUS
  <2>1. ASSUME \A c \in Cpu : pc[c] \notin BspPc \union ApPc
        PROVE  AllOs
    <3>1. CASE \A c \in Cpu : pc[c] \notin Lead
      BY <3>1 DEF MInv
    <3>2. ASSUME NEW b \in Cpu, pc[b] \in Lead
          PROVE  AllOs
      <4>1. pc[b] = "bspClear" /\ MLed(b)
        BY <2>1, <3>2 DEF Lead, BspPc, MInv
      <4>2. CASE config.mtrrs
        <5>1. Stage(config, "bspClear") \in OsStages
          BY <4>2 DEF Stage, ArriveL, OsStages, Gathers
        <5> QED BY <4>1, <5>1 DEF MLed
      <4>3. CASE ~config.mtrrs
        BY <4>3, OsWithout DEF SInv, MInv
      <4> QED BY <4>2, <4>3
    <3> QED BY <3>1, <3>2
  <2> QED BY <2>1 DEF MtrrsSavedAndRestored, MInv, AllSaved, AllOs
<1> QED BY <1>1, MtrrInvariant, PTL

(* The SMI handlers and the procedures run with SMM's MTRRs on every processor that
   takes part. *)
THEOREM HandlersUseSmmMtrrsAlways == Spec => []HandlersUseSmmMtrrs
<1>1. SInv /\ MInv => HandlersUseSmmMtrrs
  <2> SUFFICES ASSUME SInv, MInv, config.mtrrs, NEW c \in Cpu,
                      pc[c] \in {"handler", "blockBusy", "drain"}, NEW d \in Cpu, Present[d]
               PROVE  mtrr[d] = "smm"
    BY DEF HandlersUseSmmMtrrs
  <2>1. pc[c] \in Lead
    BY LeadPositions
  <2>2. Stage(config, pc[c]) = "run"
    BY DEF Stage, ArriveL, BackupL, ProgramL, RunL, BspRun
  <2>3. pc[d] \in Counted
    <3>1. Own(pc[d], Present[d], Run[d], Procedure[d], Busy[d], loc[d].n)
      BY DEF SInv, Alone
    <3>2. Present[d] = TRUE
      BY Typed DEF SInv
    <3>3. pc[d] \in PresentPc
      BY <3>1, <3>2 DEF Own
    <3> QED BY <3>3 DEF PresentPc, BspPresentL, Counted
  <2>4. Level(config, pc[c], pc[d], mtrr[d])
    BY <2>1, <2>3 DEF MInv, MLed
  <2> QED BY <2>2, <2>4 DEF Level
<1> QED BY <1>1, MtrrInvariant, PTL

=============================================================================
