--------------------------- MODULE SmmRendezvous ---------------------------
(* The rendezvous of the processors in System Management Mode
   (UefiCpuPkg/PiSmmCpuDxeSmm/MpService.c, SyncTimer.c, CpuService.c).

   An SMI brings every processor to SmiRendezvous.  Each one signals its arrival
   in Counter; one becomes the BSP and the others are APs.  The BSP waits for
   the APs for a limited time, locks Counter so that nobody else joins, leads
   the APs through a series of two-sided barriers on the Run semaphores (saving,
   programming and restoring the MTRRs, leaving), and in between runs the SMI
   handlers, which may schedule procedures on APs.  Processors run truly
   concurrently: one step is one access to a shared word.

   pc[c] is the point of the code where processor c is, "normal" outside SMM. *)
EXTENDS Naturals, FiniteSets

CONSTANTS
  N,              \* mNumberOfCpus = mMaxNumberOfCpus: processors 0..N-1
  CoreOf,         \* the core of a processor: the threads of a core share MTRRs
  Configs,        \* the platform configurations a run covers, see Config
  CounterMod,     \* 2^32, the modulus of the UINT32 semaphores
  NoBsp,          \* (UINT32)-1 in BspIndex
  MaxSmi,         \* bound: SMI sources activated
  MaxCalls        \* bound: service calls of SMI handlers

Cpu == 0 .. N - 1
MaxWord == CounterMod - 1     \* (UINT32)-1 in Counter

(* A platform: the feature PCDs, the sync mode, SmmCpuFeaturesNeedConfigureMtrrs,
   whether the chipset sends an SMI to every processor or to one, whether an SMI
   may come with a local machine check, whether PcdCpuSmmApSyncTimeout is long
   enough (see SyncTimerTimeout), and which processors may be blocked (in
   wait-for-SIPI, or in a long I/O) when the SMI comes. *)
Config == [relaxed : BOOLEAN, mtrrs : BOOLEAN, election : BOOLEAN,
           blocking : BOOLEAN, broadcast : BOOLEAN, lmce : BOOLEAN,
           longTimeout : BOOLEAN, late : SUBSET Cpu]

ASSUME SmmAssumption ==
  /\ N \in Nat \ {0}
  /\ CounterMod \in Nat /\ CounterMod > N + 2
  /\ NoBsp \notin Cpu
  /\ Configs \subseteq Config
  /\ MaxSmi \in Nat /\ MaxCalls \in Nat

VARIABLES
  config,         \* the platform
  smiStatus,      \* the top level SMI status bit of the chipset
  smiPending,     \* a latched SMI of a processor
  blocked,        \* the processor executes nothing and takes no SMI now
  due,            \* an SMI source became active after the handlers last began
  smis, calls,    \* how much of the bounds is used
  Counter, InsideSmm, AllCpusInSync, BspIndex, SwitchBsp, CandidateBsp,
  Run, Busy, Present, Procedure,    \* mSmmMpSyncData and its CpuData
  Operation,      \* processors with SmmCpuSwitchBsp pending
  mtrr,           \* the MTRRs a processor sees: the OS's or SMM's
  pc, loc,        \* the position and the local variables of a processor
  races           \* history: which unprotected pairs of accesses were overtaken

platform == <<smiStatus, smiPending, blocked, due, smis>>
mpSync == <<Counter, InsideSmm, AllCpusInSync>>
election == <<BspIndex, SwitchBsp, CandidateBsp, Operation>>
cpuData == <<Run, Busy, Present, Procedure>>
vars == <<config, platform, calls, mpSync, election, cpuData, mtrr, pc, loc, races>>

(* ValidSmi, BspInProgress, BspIndex, ApCount, Mtrrs, and n: the index of a loop
   over the processors or the number of APs still awaited. *)
NoLocals == [valid |-> FALSE, inProgress |-> FALSE, bsp |-> NoBsp,
             apCount |-> 0, saved |-> "os", n |-> 0]

(* The barriers.  In a Release phase the BSP signals every present AP, in a Wait
   phase it waits for ApCount signals; an AP answers each with an Await and a
   Signal phase. *)
Releases == {"relBackup", "relProgram", "relExit", "relRestore", "relReset"}
Waits == {"waitArrive", "waitBackup", "waitProgram", "waitExit", "waitRestore",
          "waitReset"}
Signals == {"sigArrive", "sigBackup", "sigProgram", "sigRestore", "sigReset",
            "sigDone"}
Awaits == {"awaitBackup", "awaitProgram", "awaitRestore", "awaitReset"}

(* The rest of BSPHandler, in the order of the code. *)
BspEntry == {"bspInside", "bspPresent", "clearSmi", "arrive1", "sendIpi", "arrive2"}
BspLocked == Releases \union Waits \union
  {"backup", "program", "restore", "countPresent", "update", "bspAbsent",
   "resetBsp", "resetCounter"}
BspRun == {"acquire", "handler", "blockBusy", "drain", "clearInside"}
BspPc == BspEntry \union {"inSync", "lockdown"} \union BspLocked \union BspRun
         \union {"endSync"}
ApPc == {"apWait1", "apFirst", "apKnow", "apWait2", "apSecond", "giveUp", "apBsp",
         "apPresent", "apLoop", "apCheck", "procedure", "relBusy", "apAbsent"}
        \union Signals \union Awaits
Pc == {"normal", "sampleSmi", "sampleBsp", "checkIn", "initBusy", "elect", "cas",
       "compare", "bspClear", "runCheck", "waitSync"} \union BspPc \union ApPc

TypeOK ==
  /\ config \in Configs
  /\ smiStatus \in BOOLEAN /\ due \in BOOLEAN
  /\ smiPending \in [Cpu -> BOOLEAN] /\ blocked \in [Cpu -> BOOLEAN]
  /\ smis \in 0 .. MaxSmi /\ calls \in 0 .. MaxCalls
  /\ Counter \in 0 .. MaxWord
  /\ InsideSmm \in BOOLEAN /\ AllCpusInSync \in BOOLEAN
  /\ BspIndex \in Cpu \union {NoBsp}
  /\ SwitchBsp \in BOOLEAN /\ CandidateBsp \in SUBSET Cpu /\ Operation \in SUBSET Cpu
  /\ Run \in [Cpu -> 0 .. MaxWord]
  /\ Busy \in [Cpu -> BOOLEAN] /\ Present \in [Cpu -> BOOLEAN]
  /\ Procedure \in [Cpu -> BOOLEAN]
  /\ mtrr \in [Cpu -> {"os", "smm"}]
  /\ pc \in [Cpu -> Pc]
  /\ loc \in [Cpu -> [valid : BOOLEAN, inProgress : BOOLEAN, bsp : Cpu \union {NoBsp},
                      apCount : 0 .. N, saved : {"os", "smm"}, n : 0 .. N]]
  /\ races \subseteq {"giveUp", "endSync"}

-----------------------------------------------------------------------------
(* SyncMode == SmmCpuSyncModeTradition || SmmCpuFeaturesNeedConfigureMtrrs ():
   the APs are gathered before the SMI handlers run and not after them. *)
GatherFirst == ~config.relaxed \/ config.mtrrs

(* The points where the BSP has set AllCpusInSync and not yet cleared it. *)
Synced == {"lockdown"} \union BspLocked
            \union (IF GatherFirst THEN BspRun ELSE {"clearInside"})

(* Processor c is at a point of S and takes a step.  Two pairs of accesses can be
   overtaken by other processors: an AP's last test for the BSP and its leaving the
   counter (the point "giveUp" between them), and the two stores that end a run
   ("endSync").  races remembers that it has happened with an effect: an AP left
   the counter after a BSP had come, AllCpusInSync was cleared after the next BSP
   had set it.  No step depends on it. *)
At(c, S) == pc[c] \in S

(* The value loc[c].n starts with at a point of the code. *)
LoopStart(l, apCount) ==
  CASE l \in Releases \union {"drain"} -> N
    [] l \in Waits -> apCount
    [] OTHER -> 0

(* Processor c goes on at l; f is its new record of locals. *)
GotoWith(c, l, f) ==
  /\ pc' = [pc EXCEPT ![c] = l]
  /\ loc' = [loc EXCEPT ![c] = [f EXCEPT !.n = LoopStart(l, f.apCount)]]
Goto(c, l) == GotoWith(c, l, loc[c])

(* RSM: back to the interrupted code, the locals are gone. *)
Exit(c) == GotoWith(c, "normal", NoLocals)

(* AllCpusInSmmWithExceptions: SmmCpuFeaturesGetSmmRegister reports no processor
   as blocked or SMI-disabled, so there are no exceptions. *)
AllCpusInSmm == Counter = N \/ \A c \in Cpu : Present[c]

(* The pc of a processor that waits for another one, with nothing to wait for. *)
Waiting(c) ==
  \/ pc[c] = "normal" /\ (blocked[c] \/ ~smiPending[c])
  \/ pc[c] \in {"apWait1", "apWait2"} /\ ~InsideSmm
  \/ pc[c] \in {"arrive1", "arrive2"} /\ ~AllCpusInSmm
  \/ pc[c] \in Awaits \union {"apLoop"} /\ Run[c] = 0
  \/ pc[c] \in Waits /\ loc[c].n > 0 /\ Run[c] = 0
  \/ pc[c] = "waitSync" /\ AllCpusInSync

(* IsSyncTimerTimeout is TRUE for processor c.  With longTimeout it is
   as long as the comment in SmmWaitForApArrival asks: nobody else can still
   do anything but wait. *)
SyncTimerTimeout(c) == config.longTimeout => \A d \in Cpu \ {c} : Waiting(d)

(* SendSmiIpi to the processors of a set. *)
SendSmiIpi(S) == smiPending' = [c \in Cpu |-> smiPending[c] \/ c \in S]

SetMtrr(c, v) == mtrr' = [d \in Cpu |-> IF CoreOf[d] = CoreOf[c] THEN v ELSE mtrr[d]]

ReleaseRun(c) == Run' = [Run EXCEPT ![c] = @ + 1]
WaitForRun(c) == Run[c] > 0 /\ Run' = [Run EXCEPT ![c] = @ - 1]

-----------------------------------------------------------------------------
(* The platform. *)

(* InitializeMpSyncData. *)
Init ==
  /\ config \in Configs
  /\ smiStatus = FALSE /\ due = FALSE /\ smis = 0 /\ calls = 0
  /\ smiPending = [c \in Cpu |-> FALSE]
  /\ blocked = [c \in Cpu |-> c \in config.late]
  /\ Counter = 0 /\ InsideSmm = FALSE /\ AllCpusInSync = FALSE
  /\ BspIndex = IF config.election THEN NoBsp ELSE 0
  /\ SwitchBsp = FALSE /\ CandidateBsp = {} /\ Operation = {}
  /\ Run = [c \in Cpu |-> 0]
  /\ Busy = [c \in Cpu |-> FALSE]
  /\ Present = [c \in Cpu |-> FALSE]
  /\ Procedure = [c \in Cpu |-> FALSE]
  /\ mtrr = [c \in Cpu |-> "os"]
  /\ pc = [c \in Cpu |-> "normal"]
  /\ loc = [c \in Cpu |-> NoLocals]
  /\ races = {}

(* An SMI source becomes active: the status bit is set and the SMI is sent to
   all processors, or it is raised by a processor that executes normal mode code
   (a write to the software SMI port) and sent to this one only. *)
SmiTrigger ==
  /\ smis < MaxSmi
  /\ smis' = smis + 1
  /\ smiStatus' = TRUE
  /\ due' = TRUE
  /\ \/ config.broadcast /\ SendSmiIpi(Cpu)
     \/ /\ ~config.broadcast
        /\ \E c \in Cpu : /\ pc[c] = "normal" /\ ~blocked[c] /\ ~smiPending[c]
                          /\ SendSmiIpi({c})
  /\ UNCHANGED <<config, blocked, calls, mpSync, election, cpuData, mtrr, pc, loc, races>>

Unblock(c) ==
  /\ blocked[c]
  /\ blocked' = [blocked EXCEPT ![c] = FALSE]
  /\ UNCHANGED <<config, smiStatus, smiPending, due, smis, calls, mpSync, election, cpuData,
                 mtrr, pc, loc, races>>

-----------------------------------------------------------------------------
(* SmiRendezvous. *)

(* The latched SMI is taken. *)
Enter(c) ==
  /\ At(c, {"normal"}) /\ smiPending[c] /\ ~blocked[c]
  /\ smiPending' = [smiPending EXCEPT ![c] = FALSE]
  /\ Goto(c, "sampleSmi")
  /\ UNCHANGED <<config, smiStatus, blocked, due, smis, calls, mpSync, election, cpuData,
                 mtrr, races>>

SampleValidSmi(c) ==
  /\ At(c, {"sampleSmi"})
  /\ GotoWith(c, "sampleBsp", [loc[c] EXCEPT !.valid = smiStatus])
  /\ UNCHANGED <<config, platform, calls, mpSync, election, cpuData, mtrr, races>>

SampleBspInProgress(c) ==
  /\ At(c, {"sampleBsp"})
  /\ IF InsideSmm \/ loc[c].valid
     THEN GotoWith(c, "checkIn", [loc[c] EXCEPT !.inProgress = InsideSmm])
     ELSE Exit(c)
  /\ UNCHANGED <<config, platform, calls, mpSync, election, cpuData, mtrr, races>>

(* Mutant: the counter is incremented whatever its value. *)
CheckInAlways(c) ==
  /\ At(c, {"checkIn"})
  /\ Counter' = Counter + 1
  /\ Goto(c, "initBusy")
  /\ UNCHANGED <<config, platform, calls, InsideSmm, AllCpusInSync, election, cpuData, mtrr, races>>

(* ReleaseSemaphore (Counter): 0, and no change, when the counter is locked. *)
CheckIn(c) ==
  /\ At(c, {"checkIn"})
  /\ \/ Counter = MaxWord /\ Goto(c, "waitSync") /\ UNCHANGED Counter
     \/ Counter # MaxWord /\ Goto(c, "initBusy") /\ Counter' = Counter + 1
  /\ UNCHANGED <<config, platform, calls, InsideSmm, AllCpusInSync, election, cpuData, mtrr, races>>

InitializeBusy(c) ==
  /\ At(c, {"initBusy"})
  /\ Busy' = [Busy EXCEPT ![c] = FALSE]
  /\ Goto(c, IF loc[c].inProgress THEN "apWait1" ELSE "elect")
  /\ UNCHANGED <<config, platform, calls, mpSync, election, Run, Present, Procedure, mtrr, races>>

(* PlatformSmmBspElection of the library returns EFI_NOT_READY, which selects
   the compare exchange. *)
Elect(c) ==
  /\ At(c, {"elect"})
  /\ Goto(c, IF config.election /\ (~SwitchBsp \/ c \in CandidateBsp)
             THEN "cas" ELSE "compare")
  /\ UNCHANGED <<config, platform, calls, mpSync, election, cpuData, mtrr, races>>

(* Mutant: BspIndex is stored without a comparison. *)
StoreBsp(c) ==
  /\ At(c, {"cas"})
  /\ BspIndex' = c
  /\ Goto(c, "compare")
  /\ UNCHANGED <<config, platform, calls, mpSync, SwitchBsp, CandidateBsp, Operation,
                 cpuData, mtrr, races>>

CompareExchangeBsp(c) ==
  /\ At(c, {"cas"})
  /\ BspIndex' = IF BspIndex = NoBsp THEN c ELSE BspIndex
  /\ Goto(c, "compare")
  /\ UNCHANGED <<config, platform, calls, mpSync, SwitchBsp, CandidateBsp, Operation,
                 cpuData, mtrr, races>>

CompareBsp(c) ==
  /\ At(c, {"compare"})
  /\ Goto(c, IF BspIndex = c THEN "bspClear" ELSE "apWait1")
  /\ UNCHANGED <<config, platform, calls, mpSync, election, cpuData, mtrr, races>>

ClearSwitchBsp(c) ==
  /\ At(c, {"bspClear"})
  /\ SwitchBsp' = FALSE
  /\ CandidateBsp' = IF SwitchBsp THEN {} ELSE CandidateBsp
  /\ Goto(c, "bspInside")
  /\ UNCHANGED <<config, platform, calls, mpSync, BspIndex, Operation, cpuData, mtrr, races>>

(* Where the ASSERT that Run is 0 stands, after BSPHandler or APHandler. *)
RunCheck(c) ==
  /\ At(c, {"runCheck"})
  /\ Goto(c, "waitSync")
  /\ UNCHANGED <<config, platform, calls, mpSync, election, cpuData, mtrr, races>>

(* The loop on AllCpusInSync, then RSM. *)
WaitForSync(c) ==
  /\ At(c, {"waitSync"}) /\ ~AllCpusInSync
  /\ Exit(c)
  /\ UNCHANGED <<config, platform, calls, mpSync, election, cpuData, mtrr, races>>

-----------------------------------------------------------------------------
(* BSPHandler. *)

SetInsideSmm(c) ==
  /\ At(c, {"bspInside"})
  /\ InsideSmm' = TRUE
  /\ Goto(c, "bspPresent")
  /\ UNCHANGED <<config, platform, calls, Counter, AllCpusInSync, election, cpuData, mtrr, races>>

SetBspPresent(c) ==
  /\ At(c, {"bspPresent"})
  /\ Present' = [Present EXCEPT ![c] = TRUE]
  /\ Goto(c, "clearSmi")
  /\ UNCHANGED <<config, platform, calls, mpSync, election, Run, Busy, Procedure, mtrr, races>>

ClearTopLevelSmiStatus(c) ==
  /\ At(c, {"clearSmi"})
  /\ smiStatus' = FALSE
  /\ Goto(c, IF GatherFirst THEN "arrive1" ELSE "acquire")
  /\ UNCHANGED <<config, smiPending, blocked, due, smis, calls, mpSync, election, cpuData,
                 mtrr, races>>

(* SmmWaitForApArrival: the first wait, which a local machine check skips. *)
WaitForApArrival1(c) ==
  /\ At(c, {"arrive1"})
  /\ AllCpusInSmm \/ config.lmce \/ SyncTimerTimeout(c)
  /\ Goto(c, "sendIpi")
  /\ UNCHANGED <<config, platform, calls, mpSync, election, cpuData, mtrr, races>>

(* Mutant: the absent processors are not called. *)
SendNoSmiIpi(c) ==
  /\ At(c, {"sendIpi"})
  /\ Goto(c, IF Counter < N THEN "arrive2" ELSE "inSync")
  /\ UNCHANGED <<config, platform, calls, mpSync, election, cpuData, mtrr, races>>

(* Bring the absent processors in, and wait for them a second time. *)
SendSmiIpis(c) ==
  /\ At(c, {"sendIpi"})
  /\ IF Counter < N
     THEN SendSmiIpi({d \in Cpu : ~Present[d]}) /\ Goto(c, "arrive2")
     ELSE UNCHANGED smiPending /\ Goto(c, "inSync")
  /\ UNCHANGED <<config, smiStatus, blocked, due, smis, calls, mpSync, election, cpuData,
                 mtrr, races>>

WaitForApArrival2(c) ==
  /\ At(c, {"arrive2"})
  /\ AllCpusInSmm \/ SyncTimerTimeout(c)
  /\ Goto(c, "inSync")
  /\ UNCHANGED <<config, platform, calls, mpSync, election, cpuData, mtrr, races>>

SetAllCpusInSync(c) ==
  /\ At(c, {"inSync"})
  /\ AllCpusInSync' = TRUE
  /\ Goto(c, "lockdown")
  /\ UNCHANGED <<config, platform, calls, Counter, InsideSmm, election, cpuData, mtrr, races>>

(* Mutant: the counter is read and not locked. *)
ReadCounter(c) ==
  /\ At(c, {"lockdown"})
  /\ GotoWith(c, IF GatherFirst THEN "waitArrive" ELSE "countPresent",
              [loc[c] EXCEPT !.apCount = Counter - 1])
  /\ UNCHANGED <<config, platform, calls, mpSync, election, cpuData, mtrr, races>>

(* ApCount = LockdownSemaphore (Counter) - 1. *)
LockdownCounter(c) ==
  /\ At(c, {"lockdown"})
  /\ Counter' = MaxWord
  /\ GotoWith(c, IF GatherFirst THEN "waitArrive" ELSE "countPresent",
              [loc[c] EXCEPT !.apCount = Counter - 1])
  /\ UNCHANGED <<config, platform, calls, InsideSmm, AllCpusInSync, election, cpuData, mtrr, races>>

(* One turn of WaitForAllAPs, or its end. *)
AfterWait(l) ==
  CASE l = "waitArrive" -> IF config.mtrrs THEN "relBackup" ELSE "acquire"
    [] l = "waitBackup" -> "relProgram"
    [] l = "waitProgram" -> "acquire"
    [] l = "waitExit" -> IF config.mtrrs THEN "relRestore" ELSE "relReset"
    [] l = "waitRestore" -> "relReset"
    [] l = "waitReset" -> "resetBsp"

WaitForAllAPs(c) ==
  /\ At(c, Waits)
  /\ \/ /\ loc[c].n > 0
        /\ WaitForRun(BspIndex)
        /\ loc' = [loc EXCEPT ![c].n = @ - 1]
        /\ UNCHANGED pc
     \/ /\ loc[c].n = 0
        /\ Goto(c, AfterWait(pc[c]))
        /\ UNCHANGED Run
  /\ UNCHANGED <<config, platform, calls, mpSync, election, Busy, Present, Procedure, mtrr, races>>

(* Mutant: the BSP does not wait for the last answers of the APs. *)
AfterReleaseNoReset(l) ==
  CASE l = "relBackup" -> "backup"
    [] l = "relProgram" -> "program"
    [] l = "relExit" -> "relReset"
    [] l = "relRestore" -> "restore"
    [] l = "relReset" -> "update"

(* One turn of ReleaseAllAPs, for the processor of index n - 1. *)
AfterRelease(l) ==
  CASE l = "relBackup" -> "backup"
    [] l = "relProgram" -> "program"
    [] l = "relExit" -> "waitExit"
    [] l = "relRestore" -> "restore"
    [] l = "relReset" -> "update"

ReleaseAllAPs(c) ==
  /\ At(c, Releases)
  /\ LET d == loc[c].n - 1 IN
     /\ IF d # BspIndex /\ Present[d] THEN ReleaseRun(d) ELSE UNCHANGED Run
     /\ IF d = 0
        THEN Goto(c, AfterRelease(pc[c]))
        ELSE loc' = [loc EXCEPT ![c].n = d] /\ UNCHANGED pc
  /\ UNCHANGED <<config, platform, calls, mpSync, election, Busy, Present, Procedure, mtrr, races>>

(* Mutants: the BSP does not wait until the APs saved their MTRRs, or until they
   programmed them. *)
BspBackupMtrrsAlone(c) ==
  /\ At(c, {"backup"})
  /\ GotoWith(c, "relProgram", [loc[c] EXCEPT !.saved = mtrr[c]])
  /\ UNCHANGED <<config, platform, calls, mpSync, election, cpuData, mtrr, races>>

BspProgramMtrrsAlone(c) ==
  /\ \/ At(c, {"program"}) /\ SetMtrr(c, "smm") /\ Goto(c, "acquire")
     \/ At(c, {"restore"}) /\ SetMtrr(c, loc[c].saved) /\ Goto(c, "waitRestore")
  /\ UNCHANGED <<config, platform, calls, mpSync, election, cpuData, races>>

(* MtrrGetAllMtrrs, ReplaceOSMtrrs and MtrrSetAllMtrrs (&Mtrrs) of the BSP. *)
BspBackupMtrrs(c) ==
  /\ At(c, {"backup"})
  /\ GotoWith(c, "waitBackup", [loc[c] EXCEPT !.saved = mtrr[c]])
  /\ UNCHANGED <<config, platform, calls, mpSync, election, cpuData, mtrr, races>>

BspProgramMtrrs(c) ==
  /\ \/ At(c, {"program"}) /\ SetMtrr(c, "smm") /\ Goto(c, "waitProgram")
     \/ At(c, {"restore"}) /\ SetMtrr(c, loc[c].saved) /\ Goto(c, "waitRestore")
  /\ UNCHANGED <<config, platform, calls, mpSync, election, cpuData, races>>

(* The SMI handlers start. *)
AcquireBspBusy(c) ==
  /\ At(c, {"acquire"}) /\ ~Busy[c]
  /\ Busy' = [Busy EXCEPT ![c] = TRUE]
  /\ due' = FALSE
  /\ Goto(c, "handler")
  /\ UNCHANGED <<config, smiStatus, smiPending, blocked, smis, calls, mpSync, election, Run,
                 Present, Procedure, mtrr, races>>

(* InternalSmmStartupThisAp, called by an SMI handler; it fails, with no effect,
   when processor d is not present or, without blocking, when d is busy.
   Nobody but d looks at what is written before Run is released. *)
SmmStartupThisAp(c, d) ==
  /\ At(c, {"handler"}) /\ calls < MaxCalls
  /\ d # c /\ Present[d] /\ ~Busy[d]
  /\ Busy' = [Busy EXCEPT ![d] = TRUE]
  /\ Procedure' = [Procedure EXCEPT ![d] = TRUE]
  /\ ReleaseRun(d)
  /\ calls' = calls + 1
  /\ IF config.blocking
     THEN GotoWith(c, "blockBusy", [loc[c] EXCEPT !.bsp = d])
     ELSE UNCHANGED <<pc, loc>>
  /\ UNCHANGED <<config, platform, mpSync, election, Present, mtrr, races>>

(* In blocking mode: acquire and release the AP's Busy. *)
WaitForProcedure(c) ==
  /\ At(c, {"blockBusy"}) /\ ~Busy[loc[c].bsp]
  /\ GotoWith(c, "handler", [loc[c] EXCEPT !.bsp = NoBsp])
  /\ UNCHANGED <<config, platform, calls, mpSync, election, cpuData, mtrr, races>>

(* SmmSwitchBsp, called by an SMI handler. *)
SmmSwitchBsp(c, d) ==
  /\ At(c, {"handler"}) /\ calls < MaxCalls
  /\ d # c /\ d \notin Operation
  /\ Operation' = Operation \union {d}
  /\ calls' = calls + 1
  /\ UNCHANGED <<config, platform, mpSync, BspIndex, SwitchBsp, CandidateBsp, cpuData, mtrr,
                 pc, loc, races>>

(* Mutant: the SMI status is cleared after the SMI handlers as well. *)
HandlersReturnClear(c) ==
  /\ At(c, {"handler"})
  /\ smiStatus' = FALSE
  /\ Goto(c, "drain")
  /\ UNCHANGED <<config, smiPending, blocked, due, smis, calls, mpSync, election, cpuData,
                 mtrr, races>>

(* SmmCoreEntry returns. *)
HandlersReturn(c) ==
  /\ At(c, {"handler"})
  /\ Goto(c, "drain")
  /\ UNCHANGED <<config, platform, calls, mpSync, election, cpuData, mtrr, races>>

(* Mutant: the BSP does not wait for the procedures it did not block on. *)
DrainNothing(c) ==
  /\ At(c, {"drain"})
  /\ Goto(c, IF GatherFirst THEN "clearInside" ELSE "inSync")
  /\ UNCHANGED <<config, platform, calls, mpSync, election, cpuData, mtrr, races>>

(* Wait for the procedure of the processor of index n - 1. *)
DrainProcedures(c) ==
  /\ At(c, {"drain"})
  /\ LET d == loc[c].n - 1 IN
     /\ d # c /\ Present[d] => ~Busy[d]
     /\ IF d = 0
        THEN Goto(c, IF GatherFirst THEN "clearInside" ELSE "inSync")
        ELSE loc' = [loc EXCEPT ![c].n = d] /\ UNCHANGED pc
  /\ UNCHANGED <<config, platform, calls, mpSync, election, cpuData, mtrr, races>>

(* Relaxed mode: until PresentCount > ApCount. *)
CountPresent(c) ==
  /\ At(c, {"countPresent"})
  /\ Cardinality({d \in Cpu : Present[d]}) > loc[c].apCount
  /\ Goto(c, "clearInside")
  /\ UNCHANGED <<config, platform, calls, mpSync, election, cpuData, mtrr, races>>

ClearInsideSmm(c) ==
  /\ At(c, {"clearInside"})
  /\ InsideSmm' = FALSE
  /\ Goto(c, "relExit")
  /\ UNCHANGED <<config, platform, calls, Counter, AllCpusInSync, election, cpuData, mtrr, races>>

(* The requests to switch the BSP become effective. *)
SmmCpuUpdate(c) ==
  /\ At(c, {"update"})
  /\ SwitchBsp' = (SwitchBsp \/ Operation # {})
  /\ CandidateBsp' = CandidateBsp \union Operation
  /\ Operation' = {}
  /\ Goto(c, "bspAbsent")
  /\ UNCHANGED <<config, platform, calls, mpSync, BspIndex, cpuData, mtrr, races>>

ClearBspPresent(c) ==
  /\ At(c, {"bspAbsent"})
  /\ Present' = [Present EXCEPT ![c] = FALSE]
  /\ Goto(c, "waitReset")
  /\ UNCHANGED <<config, platform, calls, mpSync, election, Run, Busy, Procedure, mtrr, races>>

ResetBspIndex(c) ==
  /\ At(c, {"resetBsp"})
  /\ BspIndex' = IF config.election THEN NoBsp ELSE BspIndex
  /\ Goto(c, "resetCounter")
  /\ UNCHANGED <<config, platform, calls, mpSync, SwitchBsp, CandidateBsp, Operation, cpuData,
                 mtrr, races>>

(* Counter = 0, and then AllCpusInSync = FALSE: between the two stores others may
   check in, and elect the next BSP. *)
ResetCounter(c) ==
  /\ At(c, {"resetCounter"})
  /\ Counter' = 0
  /\ Goto(c, "endSync")
  /\ UNCHANGED <<config, platform, calls, InsideSmm, AllCpusInSync, election, cpuData, mtrr, races>>

ClearAllCpusInSync(c) ==
  /\ At(c, {"endSync"})
  /\ AllCpusInSync' = FALSE
  /\ races' = races \union (IF \E d \in Cpu : pc[d] \in Synced THEN {"endSync"} ELSE {})
  /\ Goto(c, "runCheck")
  /\ UNCHANGED <<config, platform, calls, Counter, InsideSmm, election, cpuData, mtrr>>

-----------------------------------------------------------------------------
(* APHandler. *)

(* Wait for the BSP, for the first and for the second time. *)
WaitForBsp(c) ==
  /\ At(c, {"apWait1", "apWait2"})
  /\ \/ InsideSmm /\ Goto(c, "apBsp")
     \/ SyncTimerTimeout(c) /\ Goto(c, IF pc[c] = "apWait1" THEN "apFirst" ELSE "apSecond")
  /\ UNCHANGED <<config, platform, calls, mpSync, election, cpuData, mtrr, races>>

FirstTimeout(c) ==
  /\ At(c, {"apFirst"})
  /\ Goto(c, IF InsideSmm THEN "apBsp" ELSE "apKnow")
  /\ UNCHANGED <<config, platform, calls, mpSync, election, cpuData, mtrr, races>>

(* Send an SMI to the BSP if it is known, or give up. *)
CallBsp(c) ==
  /\ At(c, {"apKnow"})
  /\ \/ BspIndex # NoBsp /\ SendSmiIpi({BspIndex}) /\ Goto(c, "apWait2")
     \/ BspIndex = NoBsp /\ Goto(c, "giveUp") /\ UNCHANGED smiPending
  /\ UNCHANGED <<config, smiStatus, blocked, due, smis, calls, mpSync, election, cpuData,
                 mtrr, races>>

SecondTimeout(c) ==
  /\ At(c, {"apSecond"})
  /\ Goto(c, IF InsideSmm THEN "apBsp" ELSE "giveUp")
  /\ UNCHANGED <<config, platform, calls, mpSync, election, cpuData, mtrr, races>>

(* Mutant: the AP returns without leaving the counter. *)
GiveUpCounted(c) ==
  /\ At(c, {"giveUp"})
  /\ Goto(c, "runCheck")
  /\ UNCHANGED <<config, platform, calls, mpSync, election, cpuData, mtrr, races>>

(* WaitForSemaphore (Counter) and return.  The BSP may have set InsideSmm, and
   counted this processor, since InsideSmm was last tested. *)
GiveUp(c) ==
  /\ At(c, {"giveUp"})
  /\ Counter > 0 /\ Counter' = Counter - 1
  /\ races' = races \union (IF InsideSmm THEN {"giveUp"} ELSE {})
  /\ Goto(c, "runCheck")
  /\ UNCHANGED <<config, platform, calls, InsideSmm, AllCpusInSync, election, cpuData, mtrr>>

ReadBspIndex(c) ==
  /\ At(c, {"apBsp"})
  /\ GotoWith(c, "apPresent", [loc[c] EXCEPT !.bsp = BspIndex])
  /\ UNCHANGED <<config, platform, calls, mpSync, election, cpuData, mtrr, races>>

SetApPresent(c) ==
  /\ At(c, {"apPresent"})
  /\ Present' = [Present EXCEPT ![c] = TRUE]
  /\ Goto(c, IF GatherFirst THEN "sigArrive" ELSE "apLoop")
  /\ UNCHANGED <<config, platform, calls, mpSync, election, Run, Busy, Procedure, mtrr, races>>

(* ReleaseSemaphore of the BSP's Run. *)
AfterSignal(l) ==
  CASE l = "sigArrive" -> IF config.mtrrs THEN "awaitBackup" ELSE "apLoop"
    [] l = "sigBackup" -> "awaitProgram"
    [] l = "sigProgram" -> "apLoop"
    [] l = "sigRestore" -> "awaitRestore"
    [] l = "sigReset" -> "awaitReset"
    [] l = "sigDone" -> "runCheck"

SignalBsp(c) ==
  /\ At(c, Signals)
  /\ ReleaseRun(loc[c].bsp)
  /\ Goto(c, AfterSignal(pc[c]))
  /\ UNCHANGED <<config, platform, calls, mpSync, election, Busy, Present, Procedure, mtrr, races>>

(* WaitForSemaphore of the AP's own Run and, before the next signal, the work on
   the MTRRs of its core. *)
AwaitBsp(c) ==
  /\ At(c, Awaits)
  /\ WaitForRun(c)
  /\ \/ /\ pc[c] = "awaitBackup" /\ UNCHANGED mtrr
        /\ GotoWith(c, "sigBackup", [loc[c] EXCEPT !.saved = mtrr[c]])
     \/ pc[c] = "awaitProgram" /\ SetMtrr(c, "smm") /\ Goto(c, "sigProgram")
     \/ pc[c] = "awaitRestore" /\ SetMtrr(c, loc[c].saved) /\ Goto(c, "sigReset")
     \/ pc[c] = "awaitReset" /\ Goto(c, "apAbsent") /\ UNCHANGED mtrr
  /\ UNCHANGED <<config, platform, calls, mpSync, election, Busy, Present, Procedure, races>>

(* The loop in which an AP waits for procedures and for the end. *)
WaitForWork(c) ==
  /\ At(c, {"apLoop"})
  /\ WaitForRun(c)
  /\ Goto(c, "apCheck")
  /\ UNCHANGED <<config, platform, calls, mpSync, election, Busy, Present, Procedure, mtrr, races>>

CheckForExit(c) ==
  /\ At(c, {"apCheck"})
  /\ Goto(c, CASE InsideSmm -> "procedure"
               [] ~InsideSmm /\ config.mtrrs -> "sigRestore"
               [] ~InsideSmm /\ ~config.mtrrs -> "sigReset")
  /\ UNCHANGED <<config, platform, calls, mpSync, election, cpuData, mtrr, races>>

RunProcedure(c) ==
  /\ At(c, {"procedure"})
  /\ Procedure' = [Procedure EXCEPT ![c] = FALSE]
  /\ Goto(c, "relBusy")
  /\ UNCHANGED <<config, platform, calls, mpSync, election, Run, Busy, Present, mtrr, races>>

ReleaseBusy(c) ==
  /\ At(c, {"relBusy"})
  /\ Busy' = [Busy EXCEPT ![c] = FALSE]
  /\ Goto(c, "apLoop")
  /\ UNCHANGED <<config, platform, calls, mpSync, election, Run, Present, Procedure, mtrr, races>>

ClearApPresent(c) ==
  /\ At(c, {"apAbsent"})
  /\ Present' = [Present EXCEPT ![c] = FALSE]
  /\ Goto(c, "sigDone")
  /\ UNCHANGED <<config, platform, calls, mpSync, election, Run, Busy, Procedure, mtrr, races>>

-----------------------------------------------------------------------------
CpuStep(c) ==
  \/ Enter(c) \/ SampleValidSmi(c) \/ SampleBspInProgress(c) \/ CheckIn(c)
  \/ InitializeBusy(c) \/ Elect(c) \/ CompareExchangeBsp(c) \/ CompareBsp(c)
  \/ ClearSwitchBsp(c) \/ RunCheck(c) \/ WaitForSync(c)
  \/ SetInsideSmm(c) \/ SetBspPresent(c) \/ ClearTopLevelSmiStatus(c)
  \/ WaitForApArrival1(c) \/ SendSmiIpis(c) \/ WaitForApArrival2(c)
  \/ SetAllCpusInSync(c) \/ LockdownCounter(c) \/ WaitForAllAPs(c)
  \/ ReleaseAllAPs(c) \/ BspBackupMtrrs(c) \/ BspProgramMtrrs(c)
  \/ AcquireBspBusy(c) \/ WaitForProcedure(c) \/ HandlersReturn(c)
  \/ \E d \in Cpu : SmmStartupThisAp(c, d) \/ SmmSwitchBsp(c, d)
  \/ DrainProcedures(c) \/ CountPresent(c) \/ ClearInsideSmm(c) \/ SmmCpuUpdate(c)
  \/ ClearBspPresent(c) \/ ResetBspIndex(c) \/ ResetCounter(c) \/ ClearAllCpusInSync(c)
  \/ WaitForBsp(c) \/ FirstTimeout(c) \/ CallBsp(c) \/ SecondTimeout(c) \/ GiveUp(c)
  \/ ReadBspIndex(c) \/ SetApPresent(c) \/ SignalBsp(c) \/ AwaitBsp(c)
  \/ WaitForWork(c) \/ CheckForExit(c) \/ RunProcedure(c) \/ ReleaseBusy(c)
  \/ ClearApPresent(c)

(* All SMIs of the bound were served and every processor runs the OS, or processors
   wait for one that gave up.  Any other stop is a deadlock. *)
Quiescent ==
  /\ \/ /\ smis = MaxSmi
        /\ \A c \in Cpu : pc[c] = "normal" /\ ~smiPending[c] /\ ~blocked[c]
     \/ "giveUp" \in races
  /\ UNCHANGED vars

Next == SmiTrigger \/ (\E c \in Cpu : Unblock(c) \/ CpuStep(c)) \/ Quiescent

Spec == Init /\ [][Next]_vars

(* A processor in SMM keeps executing, and a blocked one is released some day. *)
FairSpec == Spec /\ \A c \in Cpu : WF_vars(CpuStep(c)) /\ WF_vars(Unblock(c))

-----------------------------------------------------------------------------
(* Properties. *)

(* At most one processor is the BSP: from the election to the point where the
   next SMI may elect another one. *)
OneBsp ==
  \A c, d \in Cpu :
    pc[c] \in BspPc \ {"endSync"} /\ pc[d] \in BspPc \ {"endSync"} => c = d

(* The run of the BSP once it has gathered the APs it counted. *)
Gathered == Synced \ {"lockdown", "waitArrive", "countPresent"}

(* Once the BSP has gathered its APs nobody joins or leaves until it resets the
   counter: the counter stays locked, and until the last barrier as many processors
   are present as the BSP counted when it locked the counter.  This in spite of an
   AP that gave up when it was already counted: the BSP waits until another one has
   taken its place. *)
RunIsClosed ==
  \A c \in Cpu : pc[c] \in Gathered =>
    /\ Counter = MaxWord
    /\ pc[c] \notin {"relReset", "update", "bspAbsent", "waitReset", "resetBsp",
                     "resetCounter"} =>
         Cardinality({d \in Cpu : Present[d]}) = loc[c].apCount + 1

(* "Wait for BSP's signal to finish SMI": AllCpusInSync holds the others in SMM until
   the BSP ends. *)
HeldInSmm == \A c \in Cpu : pc[c] \in Gathered => AllCpusInSync

(* The ASSERT in SmiRendezvous: every signal sent to a processor was consumed
   when its handler returns, so nothing leaks into the next SMI. *)
RunDrained == \A c \in Cpu : pc[c] = "runCheck" => Run[c] = 0

(* What SmmWaitForApArrival ensures in traditional mode, whenever its time limits
   expire: while the SMI handlers run no processor executes normal mode code; it
   is in SMM, or it will enter SMM before its next instruction.  Only one of the two
   races can break it. *)
NoNormalModeCode ==
  races = {} /\ ~config.relaxed /\ (\E c \in Cpu : pc[c] \in BspRun) =>
    \A d \in Cpu : pc[d] = "normal" => smiPending[d]

(* A scheduled procedure and its Busy lock: the lock is held until the procedure
   has run (the ASSERT in APHandler), so that none is overwritten, and the BSP
   begins to leave only when every procedure has run. *)
ProceduresComplete ==
  /\ \A d \in Cpu : Procedure[d] \/ pc[d] = "procedure" => Busy[d]
  /\ (\E c \in Cpu : pc[c] \in BspPc \ {"handler", "blockBusy", "drain", "endSync"}) =>
       \A d \in Cpu : ~Procedure[d] /\ pc[d] # "procedure"

(* What a processor saved as the OS's MTRRs is never SMM's, although the threads
   of a core share the registers, and the OS's are back when nobody is in BSPHandler
   or APHandler. *)
MtrrsSavedAndRestored ==
  /\ \A c \in Cpu : loc[c].saved = "os"
  /\ (\A c \in Cpu : pc[c] \notin BspPc \union ApPc) => \A c \in Cpu : mtrr[c] = "os"

(* The SMI handlers and the procedures run with SMM's MTRRs on every processor
   that takes part. *)
HandlersUseSmmMtrrs ==
  config.mtrrs /\ (\E c \in Cpu : pc[c] \in {"handler", "blockBusy", "drain"}) =>
    \A d \in Cpu : Present[d] => mtrr[d] = "smm"

(* Every processor that entered SMM leaves it: no AP waits for a BSP that is
   gone, no BSP for an AP that is not counted. *)
EveryCpuLeaves == \A c \in Cpu : pc[c] # "normal" ~> pc[c] = "normal"

(* The same, until an AP gives up on a BSP that has already come: that is the only
   way in which a processor can be left waiting. *)
EveryCpuLeavesUnlessDeserted ==
  \A c \in Cpu : pc[c] # "normal" ~> pc[c] = "normal" \/ "giveUp" \in races

(* Every SMI is served: after a source became active the SMI handlers begin once
   more, also when it became active while they ran or were about to return.
   Except when SmmSwitchBsp named a processor that comes late: only that one may
   be elected, and the others give up; and when the BSP waits for an AP that gave
   up. *)
SmiServed == due ~> ~due \/ SwitchBsp \/ "giveUp" \in races

=============================================================================
