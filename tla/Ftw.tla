-------------------------------- MODULE Ftw --------------------------------
(***************************************************************************)
(* The fault tolerant write driver:                                        *)
(*   MdeModulePkg/Universal/FaultTolerantWriteDxe/FaultTolerantWrite.c,    *)
(*   FtwMisc.c, UpdateWorkingBlock.c                                       *)
(*                                                                         *)
(* Flash holds the blocks callers update, the working block (the write     *)
(* queue, beside other data that is itself a block a caller may update)    *)
(* and the spare block.  Every operation on flash is a step, power can be  *)
(* lost before each of them, and each can fail; everything the driver      *)
(* keeps in memory is lost with power.  A function that another one calls  *)
(* runs with its return label on stk.                                      *)
(***************************************************************************)
EXTENDS Integers, Sequences, FiniteSetsExt

CONSTANTS
  Block,        \* blocks with content: the targets, and
  WorkBlk,      \* the part of the working block outside the work space
  Version,      \* versions of the content of a block
  Blank,        \* body of an erased cell
  Mixed,        \* body of a cell programmed twice with different values
  Lost,         \* content of an erased or half written block
  Configs       \* the platforms, callers and bounds a run covers, see Config

(* What an erased size field of a header reads as: all ones, a number larger than
   any queue. *)
AllOnes == 1048575

(* queue: cells of the write queue, one for a header or a record; split: the
   working block, and the spare, span several erase blocks; targets, writes and
   private: the blocks callers update, their NumberOfWrites arguments of Allocate
   and whether Write gets private data; services: what they call; failOps: the
   flash operations that may fail; calls, crashes, fails: bounds on service calls,
   power losses and flash errors. *)
Config ==
  [queue : 2..(AllOnes - 1), split : BOOLEAN, targets : SUBSET Block,
   writes : SUBSET (Nat \ {0}), private : SUBSET BOOLEAN,
   services : SUBSET {"allocate", "write", "restart", "abort", "last"},
   failOps : SUBSET STRING, calls : Nat, crashes : Nat, fails : Nat]

ASSUME BlockAssumption ==
  /\ WorkBlk \in Block
  /\ 0 \in Version
  /\ Lost \notin Block \X Version
ASSUME BodyAssumption ==
  /\ Blank # Mixed
  /\ {Blank, Mixed} \cap (Nat \cup Block) = {}
  /\ Block \cap Nat = {}
ASSUME ConfigAssumption == Configs \subseteq Config

VARIABLES
  config,   \* the platform, one of Configs
  target,   \* flash: the blocks other than the working block
  work,     \* flash: the working block
  spare,    \* flash: the spare block
  pc, stk,  \* where the driver is: a label, and the labels its callers resume at
  half,     \* an EraseBlocks call has erased the first blocks only
  d,        \* memory: FtwWorkSpace, its last header and record, local variables
  op,       \* the service call under way, or the last one
  status,   \* what the last function to return an EFI_STATUS returned
  applied,  \* SPARE_COMPLETED of the call under way is on flash
  calls, crashes, fails

flash == <<target, work, spare>>
control == <<pc, stk, half>>
bounds == <<config, calls, crashes, fails>>
vars == <<flash, control, d, op, status, applied, bounds>>

QueueSize == config.queue

(*-------------------------------------------------------------------------*)
(* The write queue                                                         *)
(*-------------------------------------------------------------------------*)

(* State bits of a header, and of a record, in the order of their bytes. *)
HEADER_ALLOCATED == 1
WRITES_ALLOCATED == 2
WRITES_COMPLETED == 4
SPARE_COMPLETED == 2
DEST_COMPLETED == 4

Cells == 1..QueueSize
BlankCell == [bits |-> {}, body |-> Blank]
BlankQueue == [i \in Cells |-> BlankCell]

(* A work space: its header's signature and two state bits, and the queue. *)
BlankSpace == [sig |-> FALSE, valid |-> FALSE, invalid |-> FALSE, q |-> BlankQueue]
Erased == [data |-> Lost, ws |-> BlankSpace]

(* What NumberOfWrites reads as. *)
NumberOfWrites(c) == IF c.body \in Nat THEN c.body ELSE AllOnes

(* FTW_WRITE_TOTAL_SIZE in cells: a header and a record are 40 bytes each, and
   with both sizes all ones the sum wraps around to one byte. *)
WriteTotalSize(n) == IF n = AllOnes THEN 0 ELSE 1 + n

(* Flash bits can be programmed but not unprogrammed. *)
Program(old, new) ==
  [bits |-> old.bits \cup new.bits,
   body |-> IF old.body \in {Blank, new.body} THEN new.body ELSE Mixed]

FtwUpdateFvState(area, i, bit) ==
  [area EXCEPT !.ws.q[i].bits = @ \cup {bit}]

IsValidWorkSpace(ws) == ws.sig /\ ws.valid /\ ~ws.invalid

(* The first header that is not complete; 0 when the queue ends before one.
   Behind a header whose size fields were not written the search ends inside
   that header, at bytes that are not erased and say nothing is allocated. *)
FtwGetLastWriteHeader(q) ==
  LET from[i \in DOMAIN q] ==
        LET next == i + WriteTotalSize(NumberOfWrites(q[i])) IN
        IF WRITES_COMPLETED \notin q[i].bits \/ next = i THEN i
        ELSE IF next \notin DOMAIN q THEN 0 ELSE from[next]
  IN from[1]

(* Mutant: the last record is returned, whatever is written. *)
FtwGetLastWriteRecordLast(q, h) == h + NumberOfWrites(q[h])

(* The first record without DEST_COMPLETED, the last one if there is none. *)
FtwGetLastWriteRecord(q, h) ==
  LET n == NumberOfWrites(q[h])
      open == {k \in DOMAIN q :
                 k <= n /\ (h + k \notin DOMAIN q \/ DEST_COMPLETED \notin q[h + k].bits)}
  IN h + (IF open = {} THEN n ELSE Min(open))

IsFirstRecordOfWrites(h, r) == r = h + 1
IsLastRecordOfWrites(q, h, r) == r = h + NumberOfWrites(q[h])

(*-------------------------------------------------------------------------*)
(* Control                                                                 *)
(*-------------------------------------------------------------------------*)

NoData == [ws |-> BlankSpace, h |-> 1, r |-> 2, off |-> 0, hd |-> 1, rc |-> 2,
           buf |-> Erased, sbuf |-> Erased]

Header == d.ws.q[d.h]
Record == d.ws.q[d.r]

Goto(l) == pc' = l /\ UNCHANGED stk
Call(l, ret) == pc' = l /\ stk' = ret \o stk
Return == pc' = Head(stk) /\ stk' = Tail(stk)

(* A service returns s: to the service that called it, or to the caller. *)
Finish(s, new) ==
  /\ status' = s
  /\ \/ stk # <<>> /\ Return /\ d' = new
     \/ stk = <<>> /\ Goto("idle") /\ d' = NoData

Init ==
  /\ config \in Configs
  /\ target = [b \in Block \ {WorkBlk} |-> <<b, 0>>]
  /\ work = [data |-> <<WorkBlk, 0>>, ws |-> BlankSpace]
  /\ spare = Erased
  /\ pc = "off" /\ stk = <<>> /\ half = FALSE
  /\ d = NoData
  /\ op = [f |-> "init"] /\ status = "SUCCESS" /\ applied = FALSE
  /\ calls = 0 /\ crashes = 0 /\ fails = 0

(*-------------------------------------------------------------------------*)
(* Erasing and copying whole blocks                                        *)
(*-------------------------------------------------------------------------*)

(* EraseBlocks goes through the blocks in order; the work space is in the last. *)
EraseStep(area) == IF config.split /\ ~half THEN [area EXCEPT !.data = Lost] ELSE Erased
EraseEnds == half \/ ~config.split

AfterErase ==
  [rc_erase |-> "rc_copy", rc_clear |-> "rc_restore",
   w_erase |-> "w_copy", w_clear |-> "w_restore"]

FtwEraseSpareBlock ==
  /\ pc \in DOMAIN AfterErase
  /\ spare' = EraseStep(spare)
  /\ half' = ~EraseEnds
  /\ Goto(IF EraseEnds THEN AfterErase[pc] ELSE pc)
  /\ UNCHANGED <<target, work, d, op, status, applied, bounds>>

(*-------------------------------------------------------------------------*)
(* UpdateWorkingBlock.c                                                    *)
(*-------------------------------------------------------------------------*)

(* No header and record fit any more. *)
Full(q) ==
  LET h == FtwGetLastWriteHeader(q) IN h = 0 \/ h - 1 + WriteTotalSize(1) \notin DOMAIN q

(* Mutant: a full work space is read again without being reclaimed. *)
WorkSpaceRefreshFull ==
  /\ pc = "refresh"
  /\ LET h == FtwGetLastWriteHeader(work.ws.q) IN
     \/ Full(work.ws.q) /\ d' = [d EXCEPT !.ws = work.ws] /\ Goto("refresh")
     \/ /\ ~Full(work.ws.q)
        /\ d' = [d EXCEPT !.ws = work.ws, !.h = h, !.r = FtwGetLastWriteRecord(work.ws.q, h)]
        /\ Return
  /\ UNCHANGED <<flash, half, op, status, applied, bounds>>

(* Read the work space; reclaim it when it is full, before anything looks at
   whether it is valid. *)
WorkSpaceRefresh ==
  /\ pc = "refresh"
  /\ LET h == FtwGetLastWriteHeader(work.ws.q) IN
     \/ /\ Full(work.ws.q)
        /\ d' = [d EXCEPT !.ws = work.ws]
        /\ Call("reclaim", <<"reread">>)
     \/ /\ ~Full(work.ws.q)
        /\ d' = [d EXCEPT !.ws = work.ws, !.h = h, !.r = FtwGetLastWriteRecord(work.ws.q, h)]
        /\ Return
  /\ UNCHANGED <<flash, half, op, status, applied, bounds>>

(* The queue that was just reclaimed always has a header to return. *)
Reread ==
  /\ pc = "reread"
  /\ LET h == FtwGetLastWriteHeader(work.ws.q) IN
     /\ h # 0
     /\ d' = [d EXCEPT !.ws = work.ws, !.h = h, !.r = FtwGetLastWriteRecord(work.ws.q, h)]
  /\ Return
  /\ UNCHANGED <<flash, half, op, status, applied, bounds>>

(* The header the new queue keeps, with its records: the one not complete. *)
Kept(q) ==
  LET h == FtwGetLastWriteHeader(q)
      size == WriteTotalSize(NumberOfWrites(q[h]))
  IN IF h # 0 /\ HEADER_ALLOCATED \in q[h].bits /\ WRITES_COMPLETED \notin q[h].bits
     THEN [i \in DOMAIN q |->
             IF i <= size /\ h + i - 1 \in DOMAIN q THEN q[h + i - 1] ELSE BlankCell]
     ELSE [i \in DOMAIN q |-> BlankCell]

(* Build the new work space in memory, and save the spare block in memory. *)
FtwReclaimWorkSpace ==
  /\ pc \in {"reclaim", "reclaim_fresh"}
  /\ LET q == IF pc = "reclaim" THEN Kept(d.ws.q) ELSE BlankQueue
         new == [d.ws EXCEPT !.q = q]
         h == FtwGetLastWriteHeader(q)
     IN d' = [d EXCEPT !.ws = new, !.h = h, !.r = FtwGetLastWriteRecord(q, h),
                       !.buf = [data |-> work.data,
                                ws |-> [new EXCEPT !.valid = FALSE, !.invalid = FALSE]],
                       !.sbuf = spare]
  /\ Goto("rc_erase")
  /\ UNCHANGED <<flash, half, op, status, applied, bounds>>

ReclaimCopy ==
  /\ pc = "rc_copy"
  /\ spare' = d.buf
  /\ Goto("rc_valid")
  /\ UNCHANGED <<target, work, half, d, op, status, applied, bounds>>

ReclaimSetSpareValid ==
  /\ pc = "rc_valid"
  /\ spare' = [spare EXCEPT !.ws.valid = TRUE]
  /\ Goto("rc_invalid")
  /\ UNCHANGED <<target, work, half, d, op, status, applied, bounds>>

ReclaimSetWorkInvalid ==
  /\ pc = "rc_invalid"
  /\ work' = [work EXCEPT !.ws.invalid = TRUE]
  /\ d' = [d EXCEPT !.ws.invalid = TRUE]
  /\ Call("f_spare", <<"rc_clear">>)
  /\ UNCHANGED <<target, spare, half, op, status, applied, bounds>>

ReclaimRestore ==
  /\ pc = "rc_restore"
  /\ spare' = d.sbuf
  /\ Return
  /\ UNCHANGED <<target, work, half, d, op, status, applied, bounds>>

(*-------------------------------------------------------------------------*)
(* FlushSpareBlockToWorkingBlock                                           *)
(*-------------------------------------------------------------------------*)

FlushSetSpareValid ==
  /\ pc = "f_spare"
  /\ spare' = [spare EXCEPT !.ws.valid = TRUE]
  /\ Goto("f_invalid")
  /\ UNCHANGED <<target, work, half, d, op, status, applied, bounds>>

(* The copy gets a header with both state bits erased. *)
FlushSetWorkInvalid ==
  /\ pc = "f_invalid"
  /\ work' = [work EXCEPT !.ws.invalid = TRUE]
  /\ d' = [d EXCEPT !.buf = [spare EXCEPT !.ws.sig = TRUE, !.ws.valid = FALSE, !.ws.invalid = FALSE],
                    !.ws.invalid = TRUE]
  /\ Goto("f_erase")
  /\ UNCHANGED <<target, spare, half, op, status, applied, bounds>>

FlushErase ==
  /\ pc = "f_erase"
  /\ work' = EraseStep(work)
  /\ half' = ~EraseEnds
  /\ Goto(IF EraseEnds THEN "f_copy" ELSE pc)
  /\ UNCHANGED <<target, spare, d, op, status, applied, bounds>>

FlushCopy ==
  /\ pc = "f_copy"
  /\ work' = d.buf
  /\ Goto("f_valid")
  /\ UNCHANGED <<target, spare, half, d, op, status, applied, bounds>>

FlushSetWorkValid ==
  /\ pc = "f_valid"
  /\ work' = [work EXCEPT !.ws.valid = TRUE]
  /\ d' = [d EXCEPT !.ws.valid = TRUE, !.ws.invalid = FALSE]
  /\ Return
  /\ UNCHANGED <<target, spare, half, op, status, applied, bounds>>

(*-------------------------------------------------------------------------*)
(* FtwAllocate                                                             *)
(*-------------------------------------------------------------------------*)

(* NumberOfWrites of the allocation under way: Write allocates for itself alone. *)
Number == IF op.f = "allocate" THEN op.n ELSE 1

AllocateCheck ==
  /\ pc = "a_check"
  /\ \/ /\ WriteTotalSize(Number) > QueueSize
        /\ Finish("BUFFER_TOO_SMALL", d)
     \/ /\ WriteTotalSize(Number) <= QueueSize
        /\ Header.bits \cap {HEADER_ALLOCATED, WRITES_ALLOCATED} # {}
        /\ Finish("ACCESS_DENIED", d)
     \/ /\ WriteTotalSize(Number) <= QueueSize
        /\ Header.bits \cap {HEADER_ALLOCATED, WRITES_ALLOCATED} = {}
        /\ d' = [d EXCEPT !.off = d.h]
        /\ \/ d.h - 1 + WriteTotalSize(Number) > QueueSize /\ Call("reclaim", <<"a_header">>)
           \/ d.h - 1 + WriteTotalSize(Number) <= QueueSize /\ Goto("a_header")
        /\ UNCHANGED status
  /\ UNCHANGED <<flash, half, op, applied, bounds>>

(* The header is made in memory at the last header, and goes to flash at off. *)
AllocateHeader ==
  /\ pc = "a_header"
  /\ LET new == [bits |-> {HEADER_ALLOCATED}, body |-> Number] IN
     /\ d' = [d EXCEPT !.ws.q[d.h] = new]
     /\ work' = [work EXCEPT !.ws.q[d.off] = Program(@, new)]
  /\ Goto("a_writes")
  /\ UNCHANGED <<target, spare, half, op, status, applied, bounds>>

AllocateWrites ==
  /\ pc = "a_writes"
  /\ work' = FtwUpdateFvState(work, d.off, WRITES_ALLOCATED)
  /\ Finish("SUCCESS", d)
  /\ UNCHANGED <<target, spare, half, op, applied, bounds>>

(*-------------------------------------------------------------------------*)
(* FtwWriteRecord                                                          *)
(*-------------------------------------------------------------------------*)

(* A record for the working block is also marked in the copy that is flushed. *)
WriteRecordStart ==
  /\ pc = "t_start"
  /\ \/ /\ Record.body = WorkBlk
        /\ spare' = FtwUpdateFvState(spare, d.r, SPARE_COMPLETED)
        /\ Call("f_spare", <<"t_dest">>)
        /\ UNCHANGED <<target, d>>
     \/ /\ Record.body # WorkBlk
        /\ d' = [d EXCEPT !.buf = spare]
        /\ target' = [target EXCEPT ![Record.body] = Lost]
        /\ Goto("t_copy")
        /\ UNCHANGED spare
  /\ UNCHANGED <<work, half, op, status, applied, bounds>>

FlushSpareBlockToTargetBlock ==
  /\ pc = "t_copy"
  /\ target' = [target EXCEPT ![Record.body] = d.buf.data]
  /\ Goto("t_dest")
  /\ UNCHANGED <<work, spare, half, d, op, status, applied, bounds>>

WriteRecordDest ==
  /\ pc = "t_dest"
  /\ work' = FtwUpdateFvState(work, d.r, DEST_COMPLETED)
  /\ d' = [d EXCEPT !.ws.q[d.r].bits = @ \cup {DEST_COMPLETED}]
  /\ \/ IsLastRecordOfWrites(d.ws.q, d.h, d.r) /\ Goto("t_done")
     \/ ~IsLastRecordOfWrites(d.ws.q, d.h, d.r) /\ Return
  /\ UNCHANGED <<target, spare, half, op, status, applied, bounds>>

(* Mutant: the header is marked in memory only. *)
WriteRecordDoneInMemory ==
  /\ pc = "t_done"
  /\ d' = [d EXCEPT !.ws.q[d.h].bits = @ \cup {WRITES_COMPLETED}]
  /\ Return
  /\ UNCHANGED <<flash, half, op, status, applied, bounds>>

WriteRecordDone ==
  /\ pc = "t_done"
  /\ work' = FtwUpdateFvState(work, d.h, WRITES_COMPLETED)
  /\ d' = [d EXCEPT !.ws.q[d.h].bits = @ \cup {WRITES_COMPLETED}]
  /\ Return
  /\ UNCHANGED <<target, spare, half, op, status, applied, bounds>>

(*-------------------------------------------------------------------------*)
(* FtwWrite                                                                *)
(*-------------------------------------------------------------------------*)

(* Header and Record are taken before the nested allocation and used after. *)
WriteStart ==
  /\ pc = "w_start"
  /\ d' = [d EXCEPT !.hd = d.h, !.rc = d.r]
  /\ \/ Header # BlankCell /\ Goto("w_check") /\ status' = "SUCCESS"
     \/ Header = BlankCell /\ ~op.priv /\ Call("refresh", <<"a_check", "w_check">>) /\ UNCHANGED status
  /\ UNCHANGED <<flash, half, op, applied, bounds>>

WriteNotAllocated ==
  /\ pc = "w_start"
  /\ Header = BlankCell /\ op.priv
  /\ Finish("NOT_READY", d)
  /\ UNCHANGED <<flash, half, op, applied, bounds>>

(* The early returns of FtwWrite, in order; "SUCCESS" when it goes on. *)
WriteVerdict ==
  LET hdr == d.ws.q[d.hd]
      rec == d.ws.q[d.rc]
  IN IF status # "SUCCESS" THEN status
     ELSE IF \/ d.rc - d.hd > WriteTotalSize(NumberOfWrites(hdr) - 1)
             \/ WRITES_COMPLETED \in hdr.bits
             \/ DEST_COMPLETED \in rec.bits
          THEN "ACCESS_DENIED"
     ELSE IF SPARE_COMPLETED \in rec.bits THEN "NOT_READY" ELSE "SUCCESS"

WriteRefused ==
  /\ pc = "w_check"
  /\ WriteVerdict # "SUCCESS"
  /\ Finish(WriteVerdict, d)
  /\ UNCHANGED <<flash, half, op, applied, bounds>>

(* The block read from flash with the caller's range replaced in memory. *)
Overlaid(image, b, v) == IF image = Lost THEN Lost ELSE <<b, v>>

(* Write the record, then read the target and the spare block into memory. *)
WriteRecord ==
  /\ pc = "w_check"
  /\ WriteVerdict = "SUCCESS"
  /\ LET new == [d.ws.q[d.rc] EXCEPT !.body = op.b]
         w == [work EXCEPT !.ws.q[d.rc] = Program(@, new)]
     IN /\ work' = w
        /\ d' = [d EXCEPT
             !.ws.q[d.rc] = new,
             !.buf = IF op.b = WorkBlk
                     THEN [data |-> Overlaid(work.data, op.b, op.v), ws |-> w.ws]
                     ELSE [data |-> Overlaid(target[op.b], op.b, op.v), ws |-> BlankSpace],
             !.sbuf = spare]
  /\ Goto("w_erase")
  /\ UNCHANGED <<target, spare, half, op, status, applied, bounds>>

WriteCopy ==
  /\ pc = "w_copy"
  /\ spare' = d.buf
  /\ Goto("w_spare")
  /\ UNCHANGED <<target, work, half, d, op, status, applied, bounds>>

WriteSpareCompleted ==
  /\ pc = "w_spare"
  /\ work' = FtwUpdateFvState(work, d.rc, SPARE_COMPLETED)
  /\ d' = [d EXCEPT !.ws.q[d.rc].bits = @ \cup {SPARE_COMPLETED}]
  /\ applied' = TRUE
  /\ Call("t_start", <<"w_clear">>)
  /\ UNCHANGED <<target, spare, half, op, status, bounds>>

WriteRestore ==
  /\ pc = "w_restore"
  /\ spare' = d.sbuf
  /\ Finish("SUCCESS", d)
  /\ UNCHANGED <<target, work, half, op, applied, bounds>>

(*-------------------------------------------------------------------------*)
(* FtwRestart, FtwAbort, FtwGetLastWrite                                   *)
(*-------------------------------------------------------------------------*)

RestartRefused ==
  /\ pc = "s_check"
  /\ \/ /\ WRITES_COMPLETED \in Header.bits \/ DEST_COMPLETED \in Record.bits
        /\ Finish("ACCESS_DENIED", d)
     \/ /\ WRITES_COMPLETED \notin Header.bits
        /\ Record.bits \cap {SPARE_COMPLETED, DEST_COMPLETED} = {}
        /\ Finish("ABORTED", d)
  /\ UNCHANGED <<flash, half, op, applied, bounds>>

FtwRestart ==
  /\ pc = "s_check"
  /\ WRITES_COMPLETED \notin Header.bits
  /\ SPARE_COMPLETED \in Record.bits /\ DEST_COMPLETED \notin Record.bits
  /\ Call("t_start", <<"s_clear">>)
  /\ UNCHANGED <<flash, half, d, op, status, applied, bounds>>

RestartErase ==
  /\ pc = "s_clear"
  /\ spare' = EraseStep(spare)
  /\ half' = ~EraseEnds
  /\ \/ EraseEnds /\ Finish("SUCCESS", d)
     \/ ~EraseEnds /\ Goto(pc) /\ UNCHANGED <<d, status>>
  /\ UNCHANGED <<target, work, op, applied, bounds>>

AbortNothing ==
  /\ pc = "b_check"
  /\ HEADER_ALLOCATED \notin Header.bits \/ WRITES_COMPLETED \in Header.bits
  /\ Finish("NOT_FOUND", d)
  /\ UNCHANGED <<flash, half, op, applied, bounds>>

FtwAbort ==
  /\ pc = "b_check"
  /\ HEADER_ALLOCATED \in Header.bits /\ WRITES_COMPLETED \notin Header.bits
  /\ work' = FtwUpdateFvState(work, d.h, WRITES_COMPLETED)
  /\ Finish("SUCCESS", [d EXCEPT !.ws.q[d.h].bits = @ \cup {WRITES_COMPLETED}])
  /\ UNCHANGED <<target, spare, half, op, applied, bounds>>

(* All records are written and the header is not marked. *)
AllWritten ==
  /\ WRITES_COMPLETED \notin Header.bits
  /\ DEST_COMPLETED \in Record.bits
  /\ IsLastRecordOfWrites(d.ws.q, d.h, d.r)

(* No record of an allocated header can be restarted. *)
NothingSpared ==
  /\ HEADER_ALLOCATED \in Header.bits
  /\ SPARE_COMPLETED \notin Record.bits
  /\ IsFirstRecordOfWrites(d.h, d.r)

FtwGetLastWrite ==
  /\ pc = "l_check"
  /\ \/ /\ AllWritten \/ NothingSpared
        /\ Call("refresh", <<"b_check", "l_abort">>)
        /\ UNCHANGED <<d, status>>
     \/ /\ ~AllWritten /\ HEADER_ALLOCATED \notin Header.bits
        /\ Finish("NOT_FOUND", d)
     \/ /\ ~AllWritten /\ ~NothingSpared /\ HEADER_ALLOCATED \in Header.bits
        /\ Finish("SUCCESS", d)
  /\ UNCHANGED <<flash, half, op, applied, bounds>>

GetLastWriteAborted ==
  /\ pc = "l_abort"
  /\ Finish("NOT_FOUND", d)
  /\ UNCHANGED <<flash, half, op, applied, bounds>>

(*-------------------------------------------------------------------------*)
(* InitFtwProtocol                                                         *)
(*-------------------------------------------------------------------------*)

Boot ==
  /\ pc = "off"
  /\ Call("refresh", <<"i_valid">>)
  /\ op' = [f |-> "init"]
  /\ UNCHANGED <<flash, half, d, status, applied, bounds>>

(* An invalid work space is taken from the spare block, or made anew. *)
InitWorkSpace ==
  /\ pc = "i_valid"
  /\ \/ /\ IsValidWorkSpace(d.ws)
        /\ Goto("i_first")
        /\ UNCHANGED d
     \/ /\ ~IsValidWorkSpace(d.ws) /\ IsValidWorkSpace(spare.ws)
        /\ d' = [d EXCEPT !.ws = spare.ws]
        /\ Call("f_spare", <<"refresh", "b_check", "refresh", "i_first">>)
     \/ /\ ~IsValidWorkSpace(d.ws) /\ ~IsValidWorkSpace(spare.ws)
        /\ d' = [d EXCEPT !.ws = [BlankSpace EXCEPT !.sig = TRUE, !.valid = TRUE]]
        /\ Call("reclaim_fresh", <<"i_first">>)
  /\ UNCHANGED <<flash, half, op, status, applied, bounds>>

InitAbortFirst ==
  /\ pc = "i_first"
  /\ \/ NothingSpared /\ Call("refresh", <<"b_check", "i_last">>)
     \/ ~NothingSpared /\ Goto("i_last")
  /\ UNCHANGED <<flash, half, d, op, status, applied, bounds>>

(* Mutant: a header whose records are all written is left alone. *)
InitAbortLastNever ==
  /\ pc = "i_last"
  /\ Goto("i_tail")
  /\ UNCHANGED <<flash, half, d, op, status, applied, bounds>>

InitAbortLast ==
  /\ pc = "i_last"
  /\ \/ AllWritten /\ Call("refresh", <<"b_check", "i_tail">>)
     \/ ~AllWritten /\ Goto("i_tail")
  /\ UNCHANGED <<flash, half, d, op, status, applied, bounds>>

(* Mutant: the size of the last header and its records is not skipped. *)
TrailingFromHeader == \E i \in Cells : i >= d.h /\ d.ws.q[i] # BlankCell

(* What follows the last header and its records is not erased. *)
Trailing ==
  LET from == d.h + (IF Header.bits = {} THEN 0 ELSE WriteTotalSize(NumberOfWrites(Header)))
  IN \E i \in Cells : i >= from /\ d.ws.q[i] # BlankCell

InitReclaim ==
  /\ pc = "i_tail"
  /\ \/ Trailing /\ Call("reclaim", <<"i_restart">>)
     \/ ~Trailing /\ Goto("i_restart")
  /\ UNCHANGED <<flash, half, d, op, status, applied, bounds>>

(* Mutant: a pending write is aborted, not finished. *)
InitRestartAborts ==
  /\ pc = "i_restart"
  /\ LET pending == WRITES_COMPLETED \notin Header.bits /\ SPARE_COMPLETED \in Record.bits IN
     \/ ~pending /\ Goto("i_done")
     \/ pending /\ Call("refresh", <<"b_check", "i_done">>)
  /\ UNCHANGED <<flash, half, d, op, status, applied, bounds>>

(* A write whose data is complete in the spare block is finished; a record
   whose address leads to no volume is only aborted. *)
InitRestart ==
  /\ pc = "i_restart"
  /\ LET pending == WRITES_COMPLETED \notin Header.bits /\ SPARE_COMPLETED \in Record.bits IN
     \/ ~pending /\ Goto("i_done")
     \/ pending /\ Call("refresh", IF Record.body \in Block THEN <<"s_check", "i_abort">>
                                  ELSE <<"b_check", "i_done">>)
  /\ UNCHANGED <<flash, half, d, op, status, applied, bounds>>

InitRestarted ==
  /\ pc = "i_abort"
  /\ Call("refresh", <<"b_check", "i_done">>)
  /\ UNCHANGED <<flash, half, d, op, status, applied, bounds>>

InitDone ==
  /\ pc = "i_done"
  /\ Goto("idle")
  /\ d' = NoData
  /\ UNCHANGED <<flash, half, op, status, applied, bounds>>

(*-------------------------------------------------------------------------*)
(* Callers, power loss and flash errors                                    *)
(*-------------------------------------------------------------------------*)

Request(o, label) ==
  /\ pc = "idle" /\ calls < config.calls
  /\ o.f \in config.services
  /\ Call("refresh", <<label>>)
  /\ op' = o
  /\ status' = "SUCCESS"
  /\ applied' = FALSE
  /\ calls' = calls + 1
  /\ UNCHANGED <<config, flash, half, d, crashes, fails>>

CallAllocate == \E n \in config.writes : Request([f |-> "allocate", n |-> n], "a_check")
CallWrite ==
  \E b \in config.targets, v \in Version, p \in config.private :
    Request([f |-> "write", b |-> b, v |-> v, priv |-> p], "w_start")
CallRestart == Request([f |-> "restart"], "s_check")
CallAbort == Request([f |-> "abort"], "b_check")
CallGetLastWrite == Request([f |-> "last"], "l_check")

Reset ==
  /\ pc # "off" /\ crashes < config.crashes
  /\ pc' = "off" /\ stk' = <<>> /\ half' = FALSE
  /\ d' = NoData
  /\ op' = [f |-> "init"] /\ status' = "SUCCESS" /\ applied' = FALSE
  /\ crashes' = crashes + 1
  /\ UNCHANGED <<config, target, spare, calls, fails>>

PowerLoss == Reset /\ UNCHANGED work

(* Power is lost while a header is written: its size fields are not. *)
PowerLossInHeader ==
  /\ pc = "a_header"
  /\ work' = [work EXCEPT !.ws.q[d.off] = Program(@, [bits |-> {HEADER_ALLOCATED}, body |-> Mixed])]
  /\ Reset

(* Flash operations whose error makes every function up to the caller return.
   The one that is ignored, f_spare, only sets a bit again. *)
FlashOps ==
  DOMAIN AfterErase \cup
  {"rc_copy", "rc_valid", "rc_invalid", "rc_restore", "f_invalid", "f_erase", "f_copy", "f_valid",
   "a_header", "a_writes", "t_start", "t_copy", "t_dest", "t_done",
   "w_copy", "w_spare", "w_restore", "s_clear"}
ASSUME FailAssumption == \A c \in Configs : c.failOps \subseteq FlashOps

FlashError ==
  /\ pc \in config.failOps /\ op.f # "init" /\ fails < config.fails
  /\ pc' = "idle" /\ stk' = <<>> /\ half' = FALSE
  /\ d' = NoData
  /\ status' = "ABORTED"
  /\ fails' = fails + 1
  /\ UNCHANGED <<config, flash, op, applied, calls, crashes>>

(* Callers need not call again. *)
Quiet == pc = "idle" /\ calls = config.calls /\ UNCHANGED vars

Step ==
  \/ FtwEraseSpareBlock \/ WorkSpaceRefresh \/ Reread
  \/ FtwReclaimWorkSpace \/ ReclaimCopy \/ ReclaimSetSpareValid \/ ReclaimSetWorkInvalid
  \/ ReclaimRestore
  \/ FlushSetSpareValid \/ FlushSetWorkInvalid \/ FlushErase \/ FlushCopy \/ FlushSetWorkValid
  \/ AllocateCheck \/ AllocateHeader \/ AllocateWrites
  \/ WriteRecordStart \/ FlushSpareBlockToTargetBlock \/ WriteRecordDest \/ WriteRecordDone
  \/ WriteStart \/ WriteNotAllocated \/ WriteRefused \/ WriteRecord \/ WriteCopy
  \/ WriteSpareCompleted \/ WriteRestore
  \/ RestartRefused \/ FtwRestart \/ RestartErase \/ AbortNothing \/ FtwAbort
  \/ FtwGetLastWrite \/ GetLastWriteAborted
  \/ Boot \/ InitWorkSpace \/ InitAbortFirst \/ InitAbortLast \/ InitReclaim \/ InitRestart \/ InitRestarted
  \/ InitDone

Callers == CallAllocate \/ CallWrite \/ CallRestart \/ CallAbort \/ CallGetLastWrite

Next == Step \/ Callers \/ PowerLoss \/ PowerLossInHeader \/ FlashError \/ Quiet

Spec == Init /\ [][Next]_vars
FairSpec == Spec /\ WF_vars(Step)

(*-------------------------------------------------------------------------*)
(* Properties                                                              *)
(*-------------------------------------------------------------------------*)

Image == {Lost} \cup (Block \X Version)
Cell == [bits : SUBSET {1, 2, 4}, body : {Blank, Mixed} \cup (1..QueueSize) \cup Block]
Space == [sig : BOOLEAN, valid : BOOLEAN, invalid : BOOLEAN, q : [Cells -> Cell]]
Area == [data : Image, ws : Space]

(* Every variable, and every field of the driver's memory, has its type. *)
TypeOK ==
  /\ config \in Configs
  /\ target \in [Block \ {WorkBlk} -> Image]
  /\ work \in Area /\ spare \in Area
  /\ half \in BOOLEAN /\ applied \in BOOLEAN
  /\ d \in [ws : Space, h : Cells, r : Cells, off : 0..QueueSize, hd : Cells, rc : Cells,
           buf : Area, sbuf : Area]
  /\ calls \in 0..config.calls /\ crashes \in 0..config.crashes /\ fails \in 0..config.fails

(* A record of work space ws says that the spare block has the data of a write
   whose target may be damaged. *)
LastRecord(ws) == ws.q[FtwGetLastWriteRecord(ws.q, FtwGetLastWriteHeader(ws.q))]
Pending(ws) ==
  /\ IsValidWorkSpace(ws)
  /\ FtwGetLastWriteHeader(ws.q) # 0
  /\ HEADER_ALLOCATED \in ws.q[FtwGetLastWriteHeader(ws.q)].bits
  /\ SPARE_COMPLETED \in LastRecord(ws).bits
  /\ DEST_COMPLETED \notin LastRecord(ws).bits

(* Recovery takes the working block from the spare block. *)
WorkFromSpare ==
  ~IsValidWorkSpace(work.ws) /\ IsValidWorkSpace(spare.ws) /\ ~Full(work.ws.q)

(* What recovery leaves in block b. *)
Recovered(b) ==
  IF \/ Pending(work.ws) /\ LastRecord(work.ws).body = b
     \/ b = WorkBlk /\ WorkFromSpare
  THEN spare.data
  ELSE IF b = WorkBlk THEN work.data ELSE target[b]

InWrite == op.f = "write" /\ pc \notin {"idle", "off"}

Store == INSTANCE AtomicStore WITH
  content <- [b \in Block |-> Recovered(b)],
  call <- IF InWrite THEN [busy |-> TRUE, b |-> op.b, v |-> op.v, done |-> applied]
          ELSE [busy |-> FALSE],
  reply <- IF op.f # "write" \/ InWrite \/ pc = "off" THEN "none"
           ELSE IF status = "SUCCESS" THEN "success" ELSE "error"

(* FtwWrite updates a block "ensuring at all times that either the original
   contents or the modified contents are available": with power lost before any
   flash operation, recovery included, the driver behaves as a store in which an
   update happens at once or not at all, and has happened when FtwWrite returns
   EFI_SUCCESS. *)
WritesAreAtomic == Store!Spec

(* "either the original contents or the modified contents are available": when
   no flash operation failed and the driver is ready, every block has contents. *)
ContentsAvailable ==
  pc = "idle" /\ fails = 0 => work.data # Lost /\ \A b \in DOMAIN target : target[b] # Lost

(* FtwReclaimWorkSpace keeps what was in the spare block only in memory: it is
   never run while that is the only intact copy of a block. *)
ReclaimKeepsPending == pc = "rc_erase" => ~Pending(work.ws)

(* ASSERT_EFI_ERROR of InitFtwProtocol: the restart of a pending write succeeds. *)
InitRestartSucceeds == pc = "i_abort" => status = "SUCCESS"

(* After recovery the driver is usable: without flash errors, a write that needs
   no allocation is never refused, whatever was interrupted before. *)
WriteNeverRefused ==
  pc = "idle" /\ op.f = "write" /\ ~op.priv /\ fails = 0 => status = "SUCCESS"

(* FtwAllocate "enables the protocol to ensure that enough space exists to track
   information about the upcoming writes" (FaultTolerantWrite.c:51): when it
   returns EFI_SUCCESS, the header the next FtwWrite finds on flash is the one it
   allocated. The code does not ensure it when FtwAllocate itself reclaims. *)
AllocationFound ==
  pc = "idle" /\ op.f = "allocate" /\ status = "SUCCESS" =>
    LET h == FtwGetLastWriteHeader(work.ws.q) IN
    /\ h # 0
    /\ work.ws.q[h] = [bits |-> {HEADER_ALLOCATED, WRITES_ALLOCATED}, body |-> op.n]

(* Recovery ends, however often it is interrupted. *)
RecoveryEnds == pc = "off" ~> pc = "idle"

=============================================================================
