--------------------------- MODULE VariableStore ---------------------------
(* The variable driver (MdeModulePkg/Universal/Variable/RuntimeDxe/Variable.c,
   Reclaim.c, VariableDxe.c): SetVariable, GetVariable, GetNextVariableName and
   the garbage collection of the store.

   A store is a log of records.  A record is never changed in place: an update
   marks the old record VAR_IN_DELETED_TRANSITION, adds a new one in four writes,
   and marks the old one VAR_DELETED.  The non-volatile log is on flash, where
   power may fail between any two writes, with a copy in memory that all reads
   use; the volatile log is in memory only.  When there is no room left, Reclaim
   writes the records that are still wanted to the start of the store through the
   fault tolerant write protocol, which does it at once or not at all (Ftw).

   Sizes are counted in units: one for the header and the name of a record, one
   for each element of its data.  The driver is sequential (VariableServicesLock,
   and the operating system's own serialisation at runtime); one step is one write
   to flash.  No variable comes from a HOB, no variable is authenticated, and
   there are no hardware error records (PcdHwErrStorageSize is 0). *)
EXTENDS Naturals, Sequences, FiniteSets

CONSTANTS
  Name,        \* name and GUID of a variable
  Datum,       \* an element of a variable's data
  Inputs,      \* the data callers pass to SetVariable: sequences of Datum
  MaxData,     \* the longest data MaxVariableSize allows
  VolatileSpace,   \* PcdVariableStoreSize, in units
  Configs      \* the platforms and bounds a run covers, see Config

(* space: CommonVariableSpace; reserve: PcdBoottimeReservedNvVariableSpaceSize;
   attributes: what callers pass to SetVariable; os: an operating system is started;
   calls, crashes, errors: bounds on how often SetVariable is called, the machine
   is restarted and a flash service fails. *)
Config == [space : Nat, reserve : Nat, attributes : SUBSET SUBSET {"BS", "RT", "NV"},
           os : BOOLEAN, calls : Nat, crashes : Nat, errors : Nat]

ASSUME VariableAssumption ==
  /\ Inputs \subseteq Seq(Datum)
  /\ MaxData \in Nat /\ VolatileSpace \in Nat
  /\ Configs \subseteq Config
  /\ \A c \in Configs : c.reserve <= c.space
  /\ \A c \in Configs : \A attr \in c.attributes : "RT" \in attr => "BS" \in attr

VARIABLES
  config,
  flash,      \* the log on flash
  high,       \* units of flash that are not erased any more, from the start
  cache,      \* mNvVariableCache
  last,       \* NonVolatileLastVariableOffset, as the records that precede it
  total,      \* CommonVariableTotalSize
  volatile,   \* the volatile log
  runtime,    \* AtRuntime ()
  reclaimed,  \* Reclaimed of ReclaimForOS
  pc, op,     \* the SetVariable under way: where it is, and its arguments
  status,     \* what the last SetVariable returned, "none" while it has not
  calls, crashes, errors,   \* how much of the bounds is used
  twin        \* history, of no effect: a Reclaim for a new record has run over Twins

flashVars == <<flash, high>>
nvVars == <<flash, high, cache, last, total>>
bootVars == <<config, runtime, reclaimed>>
used == <<calls, crashes, errors, twin>>
vars == <<nvVars, volatile, bootVars, pc, op, status, used>>

(* 0xff, VAR_HEADER_VALID_ONLY, VAR_ADDED, VAR_IN_DELETED_TRANSITION and
   VAR_DELETED: each state clears more bits of the byte than the one before. *)
State == {"blank", "headerValid", "added", "inDeleted", "deleted"}

Value == UNION {[1 .. n -> Datum] : n \in 0 .. MaxData}
Record == [name : Name, attr : SUBSET {"BS", "RT", "NV"}, data : Value, state : State]

(* curr and trans: the CurrPtr and InDeletedTransitionPtr found for the name, 0 if
   NULL; nv: the call is about the non-volatile store; value: what the variable is
   to be; done: it is. *)
NoOp == [nv |-> FALSE, name |-> "", attr |-> {}, value |-> <<>>, curr |-> 0,
         trans |-> 0, done |-> FALSE]

FlashPc == {"markOld", "header", "headerValid", "data", "added", "delTrans", "delCurr"}
Pc == {"start", "idle", "unchanged", "refused", "volatile", "volatileDelete",
       "space", "reclaim", "return", "unpredictable"} \union FlashPc

TypeOK ==
  /\ config \in Configs
  /\ flash \in Seq(Record) /\ cache \in Seq(Record) /\ volatile \in Seq(Record)
  /\ last \in 0 .. Len(flash)
  /\ high \in 0 .. config.space /\ total \in 0 .. config.space
  /\ runtime \in BOOLEAN /\ reclaimed \in BOOLEAN
  /\ pc \in Pc
  /\ op.curr \in Nat /\ op.trans \in Nat /\ op.value \in Value
  /\ pc \in FlashPc => op.curr <= last /\ op.trans <= last
  /\ status \in {"none", "success", "error"}

-----------------------------------------------------------------------------
(* Logs. *)

(* GetNextVariablePtr: the sizes in a header count once State is written. *)
RecordSize(r) == IF r.state = "blank" THEN 1 ELSE 1 + Len(r.data)

SizeOf(log) ==
  LET size[i \in 0 .. Len(log)] == IF i = 0 THEN 0 ELSE size[i - 1] + RecordSize(log[i])
  IN  size[Len(log)]

Prefix(log) == SubSeq(log, 1, last)
SetState(log, i, s) == IF i = 0 THEN log ELSE [log EXCEPT ![i].state = s]

(* The element of a set of indices that comes first or last, 0 if it is empty. *)
FirstOf(S) == IF S = {} THEN 0 ELSE CHOOSE i \in S : \A j \in S : i <= j
LastOf(S) == IF S = {} THEN 0 ELSE CHOOSE i \in S : \A j \in S : j <= i

(* What FindVariableEx looks at; at runtime it looks only at variables with
   runtime access unless IgnoreRtCheck. *)
Visible(r, ignoreRt) ==
  r.state \in {"added", "inDeleted"} /\ (ignoreRt \/ ~runtime \/ "RT" \in r.attr)

FindVariableEx(log, k, ignoreRt) ==
  LET copies == {i \in DOMAIN log : log[i].name = k /\ Visible(log[i], ignoreRt)}
      added  == FirstOf({i \in copies : log[i].state = "added"})
  IN  IF added # 0
      THEN [curr |-> added, trans |-> LastOf({i \in copies : i < added})]
      ELSE [curr |-> LastOf(copies), trans |-> 0]

(* As if volatile variables without runtime access were never found at runtime. *)
FindVariableRtChecked(k, ignoreRt) ==
  LET v == FindVariableEx(volatile, k, FALSE)
      n == FindVariableEx(cache, k, ignoreRt)
  IN  IF v.curr # 0
      THEN [nv |-> FALSE, curr |-> v.curr, trans |-> v.trans, log |-> volatile]
      ELSE [nv |-> TRUE, curr |-> n.curr, trans |-> n.trans, log |-> cache]

(* FindVariable looks into the volatile store first. *)
FindVariable(k, ignoreRt) ==
  LET v == FindVariableEx(volatile, k, ignoreRt)
      n == FindVariableEx(cache, k, ignoreRt)
  IN  IF v.curr # 0
      THEN [nv |-> FALSE, curr |-> v.curr, trans |-> v.trans, log |-> volatile]
      ELSE [nv |-> TRUE, curr |-> n.curr, trans |-> n.trans, log |-> cache]

(* The records of log at the indices in S, in order and VAR_ADDED. *)
Reinstall(log, S) ==
  LET copied[i \in 0 .. Len(log)] ==
        IF i = 0 THEN <<>>
        ELSE IF i \in S THEN Append(copied[i - 1], [log[i] EXCEPT !.state = "added"])
        ELSE copied[i - 1]
  IN  copied[Len(log)]

(* As if Reclaim reinstalled the ADDED records only. *)
PromotedNone(log, added, inDeleted) == {}

(* The indices Reclaim promotes from VAR_IN_DELETED_TRANSITION: the first of a
   name of which the buffer has no record yet. *)
PromotedFirst(log, added, inDeleted) ==
  {i \in inDeleted : \A j \in added \union inDeleted :
     log[j].name = log[i].name => j \in inDeleted /\ i <= j}

(* The buffer Reclaim fills: the ADDED records but the one being updated, then the
   promoted ones. *)
ReclaimBuffer(log, curr, trans) ==
  LET added == {i \in DOMAIN log \ {curr} : log[i].state = "added"}
      inDeleted == {i \in DOMAIN log \ {curr, trans} : log[i].state = "inDeleted"}
  IN  Reinstall(log, added) \o Reinstall(log, PromotedFirst(log, added, inDeleted))

-----------------------------------------------------------------------------
Init ==
  /\ config \in Configs
  /\ flash = <<>> /\ high = 0
  /\ cache = <<>> /\ last = 0 /\ total = 0
  /\ volatile = <<>>
  /\ runtime = FALSE /\ reclaimed = FALSE
  /\ pc = "start" /\ op = NoOp /\ status = "none"
  /\ calls = 0 /\ crashes = 0 /\ errors = 0 /\ twin = FALSE

(* A flash service reports an error. *)
FlashError ==
  errors < config.errors /\ errors' = errors + 1 /\ UNCHANGED <<calls, crashes, twin>>

(* As if the offset of the last variable were not set. *)
StoreReplacedOldOffset(buffer) ==
  /\ flash' = buffer /\ high' = SizeOf(buffer)
  /\ cache' = buffer /\ total' = SizeOf(buffer)
  /\ UNCHANGED last

(* Reclaim succeeded with buffer: the store, the cache and the sizes are its. *)
StoreReplaced(buffer) ==
  /\ flash' = buffer /\ high' = SizeOf(buffer)
  /\ cache' = buffer /\ last' = Len(buffer) /\ total' = SizeOf(buffer)

(* FtwVariableSpace failed: cache and sizes are read from flash again. *)
StoreReread ==
  /\ cache' = flash /\ last' = Len(flash) /\ total' = SizeOf(flash)
  /\ UNCHANGED flashVars

(* VariableWriteServiceInitialize: a free area that is not erased is a sign of an
   interrupted write, and Reclaim cleans it.  The service starts in any case. *)
FreeAreaErased == high <= SizeOf(Prefix(cache))

(* As if the free area were not looked at. *)
WriteServiceUnchecked ==
  /\ pc = "start" /\ pc' = "idle"
  /\ UNCHANGED <<nvVars, volatile, bootVars, op, status, used>>

WriteServiceInitialize ==
  /\ pc = "start"
  /\ IF FreeAreaErased THEN UNCHANGED nvVars ELSE StoreReplaced(ReclaimBuffer(flash, 0, 0))
  /\ pc' = "idle"
  /\ UNCHANGED <<volatile, bootVars, op, status, used>>

WriteServiceReclaimFails ==
  /\ pc = "start" /\ ~FreeAreaErased
  /\ FlashError /\ StoreReread
  /\ pc' = "idle"
  /\ UNCHANGED <<volatile, bootVars, op, status>>

(* ReclaimForOS, once, at End of DXE or ReadyToBoot: room for one variable of the
   largest size is made for the operating system.  SetVariable holds the lock at
   TPL_NOTIFY, so the notification finds none under way. *)
NeedsReclaimForOS == config.space - config.reserve < total + 1 + MaxData

ReclaimForOS ==
  /\ pc = "idle" /\ ~runtime /\ ~reclaimed
  /\ reclaimed' = TRUE
  /\ IF NeedsReclaimForOS THEN StoreReplaced(ReclaimBuffer(flash, 0, 0)) ELSE UNCHANGED nvVars
  /\ UNCHANGED <<volatile, config, runtime, pc, op, status, used>>

ReclaimForOSFails ==
  /\ pc = "idle" /\ ~runtime /\ ~reclaimed /\ NeedsReclaimForOS
  /\ reclaimed' = TRUE
  /\ FlashError /\ StoreReread
  /\ UNCHANGED <<volatile, config, runtime, pc, op, status>>

ExitBootServices ==
  /\ pc = "idle" /\ ~runtime /\ config.os
  /\ runtime' = TRUE
  /\ UNCHANGED <<nvVars, volatile, config, reclaimed, pc, op, status, used>>

(* high when n units from the end of the log on have been programmed. *)
Programmed(n) == IF SizeOf(Prefix(flash)) + n > high THEN SizeOf(Prefix(flash)) + n ELSE high

(* Power fails, or the machine is reset, and the driver starts again
   (InitNonVolatileVariableStore).  If the header of a record was being written,
   bytes of it may be on flash that do not make a header. *)
Restart(torn) ==
  /\ pc # "unpredictable"
  /\ crashes < config.crashes /\ crashes' = crashes + 1
  /\ torn => pc = "header" /\ last = Len(flash)
  /\ high' = IF torn THEN Programmed(1) ELSE high
  /\ cache' = flash /\ last' = Len(flash) /\ total' = SizeOf(flash)
  /\ volatile' = <<>> /\ runtime' = FALSE /\ reclaimed' = FALSE
  /\ pc' = "start" /\ op' = NoOp /\ status' = "none"
  /\ UNCHANGED <<flash, config, calls, errors, twin>>

-----------------------------------------------------------------------------
(* SetVariable. *)

NoAccess(attr) == attr \intersect {"BS", "RT"} = {}

(* Setting no data, or no access, deletes a variable; appending no data does not. *)
IsDelete(attr, append, d) == (~append /\ d = <<>>) \/ NoAccess(attr)

(* The reasons for which SetVariable and UpdateVariable refuse to touch variable
   r, found in the store f names. *)
ExistingRefused(f, r, attr, append, d) ==
  \/ runtime /\ ("RT" \notin r.attr \/ ~f.nv)
  \/ (attr # {} \/ append) /\ attr # r.attr
  \/ append /\ ~IsDelete(attr, append, d) /\ Len(r.data) + Len(d) > MaxData

(* Those for which they do not create a variable.  Appending nothing is no error. *)
NewRefused(attr, append, d) ==
  \/ ~(append /\ d = <<>>) /\ (d = <<>> \/ NoAccess(attr))
  \/ d # <<>> /\ runtime /\ ~({"RT", "NV"} \subseteq attr)

(* Where the call begins, for a variable that was found. *)
ExistingPc(f, r, attr, append, d) ==
  IF ExistingRefused(f, r, attr, append, d) THEN "refused"
  ELSE IF IsDelete(attr, append, d)
       THEN IF ~f.nv THEN "volatileDelete" ELSE IF f.trans # 0 THEN "delTrans" ELSE "delCurr"
  ELSE IF ~append /\ d = r.data THEN "unchanged"
  ELSE IF f.nv THEN "markOld" ELSE "volatile"

NewPc(attr, append, d) ==
  IF NewRefused(attr, append, d) THEN "refused"
  ELSE IF d = <<>> THEN "unchanged"
  ELSE IF "NV" \in attr THEN "space" ELSE "volatile"

SetVariable(k, attr, append, d) ==
  LET f == FindVariable(k, TRUE)
      found == f.curr # 0
      first == IF Len(d) > MaxData THEN "refused"
               ELSE IF found THEN ExistingPc(f, f.log[f.curr], attr, append, d)
               ELSE NewPc(attr, append, d)
  IN  /\ pc = "idle" /\ calls < config.calls
      /\ pc' = first
      /\ op' = [nv |-> IF found THEN f.nv ELSE "NV" \in attr,
                name |-> k,
                attr |-> IF found THEN f.log[f.curr].attr ELSE attr,
                value |-> IF first = "refused" \/ IsDelete(attr, append, d) THEN <<>>
                          ELSE IF append /\ found THEN f.log[f.curr].data \o d ELSE d,
                curr |-> f.curr, trans |-> f.trans, done |-> FALSE]
      /\ status' = "none" /\ calls' = calls + 1
      /\ UNCHANGED <<nvVars, volatile, bootVars, crashes, errors, twin>>

(* The call ends with result s. *)
Return(s) == pc' = "return" /\ status' = s

Done == op' = [op EXCEPT !.done = TRUE]

Refuse ==
  /\ pc = "refused" /\ Return("error")
  /\ UNCHANGED <<nvVars, volatile, bootVars, op, used>>

(* The same data is there already. *)
Unchanged ==
  /\ pc = "unchanged" /\ Done /\ Return("success")
  /\ UNCHANGED <<nvVars, volatile, bootVars, used>>

ReleaseLock ==
  /\ pc = "return" /\ pc' = "idle"
  /\ UNCHANGED <<nvVars, volatile, bootVars, op, status, used>>

NewRecord(s) == [name |-> op.name, attr |-> op.attr, data |-> op.value, state |-> s]
NewSize == RecordSize(NewRecord("added"))

(* The same update in the volatile store: all of it in memory. *)
MarkedDeleted(log) == SetState(SetState(log, op.trans, "deleted"), op.curr, "deleted")

VolatileDelete ==
  /\ pc = "volatileDelete"
  /\ volatile' = MarkedDeleted(volatile)
  /\ Done /\ Return("success")
  /\ UNCHANGED <<nvVars, bootVars, used>>

VolatileUpdate ==
  /\ pc = "volatile"
  /\ SizeOf(volatile) + NewSize <= VolatileSpace
  /\ volatile' = MarkedDeleted(Append(volatile, NewRecord("added")))
  /\ Done /\ Return("success")
  /\ UNCHANGED <<nvVars, bootVars, used>>

VolatileReclaim ==
  LET marked == SetState(volatile, op.curr, "inDeleted")
      buffer == ReclaimBuffer(marked, op.curr, op.trans)
      fits == SizeOf(buffer) + NewSize <= VolatileSpace
  IN  /\ pc = "volatile"
      /\ SizeOf(volatile) + NewSize > VolatileSpace
      /\ volatile' = IF fits THEN Append(buffer, NewRecord("added")) ELSE marked
      /\ op' = [op EXCEPT !.done = fits]
      /\ Return(IF fits THEN "success" ELSE "error")
      /\ UNCHANGED <<nvVars, bootVars, used>>

-----------------------------------------------------------------------------
(* UpdateVariable in the non-volatile store, one write to flash at a time.  The
   cache follows a write that succeeded. *)

(* As if the cache were not told. *)
MarkStateOnFlash(i, s) == flash' = SetState(flash, i, s) /\ UNCHANGED cache

MarkState(i, s) == flash' = SetState(flash, i, s) /\ cache' = SetState(cache, i, s)

(* As if the old record stayed VAR_ADDED until the new one is there. *)
MarkOldNot ==
  /\ pc = "markOld" /\ pc' = "space"
  /\ UNCHANGED <<nvVars, volatile, bootVars, op, status, used>>

MarkOld ==
  /\ pc = "markOld"
  /\ MarkState(op.curr, "inDeleted")
  /\ pc' = "space"
  /\ UNCHANGED <<high, last, total, volatile, bootVars, op, status, used>>

(* Is there room behind the last record?  At runtime there is no Reclaim. *)
Full == total + NewSize > config.space

FullForRuntime == runtime /\ total + NewSize > config.space - config.reserve

CheckSpace ==
  /\ pc = "space"
  /\ CASE runtime /\ (Full \/ FullForRuntime) -> Return("error")
       [] Full /\ ~runtime -> pc' = "reclaim" /\ UNCHANGED status
       [] OTHER -> pc' = "header" /\ UNCHANGED status
  /\ UNCHANGED <<nvVars, volatile, bootVars, op, used>>

(* Reclaim with the new variable put behind the reinstalled ones. *)
Buffer == ReclaimBuffer(flash, op.curr, op.trans)

(* Interrupted updates have left more old records of the variable in transition
   than the two FindVariableEx reports. *)
Twins ==
  \E i \in DOMAIN flash \ {op.curr, op.trans} :
    flash[i].name = op.name /\ flash[i].state = "inDeleted"

ReclaimWithNew ==
  /\ pc = "reclaim"
  /\ SizeOf(Buffer) + NewSize <= config.space
  /\ StoreReplaced(Append(Buffer, NewRecord("added")))
  /\ twin' = (twin \/ Twins)
  /\ Done /\ Return("success")
  /\ UNCHANGED <<volatile, bootVars, calls, crashes, errors>>

(* It does not fit: the cache, which served as the buffer, is restored. *)
ReclaimOutOfResources ==
  /\ pc = "reclaim"
  /\ SizeOf(Buffer) + NewSize > config.space
  /\ cache' = flash
  /\ Return("error")
  /\ UNCHANGED <<flashVars, last, total, volatile, bootVars, op, used>>

ReclaimFails ==
  /\ pc = "reclaim"
  /\ SizeOf(Buffer) + NewSize <= config.space
  /\ FlashError /\ StoreReread
  /\ Return("error")
  /\ UNCHANGED <<volatile, bootVars, op>>

(* The four steps of a new record. *)
AtLast(s) == Append(Prefix(flash), NewRecord(s))

(* A write that failed has left an unfinished record behind the last one. *)
Unfinished == last < Len(flash)

(* The header goes to erased flash; or over what a failed write left there, when
   all it does is to clear more bits.  Bits that are cleared stay so.  Names and
   data are abstract: their bytes may be such, or not, and then the step is
   ProgramOver. *)
WriteHeader ==
  /\ pc = "header"
  /\ Unfinished => op.attr \subseteq flash[last + 1].attr
  /\ flash' = AtLast(IF Unfinished THEN flash[last + 1].state ELSE "blank")
  /\ high' = Programmed(1)
  /\ pc' = "headerValid"
  /\ UNCHANGED <<cache, last, total, volatile, bootVars, op, status, used>>

(* Other bytes are there, and flash will hold a mixture of two records: "the result
   will be unpredictable" (EFI_FIRMWARE_VOLUME_BLOCK2_PROTOCOL.Write).  SetVariable
   goes on and reports success, but what the store holds from here on depends on
   bits the model does not have, and a behaviour is followed no further. *)
ProgramOver ==
  /\ pc = "header" /\ high > SizeOf(Prefix(flash))
  /\ Unfinished => [flash[last + 1] EXCEPT !.state = "blank"] # NewRecord("blank")
  /\ pc' = "unpredictable"
  /\ UNCHANGED <<nvVars, volatile, bootVars, op, status, used>>

Unpredictable == pc = "unpredictable" /\ UNCHANGED vars

SetHeaderValid ==
  /\ pc = "headerValid"
  /\ flash' = AtLast("headerValid")
  /\ pc' = "data"
  /\ UNCHANGED <<high, cache, last, total, volatile, bootVars, op, status, used>>

WriteData ==
  /\ pc = "data"
  /\ high' = Programmed(NewSize)
  /\ pc' = "added"
  /\ UNCHANGED <<flash, cache, last, total, volatile, bootVars, op, status, used>>

(* As if the new record were not counted. *)
SetAddedUncounted ==
  /\ pc = "added"
  /\ flash' = AtLast("added")
  /\ cache' = Append(Prefix(cache), NewRecord("added"))
  /\ last' = last + 1
  /\ Done
  /\ IF op.curr = 0
     THEN Return("success")
     ELSE /\ pc' = IF op.trans # 0 THEN "delTrans" ELSE "delCurr"
          /\ UNCHANGED status
  /\ UNCHANGED <<high, total, volatile, bootVars, used>>

SetAdded ==
  /\ pc = "added"
  /\ flash' = AtLast("added")
  /\ cache' = Append(Prefix(cache), NewRecord("added"))
  /\ last' = last + 1 /\ total' = total + NewSize
  /\ Done
  /\ IF op.curr = 0
     THEN Return("success")
     ELSE /\ pc' = IF op.trans # 0 THEN "delTrans" ELSE "delCurr"
          /\ UNCHANGED status
  /\ UNCHANGED <<high, volatile, bootVars, used>>

(* The old records go, the one in transition first.  A deletion begins here. *)
DeleteTransition ==
  /\ pc = "delTrans"
  /\ MarkState(op.trans, "deleted")
  /\ pc' = "delCurr"
  /\ UNCHANGED <<high, last, total, volatile, bootVars, op, status, used>>

DeleteCurrent ==
  /\ pc = "delCurr"
  /\ MarkState(op.curr, "deleted")
  /\ Done /\ Return("success")
  /\ UNCHANGED <<high, last, total, volatile, bootVars, used>>

(* UpdateVariableStore fails: the call ends where it is.  Part of the header or of
   the data may be on flash; a state, which is one byte, is not. *)
Attempted ==
  CASE pc = "header" -> Programmed(1) [] pc = "data" -> Programmed(NewSize) [] OTHER -> high

WriteFails ==
  /\ pc \in FlashPc
  /\ FlashError
  /\ high' \in {high, Attempted}
  /\ Return("error")
  /\ UNCHANGED <<flash, cache, last, total, volatile, bootVars, op>>

(* GetVariable, GetNextVariableName and QueryVariableInfo change nothing. *)
ReadService == pc = "idle" /\ UNCHANGED vars

Next ==
  \/ ReadService
  \/ \E k \in Name, attr \in config.attributes, append \in BOOLEAN, d \in Inputs :
       SetVariable(k, attr, append, d)
  \/ Refuse \/ Unchanged \/ ReleaseLock
  \/ VolatileDelete \/ VolatileUpdate \/ VolatileReclaim
  \/ MarkOld \/ CheckSpace
  \/ ReclaimWithNew \/ ReclaimOutOfResources \/ ReclaimFails
  \/ WriteHeader \/ ProgramOver \/ Unpredictable \/ SetHeaderValid \/ WriteData \/ SetAdded
  \/ DeleteTransition \/ DeleteCurrent
  \/ WriteFails
  \/ WriteServiceInitialize \/ WriteServiceReclaimFails
  \/ ReclaimForOS \/ ReclaimForOSFails
  \/ ExitBootServices
  \/ \E torn \in BOOLEAN : Restart(torn)

Spec == Init /\ [][Next]_vars

-----------------------------------------------------------------------------
(* GetVariable and GetNextVariableName. *)

ValueIn(log, k, ignoreRt) ==
  LET f == FindVariableEx(log, k, ignoreRt) IN IF f.curr = 0 THEN <<>> ELSE log[f.curr].data

(* The records GetNextVariableName walks over, the volatile ones first, and the
   store the record at p is in. *)
Walked == volatile \o cache
StoreAt(p) == IF p <= Len(volatile) THEN volatile ELSE cache

(* The position where FindVariable finds an empty name in a store: its first ADDED
   record, or else its last one in transition. *)
FirstIn(log) ==
  LET seen == {i \in DOMAIN log : Visible(log[i], FALSE)}
      added == FirstOf({i \in seen : log[i].state = "added"})
  IN  IF added # 0 THEN added ELSE LastOf(seen)

(* As if a record in transition were always returned. *)
ReturnedTwin(p) == Visible(Walked[p], FALSE)

(* A record in transition is passed over when its store has an ADDED one. *)
Returned(p) ==
  LET r == Walked[p]
  IN  /\ Visible(r, FALSE)
      /\ r.state = "inDeleted" =>
           StoreAt(p)[FindVariableEx(StoreAt(p), r.name, FALSE).curr].state # "added"

(* The position of the first variable, and of the one after variable k; 0 at the end. *)
FirstReturned(from) == FirstOf({p \in from .. Len(Walked) : Returned(p)})
FirstVariable ==
  IF FirstIn(volatile) # 0 THEN FirstReturned(FirstIn(volatile))
  ELSE IF FirstIn(cache) # 0 THEN FirstReturned(Len(volatile) + FirstIn(cache))
  ELSE 0
NextVariable(k) ==
  LET f == FindVariable(k, FALSE)
  IN  FirstReturned(f.curr + 1 + (IF f.nv THEN Len(volatile) ELSE 0))

(* The names a caller gets who asks for the first name, then for the one after it,
   and so on; not longer than the log, lest a loop go on for ever. *)
Listing ==
  LET walk[n \in 1 .. Len(Walked) + 1] ==
        IF n = 1 THEN FirstVariable
        ELSE IF walk[n - 1] = 0 THEN 0 ELSE NextVariable(Walked[walk[n - 1]].name)
  IN  walk

-----------------------------------------------------------------------------
(* Properties. *)

(* The refinement: what a reader finds in the non-volatile store once the driver
   has been started again changes at one moment of a SetVariable, to what the
   caller asked for; SetVariable reports success only after that moment; and
   nothing else, no Reclaim, failed write or loss of power, changes it: up to a
   write over what a failed one left (ProgramOver), of which nothing is said.  An
   empty value stands for a variable that does not exist. *)
Durable == INSTANCE AtomicStore WITH
  Block <- Name, Version <- Value,
  content <- [k \in Name |-> <<k, ValueIn(flash, k, TRUE)>>],
  call <- IF pc \in {"start", "idle"} \/ ~op.nv THEN [busy |-> FALSE]
          ELSE [busy |-> TRUE, b |-> op.name, v |-> op.value, done |-> op.done],
  reply <- IF pc = "idle" /\ op.nv THEN status ELSE "none"
VariablesAreAtomic == Durable!Spec

(* mNvVariableCache is the store: record by record up to the last one, and for
   every name once no call is under way ("Keep the memory and the FLASH in sync as
   updates occur").  After ProgramOver, where the cache has the new bytes and flash
   a mixture, it does not hold of the code, and nothing is said. *)
CacheMatchesFlash ==
  /\ Prefix(cache) = Prefix(flash)
  /\ pc = "idle" => \A k \in Name : ValueIn(cache, k, TRUE) = ValueIn(flash, k, TRUE)

(* CommonVariableTotalSize counts the records on flash, through crashes, failed
   writes and reclaims, and no record runs over the end of the store.  As for
   CacheMatchesFlash, nothing is said of the sizes a ProgramOver leaves. *)
SizesKept == total = SizeOf(Prefix(flash)) /\ SizeOf(flash) <= config.space

(* A name has at most one VAR_ADDED record on flash: an update that adds one has
   taken the old one out of that state before, however it was interrupted.  The one
   exception is a Reclaim that promotes a further old record in transition beside
   the new one, and it takes an interrupted update to leave such a record. *)
OneAddedRecord ==
  /\ ~twin =>
       \A i, j \in DOMAIN flash :
         flash[i].name = flash[j].name /\ flash[i].state = "added" /\ flash[j].state = "added"
           => i = j
  /\ twin => crashes + errors > 0

(* As long as no flash service has failed, a new record goes to flash that is
   erased, as EFI_FIRMWARE_VOLUME_BLOCK2_PROTOCOL.Write asks its caller: ProgramOver
   takes a failed write, no loss of power leads to it. *)
ProgramsErasedFlash == pc = "header" /\ errors = 0 => high <= SizeOf(Prefix(flash))

(* No name has a value in the volatile and in the non-volatile store at once. *)
OneStorePerName ==
  \A k \in Name : ValueIn(volatile, k, TRUE) = <<>> \/ ValueIn(cache, k, TRUE) = <<>>

(* Interrupted updates have left variable k with two old records in transition and
   no new one.  GetNextVariableName returns the first of them and goes on behind the
   last, which FindVariableEx finds: what is between them is passed over. *)
Stranded(k) ==
  LET found == {i \in DOMAIN cache : cache[i].name = k /\ Visible(cache[i], FALSE)}
  IN  /\ \A i \in found : cache[i].state = "inDeleted"
      /\ \E i, j \in found : i # j

(* GetNextVariableName lists no variable that has an ADDED record twice, and each
   of them once unless a variable is Stranded: the old record an interrupted update
   leaves in transition is not listed again, and alone hides nothing behind it.  The
   exception is the one of OneAddedRecord. *)
AddedListedOnce ==
  pc = "idle" /\ ~twin =>
    \A p \in DOMAIN Walked :
      Walked[p].state = "added" /\ Visible(Walked[p], FALSE) =>
        LET times == Cardinality({n \in DOMAIN Listing :
                       Listing[n] # 0 /\ Walked[Listing[n]].name = Walked[p].name})
        IN  times <= 1 /\ (times = 1 \/ \E k \in Name : Stranded(k))

=============================================================================
