----------------------------- MODULE MCDxeEvent -----------------------------
(* Instances of DxeEvent for TLC.  Every run has the core's two events chk and
   idle and two client events a and b; the runs differ in what a and b may be
   created as and in which services clients call. *)
EXTENDS DxeEvent

CONSTANTS chk, idle, a, b

MCEvent == {chk, idle, a, b}
MCNotifyTpls == {TPL_CALLBACK, TPL_NOTIFY, TPL_HIGH_LEVEL - 1}

Request(type, tpl, group) == [Type |-> type, NotifyTpl |-> tpl, EventGroup |-> group]
Only(ra, rb) == [e \in {a, b} |-> IF e = a THEN ra ELSE rb]

(* A polled event, timers with notifications at different TPLs, and members of
   the virtual address change group in the two ways a client may ask for one. *)
EventRequests ==
  Only({Request({"WAIT"}, TPL_CALLBACK, NoGroup), Request({"TIMER", "SIGNAL"}, TPL_CALLBACK, NoGroup),
        Request({"SIGNAL"}, TPL_CALLBACK, VirtualAddressChangeGroup)},
       {Request({"TIMER", "SIGNAL"}, TPL_NOTIFY, NoGroup), Request(EVT_VIRT, TPL_NOTIFY, NoGroup)})
PolledEvent == <<a>>

(* A polled event or a timer, and a timer with or without a notification function. *)
LiveRequests ==
  Only({Request({"WAIT"}, TPL_CALLBACK, NoGroup), Request({"TIMER", "SIGNAL"}, TPL_CALLBACK, NoGroup)},
       {Request({"TIMER"}, 0, NoGroup), Request({"TIMER", "SIGNAL"}, TPL_NOTIFY, NoGroup)})
WaitEvents == <<b, a>>

=============================================================================
