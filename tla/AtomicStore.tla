---------------------------- MODULE AtomicStore ----------------------------
(***************************************************************************)
(* What the fault tolerant write protocol promises its callers             *)
(* (MdeModulePkg/Include/Protocol/FaultTolerantWrite.h): a block update    *)
(* takes effect at one moment or not at all, whatever fails meanwhile; an  *)
(* update that returned EFI_SUCCESS has taken effect; and nothing else     *)
(* ever changes the content of a block.                                    *)
(***************************************************************************)
CONSTANTS
  Block,     \* the blocks that hold content
  Version    \* what the content of a block can be

VARIABLES
  content,   \* content[b]: what a reader finds in b once recovery has run
  call,      \* the update under way, or NoCall
  reply      \* what the last update returned: "none" while there is no answer

NoCall == [busy |-> FALSE]

Init ==
  /\ content \in [Block -> {<<b, v>> : b \in Block, v \in Version}]
  /\ \A b \in Block : content[b][1] = b
  /\ call = NoCall
  /\ reply = "none"

(* A caller asks for block b to be updated to version v. *)
Begin(b, v) ==
  /\ call = NoCall
  /\ call' = [busy |-> TRUE, b |-> b, v |-> v, done |-> FALSE]
  /\ reply' = "none"
  /\ UNCHANGED content

(* The one moment at which the update takes effect. *)
Apply ==
  /\ call # NoCall /\ ~call.done
  /\ call' = [call EXCEPT !.done = TRUE]
  /\ content' = [content EXCEPT ![call.b] = <<call.b, call.v>>]
  /\ UNCHANGED reply

(* Success is reported only for an update that took effect. *)
Succeed ==
  /\ call # NoCall /\ call.done
  /\ call' = NoCall
  /\ reply' = "success"
  /\ UNCHANGED content

(* The update is refused, or ends with an error before or after it took effect. *)
GiveUp ==
  /\ call # NoCall
  /\ call' = NoCall
  /\ reply' = "error"
  /\ UNCHANGED content

(* Power is lost, or the caller moves on to something else. *)
Forget ==
  /\ call' = NoCall
  /\ reply' = "none"
  /\ UNCHANGED content

Next ==
  \/ \E b \in Block, v \in Version : Begin(b, v)
  \/ Apply \/ Succeed \/ GiveUp \/ Forget

Spec == Init /\ [][Next]_<<content, call, reply>>

=============================================================================
