------------------------------- MODULE MCSmm -------------------------------
(* Instances of SmmRendezvous for TLC.  Processors 0 and 1 are the threads of one
   core. *)
EXTENDS SmmRendezvous

MCCoreOf == [c \in Cpu |-> c \div 2]

(* A platform with the given features; the others are off. *)
Platform(features, late) ==
  [f \in {"relaxed", "mtrrs", "election", "blocking", "broadcast", "lmce",
          "longTimeout", "late"} |-> IF f = "late" THEN late ELSE f \in features]

(* Three processors in traditional mode: a fixed BSP on a chipset that sends an
   SMI to one processor; MTRRs to configure and machine checks; BSP election; a
   fixed BSP that comes when an AP gives up, and another AP that takes its place. *)
SyncPlatforms ==
  {Platform({"longTimeout"}, {1}),
   Platform({"mtrrs", "lmce", "blocking", "broadcast", "longTimeout"}, {2}),
   Platform({"election", "broadcast", "longTimeout"}, {}),
   Platform({"broadcast", "longTimeout"}, {0, 2})}

(* Two processors: relaxed mode, timeouts that strike at any moment, a BSP that
   comes late. *)
PairPlatforms ==
  {Platform({"relaxed", "election", "broadcast", "longTimeout"}, {1}),
   Platform({"relaxed", "election", "broadcast", "blocking"}, {}),
   Platform({"relaxed", "mtrrs", "broadcast"}, {1}),
   Platform({"election", "broadcast", "longTimeout"}, {1}),
   Platform({"longTimeout"}, {0}),
   Platform({"broadcast"}, {0})}

(* A fixed BSP that comes late. *)
LateBspPlatforms == {Platform({"broadcast", "longTimeout"}, {0})}

(* Relaxed mode with BSP election. *)
RelaxedPlatforms == {Platform({"relaxed", "election", "broadcast"}, {})}

=============================================================================
