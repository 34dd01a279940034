------------------------------- MODULE MCFtw -------------------------------
(* Instances of Ftw for TLC: an ordinary block b1 and the working block wb. *)
EXTENDS Ftw

CONSTANTS b1, wb

MCBlock == {b1, wb}

Platform(queue, targets, writes, services, limits) ==
  [queue |-> queue, split |-> FALSE, targets |-> targets, writes |-> writes,
   private |-> {FALSE}, services |-> services, failOps |-> {},
   calls |-> limits[1], crashes |-> limits[2], fails |-> limits[3]]

(* All services, single writes, two power losses; the third write reclaims. *)
PowerFails ==
  Platform(4, MCBlock, {1}, {"allocate", "write", "restart", "abort", "last"}, <<4, 2, 0>>)

(* Sequences of two writes with private data, and one that does not fit, to one
   block; a power loss and a flash error outside the flush of the working block. *)
FlashFails ==
  [Platform(7, {b1}, {2, 7}, {"allocate", "write", "restart", "last"}, <<6, 1, 1>>)
     EXCEPT !.private = {TRUE},
            !.failOps = {"a_header", "a_writes", "w_erase", "w_copy", "w_spare", "t_start",
                         "t_copy", "t_dest", "t_done", "w_clear", "w_restore", "s_clear"}]

(* Sequences of two writes to two blocks, two power losses. *)
TwoTargets == Platform(6, MCBlock, {2}, {"allocate", "write"}, <<4, 2, 0>>)

(* A working block of several erase blocks. *)
SplitErase ==
  [Platform(4, {b1}, {1}, {"write"}, <<3, 1, 0>>) EXCEPT !.split = TRUE]

(* Allocations of different sizes. *)
TwoSizes ==
  Platform(4, MCBlock, {1, 2}, {"allocate", "write", "restart", "abort", "last"}, <<3, 0, 0>>)

SafePlatforms == {PowerFails, FlashFails}
SplitPlatforms == {SplitErase}
SizesPlatforms == {TwoSizes}

=============================================================================
