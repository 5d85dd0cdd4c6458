----------------------------- MODULE MCMediaQueue -----------------------------
(* Small instance of MediaQueue for TLC.  Both limits are reached: three      *)
(* packets fill the count, and packets of 1, 2 or 4 bytes fill 5 bytes with   *)
(* two or three of them, so that one arrival may evict zero to three packets. *)
(* Size 0 and size 6 are the packets the size check refuses.                  *)
EXTENDS MediaQueue

MCSizes == {0, 1, 2, 4, 6}
===============================================================================
