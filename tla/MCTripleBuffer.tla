--------------------------- MODULE MCTripleBuffer ---------------------------
(***************************************************************************)
(* TripleBuffer for TLC: enough writes for every slot to be written twice  *)
(* by the producer while a read is in progress, and an invalidate() in     *)
(* between from each of the reachable rotations of the slots.              *)
(***************************************************************************)
EXTENDS TripleBuffer
=============================================================================
