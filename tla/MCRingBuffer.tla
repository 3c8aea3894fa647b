---------------------------- MODULE MCRingBuffer ----------------------------
(***************************************************************************)
(* RingBuffer for TLC: two channels make a frame, the storage (odd by      *)
(* construction) wraps inside a frame, and the stream is long enough for   *)
(* both indices to go around it more than twice.                           *)
(***************************************************************************)
EXTENDS RingBuffer
=============================================================================
