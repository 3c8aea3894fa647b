-------------------------- MODULE MCAAudioStreams --------------------------
(***************************************************************************)
(* AAudioStreams for TLC.                                                  *)
(***************************************************************************)
EXTENDS AAudioStreams
=============================================================================
