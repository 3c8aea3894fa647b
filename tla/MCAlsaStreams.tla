--------------------------- MODULE MCAlsaStreams ---------------------------
(***************************************************************************)
(* AlsaStreams for TLC: an output stream or a duplex stream, with a device  *)
(* buffer of one or two frames (so that the stream's own buffer holds two  *)
(* or four) and a pipe that fills up.                                      *)
(***************************************************************************)
EXTENDS AlsaStreams

CONSTANTS in, out

Output   == <<out>>
Duplexed == <<in, out>>

OutAlone == [s \in {out} |-> NoStream]
Paired   == [s \in {in, out} |-> IF s = in THEN out ELSE in]
=============================================================================
