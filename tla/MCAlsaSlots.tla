---------------------------- MODULE MCAlsaSlots ----------------------------
(***************************************************************************)
(* AlsaSlots for TLC: three interchangeable clients that want up to six    *)
(* streams, for three slots.                                               *)
(***************************************************************************)
EXTENDS AlsaSlots, TLC

ClientSymmetry == Permutations(Clients)
=============================================================================
