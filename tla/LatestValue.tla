---------------------------- MODULE LatestValue ----------------------------
(***************************************************************************)
(* What triple_buffer promises (comment of src/src/cubeb_triple_buffer.h,  *)
(* lines 17-20): the producer publishes values without blocking, and the   *)
(* consumer gets the latest one; values in between may be missed.          *)
(***************************************************************************)
EXTENDS Naturals

VARIABLES
  latest,    \* the number of the last value published
  unread,    \* it has not been read yet
  seen,      \* the number of the value the consumer holds
  overwrote  \* what the last write returned

vars == <<latest, unread, seen, overwrote>>

Init == latest = 0 /\ unread = FALSE /\ seen = 0 /\ overwrote = FALSE

Write ==
  /\ latest' = latest + 1
  /\ overwrote' = unread
  /\ unread' = TRUE
  /\ UNCHANGED seen

Read ==
  /\ unread
  /\ seen' = latest
  /\ unread' = FALSE
  /\ UNCHANGED <<latest, overwrote>>

\* The consumer may be left with any value published so far.
Invalidate ==
  /\ unread' = FALSE
  /\ seen' \in 0 .. latest
  /\ UNCHANGED <<latest, overwrote>>

Next == Write \/ Read \/ Invalidate

Spec == Init /\ [][Next]_vars
=============================================================================
