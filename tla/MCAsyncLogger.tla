--------------------------- MODULE MCAsyncLogger ---------------------------
(***************************************************************************)
(* AsyncLogger for TLC: two threads that log, a queue of one message, so   *)
(* that it overflows, and enough calls of cubeb_set_log_callback to start, *)
(* stop and start the logger again while a message is being queued.        *)
(***************************************************************************)
EXTENDS AsyncLogger
=============================================================================
