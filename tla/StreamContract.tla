---------------------------- MODULE StreamContract ----------------------------
(* What cubeb.h promises the client of one stream, whatever the backend:       *)
(* when the data callback may run and which state callbacks may follow.        *)
EXTENDS Naturals

VARIABLES phase,     \* where the stream is, from what its client did and was told
          calling    \* calls of the data callback that have not returned

Init == phase = "closed" /\ calling = 0

Become(p) == phase' = p /\ UNCHANGED calling

ContextInit    == phase = "closed" /\ Become("none")
ContextDestroy == phase \in {"none", "destroyed"} /\ Become("gone")

StreamInit == phase = "none" /\ Become("stopped")
Start      == phase = "stopped" /\ Become("started")

\* The callback is called while the stream runs, one call at a time, and not
\* again once it has returned a short count or an error.
BeginData  == phase = "started" /\ calling = 0 /\ calling' = 1 /\ UNCHANGED phase
EndData    == calling = 1 /\ calling' = 0 /\ UNCHANGED phase
EndShort   == calling = 1 /\ calling' = 0 /\ phase = "started" /\ phase' = "draining"
EndError   == calling = 1 /\ calling' = 0 /\ phase = "started" /\ phase' = "error"

\* DRAINED follows a short count, and ends the stream; so does ERROR.
Drained    == phase = "draining" /\ Become("drained")
Error      == phase \in {"started", "draining", "drained", "error"} /\ Become("error")

Stop       == phase \in {"started", "draining", "drained", "error"} /\ Become("stopped")
\* No call of the data callback survives the stream.
Destroy    == phase = "stopped" /\ calling = 0 /\ Become("destroyed")

Next == \/ ContextInit \/ ContextDestroy \/ StreamInit \/ Start \/ BeginData \/ EndData
        \/ EndShort \/ EndError \/ Drained \/ Error \/ Stop \/ Destroy

Spec == Init /\ [][Next]_<<phase, calling>>
===============================================================================
