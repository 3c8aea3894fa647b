------------------------------- MODULE JackStream -------------------------------
(* cubeb_jack.cpp: JACK calls cbjack_process every cycle, for all the streams of *)
(* the context.  It reads the flags of a stream without its mutex, only tries to *)
(* take it, and does not read them again; stop sets a flag and does not wait.    *)
EXTENDS Backend

Devs == {"OUT_ONLY", "IN_ONLY", "DUPLEX"}

Closed == [devs |-> "OUT_ONLY", in_use |-> FALSE, ports_ready |-> FALSE, pause |-> FALSE,
           mutex |-> "free", told |-> "STARTED", queued |-> 0, held |-> {}]

Streams == { [Closed EXCEPT !.devs = d] : d \in Devs }

\* A library without the functions is closed twice, which is not modelled.
Opened == <<"context", "libjack", "jack_client">>

jack_init      == Opens(Opened, All(Opened))
cbjack_destroy == pc.thread = "none" /\ Closes(All(Opened))

Owned == <<"slot", "resampler", "ports">>

\* No stream of the context is free, the resampler or a port cannot be created:
\* nothing is kept.  Or the slot is taken, and its mutex held until the end.
cbjack_stream_init ==
    /\ MayInit /\ UNCHANGED user
    /\ \/ Fails(Owned, All(Owned)) /\ UNCHANGED pc
       \/ /\ stm.mutex = "free" /\ Goto("client", "init")
          /\ stm' = [stm EXCEPT !.in_use = TRUE, !.ports_ready = TRUE, !.mutex = "client",
                                !.held = @ \cup All(Owned)]

Paused == /\ pc.client = "init" /\ Goto("client", "idle")
          /\ stm' = [stm EXCEPT !.pause = TRUE, !.mutex = "free"] /\ Become("stopped")

cbjack_stream_destroy ==
    /\ MayDestroy /\ stm.mutex = "free" /\ UNCHANGED pc
    /\ stm' = [stm EXCEPT !.ports_ready = FALSE, !.in_use = FALSE, !.held = @ \ All(Owned)]
    /\ Become("destroyed")

cbjack_stream_start ==
    /\ MayStart /\ UNCHANGED pc /\ stm' = [stm EXCEPT !.pause = FALSE] /\ Begins

cbjack_stream_stop ==
    /\ MayStop /\ UNCHANGED pc /\ stm' = [stm EXCEPT !.pause = TRUE] /\ Become("stopped")

-----------------------------------------------------------------------------
\* The part of cbjack_process for this stream.
cbjack_process ==
    /\ pc.thread = "none" /\ stm.in_use /\ stm.ports_ready
    /\ Goto("thread", "pause") /\ UNCHANGED <<stm, user>>

Unpaused == /\ pc.thread = "pause" /\ UNCHANGED <<stm, user>>
            /\ Goto("thread", IF stm.pause THEN "none" ELSE "lock")

\* The mutex is taken, or the stream is silent in this cycle; the resampler may
\* be gone by now.
Trylock ==
    /\ pc.thread = "lock"
    /\ \/ stm.mutex = "client" /\ Goto("thread", "none") /\ UNCHANGED <<stm, user>>
       \/ /\ stm.mutex = "free" /\ "resampler" \in stm.held /\ Goto("thread", "data")
          /\ stm' = [stm EXCEPT !.mutex = "thread"] /\ CallData
       \/ /\ stm.mutex = "free" /\ "resampler" \notin stm.held
          /\ Goto("thread", "undefined") /\ UNCHANGED <<stm, user>>

\* The refill compares what the callback returned with the frames of output that
\* are needed, which are none when the stream only records.
Outcome(r) == CASE r = "error" -> "ERROR"
                [] stm.devs = "IN_ONLY" /\ r \in {"all", "some"} -> "ERROR"
                [] stm.devs # "IN_ONLY" /\ r \in Short -> "DRAINED"
                [] OTHER -> "STARTED"

Refill ==
    /\ pc.thread = "data"
    /\ \E r \in Results :
         /\ Answer(r)
         /\ IF Outcome(r) = "STARTED"
            THEN Goto("thread", "none") /\ stm' = [stm EXCEPT !.mutex = "free"]
            ELSE Goto("thread", "tell") /\ stm' = [stm EXCEPT !.told = Outcome(r)]

Tell == /\ pc.thread = "tell" /\ Told(stm.told)
        /\ Goto("thread", IF stm.told = "DRAINED" THEN "stop" ELSE "unlock") /\ UNCHANGED stm

\* cbjack_stream_stop, called by the process callback.
StopsItself == /\ pc.thread = "stop" /\ Goto("thread", "unlock")
               /\ stm' = [stm EXCEPT !.pause = TRUE] /\ UNCHANGED user

Unlock == /\ pc.thread = "unlock" /\ Goto("thread", "none")
          /\ stm' = [stm EXCEPT !.mutex = "free", !.told = "STARTED"] /\ UNCHANGED user

Thread == cbjack_process \/ Unpaused \/ Trylock \/ Refill \/ Tell \/ StopsItself \/ Unlock
Client == Paused
Calls  == jack_init \/ cbjack_destroy \/ cbjack_stream_init \/ cbjack_stream_start \/ cbjack_stream_stop \/ cbjack_stream_destroy

TypeOK == /\ stm.devs \in Devs /\ stm.mutex \in {"free", "client", "thread"}
          /\ stm.held \subseteq All(Opened) \cup All(Owned)
=============================================================================
