------------------------------ MODULE PulseStream ------------------------------
(* cubeb_pulse.c: the callbacks run on the mainloop's thread, which holds the    *)
(* mainloop's lock while it is in one; the client takes that lock for the steps  *)
(* below, and gives it up while it waits.  A drain is a timer of the mainloop,   *)
(* and the first callback of a run an event that start leaves with it.           *)
EXTENDS Backend

Buf  == 2             \* what the server asks for ahead of playing it, in callbacks
Ends == {"output", "input"}

Closed == [ends |-> {"output"}, state |-> "none", shutdown |-> FALSE, corked |-> TRUE,
           failed |-> {}, drain_timer |-> FALSE, deferred |-> 0, queued |-> 0, held |-> {}]

Streams == { [Closed EXCEPT !.ends = e] : e \in (SUBSET Ends) \ {{}} }

Opened == <<"libpulse", "context", "device_ids", "mainloop", "pa_context">>

\* Every error path goes through the destroy of the context.
pulse_init    == Opens(Opened, All(Opened))
pulse_destroy == Closes(All(Opened))

Unlocked == pc.thread = "none"
Plays    == "output" \in stm.ends
Records  == "input" \in stm.ends

Wants == <<"stm">> \o (IF Plays THEN <<"output">> ELSE <<>>) \o (IF Records THEN <<"input">> ELSE <<>>)

\* A stream that fails while init waits for it has its ERROR told of a stream
\* that the client never gets.
pulse_stream_init ==
    /\ MayInit /\ UNCHANGED pc
    /\ \/ Acquire(Wants) /\ Become("stopped")
       \/ Fails(Wants \o <<"ready">>, All(Wants) \cup {"ready"}) /\ UNCHANGED user

pulse_stream_destroy ==
    /\ MayDestroy /\ Unlocked /\ UNCHANGED pc
    /\ stm' = [stm EXCEPT !.drain_timer = FALSE, !.held = @ \ All(Wants)]
    /\ Become("destroyed")

\* The flag is cleared without the lock.
pulse_stream_start ==
    /\ MayStart /\ Goto("client", "uncork") /\ Begins
    /\ stm' = [stm EXCEPT !.shutdown = FALSE]

\* stream_cork: STARTED and STOPPED are told outside of the lock.
Uncork == /\ pc.client = "uncork" /\ Unlocked /\ Goto("client", "STARTED")
          /\ stm' = [stm EXCEPT !.corked = FALSE] /\ UNCHANGED user
NotifyStarted == /\ pc.client = "STARTED" /\ stm' = [stm EXCEPT !.state = "STARTED"]
                 /\ Goto("client", IF stm.ends = {"output"} THEN "defer" ELSE "idle")
                 /\ Told("STARTED")
Defer == /\ pc.client = "defer" /\ Unlocked /\ Goto("client", "idle")
         /\ stm' = [stm EXCEPT !.deferred = @ + 1] /\ UNCHANGED user

pulse_stream_stop ==
    /\ MayStop /\ Unlocked /\ Goto("client", "drain")
    /\ stm' = [stm EXCEPT !.shutdown = TRUE] /\ UNCHANGED user
Cork == /\ pc.client = "drain" /\ Unlocked /\ ~stm.drain_timer /\ Goto("client", "STOPPED")
        /\ stm' = [stm EXCEPT !.corked = TRUE] /\ UNCHANGED user
NotifyStopped == /\ pc.client = "STOPPED" /\ Goto("client", "idle")
                 /\ stm' = [stm EXCEPT !.state = "STOPPED"] /\ Become("stopped")

-----------------------------------------------------------------------------
\* The mainloop.  A write to a stream that has failed fails, and is asserted not to.
trigger_user_callback ==
    IF "output" \in stm.failed THEN Goto("thread", "undefined") /\ UNCHANGED user
                               ELSE Goto("thread", "data") /\ CallData

stream_write_callback ==
    /\ Unlocked /\ stm.ends = {"output"} /\ "output" \in stm.held \ stm.failed /\ stm.queued < Buf
    /\ ~stm.shutdown /\ stm.state = "STARTED"
    /\ trigger_user_callback /\ UNCHANGED stm

stream_read_callback ==
    /\ Unlocked /\ "input" \in stm.held \ stm.failed /\ ~stm.corked /\ ~stm.shutdown
    /\ IF Plays THEN stm.queued < Buf /\ trigger_user_callback
                ELSE Goto("thread", "data") /\ CallData
    /\ UNCHANGED stm

\* The event outlives a stop, and the stream.
pulse_defer_event_cb ==
    /\ Unlocked /\ stm.deferred > 0 /\ stm' = [stm EXCEPT !.deferred = @ - 1]
    /\ \/ "stm" \notin stm.held /\ Goto("thread", "undefined") /\ UNCHANGED user
       \/ /\ "stm" \in stm.held /\ UNCHANGED <<pc, user>>
          /\ stm.shutdown \/ stm.queued = Buf           \* or nothing is writable
       \/ /\ "stm" \in stm.held /\ ~stm.shutdown /\ trigger_user_callback
          /\ stm.queued < Buf \/ "output" \in stm.failed

\* The buffer to fill is taken to be in one piece.  A short count when recording
\* only is not told.
Returned ==
    /\ pc.thread = "data"
    /\ \E r \in Results :
         /\ Answer(r)
         /\ \/ /\ r = "error" /\ Goto("thread", "ERROR")
               /\ stm' = [stm EXCEPT !.shutdown = TRUE]
            \/ /\ r = "all" /\ Goto("thread", "none")
               /\ stm' = [stm EXCEPT !.queued = IF Plays THEN @ + 1 ELSE @]
            \/ /\ r \in Short /\ Plays
               /\ Goto("thread", IF stm.drain_timer THEN "undefined" ELSE "none")
               /\ stm' = [stm EXCEPT !.queued = IF r = "some" THEN @ + 1 ELSE @,
                                     !.drain_timer = TRUE, !.shutdown = TRUE]
            \/ /\ r \in Short /\ ~Plays /\ Goto("thread", "none")
               /\ stm' = [stm EXCEPT !.shutdown = TRUE]

TellError == /\ pc.thread = "ERROR" /\ Told("ERROR") /\ Goto("thread", "none") /\ UNCHANGED stm

\* Mutant of stream_drain_callback: drain_timer is not reset.
DrainKeepsTimer == /\ Unlocked /\ stm.drain_timer /\ Told("DRAINED") /\ UNCHANGED pc
                   /\ stm' = [stm EXCEPT !.state = "DRAINED"]

\* Set to twice the latency, or to a guess when the latency is not known.
stream_drain_callback ==
    /\ Unlocked /\ stm.drain_timer /\ Told("DRAINED") /\ UNCHANGED pc
    /\ stm' = [stm EXCEPT !.state = "DRAINED", !.drain_timer = FALSE]

\* The server is gone, or has killed one end.
stream_state_callback ==
    /\ Unlocked /\ Told("ERROR") /\ UNCHANGED pc
    /\ \E e \in (stm.ends \cap stm.held) \ stm.failed :
         stm' = [stm EXCEPT !.failed = @ \cup {e}, !.state = "ERROR"]

Device == /\ stm.queued > 0 /\ ~stm.corked /\ "output" \notin stm.failed
          /\ stm' = [stm EXCEPT !.queued = @ - 1] /\ UNCHANGED <<pc, user>>

Thread == \/ stream_write_callback \/ stream_read_callback \/ pulse_defer_event_cb \/ Returned
          \/ TellError \/ stream_drain_callback
Client == Uncork \/ NotifyStarted \/ Defer \/ Cork \/ NotifyStopped
Calls  == \/ pulse_init \/ pulse_destroy \/ pulse_stream_init \/ pulse_stream_start
          \/ pulse_stream_stop \/ pulse_stream_destroy

TypeOK == /\ stm.ends \subseteq Ends /\ stm.failed \subseteq stm.ends /\ stm.queued \in 0..Buf
          /\ stm.state \in {"none", "STARTED", "STOPPED", "DRAINED", "ERROR"}
          /\ stm.deferred \in 0..MaxStarts
          /\ stm.held \subseteq All(Opened) \cup All(Wants)
=============================================================================
