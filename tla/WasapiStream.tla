------------------------------ MODULE WasapiStream ------------------------------
(* cubeb_wasapi.cpp: one render thread for the life of a stream waits for its    *)
(* events, of which the first set counts: shutdown, reconfigure, refill.  The     *)
(* notification clients only set reconfigure.  Setting an event and waiting for   *)
(* one are taken to succeed; the calls into WASAPI may fail.                       *)
EXTENDS Backend

Ends == {"output", "input"}

\* pinned: the client named its device, or asked not to be switched to another.
\* padding: what the audio client holds, which reconfiguring drops.
\* follows: the stream is on the default device, if that is what its client wants.
Closed == [ends |-> {"output"}, pinned |-> FALSE, active |-> FALSE, running |-> FALSE,
           draining |-> FALSE, clients |-> {}, failed |-> FALSE, device |-> "valid",
           shutdown_event |-> FALSE, reconfigure_event |-> FALSE, refill_event |-> FALSE,
           follows |-> TRUE, padding |-> 0, queued |-> 0, held |-> {}]

Streams == UNION { { [Closed EXCEPT !.ends = e, !.pinned = p] : e \in (SUBSET Ends) \ {{}} } : p \in BOOLEAN }

Opened == <<"ctx", "device_ids">>

\* When the strings fail, the context is deleted with its lock held.
wasapi_init ==
    /\ MayOpen
    /\ \/ Acquire(Opened) /\ Become("none") /\ UNCHANGED pc
       \/ Goto("client", "failed") /\ UNCHANGED <<stm, user>>    \* no device
       \/ Goto("client", "undefined") /\ UNCHANGED <<stm, user>>
wasapi_destroy == Closes(All(Opened))

Plays == "output" \in stm.ends
Wants == <<"stm", "reconfigure", "refill", "input_available", "shutdown", "mmcss",
           "thread_ready", "clients", "thread">>
\* thread_ready_event is closed by an init that succeeds, and by nothing else.
Freed == All(Wants) \ {"thread_ready"}

wasapi_stream_init ==
    /\ MayInit
    /\ \/ /\ stm' = [stm EXCEPT !.clients = stm.ends, !.held = @ \cup Freed]
          /\ Become("stopped") /\ Goto("thread", "wait")
       \/ Fails(Wants, Freed) /\ UNCHANGED <<pc, user>>

\* A side that was invalidated is left to the render thread to set up again.  When
\* the second side fails the first runs on, and active stays false.
wasapi_stream_start ==
    /\ MayStart
    /\ IF stm.clients = {} THEN Goto("client", "undefined") /\ UNCHANGED <<stm, user>> ELSE
       /\ UNCHANGED pc
       /\ \/ /\ Begins
             /\ stm' = [stm EXCEPT !.active = TRUE, !.running = (stm.device # "invalid"),
                                   !.reconfigure_event = @ \/ stm.device = "invalid"]
          \/ /\ UNCHANGED user
             /\ \E r \in {stm.running, stm.clients = Ends} : stm' = [stm EXCEPT !.running = r]

\* A refill in progress, or whose event is set, is not waited for.
wasapi_stream_stop ==
    /\ MayStop /\ UNCHANGED pc
    /\ \/ stm' = [stm EXCEPT !.active = FALSE, !.running = FALSE] /\ Become("stopped")
       \/ /\ UNCHANGED user
          /\ \E r \in {stm.running, FALSE} : stm' = [stm EXCEPT !.running = r]

stop_and_join_render_thread ==
    /\ MayDestroy /\ Goto("client", "join") /\ UNCHANGED user
    /\ stm' = [stm EXCEPT !.shutdown_event = TRUE]

wasapi_stream_release ==
    /\ pc.client = "join" /\ pc.thread = "ended"
    /\ stm' = [Closed EXCEPT !.ends = stm.ends, !.pinned = stm.pinned, !.held = stm.held \ Freed]
    /\ pc' = AtRest /\ Become("destroyed")

-----------------------------------------------------------------------------
\* wasapi_stream_render_loop.  Leaving it without an error in hr tells nothing.
Leave(failed) == /\ Goto("thread", "leave") /\ UNCHANGED user
                 /\ stm' = [stm EXCEPT !.failed = failed]

Shutdown ==
    /\ pc.thread = "wait" /\ stm.shutdown_event /\ UNCHANGED <<stm, user>>
    /\ Goto("thread", IF stm.draining THEN "DRAINED" ELSE "leave")

\* A stream that is not active ignores it: start is to handle it.
Reconfigure ==
    /\ pc.thread = "wait" /\ stm.reconfigure_event /\ ~stm.shutdown_event /\ UNCHANGED user
    /\ LET closed == [stm EXCEPT !.reconfigure_event = FALSE, !.running = FALSE,
                                 !.clients = {}, !.padding = 0]
       IN  IF ~stm.active THEN /\ UNCHANGED pc
                               /\ stm' = [stm EXCEPT !.reconfigure_event = FALSE]
           ELSE \/ /\ stm' = [closed EXCEPT !.clients = stm.ends, !.running = TRUE,
                                            !.follows = TRUE,
                                            !.device = IF @ = "valid" THEN @ ELSE "new"]
                   /\ UNCHANGED pc
                \/ \E c \in SUBSET stm.ends :                \* setup, or start, fails
                     /\ stm' = [closed EXCEPT !.clients = c, !.failed = TRUE]
                     /\ Goto("thread", "leave")

\* get_input_buffer and get_output_buffer.
Refill ==
    /\ pc.thread = "wait" /\ stm.refill_event
    /\ ~stm.shutdown_event /\ ~stm.reconfigure_event
    /\ LET taken == [stm EXCEPT !.refill_event = FALSE]
       IN  \/ stm.device = "invalid" /\ stm.pinned
                /\ Goto("thread", "ERROR") /\ stm' = taken /\ UNCHANGED user
           \/ stm.device = "invalid" /\ ~stm.pinned
                /\ stm' = [taken EXCEPT !.reconfigure_event = TRUE] /\ UNCHANGED <<pc, user>>
           \/ stm.device # "invalid" /\ stm.draining
                /\ (IF stm.padding = 0 THEN Goto("thread", "DRAINED") ELSE UNCHANGED pc)
                /\ stm' = taken /\ UNCHANGED user
           \/ stm.device # "invalid" /\ ~stm.draining
                /\ Goto("thread", "data") /\ stm' = taken /\ CallData
           \/ stm' = taken /\ Goto("thread", "leave") /\ UNCHANGED user   \* another failure

\* refill, and the rest of the refill callbacks.  A recording that drains just ends.
Returned ==
    /\ pc.thread = "data"
    /\ \E r \in Results :
         LET some  == r \in {"all", "some"} /\ Plays
             wrote == [stm EXCEPT !.draining = @ \/ r \in Short,
                                  !.padding = IF some THEN 1 ELSE @,
                                  !.queued  = IF some THEN 1 ELSE @]
         IN  /\ Answer(r)
             /\ \/ r = "error" /\ Goto("thread", "ERROR") /\ UNCHANGED stm
                \/ /\ r # "error" /\ stm' = wrote
                   /\ Goto("thread", IF r \in Short /\ ~Plays THEN "leave" ELSE "wait")
                \/ r # "error" /\ stm' = [wrote EXCEPT !.padding = 0, !.queued = 0]
                     /\ Goto("thread", "leave")              \* ReleaseBuffer fails

Tell == /\ pc.thread \in {"DRAINED", "ERROR"} /\ Told(pc.thread)
        /\ Goto("thread", "leave") /\ UNCHANGED stm

StopClients ==
    /\ pc.thread = "leave" /\ stm' = [stm EXCEPT !.running = FALSE] /\ UNCHANGED user
    /\ Goto("thread", IF stm.failed THEN "failed" ELSE "ended")
TellFailed == pc.thread = "failed" /\ Told("ERROR") /\ Goto("thread", "ended") /\ UNCHANGED stm

\* The audio client plays what it holds and sets the event.
Period == /\ stm.running /\ stm.device # "invalid"
          /\ ~stm.refill_event \/ stm.padding > 0
          /\ stm' = [stm EXCEPT !.refill_event = TRUE, !.padding = 0,
                                !.queued = IF stm.padding > 0 THEN 0 ELSE @]
          /\ UNCHANGED <<pc, user>>

\* Once while its stream exists, the default device changes, or the device is invalidated.
OnDefaultDeviceChanged ==
    /\ stm.device = "valid" /\ "thread" \in stm.held /\ UNCHANGED <<pc, user>>
    /\ \/ stm' = [stm EXCEPT !.device = "new", !.follows = stm.pinned \/ ~Plays,
                              !.reconfigure_event = @ \/ ~stm.pinned]
       \/ \E told \in BOOLEAN :                               \* OnSessionDisconnected, or not
            stm' = [stm EXCEPT !.device = "invalid", !.reconfigure_event = @ \/ told,
                               !.refill_event = @ \/ stm.running]

Thread == \/ Shutdown \/ Reconfigure \/ Refill \/ Returned \/ Tell \/ StopClients \/ TellFailed
Client == wasapi_stream_release
Device == Period
Calls  == \/ wasapi_init \/ wasapi_destroy \/ wasapi_stream_init \/ wasapi_stream_start
          \/ wasapi_stream_stop \/ stop_and_join_render_thread

TypeOK == /\ stm.ends \subseteq Ends /\ stm.clients \subseteq stm.ends
          /\ stm.padding <= stm.queued /\ stm.queued \in 0..1
          /\ stm.held \subseteq All(Opened) \cup All(Wants)
=============================================================================
