---------------------------- MODULE AudioUnitStream ----------------------------
(* cubeb_audiounit.cpp: Core Audio calls back on its own thread, one side of a   *)
(* stream at a time here; property listeners send tasks that set the stream up    *)
(* again to a serial queue (the worker).  Calls and tasks hold the context's       *)
(* mutex.  AudioOutputUnitStop and the removal of a listener are taken to wait for  *)
(* the callback in progress.                                                        *)
EXTENDS Backend

Ends == {"output", "input"}
MAX_CHANGES == 2         \* a bound: so often something changes while a stream exists

\* units: the initialised audio units; padding: what they were given and did not ask
\* to go on from.
Closed == [ends |-> {"output"}, units |-> {}, running |-> {}, shutdown |-> TRUE, draining |-> FALSE,
           reinit_pending |-> FALSE, switching_device |-> FALSE, destroy_pending |-> FALSE,
           listening |-> FALSE, changes |-> 0, padding |-> 0, queued |-> 0,
           held |-> {}]

Streams == { [Closed EXCEPT !.ends = e] : e \in (SUBSET Ends) \ {{}} }

Opened == <<"ctx", "serial_queue">>
audiounit_init    == MayOpen /\ Acquire(Opened) /\ Become("none") /\ UNCHANGED pc
audiounit_destroy == Closes(All(Opened))

Plays    == "output" \in stm.ends
Duplex   == stm.ends = Ends
MutexIsFree == pc.worker \notin {"setup", "start"}

Wants == <<"stm", "units", "device_listeners", "system_listeners">>
\* The deleter of the error path closes the stream and does not delete it.
Freed == All(Wants) \ {"stm"}

\* A property may change as soon as there are listeners, the error path or not.
audiounit_stream_init ==
    /\ MayInit /\ pc.worker = "none"
    /\ \/ /\ stm' = [Closed EXCEPT !.ends = stm.ends, !.units = stm.ends, !.listening = TRUE,
                                   !.held = stm.held \cup All(Wants)]
          /\ Become("stopped") /\ UNCHANGED pc
       \/ Fails(Wants, Freed) /\ UNCHANGED <<pc, user>>
       \/ /\ stm' = [stm EXCEPT !.held = @ \cup {"stm"}, !.reinit_pending = TRUE]
          /\ Goto("worker", "queued") /\ UNCHANGED user

\* When output fails to start after input, input runs on, and shutdown is reset.
audiounit_stream_start ==
    /\ MayStart /\ MutexIsFree /\ UNCHANGED pc
    /\ \/ /\ stm' = [stm EXCEPT !.shutdown = FALSE, !.draining = FALSE, !.running = stm.units]
          /\ Begins
       \/ \E r \in {{}, stm.units \ {"output"}} :
            /\ stm' = [stm EXCEPT !.shutdown = FALSE, !.draining = FALSE, !.running = r]
            /\ UNCHANGED user

audiounit_stream_stop ==
    /\ MayStop /\ MutexIsFree /\ pc.thread = "none"
    /\ stm' = [stm EXCEPT !.shutdown = TRUE, !.running = {}]
    /\ Become("stopped") /\ UNCHANGED pc

\* A listener that is not removed, which is no error, outlives the stream.
audiounit_stream_destroy ==
    /\ MayDestroy /\ MutexIsFree /\ pc.thread = "none"
    /\ \E l \in {stm.listening, FALSE} :
         stm' = [stm EXCEPT !.shutdown = TRUE, !.running = {}, !.destroy_pending = TRUE,
                            !.listening = l]
    /\ Goto("client", "sync") /\ UNCHANGED user

\* Closed on the serial queue, after the task that is there.
audiounit_stream_destroy_internal ==
    /\ pc.client = "sync" /\ pc.worker = "none" /\ Goto("client", "idle")
    /\ stm' = [stm EXCEPT !.held = @ \ All(Wants), !.units = {}, !.padding = 0, !.queued = 0]
    /\ Become("destroyed")

-----------------------------------------------------------------------------
\* The output callback, or the input callback of a stream that only records.  One
\* that plays and records has its data called for by the output callback, and its
\* input unit stopped by the input callback when it drains.
Callback ==
    /\ pc.thread = "none" /\ stm.running # {} /\ ~stm.shutdown
    /\ Plays => "output" \in stm.running
    /\ LET asked == [stm EXCEPT !.queued = IF stm.padding > 0 THEN 0 ELSE @, !.padding = 0]
       IN  IF stm.draining
           THEN /\ stm' = [asked EXCEPT !.running = @ \ {IF Plays THEN "output" ELSE "input"}]
                /\ Goto("thread", "DRAINED") /\ UNCHANGED user
           ELSE stm' = asked /\ Goto("thread", "data") /\ CallData

InputDrains ==
    /\ Duplex /\ stm.draining /\ ~stm.shutdown /\ "input" \in stm.running /\ pc.thread = "none"
    /\ stm' = [stm EXCEPT !.running = @ \ {"input"}] /\ UNCHANGED <<pc, user>>

Returned ==
    /\ pc.thread = "data"
    /\ \E r \in Results :
         /\ Answer(r)
         /\ IF r = "error"
            THEN /\ stm' = [stm EXCEPT !.shutdown = TRUE, !.running = {}] /\ Goto("thread", "ERROR")
            ELSE /\ stm' = LET some == Plays /\ r \in {"all", "some"}
                           IN  [stm EXCEPT !.draining = r \in Short,
                                           !.padding = IF some THEN 1 ELSE @,
                                           !.queued  = IF some THEN 1 ELSE @]
                 /\ Goto("thread", "none")

Tell == /\ pc.thread \in {"DRAINED", "ERROR"} /\ Told(pc.thread)
        /\ Goto("thread", "none") /\ UNCHANGED stm

\* audiounit_reinit_stream_async: a task that waits already answers for this one.
Async == /\ UNCHANGED user
         /\ IF stm.reinit_pending \/ pc.worker # "none" THEN UNCHANGED pc ELSE Goto("worker", "queued")

\* The devices of the stream change.  A change that comes while the stream is being
\* switched is skipped.  The listeners are called on a stream that is destroyed.
audiounit_property_listener_callback ==
    /\ stm.listening /\ stm.changes < MAX_CHANGES
    /\ IF phase \in {"destroyed", "gone"}
       THEN Goto("worker", "undefined") /\ UNCHANGED <<stm, user>>
       ELSE /\ stm' = [stm EXCEPT !.changes = @ + 1,
                                  !.switching_device = TRUE,
                                  !.reinit_pending = @ \/ ~stm.switching_device]
            /\ IF stm.switching_device THEN UNCHANGED <<pc, user>> ELSE Async

\* AudioUnitRender fails in audiounit_render_input when a headset changes its profile.
ProfileChanges ==
    /\ Duplex /\ "input" \in stm.running /\ ~stm.shutdown /\ ~stm.draining
    /\ stm.changes < MAX_CHANGES
    /\ stm' = [stm EXCEPT !.changes = @ + 1, !.reinit_pending = TRUE] /\ Async

\* audiounit_reinit_stream, in the task: stop, close, and set up on the default devices.
Reinit ==
    /\ pc.worker = "queued" /\ UNCHANGED user
    /\ \/ stm.destroy_pending /\ Goto("worker", "none") /\ UNCHANGED stm
       \/ ~stm.destroy_pending /\ stm.units = {} /\ Goto("worker", "undefined") /\ UNCHANGED stm
       \/ /\ ~stm.destroy_pending /\ stm.units # {}
          /\ ~stm.shutdown => pc.thread = "none"
          /\ stm' = [stm EXCEPT !.units = {}, !.padding = 0,
                                !.running = IF stm.shutdown THEN @ ELSE {}]
          /\ Goto("worker", "setup")

\* A stream that only plays goes on when audiounit_setup_stream fails.
Setup ==
    /\ pc.worker = "setup" /\ UNCHANGED user
    /\ \/ /\ stm' = [stm EXCEPT !.units = stm.ends] /\ Goto("worker", "start")
       \/ UNCHANGED stm /\ Goto("worker", "failed")
       \/ stm.ends = {"output"} /\ UNCHANGED stm /\ Goto("worker", "start")

\* Starting no unit at all succeeds.
Start ==
    /\ pc.worker = "start" /\ UNCHANGED user
    /\ \/ /\ stm' = [stm EXCEPT !.running = IF stm.shutdown THEN @ ELSE stm.units,
                                !.switching_device = FALSE, !.reinit_pending = FALSE]
          /\ Goto("worker", "none")
       \/ ~stm.shutdown /\ UNCHANGED stm /\ Goto("worker", "failed")

TellFailed ==
    /\ pc.worker = "failed" /\ Told("ERROR") /\ Goto("worker", "none")
    /\ stm' = [stm EXCEPT !.listening = FALSE, !.switching_device = FALSE, !.reinit_pending = FALSE]

Thread == Callback \/ InputDrains \/ Returned \/ Tell
Client == audiounit_stream_destroy_internal
Device == Reinit \/ Setup \/ Start \/ TellFailed
Events == audiounit_property_listener_callback \/ ProfileChanges
Calls  == \/ audiounit_init \/ audiounit_destroy \/ audiounit_stream_init \/ audiounit_stream_start
          \/ audiounit_stream_stop \/ audiounit_stream_destroy

TypeOK == /\ stm.units \subseteq stm.ends /\ stm.running \subseteq stm.units
          /\ stm.padding <= stm.queued /\ stm.queued \in 0..1
          /\ stm.changes \in 0..MAX_CHANGES
          /\ stm.held \subseteq All(Opened) \cup All(Wants)
=============================================================================
