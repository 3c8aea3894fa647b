------------------------------ MODULE OpenSLStream ------------------------------
(* cubeb_opensl.cpp: OpenSL ES, outside of this repository, calls back when a    *)
(* buffer was played or recorded and when a marker is reached, for one object on *)
(* one thread.  When a stream plays and records, the recorder's callback (the    *)
(* worker) leaves its buffers in a queue for the player's.  The flags shutdown   *)
(* and draining are under the mutex, but read once and acted on later.           *)
EXTENDS Backend

Ends == {"output", "input"}

Closed == [ends |-> {"output"}, playing |-> FALSE, recording |-> FALSE, shutdown |-> TRUE,
           draining |-> FALSE, written |-> FALSE, silence |-> FALSE, marker |-> FALSE,
           enqueued |-> FALSE, input_queue |-> 0, queued |-> 0, held |-> {}]

Streams == { [Closed EXCEPT !.ends = e] : e \in (SUBSET Ends) \ {{}} }

Opened == <<"ctx", "lib", "engObj", "outmixObj">>

\* Every error path goes through the destroy of the context.
opensl_init    == Opens(Opened, All(Opened))
opensl_destroy == Closes(All(Opened))

Plays    == "output" \in stm.ends
Records  == "input" \in stm.ends
Duplex   == Plays /\ Records
Of(x, s) == IF x THEN s ELSE <<>>

opensl_configure_playback == Of(Plays, <<"queuebuf", "playerObj">>)
opensl_configure_capture  == Of(Records, <<"recorderObj", "input_buffer_array">>)

Wants == <<"stm", "params">> \o opensl_configure_playback \o opensl_configure_capture \o <<"resampler">>
\* The copies of the parameters and the arrays of buffers are not freed.
Freed == All(Wants) \ {"params", "queuebuf", "input_buffer_array"}

\* One silent frame is queued, to be played when the stream starts.
opensl_stream_init ==
    /\ MayInit /\ UNCHANGED pc
    /\ \/ /\ stm' = [stm EXCEPT !.enqueued = Plays, !.held = @ \cup All(Wants)]
          /\ Become("stopped")
       \/ UNCHANGED <<stm, user>>
       \/ \E left \in Left(Wants, Freed) :
            stm' = [stm EXCEPT !.held = @ \cup left] /\ UNCHANGED user

\* A failure leaves the flags reset, and the player running.
opensl_stream_start ==
    /\ MayStart /\ UNCHANGED pc
    /\ \E p, r \in BOOLEAN :
         /\ p => Plays
         /\ r => Records /\ (Plays => p)
         /\ stm' = [stm EXCEPT !.shutdown = FALSE, !.draining = FALSE,
                               !.playing = @ \/ p, !.recording = @ \/ r]
         /\ IF p = Plays /\ r = Records THEN Begins ELSE UNCHANGED user

opensl_stream_stop ==
    /\ MayStop /\ UNCHANGED pc
    /\ \/ /\ stm' = [stm EXCEPT !.shutdown = TRUE, !.playing = FALSE, !.recording = FALSE]
          /\ Become("stopped")
       \/ \E p \in {stm.playing, FALSE} :
            /\ stm' = [stm EXCEPT !.shutdown = TRUE, !.playing = p] /\ UNCHANGED user

\* The stream is stopped first if it drains.  The Destroy of the objects is taken
\* to wait for their callbacks.
opensl_stream_destroy ==
    /\ MayDestroy /\ UNCHANGED user
    /\ Goto("client", IF stm.draining \/ stm.shutdown THEN "destroy" ELSE "undefined")
    /\ stm' = IF stm.draining THEN [stm EXCEPT !.shutdown = TRUE, !.playing = FALSE, !.recording = FALSE]
                              ELSE stm
Destroyed == /\ pc.client = "destroy" /\ pc.thread = "none" /\ pc.worker = "none"
             /\ stm' = [stm EXCEPT !.playing = FALSE, !.recording = FALSE, !.enqueued = FALSE,
                                   !.queued = 0, !.held = @ \ Freed]
             /\ Goto("client", "idle") /\ Become("destroyed")

-----------------------------------------------------------------------------
\* A buffer was played or, when the stream only records, recorded.
BufferDone ==
    /\ pc.thread = "none" /\ Goto("thread", "flags") /\ UNCHANGED user
    /\ IF Plays THEN /\ stm.playing /\ stm.enqueued
                     /\ stm' = [stm EXCEPT !.enqueued = FALSE, !.queued = 0]
                ELSE stm.recording /\ UNCHANGED stm

\* Silence keeps the player going while the stream drains.
Flags ==
    /\ pc.thread = "flags" /\ UNCHANGED user
    /\ \/ /\ stm.draining \/ (stm.shutdown /\ Records)
          /\ stm' = [stm EXCEPT !.enqueued = Plays, !.silence = TRUE] /\ Goto("thread", "none")
       \/ /\ stm.shutdown /\ ~stm.draining /\ ~Records
          /\ Goto("thread", "silent") /\ UNCHANGED stm
       \/ /\ ~stm.draining /\ ~stm.shutdown
          /\ stm' = [stm EXCEPT !.input_queue = IF Duplex /\ @ > 0 THEN @ - 1 ELSE @]
          /\ Goto("thread", "fill")

\* bufferqueue_callback takes the silence it plays after a stop for a short count,
\* by when the stream may have been started again.
Silent ==
    /\ pc.thread = "silent" /\ UNCHANGED user
    /\ stm' = [stm EXCEPT !.enqueued = TRUE, !.silence = TRUE, !.draining = TRUE,
                          !.marker = @ \/ stm.written]
    /\ Goto("thread", IF stm.written THEN "none" ELSE "notify")

Fill == pc.thread = "fill" /\ Goto("thread", "data") /\ CallData /\ UNCHANGED stm

\* bufferqueue_callback, player_fullduplex_callback and recorder_callback.  When
\* nothing was ever written there is no position to set a marker at: playing only,
\* the end is told at once, playing and recording it is not.
Returned ==
    /\ pc.thread = "data"
    /\ \E r \in Results :
         LET wrote == stm.written \/ r \in {"all", "some"}
         IN  /\ Answer(r)
             /\ \/ /\ r = "error" /\ Goto("thread", "halt")
                   /\ stm' = [stm EXCEPT !.shutdown = TRUE]
                \/ /\ r # "error" /\ stm' = [stm EXCEPT !.written = wrote,
                         !.queued = IF Plays /\ r \in {"all", "some"} THEN 1 ELSE 0,
                         !.enqueued = Plays,
                         !.draining = @ \/ r \in Short,
                         !.marker = @ \/ (r \in Short /\ (wrote \/ ~Plays))]
                   /\ Goto("thread", IF r \in Short /\ ~wrote /\ stm.ends = {"output"} THEN "notify" ELSE "none")

\* opensl_stop_player and opensl_stop_recorder assert one of the flags.
Asserted == stm.shutdown \/ stm.draining
Halted   == [stm EXCEPT !.playing = FALSE, !.recording = FALSE]

Halt == /\ pc.thread = "halt" /\ UNCHANGED user
        /\ Goto("thread", IF Asserted THEN "ERROR" ELSE "undefined") /\ stm' = Halted

\* A recorder goes on and drains after an error; a player alone has nothing queued.
TellError == /\ pc.thread = "ERROR" /\ Told("ERROR") /\ Goto("thread", "none")
             /\ stm' = [stm EXCEPT !.enqueued = Duplex, !.silence = @ \/ Duplex,
                                   !.draining = @ \/ ~Plays, !.marker = @ \/ ~Plays]

\* Silence is played too, but not counted in the position of the marker.
Marker ==
    /\ pc.thread = "none" /\ stm.marker
    /\ stm.playing \/ stm.recording
    /\ Plays => stm.queued = 0 \/ stm.silence
    /\ stm' = [stm EXCEPT !.marker = FALSE]
    /\ Goto("thread", "notify") /\ UNCHANGED user

opensl_notify_drained ==
    /\ pc.thread = "notify" /\ UNCHANGED stm
    /\ \/ ~stm.draining /\ Goto("thread", "none") /\ UNCHANGED user
       \/ stm.draining /\ Goto("thread", "stop") /\ Told("DRAINED")

StopsItself == /\ pc.thread = "stop" /\ UNCHANGED user
               /\ Goto("thread", IF Asserted THEN "none" ELSE "undefined") /\ stm' = Halted

\* A full queue drops the input.
recorder_fullduplex_callback ==
    /\ Duplex /\ stm.recording /\ ~stm.shutdown /\ ~stm.draining /\ stm.input_queue < 1
    /\ stm' = [stm EXCEPT !.input_queue = 1] /\ UNCHANGED <<pc, user>>

Thread == \/ BufferDone \/ Flags \/ Silent \/ Fill \/ Returned \/ Halt \/ TellError \/ Marker
          \/ opensl_notify_drained \/ StopsItself
Client == Destroyed
Device == recorder_fullduplex_callback
Calls  == \/ opensl_init \/ opensl_destroy \/ opensl_stream_init \/ opensl_stream_start
          \/ opensl_stream_stop \/ opensl_stream_destroy

TypeOK == /\ stm.ends \subseteq Ends /\ stm.queued \in 0..1 /\ stm.input_queue \in 0..1
          /\ stm.held \subseteq All(Opened) \cup All(Wants)
=============================================================================
