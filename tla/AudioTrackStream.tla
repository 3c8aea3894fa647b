---------------------------- MODULE AudioTrackStream ----------------------------
(* cubeb_audiotrack.c: Android's AudioTrack calls audiotrack_refill for data    *)
(* while it plays, and once when the marker is played; pause and the            *)
(* destructor are taken to wait for a callback in progress.                     *)
EXTENDS Backend

Buf == 2                     \* buffers AudioTrack keeps ahead

Closed == [playing |-> FALSE, draining |-> FALSE, marker |-> FALSE, queued |-> 0, held |-> {}]

Streams == {Closed}

audiotrack_init    == Opens(<<"library", "symbols">>, {"library"})
audiotrack_destroy == Closes({"library", "symbols"})

\* Refused, or not initialised, which is a step after its construction.
Steps == <<"stream", "instance", "check">>

audiotrack_stream_init ==
    /\ MayInit /\ UNCHANGED pc
    /\ \/ Acquire(Steps) /\ Become("stopped")
       \/ Fails(Steps, {"stream", "instance"}) /\ UNCHANGED user

audiotrack_stream_destroy ==
    /\ MayDestroy /\ UNCHANGED pc
    /\ Release({"stream", "instance", "check"}) /\ Become("destroyed")

\* draining is never reset: a stream that drained asks for no data when restarted.
audiotrack_stream_start ==
    /\ MayStart /\ UNCHANGED pc /\ stm' = [stm EXCEPT !.playing = TRUE] /\ Begins

audiotrack_stream_stop ==
    /\ MayStop /\ pc.thread = "none" /\ UNCHANGED pc
    /\ stm' = [stm EXCEPT !.playing = FALSE] /\ Become("stopped")

MoreData ==
    /\ pc.thread = "none" /\ stm.playing /\ stm.queued < Buf /\ ~stm.draining
    /\ Goto("thread", "data") /\ CallData /\ UNCHANGED stm

\* Whatever is not the whole buffer, an error included, sets the marker.
Returned ==
    /\ pc.thread = "data" /\ Goto("thread", "none")
    /\ \E r \in Results :
         /\ Answer(r)
         /\ stm' = [stm EXCEPT !.queued = IF r \in {"all", "some"} THEN @ + 1 ELSE @,
                               !.draining = r # "all", !.marker = r # "all"]

\* AudioTrack reaches the marker when it has played what was written.
Marker ==
    /\ pc.thread = "none" /\ stm.playing /\ stm.marker /\ stm.queued = 0
    /\ stm' = [stm EXCEPT !.marker = FALSE] /\ Told("DRAINED") /\ UNCHANGED pc

Device == /\ stm.playing /\ stm.queued > 0
          /\ stm' = [stm EXCEPT !.queued = @ - 1] /\ UNCHANGED <<pc, user>>

Thread == MoreData \/ Returned \/ Marker
Calls  == audiotrack_init \/ audiotrack_destroy \/ audiotrack_stream_init \/ audiotrack_stream_start \/ audiotrack_stream_stop
          \/ audiotrack_stream_destroy

TypeOK == stm.queued \in 0..Buf /\ stm.held \subseteq {"library", "symbols"} \cup All(Steps)
=============================================================================
