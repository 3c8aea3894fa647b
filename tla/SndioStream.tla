------------------------------ MODULE SndioStream ------------------------------
(* cubeb_sndio.c: one thread per start moves blocks between the data callback  *)
(* and the device; stop clears a flag and joins it.  A block is two units.      *)
EXTENDS Backend

Block == 2                   \* units of a block, s->nfr
Nblks == 1                   \* blocks the device buffers beyond the first
Units == 0..Block

Play(m) == m \in {"play", "duplex"}
Rec(m)  == m \in {"rec", "duplex"}

Closed == [mode |-> "play", active |-> FALSE, eof |-> FALSE, prime |-> 0, played |-> Block,
           pend |-> Block, recorded |-> Block, told |-> "STARTED",
           queued |-> 0, held |-> {}]

Streams == { [Closed EXCEPT !.mode = m] : m \in {"play", "rec", "duplex"} }

\* A library without the functions is closed, one without a device is not.
sndio_init    == Opens(<<"libsndio", "context">>, {})
sndio_destroy == Closes({"libsndio", "context"})

Wants(m) == <<"hdl">> \o (IF Play(m) THEN <<"pbuf">> ELSE <<>>) \o (IF Rec(m) THEN <<"rbuf">> ELSE <<>>)

\* The error path frees pbuf where it should free rbuf, but nothing fails after that.
sndio_stream_init ==
    /\ MayInit /\ UNCHANGED pc
    /\ \/ Acquire(Wants(stm.mode)) /\ Become("stopped")
       \/ Fails(Wants(stm.mode), {"hdl", "pbuf"}) /\ UNCHANGED user

sndio_stream_destroy ==
    /\ MayDestroy /\ UNCHANGED pc
    /\ Release({"hdl"} \cup (IF Play(stm.mode) THEN {"pbuf"} ELSE {})
                       \cup (IF Rec(stm.mode) THEN {"rbuf"} ELSE {}))
    /\ Become("destroyed")

sndio_stream_start ==
    /\ MayStart
    /\ \/ /\ stm' = [stm EXCEPT !.active = TRUE, !.held = @ \cup {"thread"}]
          /\ Goto("thread", "begin") /\ Begins
       \/ UNCHANGED <<stm, pc, user>>            \* pthread_create fails: active is reset

sndio_stream_stop ==
    /\ MayStop
    /\ \/ /\ stm.active /\ stm' = [stm EXCEPT !.active = FALSE]
          /\ Goto("client", "join") /\ UNCHANGED user
       \/ ~stm.active /\ Become("stopped") /\ UNCHANGED <<stm, pc>>

Join == /\ pc.client = "join" /\ pc.thread = "done"
        /\ stm' = [stm EXCEPT !.held = @ \ {"thread"}]
        /\ pc' = AtRest /\ Become("stopped")

-----------------------------------------------------------------------------
\* The thread.  It holds mtx except in the callbacks and in poll.
Begin ==
    /\ pc.thread = "begin" /\ UNCHANGED user
    /\ \/ Goto("thread", "done") /\ UNCHANGED stm  \* calloc or sio_start fails: it just ends
       \/ /\ Goto("thread", "loop")
          /\ stm' = [stm EXCEPT !.eof = FALSE, !.played = Block, !.pend = Block,
                                !.prime = IF Play(stm.mode) THEN Nblks ELSE 0,
                                !.recorded = IF stm.mode = "rec" THEN 0 ELSE Block]

\* Mutant of Finish: the device is left as it is.
FinishAtOnce(s) == s

\* sio_stop plays what is buffered; the position catches up.
Finish(s) == [s EXCEPT !.queued = 0]
Leaves(s, state) == /\ stm' = [Finish(s) EXCEPT !.told = state]
                    /\ Goto("thread", "tell")

Complete == /\ Play(stm.mode) => stm.played = stm.pend
            /\ Rec(stm.mode)  => stm.recorded = Block

\* Mutant of Loop: eof is not looked at.
LoopPastEof ==
    /\ pc.thread = "loop"
    /\ \/ ~stm.active /\ Leaves(stm, "STOPPED") /\ UNCHANGED user
       \/ stm.active /\ Complete /\ Goto("thread", "data") /\ CallData /\ UNCHANGED stm
       \/ stm.active /\ ~Complete /\ Goto("thread", "poll") /\ UNCHANGED <<stm, user>>

Loop ==
    /\ pc.thread = "loop"
    /\ \/ ~stm.active /\ Leaves(stm, "STOPPED") /\ UNCHANGED user
       \/ stm.active /\ Complete /\ stm.eof /\ Leaves(stm, "DRAINED") /\ UNCHANGED user
       \/ stm.active /\ Complete /\ ~stm.eof /\ Goto("thread", "data") /\ CallData /\ UNCHANGED stm
       \/ stm.active /\ ~Complete /\ Goto("thread", "poll") /\ UNCHANGED <<stm, user>>

Frames(r) == CASE r = "all" -> Block [] r = "some" -> 1 [] OTHER -> 0

\* Nothing is left to play.
Ends(r) == r = "none" \/ (r = "some" /\ stm.mode = "rec")

Data ==
    /\ pc.thread = "data"
    /\ \E r \in Results :
         /\ Answer(r)
         /\ \/ r = "error" /\ Leaves(stm, "ERROR")
            \/ Ends(r) /\ Leaves(stm, "DRAINED")
            \/ /\ r # "error" /\ ~Ends(r)
               /\ Goto("thread", "poll")
               /\ stm' = [stm EXCEPT !.eof = r = "some", !.pend = Frames(r),
                             !.prime = IF @ > 0 THEN @ - 1 ELSE 0,
                             !.played = IF Play(stm.mode) THEN 0 ELSE @,
                             !.recorded = IF Rec(stm.mode) THEN 0 ELSE @]

\* sndio_onmove: the device has played d units.
onmove(s, d) == [s EXCEPT !.queued = @ - d]

Poll ==
    /\ pc.thread = "poll" /\ UNCHANGED user
    /\ \/ Leaves(stm, "ERROR")                   \* POLLHUP, or a failed read or write
       \/ \E d \in 0..stm.queued, w, r \in Units :
            /\ d + w + r > 0                      \* poll waits for the device
            /\ w > 0 => Play(stm.mode) /\ stm.played + w <= stm.pend
            /\ stm.queued - d + w <= Block * (Nblks + 1)
            /\ r > 0 => Rec(stm.mode) /\ stm.prime = 0 /\ stm.recorded + r <= Block
            /\ Goto("thread", "loop")
            /\ stm' = [onmove(stm, d) EXCEPT !.queued = @ + w, !.played = @ + w,
                          !.recorded = IF stm.prime > 0 /\ Rec(stm.mode) THEN Block ELSE @ + r]

Tell == /\ pc.thread = "tell" /\ Goto("thread", "done") /\ Told(stm.told) /\ UNCHANGED stm

Thread == Begin \/ Loop \/ Data \/ Poll \/ Tell
Client == Join
Calls  == sndio_init \/ sndio_destroy \/ sndio_stream_init \/ sndio_stream_start \/ sndio_stream_stop \/ sndio_stream_destroy

TypeOK == /\ stm.played \in Units /\ stm.pend \in Units /\ stm.recorded \in Units
          /\ stm.prime \in 0..Nblks /\ stm.queued \in 0..Block * (Nblks + 1)
          /\ stm.held \subseteq {"libsndio", "context", "hdl", "pbuf", "rbuf", "thread"}
=============================================================================
