------------------------------- MODULE OssStream -------------------------------
(* cubeb_oss.c: one thread for the life of the stream, which waits at a         *)
(* doorbell between two runs.  The sections under mtx are atomic here, and the  *)
(* two condition variables are the labels "wait" of the thread and the client.  *)
EXTENDS Backend

Buf   == 2             \* what the device buffers, in rounds of the loop
Files == {"play", "record"}

Closed == [files |-> {"play"}, running |-> FALSE, doorbell |-> FALSE, destroying |-> FALSE,
           state |-> "STOPPED", got |-> 0, told |-> "STOPPED", queued |-> 0, held |-> {}]

Streams == { [Closed EXCEPT !.files = f] : f \in (SUBSET Files) \ {{}} }

\* When the store of device names cannot be created there is nothing to release.
oss_init    == Opens(<<"context", "devid_strs", "mutex">>, {"context", "devid_strs"})
oss_destroy == Closes({"context", "devid_strs", "mutex"})

Of(x, f) == IF x \in f THEN <<x>> ELSE <<>>
Wants(f) == <<"mtx", "doorbell_cv", "stopped_cv">> \o Of("record", f) \o Of("play", f) \o <<"buf">>
Owned    == {"mtx", "doorbell_cv", "stopped_cv", "record", "play", "buf", "thread"}
thread_created == "thread" \in stm.held

\* Every error path releases what was acquired.
oss_stream_init ==
    /\ MayInit /\ UNCHANGED pc
    /\ \/ Acquire(Wants(stm.files)) /\ Become("stopped")
       \/ Fails(Wants(stm.files), Owned) /\ UNCHANGED user

\* Mutant of oss_stream_thr_create: a thread that exists is not rung for.
NoDoorbell ==
    /\ stm' = [stm EXCEPT !.held = @ \cup {"thread"}, !.state = "STARTED", !.running = TRUE]
    /\ IF thread_created THEN UNCHANGED pc ELSE Goto("thread", "top")

\* The thread has been rung for, or is created.
oss_stream_thr_create ==
    \/ /\ thread_created /\ UNCHANGED pc
       /\ stm' = [stm EXCEPT !.doorbell = TRUE, !.state = "STARTED", !.running = TRUE]
    \/ /\ ~thread_created /\ Goto("thread", "top")
       /\ stm' = [stm EXCEPT !.held = @ \cup {"thread"}, !.state = "STARTED", !.running = TRUE]

oss_stream_start ==
    /\ MayStart
    /\ \/ oss_stream_thr_create /\ Begins
       \/ ~thread_created /\ UNCHANGED <<stm, pc, user>>        \* ERROR is told within the call

\* stop rings off whatever start has rung for, and waits for a signal.
oss_stream_stop ==
    /\ MayStop
    /\ IF thread_created /\ stm.running
       THEN /\ stm' = [stm EXCEPT !.running = FALSE, !.doorbell = FALSE]
            /\ Goto("client", "wait") /\ UNCHANGED user
       ELSE /\ stm' = [stm EXCEPT !.state = "STOPPED"] /\ Become("stopped") /\ UNCHANGED pc

\* The wait is not in a loop: a spurious wake-up ends it too.
Woken == /\ pc.client = "woken" /\ Goto("client", "idle")
         /\ stm' = [stm EXCEPT !.state = "STOPPED"] /\ Become("stopped")
SpuriousWakeup == pc.client = "wait" /\ Goto("client", "woken") /\ UNCHANGED <<stm, user>>

oss_stream_destroy ==
    /\ MayDestroy
    /\ IF thread_created
       THEN /\ stm' = [stm EXCEPT !.destroying = TRUE, !.doorbell = TRUE]
            /\ Goto("client", "join") /\ UNCHANGED user
       ELSE Release(Owned) /\ Become("destroyed") /\ UNCHANGED pc

Join == /\ pc.client = "join" /\ pc.thread = "done"
        /\ Release(Owned)
        /\ pc' = AtRest /\ Become("destroyed")

-----------------------------------------------------------------------------
Top == /\ pc.thread = "top" /\ UNCHANGED <<stm, user>>
       /\ \/ stm.destroying /\ Goto("thread", "done")
          \/ ~stm.destroying /\ Goto("thread", "loop")

\* The way out of oss_audio_loop that stop has not asked for.
Breakdown(state) == /\ stm' = [stm EXCEPT !.state = state, !.told = state, !.running = FALSE, !.got = 0]
                    /\ Goto("thread", "tell")

Loop ==
    /\ pc.thread = "loop" /\ UNCHANGED <<stm, user>>
    /\ IF ~stm.running \/ stm.destroying THEN Goto("thread", "stopped") ELSE Goto("thread", "space")

\* oss_wait_fds_for_space returns with frames to exchange, and the next round
\* checks running again.  Recording then fills the buffer, or fails.
Space ==
    /\ pc.thread = "space" /\ UNCHANGED user
    /\ \/ Breakdown("ERROR")
       \/ /\ "play" \in stm.files => stm.queued < Buf
          /\ Goto("thread", "round") /\ UNCHANGED stm

Round ==
    /\ pc.thread = "round"
    /\ \/ (~stm.running \/ stm.destroying) /\ Goto("thread", "stopped") /\ UNCHANGED <<stm, user>>
       \/ stm.running /\ ~stm.destroying /\ Goto("thread", "data") /\ CallData /\ UNCHANGED stm
       \/ stm.running /\ ~stm.destroying /\ "record" \in stm.files /\ Breakdown("ERROR") /\ UNCHANGED user

Data ==
    /\ pc.thread = "data"
    /\ \E r \in Results :
         /\ Answer(r)
         /\ \/ r = "error" /\ Breakdown("ERROR")
            \/ r \in Short /\ "play" \notin stm.files /\ Breakdown("STOPPED")
            \/ r = "none" /\ "play" \in stm.files /\ Breakdown("DRAINED")
            \/ /\ r \in {"all", "some"} /\ "play" \in stm.files
               /\ stm' = [stm EXCEPT !.got = IF r = "all" THEN 2 ELSE 1] /\ Goto("thread", "put")
            \/ r = "all" /\ "play" \notin stm.files /\ Goto("thread", "space") /\ UNCHANGED stm

\* Nothing waits for the device to play the last block.
oss_put_play_frames ==
    /\ pc.thread = "put" /\ UNCHANGED user
    /\ \/ Breakdown("ERROR")
       \/ /\ stm.queued < Buf /\ stm.got = 2 /\ Goto("thread", "space")
          /\ stm' = [stm EXCEPT !.queued = @ + 1, !.got = 0]
       \/ /\ stm.queued < Buf /\ stm.got = 1 /\ Goto("thread", "tell")
          /\ stm' = [stm EXCEPT !.queued = @ + 1, !.got = 0, !.state = "DRAINED", !.told = "DRAINED",
                                !.running = FALSE]

Tell == /\ pc.thread = "tell" /\ Told(stm.told) /\ Goto("thread", "stopped")
        /\ stm' = [stm EXCEPT !.told = "STOPPED"]

\* Signal stopped_cv, then wait at the doorbell.
Stopped ==
    /\ pc.thread = "stopped" /\ UNCHANGED <<stm, user>>
    /\ pc' = [pc EXCEPT !.client = IF @ = "wait" THEN "woken" ELSE @,
                        !.thread = IF stm.destroying THEN "done" ELSE "wait"]

Doorbell == /\ pc.thread = "wait" /\ stm.doorbell /\ Goto("thread", "top")
            /\ stm' = [stm EXCEPT !.doorbell = FALSE] /\ UNCHANGED user

Device == stm.queued > 0 /\ stm' = [stm EXCEPT !.queued = @ - 1] /\ UNCHANGED <<pc, user>>

Thread == Top \/ Loop \/ Space \/ Round \/ Data \/ oss_put_play_frames \/ Tell \/ Stopped \/ Doorbell
Client == Woken \/ Join
Calls  == oss_init \/ oss_destroy \/ oss_stream_init \/ oss_stream_start \/ oss_stream_stop \/ oss_stream_destroy

TypeOK == /\ stm.files \subseteq Files /\ stm.queued \in 0..Buf /\ stm.got \in 0..2
          /\ {stm.state, stm.told} \subseteq {"STARTED", "STOPPED", "DRAINED", "ERROR"}
          /\ stm.held \subseteq Owned \cup {"context", "devid_strs", "mutex"}
=============================================================================
