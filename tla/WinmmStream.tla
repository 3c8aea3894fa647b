------------------------------ MODULE WinmmStream ------------------------------
(* cubeb_winmm.c: the driver's callback (the worker) pushes a work item for each *)
(* buffer it gives back, and one thread of the context, which lives as long as   *)
(* the context, refills the buffers.  stm.lock is dropped for the data callback. *)
EXTENDS Backend

NBUFS == 2               \* 4 in the code

Closed == [queued |-> 0, free_buffers |-> 0, shutdown |-> FALSE, draining |-> FALSE, error |-> FALSE,
           paused |-> TRUE, device_valid |-> TRUE, pending_work_items |-> 0, event |-> FALSE,
           work |-> 0, batch |-> 0, ctx_event |-> FALSE, ctx_shutdown |-> FALSE, held |-> {}]

Streams == {Closed}

Opened == <<"ctx", "work", "event", "thread">>

\* The error path goes through the destroy of the context.
winmm_init ==
    /\ MayOpen
    /\ \/ /\ Acquire(Opened) /\ Become("none")
          /\ pc' = [pc EXCEPT !.client = "idle", !.thread = "wait"]
       \/ Fails(Opened, All(Opened)) /\ Goto("client", "failed") /\ UNCHANGED user

winmm_destroy ==
    /\ MayClose
    /\ stm' = [stm EXCEPT !.ctx_shutdown = TRUE, !.ctx_event = TRUE]
    /\ Goto("client", IF stm.work > 0 THEN "undefined" ELSE "join") /\ UNCHANGED user

\* Mutant of Join: pending_callbacks is not waited for.
JoinThreadOnly == /\ pc.client = "join" /\ pc.thread = "done" /\ Release(All(Opened))
                  /\ pc' = [pc EXCEPT !.client = "idle", !.thread = "none"] /\ Become("gone")

\* Once the thread has ended, the callback may still have the event to set.
Join == /\ pc.client = "join" /\ pc.thread = "done" /\ pc.worker = "none"
        /\ Release(All(Opened)) /\ pc' = AtRest /\ Become("gone")

Wants == <<"active_streams", "stm", "stm_event", "waveout", "buffers">>

\* NBUFS buffers of silence are written to the paused device.  The error path is
\* the destroy of the stream, which waits for buffers that were never written.
winmm_stream_init ==
    /\ MayInit
    /\ \/ /\ stm' = [stm EXCEPT !.queued = NBUFS, !.held = @ \cup All(Wants)]
          /\ Become("stopped") /\ UNCHANGED pc
       \/ \E n \in 0..(NBUFS - 1) :                         \* ERROR is told within the call
            /\ stm' = [stm EXCEPT !.queued = n, !.free_buffers = NBUFS - n, !.error = TRUE,
                                  !.held = @ \cup All(Wants)]
            /\ Become("stopped") /\ UNCHANGED pc
       \/ UNCHANGED <<stm, pc, user>>                       \* before waveOutOpen succeeds
       \/ \E n \in 0..(NBUFS - 1) :
            /\ stm' = [stm EXCEPT !.queued = n, !.shutdown = TRUE, !.held = @ \cup All(Wants)]
            /\ Goto("client", "check") /\ UNCHANGED user

winmm_stream_start ==
    /\ MayStart /\ UNCHANGED pc
    /\ \/ stm' = [stm EXCEPT !.paused = FALSE] /\ Begins
       \/ UNCHANGED <<stm, user>>

winmm_stream_stop ==
    /\ MayStop /\ UNCHANGED pc
    /\ \/ stm' = [stm EXCEPT !.paused = TRUE] /\ Become("stopped")
       \/ UNCHANGED <<stm, user>>

\* waveOutReset gives all buffers back, unless the device is gone.
winmm_stream_destroy ==
    /\ MayDestroy /\ Goto("client", "check") /\ UNCHANGED user
    /\ \E v \in BOOLEAN : stm' = [stm EXCEPT !.shutdown = TRUE, !.device_valid = v]

Check ==
    /\ pc.client = "check" /\ UNCHANGED <<stm, user>>
    /\ IF /\ stm.device_valid => stm.free_buffers = NBUFS
          /\ stm.pending_work_items = 0
       THEN Goto("client", "close") ELSE Goto("client", "wait")

Wait == /\ pc.client = "wait" /\ stm.event /\ Goto("client", "check")
        /\ stm' = [stm EXCEPT !.event = FALSE] /\ UNCHANGED user

\* The stream is freed; the context stays as it is.
Close == /\ pc.client = "close" /\ Goto("client", "idle")
         /\ stm' = [Closed EXCEPT !.held = stm.held \ All(Wants), !.work = stm.work, !.batch = stm.batch,
                                  !.ctx_event = stm.ctx_event, !.ctx_shutdown = stm.ctx_shutdown]
         /\ Become(IF phase = "none" THEN "none" ELSE "destroyed")

-----------------------------------------------------------------------------
\* The device gives a buffer back: winmm_buffer_callback.  Once the item is
\* pushed the stream may be gone, and only the context is used.
winmm_buffer_callback ==
    /\ pc.worker = "none" /\ stm.queued > 0 /\ stm.device_valid
    /\ stm.shutdown \/ ~stm.paused
    /\ Goto("worker", "push") /\ UNCHANGED user
    /\ stm' = [stm EXCEPT !.queued = @ - 1, !.pending_work_items = @ + 1]
Push == /\ pc.worker = "push" /\ Goto("worker", "set")
        /\ stm' = [stm EXCEPT !.work = @ + 1] /\ UNCHANGED user
SetsEvent == /\ pc.worker = "set" /\ UNCHANGED user
             /\ Goto("worker", IF "event" \in stm.held THEN "none" ELSE "undefined")
             /\ stm' = [stm EXCEPT !.ctx_event = TRUE]

\* winmm_buffer_thread takes the items in batches.
Batch ==
    /\ pc.thread = "wait" /\ stm.ctx_event /\ UNCHANGED user
    /\ stm' = [stm EXCEPT !.ctx_event = FALSE, !.batch = stm.work, !.work = 0]
    /\ Goto("thread", "items")
Ended == /\ pc.thread = "items" /\ stm.batch = 0 /\ UNCHANGED <<stm, user>>
         /\ Goto("thread", IF stm.ctx_shutdown THEN "done" ELSE "wait")

winmm_refill_stream ==
    /\ pc.thread = "items" /\ stm.batch > 0
    /\ LET free == stm.free_buffers + 1
       IN  \/ /\ stm.error \/ (stm.draining /\ free < NBUFS) \/ (stm.shutdown /\ ~stm.draining)
              /\ Goto("thread", "release") /\ UNCHANGED user
              /\ stm' = [stm EXCEPT !.free_buffers = free]
           \/ /\ ~stm.error /\ stm.draining /\ free = NBUFS
              /\ Goto("thread", "DRAINED") /\ UNCHANGED user
              /\ stm' = [stm EXCEPT !.free_buffers = free]
           \/ /\ ~stm.error /\ ~stm.draining /\ ~stm.shutdown
              /\ Goto("thread", "data") /\ CallData /\ UNCHANGED stm

Returned ==
    /\ pc.thread = "data"
    /\ \E r \in Results :
         /\ Answer(r)
         /\ \/ /\ stm.shutdown /\ Goto("thread", "release")
               /\ stm' = [stm EXCEPT !.free_buffers = @ + 1]
            \/ /\ ~stm.shutdown /\ Goto("thread", "ERROR")       \* or waveOutWrite fails
               /\ stm' = [stm EXCEPT !.free_buffers = @ + 1, !.error = TRUE,
                                     !.draining = @ \/ r \in Short]
            \/ /\ ~stm.shutdown /\ r # "error" /\ Goto("thread", "release")
               /\ stm' = [stm EXCEPT !.queued = @ + 1, !.draining = @ \/ r \in Short]

Tell == /\ pc.thread \in {"DRAINED", "ERROR"} /\ Told(pc.thread)
        /\ Goto("thread", "release") /\ UNCHANGED stm

ReleaseItem ==
    /\ pc.thread = "release" /\ Goto("thread", "items") /\ UNCHANGED user
    /\ stm' = [stm EXCEPT !.batch = @ - 1, !.pending_work_items = @ - 1,
                          !.event = @ \/ stm.shutdown]

Thread == \/ Push \/ SetsEvent \/ Batch \/ Ended \/ winmm_refill_stream \/ Returned \/ Tell \/ ReleaseItem
Client == Join \/ Check \/ Wait \/ Close
Device == winmm_buffer_callback
Calls  == \/ winmm_init \/ winmm_destroy \/ winmm_stream_init \/ winmm_stream_start
          \/ winmm_stream_stop \/ winmm_stream_destroy

TypeOK == /\ stm.queued \in 0..NBUFS /\ stm.free_buffers \in 0..NBUFS
          /\ stm.pending_work_items \in 0..(NBUFS + 1)
          /\ stm.work + stm.batch <= stm.pending_work_items
          /\ stm.held \subseteq All(Opened) \cup All(Wants)
=============================================================================
