------------------------------- MODULE SunStream -------------------------------
(* cubeb_sun.c: one thread per start, which blocks in write and read on the     *)
(* audio device; stop clears running under the mutex and joins the thread.      *)
EXTENDS Backend

Block == 2             \* SUN_BUFFER_FRAMES
Buf   == 3             \* what the device buffers
Files == {"play", "record"}

Closed == [files |-> {"play"}, running |-> FALSE, to_write |-> 0, to_read |-> 0,
           drain |-> FALSE, told |-> "STARTED", queued |-> 0, held |-> {}]

Streams == { [Closed EXCEPT !.files = f] : f \in (SUBSET Files) \ {{}} }

sun_init    == Opens(<<"context">>, {})
sun_destroy == Closes({"context"})

Of(x, f) == IF x \in f THEN <<x>> ELSE <<>>
Wants(f) == Of("record", f) \o Of("play", f) \o <<"mutex", "buf">>

Owned == {"record", "play", "mutex", "buf"}

\* Whatever fails, the error path releases the stream as sun_stream_destroy does.
\* When it is the mutex, ret is still CUBEB_OK, and the client has no stream.
sun_stream_init ==
    /\ MayInit
    /\ \/ Acquire(Wants(stm.files)) /\ Become("stopped") /\ UNCHANGED pc
       \/ Fails(Wants(stm.files), Owned) /\ UNCHANGED <<pc, user>>
       \/ Goto("client", "undefined") /\ UNCHANGED <<stm, user>>

\* running stays set when the thread cannot be created.
sun_stream_start ==
    /\ MayStart
    /\ \/ /\ Goto("thread", "begin") /\ Begins
          /\ stm' = [stm EXCEPT !.running = TRUE, !.held = @ \cup {"thread"}, !.drain = FALSE]
       \/ stm' = [stm EXCEPT !.running = TRUE] /\ UNCHANGED <<pc, user>>

\* The join of a thread that was never created is undefined.
Joins(then) == Goto("client", IF "thread" \in stm.held THEN then ELSE "undefined")

sun_stream_stop ==
    /\ MayStop
    /\ stm' = [stm EXCEPT !.running = FALSE]
    /\ IF stm.running THEN Joins("stop") ELSE UNCHANGED pc
    /\ IF stm.running THEN UNCHANGED user ELSE Become("stopped")

sun_stream_destroy ==
    /\ MayDestroy
    /\ IF stm.running THEN /\ Joins("destroy") /\ UNCHANGED user
                           /\ stm' = [stm EXCEPT !.running = FALSE]
       ELSE /\ stm' = [stm EXCEPT !.held = @ \ Owned]
            /\ Become("destroyed") /\ UNCHANGED pc

\* Only stop finds a thread to join: a started stream is stopped before it is destroyed.
Join == /\ pc.client = "stop" /\ pc.thread = "done"
        /\ stm' = [stm EXCEPT !.held = @ \ {"thread"}]
        /\ pc' = AtRest /\ Become("stopped")

-----------------------------------------------------------------------------
Tells(state) == [stm EXCEPT !.told = state]

Begin == pc.thread = "begin" /\ Goto("thread", "loop") /\ UNCHANGED <<stm, user>>

Loop ==
    /\ pc.thread = "loop"
    /\ \/ /\ ~stm.running /\ Goto("thread", "tell")
          /\ stm' = Tells("STOPPED") /\ UNCHANGED user
       \/ stm.running /\ Goto("thread", "data") /\ CallData /\ UNCHANGED stm

Data ==
    /\ pc.thread = "data"
    /\ \E r \in Results :
         /\ Answer(r)
         /\ \/ r = "error" /\ Goto("thread", "tell") /\ stm' = Tells("ERROR")
            \/ /\ r # "error" /\ Goto("thread", "transfer")
               /\ stm' = [stm EXCEPT !.drain = @ \/ r \in Short,
                    !.to_write = IF "play" \notin stm.files THEN 0
                                 ELSE CASE r = "all" -> Block [] r = "some" -> 1 [] OTHER -> 0,
                    !.to_read  = IF "record" \in stm.files THEN Block ELSE 0]

Transferred == stm.to_write = 0 /\ stm.to_read = 0

\* Mutant of Transfer: what is written is not limited by the device's buffer.
TransferAll ==
    /\ pc.thread = "transfer" /\ ~Transferred /\ UNCHANGED user
    /\ stm' = [stm EXCEPT !.to_write = 0, !.to_read = 0, !.queued = @ + stm.to_write]
    /\ UNCHANGED pc

\* One round of the inner loop: write blocks while the device's buffer is full,
\* read until something is recorded.
Transfer ==
    /\ pc.thread = "transfer" /\ ~Transferred /\ UNCHANGED user
    /\ \/ Goto("thread", "tell") /\ stm' = Tells("ERROR")
       \/ \E w \in 0..stm.to_write, r \in 0..stm.to_read :
             /\ w = 0 <=> stm.to_write = 0
             /\ r = 0 <=> stm.to_read = 0
             /\ stm.queued + w <= Buf
             /\ stm' = [stm EXCEPT !.to_write = @ - w, !.to_read = @ - r, !.queued = @ + w]
             /\ UNCHANGED pc

\* The whole block is transferred.  Nothing waits for the device to play it.
Round ==
    /\ pc.thread = "transfer" /\ Transferred /\ UNCHANGED user
    /\ IF stm.drain THEN Goto("thread", "tell") /\ stm' = Tells("DRAINED")
                    ELSE Goto("thread", "loop") /\ UNCHANGED stm

Tell == /\ pc.thread = "tell" /\ Goto("thread", "done") /\ Told(stm.told)
        /\ stm' = [stm EXCEPT !.to_write = 0, !.to_read = 0]

Device == stm.queued > 0 /\ stm' = [stm EXCEPT !.queued = @ - 1] /\ UNCHANGED <<pc, user>>

Thread == Begin \/ Loop \/ Data \/ Transfer \/ Round \/ Tell
Client == Join
Calls  == sun_init \/ sun_destroy \/ sun_stream_init \/ sun_stream_start \/ sun_stream_stop \/ sun_stream_destroy

TypeOK == /\ stm.files \subseteq Files /\ stm.queued \in 0..Buf
          /\ stm.to_write \in 0..Block /\ stm.to_read \in 0..Block
          /\ stm.held \subseteq Owned \cup {"context", "thread"}
=============================================================================
