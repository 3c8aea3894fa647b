------------------------------- MODULE KaiStream -------------------------------
(* cubeb_kai.c: KAI, outside of this repository, calls kai_callback for each of *)
(* its NBUFS buffers while it plays, and ends after a short one; kaiStop and    *)
(* kaiClose are taken to wait for a callback in progress.                       *)
EXTENDS Backend

NBUFS == 2

Closed == [playing |-> FALSE, ended |-> FALSE, got |-> 0, queued |-> 0, held |-> {}]

Streams == {Closed}

kai_init    == Opens(<<"kai">>, {})
kai_destroy == Closes({"kai"})

kai_stream_init ==
    /\ MayInit /\ UNCHANGED pc
    /\ \/ Acquire(<<"mutex", "hkai">>) /\ Become("stopped")
       \/ Fails(<<"mutex", "hkai">>, {"mutex"}) /\ UNCHANGED user

\* Mutant of kai_stream_destroy: the mutex is kept.
DestroyKeepsMutex == MayDestroy /\ Release({"hkai"}) /\ Become("destroyed") /\ UNCHANGED pc

kai_stream_destroy ==
    /\ MayDestroy /\ UNCHANGED pc
    /\ Release({"hkai", "mutex"}) /\ Become("destroyed")

kai_stream_start ==
    /\ MayStart /\ UNCHANGED pc
    /\ \/ stm' = [stm EXCEPT !.playing = TRUE, !.ended = FALSE] /\ Begins
       \/ UNCHANGED <<stm, user>>                \* kaiPlay fails

kai_stream_stop ==
    /\ MayStop /\ pc.thread = "none" /\ UNCHANGED pc
    /\ \/ stm' = [stm EXCEPT !.playing = FALSE, !.queued = 0] /\ Become("stopped")
       \/ UNCHANGED <<stm, user>>                \* kaiStop fails

kai_callback ==
    /\ pc.thread = "none" /\ stm.playing /\ ~stm.ended /\ stm.queued < NBUFS
    /\ Goto("thread", "data") /\ CallData /\ UNCHANGED stm

\* An error is counted and reported as a short buffer, before KAI has the buffer.
\* The length returned for it is negative, and unsigned: KAI may or may not go on.
Returned ==
    /\ pc.thread = "data"
    /\ \E r \in Results, e \in BOOLEAN :
         /\ Answer(r)
         /\ r # "error" => (e <=> r # "all")
         /\ stm' = [stm EXCEPT !.got = IF r \in {"all", "some"} THEN 1 ELSE 0, !.ended = e]
         /\ Goto("thread", IF r = "all" THEN "hand" ELSE "tell")

Tell == pc.thread = "tell" /\ Told("DRAINED") /\ Goto("thread", "hand") /\ UNCHANGED stm

Hand == /\ pc.thread = "hand" /\ Goto("thread", "none") /\ UNCHANGED user
        /\ stm' = [stm EXCEPT !.queued = @ + stm.got, !.got = 0]

Device == /\ stm.playing /\ stm.queued > 0
          /\ stm' = [stm EXCEPT !.queued = @ - 1] /\ UNCHANGED <<pc, user>>

Thread == kai_callback \/ Returned \/ Tell \/ Hand
Calls  == kai_init \/ kai_destroy \/ kai_stream_init \/ kai_stream_start \/ kai_stream_stop \/ kai_stream_destroy

TypeOK == stm.queued \in 0..NBUFS /\ stm.got \in 0..1 /\ stm.held \subseteq {"kai", "mutex", "hkai"}
=============================================================================
