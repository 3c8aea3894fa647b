----------------------------- MODULE AAudioContext -----------------------------
(* cubeb_aaudio.cpp: the two threads of a context, which sleep on one condition *)
(* variable.  The state thread (thread) signals the changes of state and stops   *)
(* what has drained; data callbacks wake it, and may not block to do so, so that *)
(* the notifier (worker) stands in when it was about to sleep.  One stream with   *)
(* one end; its device changes and its position are in AAudioStreams.             *)
EXTENDS Backend

Buf  == 2             \* what the device buffers, in callbacks
Ends == {"output", "input"}

\* aa is what AAudio says of the stream, cb where its data callback is, expected
\* what start has loaded, polling the state thread's own, and lost a ghost: the
\* last notification found the notifier not running yet and no one waiting.
Closed == [end |-> "output", state |-> "INIT", aa |-> "NULL", cb |-> "none", expected |-> "INIT",
           waiting |-> FALSE, join |-> FALSE, polling |-> FALSE, lost |-> FALSE,
           queued |-> 0, held |-> {}]

Streams == { [Closed EXCEPT !.end = e] : e \in Ends }

-----------------------------------------------------------------------------
\* The context's mutex, which its two threads hold but when they wait, and its
\* condition variable.
MutexIsFree == /\ pc.thread \in {"none", "begin", "wait", "timed", "woken", "ended"}
               /\ pc.worker \in {"none", "begin", "wait", "woken", "ended"}
Waiters     == { w \in {"thread", "worker"} : pc[w] \in {"wait", "timed"} }

\* Who calls goes on, and one of those that wait is woken.
notify_one(next) == IF Waiters = {} THEN pc' = next
                                    ELSE \E w \in Waiters : pc' = [next EXCEPT ![w] = "woken"]
notify_all(next) == pc' = [next EXCEPT !.thread = IF "thread" \in Waiters THEN "woken" ELSE @,
                                       !.worker = IF "worker" \in Waiters THEN "woken" ELSE @]
Lost             == pc.thread = "sleep" /\ pc.worker = "begin"
Notified(s)      == [s EXCEPT !.lost = Lost]

\* The stream's mutex.
Unlocked == /\ pc.thread \notin {"decide", "STARTED", "STOPPED", "DRAINED", "ERROR"}
            /\ pc.client \notin {"settle_start", "exchange_STARTING", "started",
                                 "settle_stop", "exchange_STOPPING", "stopped"}

-----------------------------------------------------------------------------
\* AAudio: a request may fail, and takes effect later; no data callback runs once
\* a request to pause or stop has returned.
Transitional == {"STARTING", "PAUSING", "STOPPING"}
Stopped(s)   == [s EXCEPT !.aa = IF @ \in {"STOPPED", "STOPPING"} THEN @ ELSE "STOPPING"]
Settle == /\ stm.aa \in Transitional
          /\ stm' = [stm EXCEPT !.aa = CASE @ = "STARTING" -> "STARTED"
                                         [] @ = "PAUSING"  -> "PAUSED"
                                         [] @ = "STOPPING" -> "STOPPED"]
Play   == /\ stm.aa \in {"STARTED", "STOPPING"} /\ stm.queued > 0
          /\ stm' = [stm EXCEPT !.queued = @ - 1]
Device == (Settle \/ Play) /\ UNCHANGED <<pc, user>>

-----------------------------------------------------------------------------
\* The client's calls.
aaudio_init ==
    /\ MayOpen
    /\ \/ /\ Acquire(<<"context", "threads">>) /\ Become("none")
          /\ pc' = [pc EXCEPT !.thread = "begin", !.worker = "begin"]
       \/ Goto("client", "failed") /\ UNCHANGED <<stm, user>>    \* no libaaudio

aaudio_destroy == /\ MayClose /\ Goto("client", "join") /\ UNCHANGED user
                  /\ stm' = [stm EXCEPT !.join = TRUE]
NotifyJoin     == pc.client = "join" /\ notify_all([pc EXCEPT !.client = "joining"]) /\ UNCHANGED <<stm, user>>
Joined         == /\ pc.client = "joining" /\ pc.thread = "ended" /\ pc.worker = "ended"
                  /\ Release({"context", "threads"}) /\ Become("gone") /\ pc' = AtRest

\* What fails is undone by the destroy of the stream.
aaudio_stream_init ==
    /\ MayInit /\ UNCHANGED pc
    /\ \/ /\ stm' = [stm EXCEPT !.held = @ \cup {"slot", "stream", "resampler"},
                                !.state = "STOPPED", !.aa = "OPEN"]
          /\ Become("stopped")
       \/ Fails(<<"slot", "stream", "resampler">>, {"slot", "stream", "resampler"}) /\ UNCHANGED user

aaudio_stream_destroy ==
    /\ MayDestroy /\ Unlocked /\ stm.cb = "none"
    /\ IF stm.state \in {"STARTING", "STARTED"} THEN Goto("client", "undefined") /\ UNCHANGED <<stm, user>>
       ELSE /\ UNCHANGED pc /\ Become("destroyed")
            /\ stm' = [stm EXCEPT !.state = "INIT", !.aa = "NULL", !.queued = 0, !.held = @ \ {"slot", "stream", "resampler"}]

\* start and stop wait for AAudio to settle before they ask for anything.  After an
\* error, start is refused.
aaudio_stream_start ==
    /\ MayStart /\ Unlocked /\ stm.state \in {"STOPPED", "STOPPING", "DRAINING"}
    /\ Goto("client", "settle_start") /\ UNCHANGED user
    /\ stm' = [stm EXCEPT !.expected = stm.state]

\* A call that fails stores ERROR and wakes no one.
Refused == Goto("client", "idle") /\ stm' = [stm EXCEPT !.state = "ERROR"] /\ UNCHANGED user

requestStart ==
    /\ pc.client = "settle_start" /\ stm.aa \notin Transitional
    /\ \/ /\ Begins /\ Goto("client", "exchange_STARTING")
          /\ stm' = IF stm.aa = "STARTED" THEN stm
                    ELSE [stm EXCEPT !.aa = "STARTING", !.queued = IF stm.aa = "STOPPED" THEN 0 ELSE @]
       \/ Refused

\* The first callbacks may have drained the stream, or failed, by now.
ExchangeStarting ==
    /\ pc.client = "exchange_STARTING" /\ Goto("client", "started") /\ UNCHANGED user
    /\ LET may == stm.state \in {stm.expected, "STOPPING", "STOPPED"}
       IN  stm' = [stm EXCEPT !.state = IF may THEN "STARTING" ELSE @, !.waiting = TRUE, !.expected = "INIT"]

\* A stream that drains, has stopped or failed is left alone, and its client takes
\* it as stopped.
aaudio_stream_stop ==
    /\ MayStop /\ Unlocked /\ UNCHANGED stm
    /\ IF stm.state \in {"STARTING", "STARTED"} THEN Goto("client", "settle_stop") /\ UNCHANGED user
                                                ELSE Become("stopped") /\ UNCHANGED pc

\* Playing streams pause, recording ones stop.
requestPause ==
    /\ pc.client = "settle_stop" /\ stm.aa # "STARTING" /\ stm.cb = "none"
    /\ \/ /\ stm' = IF stm.end = "input" THEN Stopped(stm)
                    ELSE [stm EXCEPT !.aa = IF @ = "STARTED" THEN "PAUSING" ELSE @]
          /\ Goto("client", "exchange_STOPPING") /\ UNCHANGED user
       \/ Refused

ExchangeStopping ==
    /\ pc.client = "exchange_STOPPING"
    /\ IF stm.state \in {"STARTING", "STARTED"}
       THEN /\ stm' = [stm EXCEPT !.state = "STOPPING", !.waiting = TRUE]
            /\ Goto("client", "stopped") /\ UNCHANGED user
       ELSE Goto("client", "idle") /\ Become("stopped") /\ UNCHANGED stm

NotifyClient ==
    /\ pc.client \in {"started", "stopped"} /\ stm' = Notified(stm)
    /\ notify_one([pc EXCEPT !.client = "idle"])
    /\ IF pc.client = "stopped" THEN Become("stopped") ELSE UNCHANGED user

-----------------------------------------------------------------------------
\* The data callback stores the state, sets waiting and notifies, without a lock.
\* While it drains it plays silence; it does not look for ERROR.
data_cb ==
    /\ stm.cb = "none" /\ stm.aa \in {"STARTING", "STARTED"} /\ stm.state # "DRAINING" /\ UNCHANGED pc
    /\ stm.queued < Buf /\ CallData /\ stm' = [stm EXCEPT !.cb = "data"]

Returned ==
    /\ stm.cb = "data" /\ UNCHANGED pc
    /\ \E r \in Results :
         /\ Answer(r)
         /\ stm' = [stm EXCEPT !.queued = IF r \in {"all", "some"} /\ stm.end = "output" THEN @ + 1 ELSE @,
                               !.state = IF r = "all" THEN @ ELSE IF r = "error" THEN "ERROR" ELSE "DRAINING",
                               !.cb = CASE r = "all" -> "none" [] r = "error" -> "error" [] OTHER -> "short"]

SetWaiting == /\ stm.cb \in {"short", "error"} /\ UNCHANGED <<pc, user>>
              /\ stm' = [stm EXCEPT !.waiting = TRUE, !.cb = IF @ = "error" THEN "notify_stop" ELSE "notify"]

\* An error returned to AAudio stops the stream.
NotifyState == /\ stm.cb \in {"notify", "notify_stop"} /\ notify_one(pc) /\ UNCHANGED user
               /\ LET s == Notified([stm EXCEPT !.cb = "none"])
                  IN  stm' = IF stm.cb = "notify_stop" THEN Stopped(s) ELSE s

Callback == data_cb \/ Returned \/ SetWaiting \/ NotifyState

-----------------------------------------------------------------------------
waiting_state == {"DRAINING", "STARTING", "STOPPING", "ERROR"}

\* The state thread.
Lock == /\ pc.thread \in {"begin", "woken"} /\ MutexIsFree
        /\ Goto("thread", "loop") /\ UNCHANGED <<stm, user>>

state_thread ==
    /\ pc.thread = "loop" /\ UNCHANGED user
    /\ \/ stm.join /\ notify_one([pc EXCEPT !.thread = "ended"]) /\ UNCHANGED stm
       \/ ~stm.join /\ (stm.waiting \/ stm.polling) /\ Goto("thread", "update")
          /\ stm' = [stm EXCEPT !.waiting = FALSE, !.polling = FALSE]
       \/ ~stm.join /\ ~stm.waiting /\ ~stm.polling /\ Goto("thread", "sleep") /\ UNCHANGED stm

Sleep == pc.thread = "sleep" /\ Goto("thread", "wait") /\ UNCHANGED <<stm, user>>

\* A stream that is locked is looked at again.
update_state ==
    /\ pc.thread = "update" /\ UNCHANGED user
    /\ \/ stm.state \notin waiting_state /\ Goto("thread", "updated") /\ UNCHANGED stm
       \/ stm.state \in waiting_state /\ Unlocked /\ Goto("thread", "decide") /\ UNCHANGED stm
       \/ /\ stm.state \in waiting_state /\ ~Unlocked
          /\ stm' = Notified([stm EXCEPT !.waiting = TRUE])
          /\ notify_one([pc EXCEPT !.thread = "updated"])

\* When nothing is waited for any more it sleeps until it is notified, and else
\* for 5 ms.
Updated ==
    /\ pc.thread = "updated" /\ UNCHANGED user
    /\ stm' = [stm EXCEPT !.polling = stm.waiting \/ stm.state \in waiting_state]
    /\ Goto("thread", IF stm.state \in waiting_state /\ ~stm.waiting THEN "timed" ELSE "loop")

Timeout == pc.thread = "timed" /\ Goto("thread", "woken") /\ UNCHANGED <<stm, user>>

Leaves       == Goto("thread", "updated") /\ UNCHANGED <<stm, user>>
Signals(s)   == Goto("thread", s) /\ UNCHANGED <<stm, user>>
\* Made again 5 ms later if it fails, and taken to succeed.
requestStop  == stm.cb = "none" /\ Goto("thread", "updated") /\ stm' = Stopped(stm) /\ UNCHANGED user

shutdown_with_error ==
    IF stm.aa \in {"STOPPED", "PAUSED"}   THEN Signals("ERROR")
    ELSE IF stm.aa \in {"STOPPING", "PAUSING"} THEN Leaves ELSE requestStop

Drain == \/ stm.aa = "STOPPED" /\ Signals("DRAINED")
         \/ stm.aa = "STOPPING" /\ Leaves
         \/ stm.aa = "STARTED" /\ stm.queued > 0 /\ Leaves
         \/ stm.aa \notin {"STOPPED", "STOPPING"} /\ ~(stm.aa = "STARTED" /\ stm.queued > 0) /\ requestStop

Ended  == IF stm.end = "output" THEN "PAUSED" ELSE "STOPPED"
Ending == {"STARTING", "STARTED", IF stm.end = "output" THEN "PAUSING" ELSE "STOPPING"}

Decide ==
    /\ pc.thread = "decide"
    /\ CASE stm.state = "ERROR"    -> shutdown_with_error
         [] stm.state = "STARTING" -> IF stm.aa = "STARTED" THEN Signals("STARTED") ELSE Leaves
         [] stm.state = "STOPPING" -> IF stm.aa = Ended THEN Signals("STOPPED")
                                      ELSE IF stm.aa \in Ending THEN Leaves ELSE Signals("undefined")
         [] stm.state = "DRAINING" -> Drain
         [] OTHER                  -> Leaves

\* The client is told, and the state exchanged unless a callback has changed it:
\* then it is all looked at again.
Exchange(from, s, to) ==
    /\ pc.thread = s /\ Told(s)
    /\ \/ stm.state = from /\ Goto("thread", "updated") /\ stm' = [stm EXCEPT !.state = to]
       \/ stm.state # from /\ Goto("thread", "decide") /\ UNCHANGED stm

TellError == /\ pc.thread = "ERROR" /\ Told("ERROR") /\ Goto("thread", "updated")
             /\ stm' = [stm EXCEPT !.state = "SHUTDOWN"]

Thread == \/ Lock \/ state_thread \/ Sleep \/ update_state \/ Updated \/ Timeout \/ Decide \/ TellError
          \/ Exchange("STARTING", "STARTED", "STARTED")
          \/ Exchange("STOPPING", "STOPPED", "STOPPED")
          \/ Exchange("DRAINING", "DRAINED", "STOPPED")

\* Mutant of Renotify: the notifier does not pass on what it was woken for.
KeepsNotification == pc.worker = "woken" /\ MutexIsFree /\ Goto("worker", "loop") /\ UNCHANGED <<stm, user>>

\* The notifier: what wakes it wakes the state thread, which waits by now.
Renotify ==
    /\ pc.worker = "woken" /\ MutexIsFree /\ UNCHANGED <<stm, user>>
    /\ IF stm.waiting THEN notify_one([pc EXCEPT !.worker = "loop"]) ELSE Goto("worker", "loop")

notifier_thread ==
    \/ pc.worker = "begin" /\ MutexIsFree /\ Goto("worker", "loop") /\ UNCHANGED <<stm, user>>
    \/ pc.worker = "loop" /\ stm.join /\ notify_one([pc EXCEPT !.worker = "ended"]) /\ UNCHANGED <<stm, user>>
    \/ pc.worker = "loop" /\ ~stm.join /\ Goto("worker", "sleep") /\ UNCHANGED <<stm, user>>
    \/ pc.worker = "sleep" /\ Goto("worker", "wait") /\ UNCHANGED <<stm, user>>
    \/ Renotify

SpuriousWakeup == \E w \in Waiters : Goto(w, "woken") /\ UNCHANGED <<stm, user>>

Client == NotifyJoin \/ Joined \/ requestStart \/ ExchangeStarting \/ requestPause \/ ExchangeStopping \/ NotifyClient
Calls  == \/ aaudio_init \/ aaudio_destroy \/ aaudio_stream_init \/ aaudio_stream_destroy
          \/ aaudio_stream_start \/ aaudio_stream_stop

TypeOK == /\ stm.state \in waiting_state \cup {"INIT", "STARTED", "STOPPED", "SHUTDOWN"}
          /\ stm.aa \in Transitional \cup {"NULL", "OPEN", "STARTED", "PAUSED", "STOPPED"}
          /\ stm.cb \in {"none", "data", "short", "error", "notify", "notify_stop"} /\ stm.queued \in 0..Buf
          /\ stm.held \subseteq {"context", "threads", "slot", "stream", "resampler"}
================================================================================
