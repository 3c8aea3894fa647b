--------------------------- MODULE AAudioStreams ---------------------------
(***************************************************************************)
(* A stream of the AAudio backend (src/src/cubeb_aaudio.cpp), playing or   *)
(* duplex, in its slot of cubeb::streams.                                  *)
(*                                                                         *)
(* Four threads share it: the client; the state thread, which signals the  *)
(* changes of state; AAudio's data callback, which takes no lock; and the  *)
(* thread that reinitialises the stream when its device goes away.  Its    *)
(* error callback is a fifth.  All but the callbacks hold the stream's     *)
(* mutex, so a step is cut where a callback can come in between.           *)
(*                                                                         *)
(* AAudio is external.  What the code relies on is in its comments: no     *)
(* data callback runs once a request to pause or stop, or a close, has     *)
(* returned, and a closed stream calls nothing back.                       *)
(***************************************************************************)
EXTENDS Integers, FiniteSets

CONSTANTS
  Handles,       \* {"out"}, or {"in", "out"} for a duplex stream
  BufferSize,    \* of the playback stream, in data callbacks
  MaxFaults,     \* bound of failing calls and errors of AAudio
  MaxChanges     \* bound of device changes

ASSUME AAudioStreamsAssumption ==
  /\ Handles \in {{"out"}, {"in", "out"}}
  /\ BufferSize \in Nat \ {0} /\ MaxFaults \in Nat /\ MaxChanges \in Nat

VARIABLES
  slot_state, state, pending_reinit, mutex,    \* members of the stream
  drain_target,              \* less the frames read; -1 and all that is past is 0
  pos_estimate,              \* the alternative position_estimate holds
  latency_metrics_available,
  waiting, polling,          \* cubeb::state.waiting, the state thread's own
  sPc, old_state, seen,      \* the state thread: pc, states it has read
  pc, expected, was_playing, failing,   \* of the client and the reinit thread
  cb,                        \* the data callback: where it is
  aa, errcb,                 \* AAudio: state, error callback that is due
  buffered, unread,          \* frames to play, those up to the client's last
  view, quiet,               \* ghosts: the client's last call, whether it
                             \* expects no data callback
  faults, changes

context == <<waiting, polling>>
stateThread == <<sPc, old_state, seen>>
callers == <<pc, expected, was_playing, failing>>
timing == <<pos_estimate, latency_metrics_available>>
device == <<aa, errcb>>
frames == <<buffered, unread, drain_target>>
ghosts == <<view, quiet>>
bounds == <<faults, changes>>
vars == <<slot_state, state, pending_reinit, mutex, timing, context, stateThread,
          callers, cb, device, frames, ghosts, bounds>>

Callers == {"client", "reinit"}
Duplex == "in" \in Handles

Init ==
  /\ slot_state = "FREE" /\ state = "INIT" /\ pending_reinit = FALSE
  /\ mutex = "free" /\ drain_target = 0
  /\ pos_estimate = "None" /\ latency_metrics_available = FALSE
  /\ waiting = FALSE /\ polling = FALSE
  /\ sPc = "sleep" /\ old_state = "INIT" /\ seen = [h \in Handles |-> "NULL"]
  /\ pc = [t \in Callers |-> "idle"] /\ expected = [t \in Callers |-> "INIT"]
  /\ was_playing = FALSE /\ failing = FALSE
  /\ cb = "idle"
  /\ aa = [h \in Handles |-> "NULL"] /\ errcb = [h \in Handles |-> "none"]
  /\ buffered = 0 /\ unread = 0
  /\ view = "stopped" /\ quiet = TRUE
  /\ faults = 0 /\ changes = 0

Goto(t, label) == pc' = [pc EXCEPT ![t] = label]

-----------------------------------------------------------------------------
(* AAudio.                                                                 *)

Transitional == {"STARTING", "PAUSING", "STOPPING"}
get_stable_state(a) == CASE a = "STARTING" -> "STARTED"
                         [] a = "PAUSING" -> "PAUSED"
                         [] a = "STOPPING" -> "STOPPED"

\* A request succeeds from the states it is for; elsewhere AAudio may refuse it
\* or find nothing to do, and any call may fail.
Request(h, from, to, ok) ==
  \/ /\ ok /\ aa[h] \in from
     /\ aa' = [aa EXCEPT ![h] = to]
     /\ UNCHANGED faults
  \/ ok /\ aa[h] \notin from \cup {"DISCONNECTED"} /\ UNCHANGED <<aa, faults>>
  \/ ~ok /\ aa[h] \notin from /\ UNCHANGED <<aa, faults>>
  \/ ~ok /\ faults < MaxFaults /\ faults' = faults + 1 /\ UNCHANGED aa

requestStart(h, ok) ==
  Request(h, {"OPEN", "PAUSING", "PAUSED", "STOPPING", "STOPPED"}, "STARTING", ok)

\* No data callback runs when the call returns.
requestPause(ok) ==
  cb = "idle" /\ Request("out", {"STARTING", "STARTED"}, "PAUSING", ok)
requestStop(h, ok) ==
  /\ h = "out" => cb = "idle"
  /\ Request(h, {"OPEN", "STARTING", "STARTED", "PAUSING", "PAUSED"}, "STOPPING", ok)

\* A stream that has stopped counts all that was written as read.
Flushed == buffered' = 0 /\ unread' = 0 /\ drain_target' = 0

\* A request takes effect.
Settle(h) ==
  /\ aa[h] \in Transitional
  /\ aa' = [aa EXCEPT ![h] = get_stable_state(@)]
  /\ IF h = "out" /\ aa[h] = "STOPPING"
     THEN Flushed
     ELSE UNCHANGED frames
  /\ UNCHANGED <<slot_state, state, pending_reinit, mutex, timing, context,
                 stateThread, callers, cb, errcb, ghosts, bounds>>

Less(n) == IF n > 0 THEN n - 1 ELSE 0

\* The device plays one frame.
Play ==
  /\ aa["out"] \in {"STARTED", "STOPPING"} /\ buffered > 0
  /\ buffered' = buffered - 1
  /\ unread' = Less(unread)
  /\ drain_target' = Less(drain_target)
  /\ UNCHANGED <<slot_state, state, pending_reinit, mutex, timing, context,
                 stateThread, callers, cb, device, ghosts, bounds>>

\* The device goes away: AAudio says so to the error callback.
DeviceChange(h) ==
  /\ changes < MaxChanges
  /\ aa[h] \notin {"NULL", "DISCONNECTED"}
  /\ aa' = [aa EXCEPT ![h] = "DISCONNECTED"]
  /\ errcb' = [errcb EXCEPT ![h] = "disconnected"]
  /\ changes' = changes + 1
  /\ UNCHANGED <<slot_state, state, pending_reinit, mutex, timing, context,
                 stateThread, callers, cb, frames, ghosts, faults>>

\* Any other error stops the stream (the comment of wait_for_stable_state).
DeviceError(h) ==
  /\ faults < MaxFaults
  /\ aa[h] \in {"STARTING", "STARTED"}
  /\ aa' = [aa EXCEPT ![h] = "STOPPED"]
  /\ errcb' = [errcb EXCEPT ![h] = "error"]
  /\ faults' = faults + 1
  /\ IF h = "out" THEN Flushed ELSE UNCHANGED frames
  /\ UNCHANGED <<slot_state, state, pending_reinit, mutex, timing, context,
                 stateThread, callers, cb, ghosts, changes>>

-----------------------------------------------------------------------------
(* The callbacks.  They store the state without the mutex.                 *)

Notify == waiting' = TRUE /\ UNCHANGED polling

StoreState(s) == state' = s /\ Notify

\* reinitialize_stream: one thread at a time.
reinitialize_stream ==
  IF pending_reinit
  THEN UNCHANGED <<pending_reinit, callers>>
  ELSE /\ pending_reinit' = TRUE
       /\ Goto("reinit", "reinitLock")
       /\ UNCHANGED <<expected, was_playing, failing>>

aaudio_error_cb(h) ==
  /\ errcb[h] # "none"
  /\ errcb' = [errcb EXCEPT ![h] = "none"]
  /\ IF errcb[h] = "disconnected"
     THEN reinitialize_stream /\ UNCHANGED <<state, context>>
     ELSE StoreState("ERROR") /\ UNCHANGED <<pending_reinit, callers>>
  /\ UNCHANGED <<slot_state, mutex, timing, stateThread, cb, aa, frames, ghosts, bounds>>

\* The data callback begins: it plays silence while the stream drains.
DataCallback ==
  /\ cb = "idle"
  /\ aa["out"] \in {"STARTING", "STARTED"} /\ buffered < BufferSize
  /\ IF state = "DRAINING"
     THEN buffered' = buffered + 1 /\ UNCHANGED cb
     ELSE cb' = (IF Duplex THEN "read" ELSE "timing") /\ UNCHANGED buffered
  /\ UNCHANGED <<slot_state, state, pending_reinit, mutex, timing, context,
                 stateThread, callers, device, unread, drain_target, ghosts, bounds>>

\* AAUDIO_CALLBACK_RESULT_STOP: AAudio stops the stream.
ReturnStop == /\ cb' = "idle"
              /\ aa' = [aa EXCEPT !["out"] = IF @ = "DISCONNECTED" THEN @ ELSE "STOPPED"]

\* The input of a duplex stream.
ReadInput ==
  /\ cb = "read"
  /\ \/ /\ aa["in"] # "DISCONNECTED"
        /\ cb' = "timing"
        /\ UNCHANGED <<state, context, pending_reinit, callers, aa, faults>>
     \/ /\ aa["in"] = "DISCONNECTED"
        /\ reinitialize_stream
        /\ ReturnStop
        /\ UNCHANGED <<state, context, faults>>
     \/ /\ faults < MaxFaults /\ faults' = faults + 1
        /\ StoreState("ERROR")
        /\ ReturnStop
        /\ UNCHANGED <<pending_reinit, callers>>
  /\ UNCHANGED <<slot_state, mutex, timing, stateThread, errcb, frames, ghosts, changes>>

\* AAudio may have no timestamp yet.  TripleBuffer models timing_info.
compute_and_report_latency_metrics ==
  /\ cb = "timing"
  /\ cb' = "fill"
  /\ latency_metrics_available' \in {latency_metrics_available, TRUE}
  /\ UNCHANGED <<slot_state, state, pending_reinit, mutex, pos_estimate, context,
                 stateThread, callers, device, frames, ghosts, bounds>>

\* The client's data callback fills the buffer, fails or ends the stream.
FillBuffer ==
  /\ cb = "fill"
  /\ buffered' = buffered + 1 /\ unread' = buffered + 1
  /\ cb' = "idle"
  /\ UNCHANGED <<slot_state, state, pending_reinit, mutex, timing, context,
                 stateThread, callers, device, drain_target, ghosts, bounds>>

FillError ==
  /\ cb = "fill" /\ faults < MaxFaults /\ faults' = faults + 1
  /\ StoreState("ERROR")
  /\ ReturnStop
  /\ UNCHANGED <<slot_state, pending_reinit, mutex, timing, stateThread, callers,
                 errcb, frames, ghosts, changes>>

\* A short buffer: the frames written so far are to be played.
FillShort ==
  /\ cb = "fill"
  /\ drain_target' = buffered
  /\ cb' = "drain"
  /\ UNCHANGED <<slot_state, state, pending_reinit, mutex, timing, context,
                 stateThread, callers, device, buffered, unread, ghosts, bounds>>

StartDraining ==
  /\ cb = "drain"
  /\ StoreState("DRAINING")
  /\ buffered' = buffered + 1
  /\ cb' = "idle"
  /\ UNCHANGED <<slot_state, pending_reinit, mutex, timing, stateThread, callers,
                 device, unread, drain_target, ghosts, bounds>>

-----------------------------------------------------------------------------
(* start, stop, destroy and init, by the client or the reinit thread, which *)
(* holds the mutex.                                                         *)

\* What follows a call, whose result is ok.
StartReturns(t, ok) ==
  /\ expected' = [expected EXCEPT ![t] = "INIT"]
  /\ IF t = "client"
     THEN mutex' = "free" /\ Goto(t, "idle") /\ UNCHANGED failing
     ELSE Goto(t, "clearDrain") /\ failing' = ~ok /\ UNCHANGED mutex

StopReturns(t) ==
  /\ expected' = [expected EXCEPT ![t] = "INIT"]
  /\ IF t = "client"
     THEN mutex' = "free" /\ Goto(t, "idle")
     ELSE Goto(t, "closeOut") /\ UNCHANGED mutex

InitFails(t) ==
  IF t = "client"
  THEN mutex' = "free" /\ Goto(t, "destroyLock") /\ UNCHANGED <<failing, pos_estimate>>
  ELSE /\ pos_estimate' = "None" /\ failing' = TRUE
       /\ Goto(t, "closeOut")
       /\ UNCHANGED mutex

StartLoad(t) ==
  /\ pc[t] = "startLoad"
  /\ IF state \in {"STOPPED", "STOPPING", "DRAINING"}
     THEN /\ expected' = [expected EXCEPT ![t] = state]
          /\ Goto(t, "startWait")
          /\ UNCHANGED <<mutex, failing>>
     ELSE StartReturns(t, state \in {"STARTED", "STARTING"})
  /\ UNCHANGED <<slot_state, state, pending_reinit, timing, context, stateThread,
                 was_playing, cb, device, frames, ghosts, bounds>>

\* An error of AAudio in start or stop: the state thread is not notified.
Fails == state' = "ERROR"

\* wait_for_stable_state of each handle.
StartWait(t) ==
  /\ pc[t] = "startWait"
  /\ \/ /\ \A h \in Handles : aa[h] \notin Transitional
        /\ Goto(t, IF Duplex THEN "startIn" ELSE "startOut")
        /\ UNCHANGED <<state, mutex, expected, failing, faults>>
     \/ /\ \E h \in Handles : aa[h] \in Transitional
        /\ faults < MaxFaults /\ faults' = faults + 1
        /\ Fails /\ StartReturns(t, FALSE)
  /\ UNCHANGED <<slot_state, pending_reinit, timing, context, stateThread,
                 was_playing, cb, device, frames, ghosts, changes>>

StartHandle(t, label, h, next) ==
  /\ pc[t] = label
  /\ \/ /\ requestStart(h, TRUE) /\ Goto(t, next)
        /\ UNCHANGED <<state, mutex, expected, failing>>
     \/ requestStart(h, FALSE) /\ Fails /\ StartReturns(t, FALSE)
  /\ UNCHANGED <<slot_state, pending_reinit, timing, context, stateThread,
                 was_playing, cb, errcb, frames, ghosts, changes>>

\* position_estimate::start and stop
\* Mutant of PositionStart: only an estimate that was paused is started.
PositionResume ==
  pos_estimate' = IF pos_estimate = "Pause" THEN "Resume" ELSE pos_estimate
PositionStart == pos_estimate' = IF pos_estimate = "Pause" THEN "Resume" ELSE "Play"
PositionStop == pos_estimate' = "Pause"

\* The data callback may have failed or drained the stream already.
StartCas(t) ==
  /\ pc[t] = "startCas"
  /\ \/ /\ state = expected[t]
        /\ state' = "STARTING"
        /\ PositionStart
        /\ StartReturns(t, TRUE)
        /\ Notify
     \/ /\ state # expected[t] /\ state \in {"STOPPING", "STOPPED"}
        /\ expected' = [expected EXCEPT ![t] = state]
        /\ UNCHANGED <<state, pos_estimate, mutex, pc, failing, context>>
     \/ /\ state # expected[t] /\ state \notin {"STOPPING", "STOPPED"}
        /\ StartReturns(t, state = "DRAINING")
        /\ Notify /\ UNCHANGED <<state, pos_estimate>>
  /\ UNCHANGED <<slot_state, pending_reinit, latency_metrics_available,
                 stateThread, was_playing, cb, device, frames, ghosts, bounds>>

StopLoad(t) ==
  /\ pc[t] = "stopLoad"
  /\ IF state \in {"STARTED", "STARTING"}
     THEN /\ expected' = [expected EXCEPT ![t] = state]
          /\ Goto(t, "stopWait")
          /\ UNCHANGED mutex
     ELSE StopReturns(t)
  /\ UNCHANGED <<slot_state, state, pending_reinit, timing, context, stateThread,
                 was_playing, failing, cb, device, frames, ghosts, bounds>>

StopWait(t) ==
  /\ pc[t] = "stopWait"
  /\ \/ /\ \A h \in Handles : aa[h] # "STARTING"
        /\ Goto(t, "pauseOut")
        /\ UNCHANGED <<state, mutex, expected, faults>>
     \/ /\ \E h \in Handles : aa[h] = "STARTING"
        /\ faults < MaxFaults /\ faults' = faults + 1
        /\ Fails /\ StopReturns(t)
  /\ UNCHANGED <<slot_state, pending_reinit, timing, context, stateThread,
                 was_playing, failing, cb, device, frames, ghosts, changes>>

\* Output pauses, input stops.
PauseOut(t) ==
  /\ pc[t] = "pauseOut"
  /\ \/ /\ requestPause(TRUE) /\ Goto(t, IF Duplex THEN "stopIn" ELSE "stopCas")
        /\ UNCHANGED <<state, mutex, expected>>
     \/ requestPause(FALSE) /\ Fails /\ StopReturns(t)
  /\ UNCHANGED <<slot_state, pending_reinit, timing, context, stateThread,
                 was_playing, failing, cb, errcb, frames, ghosts, changes>>

StopIn(t) ==
  /\ pc[t] = "stopIn"
  /\ \/ /\ requestStop("in", TRUE) /\ Goto(t, "stopCas")
        /\ UNCHANGED <<state, mutex, expected>>
     \/ requestStop("in", FALSE) /\ Fails /\ StopReturns(t)
  /\ UNCHANGED <<slot_state, pending_reinit, timing, context, stateThread,
                 was_playing, failing, cb, errcb, frames, ghosts, changes>>

StopCas(t) ==
  /\ pc[t] = "stopCas"
  /\ \/ /\ state = expected[t]
        /\ state' = "STOPPING"
        /\ PositionStop
        /\ StopReturns(t)
        /\ quiet' = (quiet \/ t = "client")
        /\ Notify
     \/ /\ state # expected[t] /\ state = "STARTED"
        /\ expected' = [expected EXCEPT ![t] = state]
        /\ UNCHANGED <<state, pos_estimate, mutex, pc, quiet, context>>
     \/ /\ state # expected[t] /\ state # "STARTED"
        /\ StopReturns(t)
        /\ UNCHANGED <<state, pos_estimate, quiet, context>>
  /\ UNCHANGED <<slot_state, pending_reinit, latency_metrics_available,
                 stateThread, was_playing, failing, cb, device, frames, view, bounds>>

OutputStops == cb = "idle"

\* aaudio_stream_destroy_locked: output first; it is requested to stop before,
\* if it may be playing, and no data callback runs once it is closed.
CloseOut(t) ==
  /\ pc[t] = "closeOut"
  /\ OutputStops
  /\ aa' = [aa EXCEPT !["out"] = "NULL"] /\ errcb' = [errcb EXCEPT !["out"] = "none"]
  /\ Flushed
  /\ Goto(t, "closeIn")
  /\ UNCHANGED <<slot_state, state, pending_reinit, mutex, timing, context,
                 stateThread, expected, was_playing, failing, cb, ghosts, bounds>>

\* Then the input, and the members.  A destroyed stream's slot waits for the
\* reinit thread; reinitialisation goes on, or reports its failure.
CloseIn(t) ==
  /\ pc[t] = "closeIn"
  /\ aa' = [h \in Handles |-> IF h = "in" THEN "NULL" ELSE aa[h]]
  /\ errcb' = [h \in Handles |-> IF h = "in" THEN "none" ELSE errcb[h]]
  /\ latency_metrics_available' = FALSE
  /\ pos_estimate' = "None"
  /\ \/ /\ t = "client"
        /\ state' = "INIT" /\ slot_state' = "DESTROYING" /\ mutex' = "free"
        /\ Goto(t, "destroyWait")
        /\ UNCHANGED context
     \/ /\ t = "reinit" /\ failing
        /\ StoreState("ERROR") /\ mutex' = "free"
        /\ Goto(t, "reinitEnd")
        /\ UNCHANGED slot_state
     \/ /\ t = "reinit" /\ ~failing
        /\ state' = "INIT"
        /\ Goto(t, "openOut")
        /\ UNCHANGED <<slot_state, mutex, context>>
  /\ UNCHANGED <<pending_reinit, stateThread, expected, was_playing, failing, cb,
                 frames, ghosts, bounds>>

\* aaudio_stream_init_impl: output, input, then resampler; each may fail.
OpenHandle(t, label, h, next) ==
  /\ pc[t] = label
  /\ \/ /\ aa' = [aa EXCEPT ![h] = "OPEN"]
        /\ Goto(t, next)
        /\ UNCHANGED <<mutex, failing, pos_estimate, faults>>
     \/ /\ faults < MaxFaults /\ faults' = faults + 1
        /\ InitFails(t) /\ UNCHANGED aa
  /\ UNCHANGED <<slot_state, state, pending_reinit, latency_metrics_available,
                 context, stateThread, expected, was_playing, cb, errcb,
                 frames, ghosts, changes>>

Ready(t) ==
  /\ pc[t] = "ready"
  /\ \/ /\ state' = "STOPPED"
        /\ \/ /\ t = "client"
              /\ mutex' = "free" /\ Goto(t, "idle")
              /\ UNCHANGED pos_estimate
           \/ /\ t = "reinit"
              /\ pos_estimate' = "None"
              /\ IF was_playing
                 THEN Goto(t, "startLoad") /\ UNCHANGED mutex
                 ELSE mutex' = "free" /\ Goto(t, "reinitEnd")
        /\ UNCHANGED <<failing, faults>>
     \/ /\ faults < MaxFaults /\ faults' = faults + 1
        /\ InitFails(t) /\ UNCHANGED state
  /\ UNCHANGED <<slot_state, pending_reinit, latency_metrics_available,
                 context, stateThread, expected, was_playing, cb, device, frames,
                 ghosts, changes>>

-----------------------------------------------------------------------------
(* The client: it stops a stream before it destroys it.                    *)

Call(label) == mutex = "free" /\ mutex' = "client" /\ Goto("client", label)

aaudio_stream_init ==
  /\ pc["client"] = "idle" /\ slot_state = "FREE"
  /\ Call("openOut")
  /\ slot_state' = "IN_USE"
  /\ view' = "stopped" /\ quiet' = TRUE
  /\ UNCHANGED <<state, pending_reinit, timing, context, stateThread, expected,
                 was_playing, failing, cb, device, frames, bounds>>

aaudio_stream_start ==
  /\ pc["client"] = "idle" /\ slot_state = "IN_USE"
  /\ Call("startLoad")
  /\ view' = "started" /\ quiet' = FALSE
  /\ UNCHANGED <<slot_state, state, pending_reinit, timing, context, stateThread,
                 expected, was_playing, failing, cb, device, frames, bounds>>

aaudio_stream_stop ==
  /\ pc["client"] = "idle" /\ slot_state = "IN_USE"
  /\ Call("stopLoad")
  /\ view' = "stopped"
  /\ UNCHANGED <<slot_state, state, pending_reinit, timing, context, stateThread,
                 expected, was_playing, failing, cb, device, frames, quiet, bounds>>

\* aaudio_stream_init destroys the stream too, when it fails.
aaudio_stream_destroy ==
  /\ \/ pc["client"] = "idle" /\ slot_state = "IN_USE" /\ view = "stopped"
     \/ pc["client"] = "destroyLock"
  /\ Call("closeOut")
  /\ UNCHANGED <<slot_state, state, pending_reinit, timing, context, stateThread,
                 expected, was_playing, failing, cb, device, frames, ghosts, bounds>>

\* Mutant of DestroyWait: the slot is freed at once.
DestroyNoWait ==
  /\ pc["client"] = "destroyWait"
  /\ slot_state' = "FREE"
  /\ Goto("client", "idle")
  /\ UNCHANGED <<state, pending_reinit, mutex, timing, context, stateThread, expected,
                 was_playing, failing, cb, device, frames, ghosts, bounds>>

DestroyWait ==
  /\ pc["client"] = "destroyWait" /\ ~pending_reinit
  /\ slot_state' = "FREE"
  /\ Goto("client", "idle")
  /\ UNCHANGED <<state, pending_reinit, mutex, timing, context, stateThread, expected,
                 was_playing, failing, cb, device, frames, ghosts, bounds>>

\* aaudio_stream_get_position, where it reads timing_info.
aaudio_stream_get_position ==
  /\ pc["client"] = "idle" /\ slot_state = "IN_USE"
  /\ state \in {"STARTED", "STARTING"} /\ latency_metrics_available
  /\ Call("position")
  /\ UNCHANGED <<slot_state, state, pending_reinit, timing, context, stateThread,
                 expected, was_playing, failing, cb, device, frames, ghosts, bounds>>

\* position_estimate::elapsed_time_since_callback notices a callback since then.
ReadTiming ==
  /\ pc["client"] = "position"
  /\ \/ UNCHANGED pos_estimate
     \/ pos_estimate = "Resume" /\ pos_estimate' = "Play"
  /\ mutex' = "free" /\ Goto("client", "idle")
  /\ UNCHANGED <<slot_state, state, pending_reinit, latency_metrics_available,
                 context, stateThread, expected, was_playing, failing, cb,
                 device, frames, ghosts, bounds>>

-----------------------------------------------------------------------------
(* The thread reinitialize_stream makes.                                   *)

\* Mutant of Playing: a stopping stream plays too.
PlayingStill == {"STARTED", "STARTING", "STOPPING", "DRAINING"}

Playing == {"STARTED", "STARTING", "DRAINING"}

\* Mutant of Cancel: pending_reinit is not cleared on the early return.
CancelAtOnce == Goto("reinit", "idle")
Cancel == Goto("reinit", "reinitEnd")

ReinitLock ==
  /\ pc["reinit"] = "reinitLock" /\ mutex = "free"
  /\ failing' = FALSE
  /\ IF slot_state = "IN_USE"
     THEN /\ was_playing' = (state \in Playing)
          /\ mutex' = "reinit"
          /\ Goto("reinit", "stopLoad")
     ELSE Cancel /\ UNCHANGED <<was_playing, mutex>>
  /\ UNCHANGED <<slot_state, state, pending_reinit, timing, context, stateThread,
                 expected, cb, device, frames, ghosts, bounds>>

ClearDrain ==
  /\ pc["reinit"] = "clearDrain"
  /\ drain_target' = 0
  /\ IF failing
     THEN Goto("reinit", "closeOut") /\ UNCHANGED mutex
     ELSE mutex' = "free" /\ Goto("reinit", "reinitEnd")
  /\ UNCHANGED <<slot_state, state, pending_reinit, timing, context, stateThread,
                 expected, was_playing, failing, cb, device, buffered, unread, ghosts,
                 bounds>>

ReinitEnd ==
  /\ pc["reinit"] = "reinitEnd"
  /\ pending_reinit' = FALSE /\ was_playing' = FALSE /\ failing' = FALSE
  /\ Goto("reinit", "idle")
  /\ UNCHANGED <<slot_state, state, mutex, timing, context, stateThread, expected,
                 cb, device, frames, ghosts, bounds>>

CallerNext(t) ==
  \/ StartLoad(t) \/ StartWait(t) \/ StartCas(t)
  \/ Duplex /\ StartHandle(t, "startIn", "in", "startOut")
  \/ StartHandle(t, "startOut", "out", "startCas")
  \/ StopLoad(t) \/ StopWait(t) \/ PauseOut(t) \/ StopCas(t)
  \/ Duplex /\ StopIn(t)
  \/ CloseOut(t) \/ CloseIn(t)
  \/ OpenHandle(t, "openOut", "out", IF Duplex THEN "openIn" ELSE "ready")
  \/ Duplex /\ OpenHandle(t, "openIn", "in", "ready")
  \/ Ready(t)

-----------------------------------------------------------------------------
(* The state thread.                                                       *)

waiting_state == {"DRAINING", "STARTING", "STOPPING", "ERROR"}

\* It is woken by a notification, and polls while the state is a waiting one.
\* update_state tries to lock the stream.
Update ==
  /\ sPc = "sleep" /\ (waiting \/ polling)
  /\ polling' = (state \in waiting_state)
  /\ IF state \in waiting_state /\ mutex = "free"
     THEN /\ mutex' = "state"
          /\ old_state' = state
          /\ sPc' = IF state = "ERROR" THEN "shutdown" ELSE "refresh"
          /\ waiting' = FALSE
     ELSE /\ waiting' = (state \in waiting_state)
          /\ UNCHANGED <<mutex, old_state, sPc>>
  /\ UNCHANGED <<slot_state, state, pending_reinit, timing, seen, callers, cb, device,
                 frames, ghosts, bounds>>

\* Mutant of Leave: the state thread does not poll.
LeaveAsleep(s) ==
  /\ sPc' = "sleep" /\ mutex' = "free"
  /\ polling' = (s \in {})
  /\ old_state' = "INIT" /\ seen' = [h \in Handles |-> "NULL"]
  /\ UNCHANGED waiting

\* update_state returns with the state at s, and its locals go.
Leave(s) ==
  /\ sPc' = "sleep" /\ mutex' = "free"
  /\ polling' = (s \in waiting_state)
  /\ old_state' = "INIT" /\ seen' = [h \in Handles |-> "NULL"]
  /\ UNCHANGED waiting

GoOn(label) == sPc' = label /\ UNCHANGED <<mutex, context, old_state, seen>>

Refresh ==
  /\ sPc \in {"refresh", "refreshOut"}
  /\ LET h == IF sPc = "refresh" /\ Duplex THEN "in" ELSE "out"
     IN \/ /\ seen' = [seen EXCEPT ![h] = aa[h]]
           /\ sPc' = IF h = "in" THEN "refreshOut" ELSE "decide"
           /\ UNCHANGED <<mutex, context, old_state, faults>>
        \/ /\ faults < MaxFaults /\ faults' = faults + 1
           /\ Leave(state)
  /\ UNCHANGED <<slot_state, state, pending_reinit, timing, callers, cb, device,
                 frames, ghosts, changes>>

StayIn(s) == /\ sPc = "decide" /\ old_state = s
             /\ \A h \in Handles : seen[h] # "DISCONNECTED"

Disconnected ==
  /\ sPc = "decide"
  /\ \E h \in Handles : seen[h] = "DISCONNECTED"
  /\ sPc' = "shutdown"
  /\ UNCHANGED <<slot_state, state, pending_reinit, mutex, timing, context, old_state,
                 seen, callers, cb, device, frames, ghosts, bounds>>

\* STARTED, STOPPED and DRAINED are signalled before the state is exchanged.
Starting ==
  /\ StayIn("STARTING")
  /\ IF \A h \in Handles : seen[h] = "STARTED"
     THEN GoOn("started")
     ELSE Leave(state)
  /\ UNCHANGED <<slot_state, state, pending_reinit, timing, callers, cb, device,
                 frames, ghosts, bounds>>

Stopping ==
  /\ StayIn("STOPPING")
  /\ IF seen["out"] = "PAUSED" /\ (Duplex => seen["in"] = "STOPPED")
     THEN GoOn("stopped") /\ quiet' = TRUE
     ELSE Leave(state) /\ UNCHANGED quiet
  /\ UNCHANGED <<slot_state, state, pending_reinit, timing, callers, cb, device,
                 frames, view, bounds>>

\* A stream that plays is stopped when it has played what the client gave it.
Undrained == seen["out"] = "STARTED" /\ drain_target > 0
Draining ==
  /\ StayIn("DRAINING")
  /\ IF Undrained
     THEN Leave(state)
     ELSE GoOn("drainOut")
  /\ UNCHANGED <<slot_state, state, pending_reinit, timing, callers, cb, device,
                 frames, ghosts, bounds>>

DrainStop ==
  /\ sPc \in {"drainOut", "drainIn"}
  /\ LET h == IF sPc = "drainOut" THEN "out" ELSE "in"
         go == GoOn(IF h = "out" /\ Duplex THEN "drainIn" ELSE "drained")
     IN \/ seen[h] \in {"STOPPING", "STOPPED"} /\ go /\ UNCHANGED <<aa, faults>>
        \/ seen[h] \notin {"STOPPING", "STOPPED"} /\ requestStop(h, TRUE) /\ go
        \/ seen[h] \notin {"STOPPING", "STOPPED"} /\ requestStop(h, FALSE) /\ Leave(state)
  /\ UNCHANGED <<slot_state, state, pending_reinit, timing, callers, cb, errcb,
                 frames, ghosts, changes>>

\* The client that is told expects quiet, unless an error has come meanwhile.
Drained ==
  /\ sPc = "drained"
  /\ IF \A h \in Handles : seen[h] = "STOPPED"
     THEN /\ GoOn("stopped") /\ drain_target' = 0
          /\ quiet' = (quiet \/ state = old_state)
     ELSE Leave(state) /\ UNCHANGED <<drain_target, quiet>>
  /\ UNCHANGED <<slot_state, state, pending_reinit, timing, callers, cb, device,
                 buffered, unread, view, bounds>>

\* A state the callbacks stored in the meantime is not overwritten.
Exchange ==
  /\ sPc \in {"started", "stopped"}
  /\ LET new_state == IF sPc = "started" THEN "STARTED" ELSE "STOPPED"
     IN \/ /\ state = old_state
           /\ state' = new_state
           /\ Leave(new_state)
        \/ /\ state # old_state
           /\ old_state' = state
           /\ sPc' = IF state = "ERROR" THEN "shutdown" ELSE "refresh"
           /\ UNCHANGED <<state, mutex, context, seen>>
  /\ UNCHANGED <<slot_state, pending_reinit, timing, callers, cb, device, frames,
                 ghosts, bounds>>

\* shutdown_with_error: both handles are stopped; the client is told once they
\* have.  A state that cannot be read counts as none.
Shutdown ==
  /\ sPc = "shutdown"
  /\ \/ seen' = aa /\ UNCHANGED faults
     \/ /\ faults < MaxFaults /\ faults' = faults + 1
        /\ \E h \in Handles : seen' = [aa EXCEPT ![h] = "NULL"]
  /\ sPc' = IF Duplex THEN "shutIn" ELSE "shutOut"
  /\ UNCHANGED <<slot_state, state, pending_reinit, mutex, timing, context, old_state,
                 callers, cb, device, frames, ghosts, changes>>

ShutStop ==
  /\ sPc \in {"shutIn", "shutOut"}
  /\ LET h == IF sPc = "shutIn" THEN "in" ELSE "out"
         left == {"NULL", "STOPPING", "STOPPED"} \cup
                 (IF h = "out" THEN {"PAUSING", "PAUSED"} ELSE {})
     IN \/ seen[h] \in left /\ UNCHANGED <<aa, faults>>
        \/ seen[h] \notin left /\ \E ok \in BOOLEAN : requestStop(h, ok)
  /\ sPc' = IF sPc = "shutIn" THEN "shutOut" ELSE "shutDone"
  /\ UNCHANGED <<slot_state, state, pending_reinit, mutex, timing, context, old_state,
                 seen, callers, cb, errcb, frames, ghosts, changes>>

ShutDone ==
  /\ sPc = "shutDone"
  /\ IF /\ seen["out"] \in {"NULL", "STOPPED", "PAUSED", "DISCONNECTED"}
        /\ Duplex => seen["in"] \in {"NULL", "STOPPED", "DISCONNECTED"}
     THEN state' = "SHUTDOWN" /\ Leave("SHUTDOWN")
     ELSE Leave(state) /\ UNCHANGED state
  /\ UNCHANGED <<slot_state, pending_reinit, timing, callers, cb, device, frames,
                 ghosts, bounds>>

StateThread == \/ Update \/ Refresh \/ Disconnected \/ Starting \/ Stopping \/ Draining
               \/ DrainStop \/ Drained \/ Exchange \/ Shutdown \/ ShutStop \/ ShutDone

-----------------------------------------------------------------------------
DataCallbackReturns == \/ ReadInput \/ compute_and_report_latency_metrics
                       \/ FillBuffer \/ FillError \/ FillShort \/ StartDraining

Next ==
  \/ \E h \in Handles : Settle(h) \/ DeviceChange(h) \/ DeviceError(h)
                        \/ aaudio_error_cb(h)
  \/ Play \/ DataCallback \/ DataCallbackReturns
  \/ aaudio_stream_init \/ aaudio_stream_start \/ aaudio_stream_stop
  \/ aaudio_stream_destroy \/ DestroyWait
  \/ aaudio_stream_get_position \/ ReadTiming
  \/ ReinitLock \/ ClearDrain \/ ReinitEnd
  \/ \E t \in Callers : CallerNext(t)
  \/ StateThread

Spec == Init /\ [][Next]_vars

Fairness ==
  /\ \A h \in Handles : WF_vars(Settle(h)) /\ WF_vars(aaudio_error_cb(h))
  /\ WF_vars(Play) /\ WF_vars(DataCallbackReturns)
  /\ WF_vars(DestroyWait) /\ WF_vars(ReadTiming)
  /\ WF_vars(pc["client"] = "destroyLock" /\ aaudio_stream_destroy)
  /\ SF_vars(ReinitLock) /\ WF_vars(ClearDrain) /\ WF_vars(ReinitEnd)
  /\ \A t \in Callers : SF_vars(CallerNext(t))
  /\ SF_vars(mutex = "free" /\ Update) /\ WF_vars(StateThread)
FairSpec == Spec /\ Fairness

-----------------------------------------------------------------------------
\* The reinit thread works on the stream it was made for: the slot is not given
\* to another while it is alive.
ReinitKeepsSlot == pc["reinit"] # "idle" => slot_state # "FREE"

\* Once stop has returned for a playing stream, or STOPPED was signalled, or
\* DRAINED of a stream that no error of AAudio had taken out of DRAINING, the
\* client's data callback is not called until it calls start, whatever happens
\* to the device.
QuietOnceStopped == quiet => cb # "fill"

\* The estimate runs whenever the stream does, across reinitialisations.
PositionRuns ==
  mutex = "free" /\ state \in {"STARTING", "STARTED"} =>
    pos_estimate \in {"Play", "Resume"}

\* A draining stream is stopped when every frame of the client has been read:
\* "Wait for all written frames to have been read before draining" (638-639).
DrainedAfterRead ==
  sPc = "drainOut" /\ seen["out"] = "STARTED" /\ state = "DRAINING" => unread = 0

\* A stream that starts, stops or drains gets there, or fails.
TransitionsEnd ==
  \A s \in {"STARTING", "STOPPING", "DRAINING"} : state = s ~> state # s

\* Destroy returns, although it waits for the reinit thread.
DestroyReturns == slot_state = "DESTROYING" ~> slot_state = "FREE"
=============================================================================
