---------------------------- MODULE AlsaStreams ----------------------------
(***************************************************************************)
(* The ALSA backend (src/src/cubeb_alsa.c): one thread, alsa_run, serves   *)
(* every stream of a context; the clients start, stop and destroy them.    *)
(* A duplex stream is two cubeb_streams, other_stream of each other; the   *)
(* client only knows the playback one.                                     *)
(*                                                                         *)
(* What happens under the context's mutex, which nothing holds while it    *)
(* blocks, is one action.  alsa_process_stream runs without that mutex and *)
(* is cut where it calls the data callback.  The PCM device is external:   *)
(* it plays or records a frame per Tick, which is also the unit of time.   *)
(***************************************************************************)
EXTENDS Integers, Sequences, FiniteSets

CONSTANTS
  streams,        \* the array of streams of the context, a sequence
  Capture,        \* those of type SND_PCM_STREAM_CAPTURE
  other_stream,   \* the other half of a duplex stream, or NoStream
  NoStream,
  DevSize,        \* frames in the device's buffer
  PipeSize,       \* bytes the control pipe holds
  EagerRestart,   \* whether a client may start a stream it has not stopped
  MaxFaults       \* bound: device errors that are not an overrun or underrun

Streams == {streams[i] : i \in 1 .. Len(streams)}
Playback(s) == s \notin Capture
Duplex(s) == other_stream[s] # NoStream
\* The stream the client knows: mainstm, the playback half of a duplex stream.
Main(s) == IF Duplex(s) /\ s \in Capture THEN other_stream[s] ELSE s
Handles == {Main(s) : s \in Streams}

ASSUME AlsaStreamsAssumption ==
  /\ streams \in Seq(Streams)
  /\ Capture \subseteq Streams /\ NoStream \notin Streams
  /\ other_stream \in [Streams -> Streams \cup {NoStream}]
  /\ \A s \in Streams : Duplex(s) =>
       /\ other_stream[other_stream[s]] = s
       /\ s \in Capture <=> other_stream[s] \notin Capture
  /\ DevSize \in Nat \ {0} /\ PipeSize \in Nat \ {0}
  /\ EagerRestart \in BOOLEAN /\ MaxFaults \in Nat

VARIABLES
  state,                  \* of each stream, see stream_state
  fds,                    \* the streams whose fds is not null
  rebuild, shutdown,
  pipe,                   \* bytes in the control pipe
  bufframes,              \* frames in each stream's buffer
  drain_timeout,          \* time to it
  pcm, queued,            \* device: its state, frames to play or to read
  rPc, cur, revents, ctl, \* alsa_run: program counter, stream, poll's results
  avail, draining, requested, other_stream_running, result, \* its other locals
  cPc, cStm,              \* the client of each handle, and the half it works on
  stopped,                \* the handles stopped since they were last started
  told,                   \* state callbacks since the stream was last started
  short, failed,          \* handles whose data callback has returned less than
                          \* asked, or an error, since the last start
  life, faults            \* of each stream; device errors so far

context == <<state, fds, rebuild, shutdown, pipe>>
device == <<pcm, queued>>
locals == <<cur, revents, ctl, avail, draining, requested,
            other_stream_running, result>>
clients == <<cPc, cStm, stopped, life>>
ghosts == <<told, short, failed>>
vars == <<context, bufframes, drain_timeout, device, rPc, locals,
          clients, ghosts, faults>>

buffer_size == 2 * DevSize
AtMost(n, m) == IF n <= m THEN n ELSE m
Minus(n, m) == IF n >= m THEN n - m ELSE 0

PcmError == -1
CUBEB_ERROR == -2

Init ==
  /\ state = [s \in Streams |-> "INACTIVE"]
  /\ fds = {} /\ rebuild = TRUE /\ shutdown = FALSE /\ pipe = 0
  /\ bufframes = [s \in Streams |-> 0] /\ drain_timeout = [s \in Streams |-> 0]
  /\ pcm = [s \in Streams |-> "prepared"] /\ queued = [s \in Streams |-> 0]
  /\ rPc = "top" /\ cur = 0 /\ revents = {} /\ ctl = FALSE
  /\ avail = 0 /\ draining = FALSE /\ requested = 0
  /\ other_stream_running = FALSE /\ result = "RUNNING"
  /\ cPc = [h \in Handles |-> "idle"] /\ cStm = [h \in Handles |-> h]
  /\ stopped = Handles
  /\ told = [s \in Streams |-> {}] /\ short = {} /\ failed = {}
  /\ life = [s \in Streams |-> "open"] /\ faults = 0

\* alsa_set_stream_state for each stream of S: rebuild is set and poll woken,
\* once per stream; a full pipe takes no more bytes.  Mutant: nothing is written.
Set(S, st) == [s \in Streams |-> IF s \in S THEN st ELSE state[s]]
WakeNoWrite(n) == rebuild' = (rebuild \/ n > 0) /\ UNCHANGED pipe
Wake(n) == /\ rebuild' = (rebuild \/ n > 0)
           /\ pipe' = AtMost(pipe + n, PipeSize)

-----------------------------------------------------------------------------
(* The device.                                                             *)

\* A frame is played, or recorded; an empty or a full buffer stops the device.
Tick ==
  LET on == {s \in Streams : pcm[s] = "running"}
      plays == {s \in on : Playback(s)}
  IN /\ \/ on # {}
        \/ \E s \in Streams : drain_timeout[s] > 0
     /\ queued' = [s \in Streams |->
                     IF s \in plays THEN Minus(queued[s], 1)
                     ELSE IF s \in on THEN AtMost(queued[s] + 1, DevSize)
                     ELSE queued[s]]
     /\ pcm' = [s \in Streams |->
                  IF \/ s \in plays /\ queued[s] <= 1
                     \/ s \in on \ plays /\ queued[s] = DevSize
                  THEN "xrun" ELSE pcm[s]]
     /\ drain_timeout' = [s \in Streams |-> Minus(drain_timeout[s], 1)]
     /\ UNCHANGED <<context, bufframes, rPc, locals, clients, ghosts, faults>>

Fault(s) ==
  /\ faults < MaxFaults
  /\ pcm[s] = "running"
  /\ pcm' = [pcm EXCEPT ![s] = "xrun"]
  /\ faults' = faults + 1
  /\ UNCHANGED <<context, bufframes, drain_timeout, queued, rPc,
                 locals, clients, ghosts>>

\* snd_pcm_avail_update, when it is not an error.
DeviceAvail(s) == IF Playback(s) THEN DevSize - queued[s] ELSE queued[s]

-----------------------------------------------------------------------------
(* alsa_run.                                                               *)

Registered == {s \in Streams : life[s] # "freed"}

RunTop ==
  /\ rPc = "top"
  /\ fds' = IF rebuild THEN {s \in Registered : state[s] = "RUNNING"} ELSE fds
  /\ rebuild' = FALSE
  /\ rPc' = "poll"
  /\ UNCHANGED <<state, shutdown, pipe, bufframes, drain_timeout, device, locals, clients, ghosts, faults>>

\* Descriptors poll() must report; it may also report null events.
MustReport ==
  {s \in fds : \/ pcm[s] = "xrun"
               \/ pcm[s] \in {"prepared", "running"} /\ DeviceAvail(s) = DevSize}

\* poll() returns without the mutex: a client may come in before RunReady.
RunPoll ==
  /\ rPc = "poll"
  /\ revents' \in SUBSET fds /\ MustReport \subseteq revents'
  /\ ctl' = (pipe > 0)
  /\ ctl' \/ revents' # {}
  /\ rPc' = "ready"
  /\ UNCHANGED <<context, bufframes, drain_timeout, device, cur,
                 avail, draining, requested, other_stream_running, result,
                 clients, ghosts, faults>>

RunPollTimeout ==
  /\ rPc = "poll"
  /\ pipe = 0 /\ MustReport = {}
  /\ rPc' = "timeout"
  /\ UNCHANGED <<context, bufframes, drain_timeout, device, locals,
                 clients, ghosts, faults>>

\* The next stream of the array, from the i-th on, that is ready to process.
Ready(i, st) ==
  {j \in i .. Len(streams) : LET s == streams[j] IN
     s \in Registered \cap fds \cap revents /\ st[s] = "RUNNING"}

\* Continue the loop over the streams, whose states are now st, from the i-th
\* on, after k calls of alsa_set_stream_state and b bytes read from the pipe.
\* Locals go back to their initial values once they are no longer used.
Scan(i, st, k, b) ==
  IF Ready(i, st) = {}
  THEN /\ state' = st
       /\ rebuild' = (rebuild \/ k > 0)
       /\ pipe' = AtMost(pipe - b + k, PipeSize)
       /\ rPc' = "top"
       /\ cur' = 0 /\ revents' = {} /\ other_stream_running' = FALSE
  ELSE \E j \in Ready(i, st) :
         /\ \A m \in Ready(i, st) : j <= m
         /\ LET s == streams[j]
            IN /\ state' = [st EXCEPT ![s] = "PROCESSING"]
               /\ rebuild' = TRUE
               /\ pipe' = AtMost(pipe - b + k + 1, PipeSize)
               /\ other_stream_running' =
                    (Duplex(s) => st[other_stream[s]] = "RUNNING")
               /\ cur' = j /\ UNCHANGED revents
               /\ rPc' = "process"

\* One byte is read from the pipe, however many there are.
RunReady ==
  /\ rPc = "ready"
  /\ IF ctl /\ shutdown
     THEN /\ pipe' = pipe - 1
          /\ rPc' = "exited"
          /\ UNCHANGED <<state, rebuild, cur, revents, other_stream_running>>
     ELSE Scan(1, state, 0, IF ctl THEN 1 ELSE 0)
  /\ ctl' = FALSE
  /\ UNCHANGED <<fds, shutdown, bufframes, drain_timeout, device,
                 avail, draining, requested, result, clients, ghosts, faults>>

stm == streams[cur]
other == other_stream[stm]

\* Mutant of ProcessNullEvent: the state is returned as it is.
ProcessNullEventKeeps ==
  /\ rPc = "process"
  /\ pcm[stm] # "xrun" /\ DeviceAvail(stm) = 0
  /\ result' = "PROCESSING"
  /\ rPc' = "result"
  /\ UNCHANGED <<context, bufframes, drain_timeout, device, cur,
                 revents, ctl, avail, draining, requested, other_stream_running,
                 clients, ghosts, faults>>

\* alsa_process_stream, up to the data callback.
ProcessNullEvent ==
  /\ rPc = "process"
  /\ pcm[stm] # "xrun" /\ DeviceAvail(stm) = 0
  /\ result' = "RUNNING"
  /\ rPc' = "result"
  /\ UNCHANGED <<context, bufframes, drain_timeout, device, cur,
                 revents, ctl, avail, draining, requested, other_stream_running,
                 clients, ghosts, faults>>

\* An error of avail_update is negative, which compares as a very large unsigned:
\* avail becomes buffer_size and the error comes back from the read or the write.
AvailUpdate == IF pcm[stm] = "xrun" THEN buffer_size ELSE DeviceAvail(stm)

\* What a data callback takes of the frames a capture half has: no more than the
\* playback half's buffer has room for.  Mutant: whatever it has.
AcceptsAll(have) == have
Accepts(have) ==
  IF Duplex(stm) THEN AtMost(have, buffer_size - bufframes[other]) ELSE have

ProcessCapture ==
  /\ rPc = "process" /\ stm \in Capture
  /\ AvailUpdate > 0
  /\ LET base  == IF AvailUpdate + bufframes[stm] > buffer_size
                  THEN 0 ELSE bufframes[stm]
         got   == IF pcm[stm] = "xrun" THEN 0 ELSE AvailUpdate
         have  == base + got
     IN /\ bufframes' = [bufframes EXCEPT ![stm] = have]
        /\ queued' = [queued EXCEPT ![stm] = @ - got]
        /\ avail' = IF pcm[stm] = "xrun" THEN PcmError ELSE AvailUpdate
        /\ requested' = Accepts(have)
        /\ rPc' = IF Accepts(have) > 0 THEN "callback" ELSE "finish"
  /\ draining' = FALSE
  /\ UNCHANGED <<context, drain_timeout, pcm, cur, revents, ctl,
                 other_stream_running, result, clients, ghosts, faults>>

\* The frames the device takes and the buffer does not have.
Missing == Minus(AvailUpdate, bufframes[stm])

ProcessPlayback ==
  /\ rPc = "process" /\ Playback(stm)
  /\ AvailUpdate > 0
  /\ LET n == IF ~Duplex(stm) THEN Missing
              ELSE IF other_stream_running THEN AtMost(Missing, bufframes[other])
              ELSE 0
     IN /\ requested' = n
        /\ rPc' = IF n > 0 THEN "callback" ELSE "finish"
  /\ avail' = AvailUpdate
  /\ draining' = FALSE
  /\ UNCHANGED <<context, bufframes, drain_timeout, device, cur,
                 revents, ctl, other_stream_running, result, clients, ghosts,
                 faults>>

\* The data callback returns n frames of those requested.  Both halves of a
\* duplex stream move by n, and the playback half has n frames more to play.
DataCallback(n) ==
  /\ rPc = "callback" /\ n \in 0 .. requested
  /\ LET from == IF stm \in Capture THEN {stm} ELSE {other} \cap Streams
         to   == IF stm \in Capture THEN {other} \cap Streams ELSE {stm}
     IN /\ bufframes' = [s \in Streams |->
                           IF s \in from THEN bufframes[s] - n
                           ELSE IF s \in to THEN bufframes[s] + n
                           ELSE bufframes[s]]
  /\ draining' = (n < requested)
  /\ drain_timeout' = IF n < requested /\ stm \in Capture /\ Duplex(stm)
                      THEN [drain_timeout EXCEPT ![stm] = 0] ELSE drain_timeout
  /\ short' = IF n < requested THEN short \cup {Main(stm)} ELSE short
  /\ IF n < requested /\ stm \in Capture /\ ~Duplex(stm)
     THEN result' = "INACTIVE" /\ rPc' = "result"
     ELSE UNCHANGED result /\ rPc' = "finish"
  /\ UNCHANGED <<context, device, cur, revents, ctl, avail, requested,
                 other_stream_running, clients, told, failed, faults>>

DataCallbackError ==
  /\ rPc = "callback"
  /\ avail' = CUBEB_ERROR
  /\ failed' = failed \cup {Main(stm)}
  /\ rPc' = "finish"
  /\ UNCHANGED <<context, bufframes, drain_timeout, device, cur,
                 revents, ctl, draining, requested, other_stream_running, result,
                 clients, told, short, faults>>

\* The tail of alsa_process_stream.  Playback: missing frames are silence, and
\* the stream drains unless it waits for its capture half; then everything
\* available is written.  Mutant of Drains: only silence makes a stream drain.
Silence == Playback(stm) /\ avail > bufframes[stm]
DrainsOnSilence == Silence
Drains ==
  \/ draining
  \/ Silence /\ (Duplex(stm) => bufframes[other] > 0)

SetDrainTimeout ==
  drain_timeout' = IF Silence /\ Drains
                   THEN [drain_timeout EXCEPT ![stm] = avail - bufframes[stm]]
                   ELSE drain_timeout
Outcome == IF Drains THEN "DRAINING" ELSE "RUNNING"

FinishWrite ==
  /\ rPc = "finish"
  /\ avail > 0
  /\ Playback(stm) => pcm[stm] # "xrun"
  /\ SetDrainTimeout
  /\ result' = Outcome
  /\ IF Playback(stm)
     THEN /\ bufframes' = [bufframes EXCEPT ![stm] = Minus(@, avail)]
          /\ queued' = [queued EXCEPT ![stm] = @ + avail]
          /\ pcm' = IF queued'[stm] = DevSize /\ pcm[stm] = "prepared"
                    THEN [pcm EXCEPT ![stm] = "running"] ELSE pcm
     ELSE UNCHANGED <<bufframes, device>>
  /\ rPc' = "result"
  /\ UNCHANGED <<context, cur, revents, ctl, avail, draining,
                 requested, other_stream_running, clients, ghosts, faults>>

\* The device is in error: recover it, and start it again if it records.  An
\* error of the data callback is none of the device's.  Mutant: as if it were.
RecoverableAlways == TRUE
Recoverable == avail # CUBEB_ERROR
Failing == avail < 0 \/ (Playback(stm) /\ pcm[stm] = "xrun")

FinishRecover ==
  /\ rPc = "finish"
  /\ Failing /\ Recoverable
  /\ SetDrainTimeout
  /\ result' = Outcome
  /\ bufframes' = IF Silence THEN [bufframes EXCEPT ![stm] = avail] ELSE bufframes
  /\ pcm' = [pcm EXCEPT ![stm] = IF Playback(stm) THEN "prepared" ELSE "running"]
  /\ queued' = [queued EXCEPT ![stm] = 0]
  /\ rPc' = "result"
  /\ UNCHANGED <<context, cur, revents, ctl, avail, draining, requested,
                 other_stream_running, clients, ghosts, faults>>

\* It cannot be recovered; nor can an error of the data callback.  The client
\* is told while the stream is still PROCESSING.
FinishError ==
  /\ rPc = "finish"
  /\ Failing
  /\ bufframes' = IF Silence THEN [bufframes EXCEPT ![stm] = avail] ELSE bufframes
  /\ SetDrainTimeout
  /\ told' = [told EXCEPT ![stm] = @ \cup {"ERROR"}]
  /\ result' = "ERROR"
  /\ rPc' = "result"
  /\ UNCHANGED <<context, device, cur, revents, ctl,
                 avail, draining, requested, other_stream_running, clients, short,
                 failed, faults>>

\* Back in alsa_run, with the mutex.  A draining playback half takes a running
\* capture half with it.
RunResult ==
  /\ rPc = "result"
  /\ LET also == IF result = "DRAINING" /\ Playback(stm) /\ Duplex(stm)
                 THEN {other} \cap {s \in Streams : state[s] = "RUNNING"} ELSE {}
     IN Scan(cur + 1, Set({stm} \cup also, result), 1 + Cardinality(also), 0)
  /\ told' = IF result = "INACTIVE"
             THEN [told EXCEPT ![stm] = @ \cup {"STOPPED"}] ELSE told
  /\ avail' = 0 /\ draining' = FALSE /\ requested' = 0 /\ result' = "RUNNING"
  /\ UNCHANGED <<fds, shutdown, bufframes, drain_timeout, device,
                 ctl, clients, short, failed, faults>>

\* The streams whose silence has been played.  Mutant: is being played.
DrainedTooSoon ==
  {s \in Registered : state[s] = "DRAINING" /\ drain_timeout[s] > 0}
Drained ==
  {s \in Registered : state[s] = "DRAINING" /\ drain_timeout[s] = 0}

\* poll() timed out: drained streams, and streams the watchdog finds idle.  The
\* capture half of a duplex stream drains without a callback.
RunTimeout ==
  /\ rPc = "timeout"
  /\ \E idle \in SUBSET {s \in Registered : state[s] = "RUNNING"} :
       /\ state' = [s \in Streams |-> IF s \in Drained THEN "INACTIVE"
                                      ELSE IF s \in idle THEN "ERROR"
                                      ELSE state[s]]
       /\ Wake(Cardinality(Drained \cup idle))
       /\ told' = [s \in Streams |->
                     IF s \in Drained /\ (Playback(s) \/ ~Duplex(s))
                     THEN told[s] \cup {"DRAINED"}
                     ELSE IF s \in idle THEN told[s] \cup {"ERROR"}
                     ELSE told[s]]
  /\ rPc' = "top"
  /\ UNCHANGED <<fds, shutdown, bufframes, drain_timeout, device,
                 locals, clients, short, failed, faults>>

-----------------------------------------------------------------------------
(* The client of handle h.                                                 *)

FirstHalf(h) == IF Duplex(h) THEN other_stream[h] ELSE h

Halves(h) == {h, FirstHalf(h)}

\* What is recorded of a stream is forgotten when a start takes effect.
Forget(h) ==
  /\ told' = [s \in Streams |-> IF s \in Halves(h) THEN {} ELSE told[s]]
  /\ short' = short \ {h}
  /\ failed' = failed \ {h}

\* alsa_stream_start does the capture half of a duplex stream first.
Start(h) ==
  /\ cPc[h] = "idle" /\ life[h] = "open"
  /\ h \in stopped \/ EagerRestart
  /\ IF \A s \in Halves(h) : state[s] = "INACTIVE"
     THEN Forget(h) ELSE UNCHANGED ghosts
  /\ cPc' = [cPc EXCEPT ![h] = "startPcm"]
  /\ cStm' = [cStm EXCEPT ![h] = FirstHalf(h)]
  /\ stopped' = stopped \ {h}
  /\ UNCHANGED <<context, bufframes, drain_timeout, device, rPc,
                 locals, life, faults>>

StartPcm(h) ==
  /\ cPc[h] = "startPcm"
  /\ pcm' = [pcm EXCEPT ![cStm[h]] =
               IF @ = "paused" \/ (@ = "prepared" /\ cStm[h] \in Capture)
               THEN "running" ELSE @]
  /\ cPc' = [cPc EXCEPT ![h] = "startState"]
  /\ UNCHANGED <<context, bufframes, drain_timeout, queued, rPc,
                 locals, cStm, stopped, life, ghosts, faults>>

StartState(h) ==
  /\ cPc[h] = "startState" /\ state[cStm[h]] = "INACTIVE"
  /\ state' = Set({cStm[h]}, "RUNNING")
  /\ Wake(1)
  /\ IF cStm[h] = h
     THEN cPc' = [cPc EXCEPT ![h] = "idle"] /\ UNCHANGED cStm
     ELSE cPc' = [cPc EXCEPT ![h] = "startPcm"] /\ cStm' = [cStm EXCEPT ![h] = h]
  /\ IF Duplex(h) THEN UNCHANGED ghosts ELSE Forget(h)
  /\ UNCHANGED <<fds, shutdown, bufframes, drain_timeout, device,
                 rPc, locals, stopped, life, faults>>

\* alsa_stream_start returns CUBEB_ERROR.
StartFails(h) ==
  /\ cPc[h] = "startState" /\ state[cStm[h]] # "INACTIVE"
  /\ cPc' = [cPc EXCEPT ![h] = "idle"]
  /\ UNCHANGED <<context, bufframes, drain_timeout, device, rPc,
                 locals, cStm, stopped, life, ghosts, faults>>

Stop(h) ==
  /\ cPc[h] = "idle" /\ life[h] = "open" /\ h \notin stopped
  /\ cPc' = [cPc EXCEPT ![h] = "stopState"]
  /\ cStm' = [cStm EXCEPT ![h] = FirstHalf(h)]
  /\ UNCHANGED <<context, bufframes, drain_timeout, device, rPc,
                 locals, stopped, life, ghosts, faults>>

\* Mutant of StopState: it does not wait.
StopStateNoWait(h) ==
  /\ cPc[h] = "stopState"
  /\ state' = Set({cStm[h]}, "INACTIVE")
  /\ Wake(1)
  /\ cPc' = [cPc EXCEPT ![h] = "stopPcm"]
  /\ UNCHANGED <<fds, shutdown, bufframes, drain_timeout, device,
                 rPc, locals, cStm, stopped, life, ghosts, faults>>

\* alsa_stream_stop waits on the condition while the stream is PROCESSING.
StopState(h) ==
  /\ cPc[h] = "stopState"
  /\ state[cStm[h]] # "PROCESSING"
  /\ state' = Set({cStm[h]}, "INACTIVE")
  /\ Wake(1)
  /\ cPc' = [cPc EXCEPT ![h] = "stopPcm"]
  /\ UNCHANGED <<fds, shutdown, bufframes, drain_timeout, device,
                 rPc, locals, cStm, stopped, life, ghosts, faults>>

StopPcm(h) ==
  /\ cPc[h] = "stopPcm"
  /\ pcm' = [pcm EXCEPT ![cStm[h]] = IF @ = "running" THEN "paused" ELSE @]
  /\ IF cStm[h] = h
     THEN /\ cPc' = [cPc EXCEPT ![h] = "idle"]
          /\ stopped' = stopped \cup {h}
          /\ UNCHANGED cStm
     ELSE /\ cPc' = [cPc EXCEPT ![h] = "stopState"]
          /\ cStm' = [cStm EXCEPT ![h] = h]
          /\ UNCHANGED stopped
  /\ UNCHANGED <<context, bufframes, drain_timeout, queued, rPc,
                 locals, life, ghosts, faults>>

\* alsa_stream_destroy, of a stopped stream (cubeb.h, 609), the other half
\* first: free what the stream owns, then take it out of the array.
Destroy(h) ==
  /\ cPc[h] = "idle" /\ life[h] = "open" /\ h \in stopped
  /\ cPc' = [cPc EXCEPT ![h] = "close"]
  /\ cStm' = [cStm EXCEPT ![h] = FirstHalf(h)]
  /\ UNCHANGED <<context, bufframes, drain_timeout, device, rPc,
                 locals, stopped, life, ghosts, faults>>

DestroyClose(h) ==
  /\ cPc[h] = "close"
  /\ life' = [life EXCEPT ![cStm[h]] = "closed"]
  /\ pcm' = [pcm EXCEPT ![cStm[h]] = "closed"]
  /\ cPc' = [cPc EXCEPT ![h] = "unregister"]
  /\ UNCHANGED <<context, bufframes, drain_timeout, queued, rPc,
                 locals, cStm, stopped, ghosts, faults>>

DestroyUnregister(h) ==
  /\ cPc[h] = "unregister"
  /\ life' = [life EXCEPT ![cStm[h]] = "freed"]
  /\ IF cStm[h] = h
     THEN cPc' = [cPc EXCEPT ![h] = "idle"] /\ UNCHANGED cStm
     ELSE cPc' = [cPc EXCEPT ![h] = "close"] /\ cStm' = [cStm EXCEPT ![h] = h]
  /\ UNCHANGED <<context, bufframes, drain_timeout, device, rPc,
                 locals, stopped, ghosts, faults>>

\* Mutant of ContextDestroy: poll is not woken.
ContextDestroyNoWake ==
  /\ Registered = {} /\ ~shutdown
  /\ shutdown' = TRUE
  /\ UNCHANGED <<state, fds, rebuild, pipe, bufframes, drain_timeout, device, rPc, locals, clients, ghosts, faults>>

\* alsa_destroy, once every stream is destroyed (cubeb.h, 561).
ContextDestroy ==
  /\ Registered = {} /\ ~shutdown
  /\ shutdown' = TRUE
  /\ pipe' = AtMost(pipe + 1, PipeSize)
  /\ UNCHANGED <<state, fds, rebuild, bufframes, drain_timeout, device, rPc, locals, clients, ghosts, faults>>

RunNext ==
  \/ RunTop \/ RunPoll \/ RunPollTimeout \/ RunReady
  \/ ProcessNullEvent \/ ProcessCapture \/ ProcessPlayback
  \/ (\E n \in 0 .. buffer_size : DataCallback(n)) \/ DataCallbackError
  \/ FinishWrite \/ FinishRecover \/ FinishError \/ RunResult \/ RunTimeout

ClientContinue(h) ==
  \/ StartPcm(h) \/ StartState(h) \/ StartFails(h) \/ StopState(h) \/ StopPcm(h)
  \/ DestroyClose(h) \/ DestroyUnregister(h)

ClientNext(h) == Start(h) \/ Stop(h) \/ Destroy(h) \/ ClientContinue(h)

Next ==
  \/ Tick \/ \E s \in Streams : Fault(s)
  \/ RunNext
  \/ \E h \in Handles : ClientNext(h)
  \/ ContextDestroy

\* Time passes, the thread runs and the data callback returns.  A call that has
\* begun goes on; one that waits for a mutex or for the end of PROCESSING gets
\* its turn if it comes infinitely often.
Fairness ==
  /\ WF_vars(Tick)
  /\ WF_vars(RunNext)
  /\ \A h \in Handles : SF_vars(ClientContinue(h))

Spec == Init /\ [][Next]_vars
FairSpec == Spec /\ Fairness

-----------------------------------------------------------------------------
Calling == rPc = "callback"
InProcess == rPc \in {"process", "callback", "finish", "result"}

\* The frames the data callback reads, writes and leaves behind stay within the
\* two buffers, through overruns, refused writes and restarts; what is written
\* to the device never exceeds what the buffer holds or the device takes.
BuffersBounded ==
  /\ \A s \in Streams : bufframes[s] <= buffer_size
  /\ Calling /\ Playback(stm) => bufframes[stm] + requested <= buffer_size
  /\ Calling /\ Duplex(stm) /\ stm \in Capture
       => bufframes[other] + requested <= buffer_size
  /\ Calling /\ Duplex(stm) /\ Playback(stm) => requested <= bufframes[other]
  /\ rPc = "finish" /\ Playback(stm) /\ pcm[stm] # "xrun"
       => queued[stm] + avail <= DevSize

\* alsa_run never sleeps on a stream it does not know of: while it is in poll,
\* a running stream is polled, or a byte in the pipe is about to wake it.  One
\* byte is read for each pass, and a full pipe refuses bytes.
NoLostWakeup ==
  rPc = "poll" =>
    \A s \in Registered : state[s] = "RUNNING" => s \in fds \/ (rebuild /\ pipe > 0)

\* Exactly the stream being processed is PROCESSING: no client takes it over,
\* starts it again or destroys it, nor its other half, in the meantime.
ProcessingIsExclusive ==
  /\ \A s \in Streams : state[s] = "PROCESSING" <=> InProcess /\ s = stm
  /\ InProcess => life[stm] = "open" /\ (Duplex(stm) => life[other] = "open")

\* Once stop has returned, nothing of the stream runs until it is started: no
\* data callback, no state callback, even when stop came during one.
QuietOnceStopped ==
  /\ Calling => Main(stm) \notin stopped
  /\ \A s \in Streams : Main(s) \in stopped => state[s] = "INACTIVE"

\* "This callback will not be called again" once it has returned less than was
\* asked (cubeb.h, 432-433), with one exception: a playback half whose last,
\* short buffer cannot be written ends in ERROR, which alsa_set_draining does
\* not see, and its capture half goes on.
ShortIsLast ==
  Calling /\ Main(stm) \in short =>
    Duplex(stm) /\ stm \in Capture /\ state[other] = "ERROR"

\* stop returns, even if the stream keeps being processed.
StopReturns ==
  \A h \in Handles : cPc[h] = "stopState" ~> h \in stopped

\* A stream that is not duplex, whose callback has returned less, is drained and
\* its client told, unless it fails or is stopped.
ShortIsDrained ==
  \A h \in Handles :
    ~Duplex(h) /\ h \in short ~> told[h] # {} \/ h \in stopped \/ cPc[h] # "idle"

\* Destroying the context ends the thread.
ShutdownEnds == shutdown ~> rPc = "exited"

-----------------------------------------------------------------------------
(* A statement of cubeb.h, which holds of streams that are not duplex.      *)

\* "CUBEB_ERROR on error, in which case the data callback will stop and the
\* stream will enter a shutdown state" (449-450).
ErrorStopsData == Calling => Main(stm) \notin failed
=============================================================================
