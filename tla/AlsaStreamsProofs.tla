------------------------- MODULE AlsaStreamsProofs -------------------------
(***************************************************************************)
(* The ALSA backend's thread and its clients share the streams' states     *)
(* soundly, for any streams, single or duplex, any buffer and pipe size.   *)
(*                                                                         *)
(* The argument: PROCESSING is a lock.  The thread takes it only from      *)
(* RUNNING, stop waits for its end, and start only succeeds on INACTIVE,   *)
(* so from the end of a stop to the next start both halves are INACTIVE    *)
(* and nobody but the client can change that.  The names Main and          *)
(* FirstHalf split the streams into the pairs the clients work on.         *)
(***************************************************************************)
EXTENDS AlsaStreams, FiniteSetTheorems, TLAPS

StateNames == {"INACTIVE", "RUNNING", "DRAINING", "PROCESSING", "ERROR"}
RunPcs == {"top", "poll", "ready", "timeout", "process", "callback", "finish",
           "result", "exited"}
Starting == {"startPcm", "startState"}
Stopping == {"stopState", "stopPcm"}
Destroying == {"close", "unregister"}

ControlTypes ==
  /\ state \in [Streams -> StateNames]
  /\ life \in [Streams -> {"open", "closed", "freed"}]
  /\ rPc \in RunPcs
  /\ result \in StateNames \ {"PROCESSING"}
  /\ InProcess => cur \in 1 .. Len(streams)
  /\ cPc \in [Handles -> {"idle"} \cup Starting \cup Stopping \cup Destroying]
  /\ cStm \in [Handles -> Streams]
  /\ \A h \in Handles : cStm[h] = h \/ cStm[h] = FirstHalf(h)
  /\ stopped \subseteq Handles

\* Exactly the stream of alsa_run is PROCESSING.
LockInv == \A s \in Streams : state[s] = "PROCESSING" <=> InProcess /\ s = stm

\* What a client's program counter tells of its streams.
ClientInv ==
  /\ \A s \in Streams : Main(s) \in stopped => state[s] = "INACTIVE"
  /\ \A s \in Streams : life[s] # "open" => Main(s) \in stopped
  /\ \A h \in Handles : cPc[h] \in Destroying => h \in stopped
  /\ \A h \in Handles : cPc[h] \in Starting \cup Stopping => h \notin stopped
  /\ \A h \in Handles : cPc[h] = "stopPcm" => state[cStm[h]] = "INACTIVE"
  /\ \A h \in Handles :
       cPc[h] \in Stopping /\ cStm[h] = h /\ FirstHalf(h) # h
         => state[FirstHalf(h)] = "INACTIVE"
  /\ \A h \in Handles :
       cPc[h] \notin Destroying /\ life[h] = "open" => life[FirstHalf(h)] = "open"

ControlInv == ControlTypes /\ LockInv /\ ClientInv

-----------------------------------------------------------------------------
(* The pairs.                                                              *)

LEMMA Pairs ==
  /\ \A s \in Streams : Main(s) \in Handles
  /\ \A s \in Streams : s = Main(s) \/ s = FirstHalf(Main(s))
  /\ \A h \in Handles : h \in Streams /\ FirstHalf(h) \in Streams
  /\ \A h \in Handles : Main(h) = h /\ Main(FirstHalf(h)) = h
  /\ \A s \in Streams : Duplex(s) =>
       /\ other_stream[s] \in Streams /\ other_stream[s] # s
       /\ Main(other_stream[s]) = Main(s)
       /\ Duplex(other_stream[s]) /\ other_stream[other_stream[s]] = s
BY AlsaStreamsAssumption DEF Handles, Main, FirstHalf, Duplex

LEMMA FirstHalves ==
  /\ \A h \in Handles : ~Duplex(h) => FirstHalf(h) = h
  /\ \A h \in Handles : Duplex(h) =>
       /\ h \notin Capture /\ FirstHalf(h) \in Capture
       /\ FirstHalf(h) = other_stream[h] /\ other_stream[FirstHalf(h)] = h
  /\ \A s \in Streams : ~Duplex(s) => Main(s) = s
  /\ \A s \in Streams : Duplex(s) /\ s \in Capture =>
       s = FirstHalf(Main(s)) /\ other_stream[s] = Main(s)
  /\ \A s \in Streams : Duplex(s) /\ s \notin Capture =>
       s = Main(s) /\ other_stream[s] = FirstHalf(s)
BY AlsaStreamsAssumption DEF Handles, Main, FirstHalf, Duplex

LEMMA StreamAt == \A i \in 1 .. Len(streams) : streams[i] \in Streams
BY DEF Streams

LEMMA StreamsFinite == IsFiniteSet(Streams)
<1>1. Len(streams) \in Nat
  BY AlsaStreamsAssumption
<1> DEFINE f == [i \in 1 .. Len(streams) |-> streams[i]]
<1>2. f \in Surjection(1 .. Len(streams), Streams)
  BY DEF Surjection, Streams
<1> QED  BY <1>1, <1>2, FS_NatSurjection DEF ExistsSurjection

\* The two ways the loop over the streams goes on.
LEMMA ScanSteps ==
  ASSUME NEW i \in Nat \ {0}, NEW st, NEW k, NEW b, Scan(i, st, k, b)
  PROVE  \/ /\ state' = st /\ rPc' = "top"
            /\ rebuild' = (rebuild \/ k > 0)
            /\ pipe' = AtMost(pipe - b + k, PipeSize)
         \/ /\ cur' \in 1 .. Len(streams) /\ stm' \in Streams
            /\ state' = [st EXCEPT ![stm'] = "PROCESSING"]
            /\ rPc' = "process"
            /\ st[stm'] = "RUNNING" /\ stm' \in Registered
            /\ rebuild' = TRUE
            /\ pipe' = AtMost(pipe - b + k + 1, PipeSize)
            /\ other_stream_running' =
                 (Duplex(stm') => st[other_stream[stm']] = "RUNNING")
<1>1. CASE Ready(i, st) = {}
  BY <1>1 DEF Scan
<1>2. CASE Ready(i, st) # {}
  <2>1. PICK j \in Ready(i, st) :
          /\ state' = [st EXCEPT ![streams[j]] = "PROCESSING"]
          /\ rebuild' = TRUE
          /\ pipe' = AtMost(pipe - b + k + 1, PipeSize)
          /\ other_stream_running' =
               (Duplex(streams[j]) => st[other_stream[streams[j]]] = "RUNNING")
          /\ cur' = j /\ rPc' = "process"
    BY <1>2 DEF Scan
  <2>2. /\ j \in 1 .. Len(streams) /\ st[streams[j]] = "RUNNING"
        /\ streams[j] \in Registered
    BY AlsaStreamsAssumption DEF Ready
  <2> QED  BY <2>1, <2>2, StreamAt DEF stm
<1> QED  BY <1>1, <1>2

-----------------------------------------------------------------------------
(* The states, the thread and the clients.                                 *)

USE DEF StateNames, RunPcs, Starting, Stopping, Destroying

LEMMA ControlInit == Init => ControlInv
<1> SUFFICES ASSUME Init PROVE ControlInv
  OBVIOUS
<1>1. ControlTypes
  BY Pairs DEF Init, ControlTypes, InProcess
<1>2. LockInv
  BY DEF Init, LockInv, InProcess
<1>3. ClientInv
  BY Pairs DEF Init, ClientInv
<1> QED  BY <1>1, <1>2, <1>3 DEF ControlInv

\* Most steps of the thread stay within one pass over a stream, or outside.
LEMMA ControlKept ==
  ASSUME ControlInv, UNCHANGED <<state, life, cPc, cStm, stopped>>,
         rPc' \in RunPcs, result' \in StateNames \ {"PROCESSING"},
         InProcess' <=> InProcess, InProcess => cur' = cur
  PROVE  ControlInv'
<1>1. ControlTypes'
  BY DEF ControlInv, ControlTypes
<1>2. LockInv'
  BY DEF ControlInv, LockInv, stm
<1>3. ClientInv'
  BY DEF ControlInv, ClientInv
<1> QED  BY <1>1, <1>2, <1>3 DEF ControlInv

\* A pass ends and another may begin: the states st are those the loop goes on
\* from, none of them PROCESSING, and no INACTIVE stream has another in them.
LEMMA ControlScan ==
  ASSUME ControlInv, NEW i \in Nat \ {0}, NEW k, NEW b,
         NEW st \in [Streams -> StateNames \ {"PROCESSING"}],
         \A s \in Streams : state[s] = "INACTIVE" => st[s] = "INACTIVE",
         Scan(i, st, k, b),
         UNCHANGED <<life, cPc, cStm, stopped>>,
         result' \in StateNames \ {"PROCESSING"}
  PROVE  ControlInv'
<1>1. CASE state' = st /\ rPc' = "top"
  <2>1. ControlTypes'
    BY <1>1 DEF ControlInv, ControlTypes, InProcess
  <2>2. LockInv'
    BY <1>1 DEF LockInv, InProcess
  <2>3. ClientInv'
    BY <1>1, Pairs DEF ControlInv, ControlTypes, ClientInv
  <2> QED  BY <2>1, <2>2, <2>3 DEF ControlInv
<1>2. CASE /\ cur' \in 1 .. Len(streams) /\ stm' \in Streams
           /\ state' = [st EXCEPT ![stm'] = "PROCESSING"]
           /\ rPc' = "process" /\ st[stm'] = "RUNNING"
  <2>1. ControlTypes'
    BY <1>2 DEF ControlInv, ControlTypes, InProcess
  <2>2. LockInv'
    BY <1>2 DEF LockInv, InProcess
  <2>3. ClientInv'
    <3>1. \A s \in Streams : st[s] = "INACTIVE" => state'[s] = "INACTIVE"
      BY <1>2
    <3> QED
      BY <3>1, Pairs DEF ControlInv, ControlTypes, ClientInv
  <2> QED  BY <2>1, <2>2, <2>3 DEF ControlInv
<1> QED  BY <1>1, <1>2, ScanSteps

LEMMA ControlThread ==
  ASSUME ControlInv, RunNext
  PROVE  ControlInv'
<1> USE DEF ControlInv, ControlTypes, context, device, locals, clients, ghosts
<1>1. CASE RunTop
  BY <1>1, ControlKept DEF RunTop, InProcess
<1>2. CASE RunPoll
  BY <1>2, ControlKept DEF RunPoll, InProcess
<1>3. CASE RunPollTimeout
  BY <1>3, ControlKept DEF RunPollTimeout, InProcess
<1>4. CASE RunReady
  <2>1. CASE ctl /\ shutdown
    BY <1>4, <2>1, ControlKept DEF RunReady, InProcess
  <2>2. CASE ~(ctl /\ shutdown)
    <3>1. state \in [Streams -> StateNames \ {"PROCESSING"}]
      BY <1>4 DEF RunReady, LockInv, InProcess
    <3> QED  BY <1>4, <2>2, <3>1, ControlScan DEF RunReady
  <2> QED  BY <2>1, <2>2
<1>5. CASE ProcessNullEvent
  BY <1>5, ControlKept DEF ProcessNullEvent, InProcess
<1>6. CASE ProcessCapture
  BY <1>6, ControlKept DEF ProcessCapture, InProcess
<1>7. CASE ProcessPlayback
  BY <1>7, ControlKept DEF ProcessPlayback, InProcess
<1>8. ASSUME NEW n \in 0 .. buffer_size, DataCallback(n) PROVE ControlInv'
  BY <1>8, ControlKept DEF DataCallback, InProcess
<1>9. CASE DataCallbackError
  BY <1>9, ControlKept DEF DataCallbackError, InProcess
<1>10. CASE FinishWrite
  BY <1>10, ControlKept DEF FinishWrite, Outcome, InProcess
<1>11. CASE FinishRecover
  BY <1>11, ControlKept DEF FinishRecover, Outcome, InProcess
<1>12. CASE FinishError
  BY <1>12, ControlKept DEF FinishError, InProcess
<1>13. CASE RunResult
  <2> DEFINE also == IF result = "DRAINING" /\ Playback(stm) /\ Duplex(stm)
                     THEN {other} \cap {s \in Streams : state[s] = "RUNNING"}
                     ELSE {}
             st == Set({stm} \cup also, result)
  <2>1. /\ InProcess /\ cur + 1 \in Nat \ {0}
        /\ Scan(cur + 1, st, 1 + Cardinality(also), 0)
        /\ UNCHANGED clients /\ result' = "RUNNING"
    BY <1>13, AlsaStreamsAssumption DEF RunResult, InProcess
  <2>2. \A s \in also : state[s] = "RUNNING"
    OBVIOUS
  <2> HIDE DEF also
  <2>3. st \in [Streams -> StateNames \ {"PROCESSING"}]
    BY <2>1 DEF Set, LockInv
  <2>4. \A s \in Streams : state[s] = "INACTIVE" => st[s] = "INACTIVE"
    BY <2>1, <2>2 DEF Set, LockInv
  <2> QED  BY <2>1, <2>3, <2>4, ControlScan
<1>14. CASE RunTimeout
  <2>1. PICK idle \in SUBSET {s \in Registered : state[s] = "RUNNING"} :
          state' = [s \in Streams |-> IF s \in Drained THEN "INACTIVE"
                                      ELSE IF s \in idle THEN "ERROR"
                                      ELSE state[s]]
    BY <1>14 DEF RunTimeout
  <2>2. /\ rPc = "timeout" /\ rPc' = "top"
        /\ UNCHANGED <<life, cPc, cStm, stopped, result>>
    BY <1>14 DEF RunTimeout
  <2>3. \A s \in idle : state[s] = "RUNNING"
    OBVIOUS
  <2>4. \A s \in Streams : state[s] = "INACTIVE" => state'[s] = "INACTIVE"
    BY <2>1, <2>3
  <2>5. ControlTypes'
    BY <2>1, <2>2 DEF InProcess
  <2>6. LockInv'
    BY <2>1, <2>2 DEF LockInv, InProcess
  <2>7. ClientInv'
    BY <2>2, <2>4, Pairs DEF ClientInv
  <2> QED  BY <2>5, <2>6, <2>7
<1> QED
  BY <1>1, <1>2, <1>3, <1>4, <1>5, <1>6, <1>7, <1>8, <1>9, <1>10, <1>11, <1>12,
     <1>13, <1>14
  DEF RunNext

\* A client moves one of its own two streams, which is no other client's.
LEMMA ControlClient ==
  ASSUME ControlInv, NEW h \in Handles, ClientNext(h)
  PROVE  ControlInv'
<1> USE Pairs
    DEF ControlInv, ControlTypes, context, device, locals, clients, ghosts
<1>0. /\ \A g \in Handles : Main(cStm[g]) = g
      /\ cStm[h] \in Streams /\ FirstHalf(h) \in Streams
  OBVIOUS
<1>1. CASE Start(h)
  <2>1. ControlTypes'
    BY <1>1 DEF Start, InProcess
  <2>2. LockInv'
    BY <1>0, <1>1 DEF Start, LockInv, InProcess, stm
  <2>3. ClientInv'
    BY <1>0, <1>1 DEF Start, ClientInv
  <2> QED  BY <2>1, <2>2, <2>3
<1>2. CASE StartPcm(h)
  <2>1. ControlTypes'
    BY <1>2 DEF StartPcm, InProcess
  <2>2. LockInv'
    BY <1>0, <1>2 DEF StartPcm, LockInv, InProcess, stm
  <2>3. ClientInv'
    BY <1>0, <1>2 DEF StartPcm, ClientInv
  <2> QED  BY <2>1, <2>2, <2>3
<1>3. CASE StartState(h)
  <2>1. ControlTypes'
    BY <1>3 DEF StartState, InProcess, Set
  <2>2. LockInv'
    BY <1>0, <1>3 DEF StartState, LockInv, InProcess, stm, Set
  <2>3. ClientInv'
    BY <1>0, <1>3 DEF StartState, ClientInv, Set
  <2> QED  BY <2>1, <2>2, <2>3
<1>4. CASE StartFails(h)
  <2>1. ControlTypes'
    BY <1>4 DEF StartFails, InProcess
  <2>2. LockInv'
    BY <1>0, <1>4 DEF StartFails, LockInv, InProcess, stm
  <2>3. ClientInv'
    BY <1>0, <1>4 DEF StartFails, ClientInv
  <2> QED  BY <2>1, <2>2, <2>3
<1>5. CASE Stop(h)
  <2>1. ControlTypes'
    BY <1>5 DEF Stop, InProcess
  <2>2. LockInv'
    BY <1>0, <1>5 DEF Stop, LockInv, InProcess, stm
  <2>3. ClientInv'
    BY <1>0, <1>5 DEF Stop, ClientInv
  <2> QED  BY <2>1, <2>2, <2>3
<1>6. CASE StopState(h)
  <2>1. ControlTypes'
    BY <1>6 DEF StopState, InProcess, Set
  <2>2. LockInv'
    BY <1>0, <1>6 DEF StopState, LockInv, InProcess, stm, Set
  <2>3. ClientInv'
    BY <1>0, <1>6 DEF StopState, ClientInv, Set
  <2> QED  BY <2>1, <2>2, <2>3
<1>7. CASE StopPcm(h)
  <2>1. ControlTypes'
    BY <1>7 DEF StopPcm, InProcess
  <2>2. LockInv'
    BY <1>0, <1>7 DEF StopPcm, LockInv, InProcess, stm
  <2>3. ClientInv'
    BY <1>0, <1>7 DEF StopPcm, ClientInv
  <2> QED  BY <2>1, <2>2, <2>3
<1>8. CASE Destroy(h)
  <2>1. ControlTypes'
    BY <1>8 DEF Destroy, InProcess
  <2>2. LockInv'
    BY <1>0, <1>8 DEF Destroy, LockInv, InProcess, stm
  <2>3. ClientInv'
    BY <1>0, <1>8 DEF Destroy, ClientInv
  <2> QED  BY <2>1, <2>2, <2>3
<1>9. CASE DestroyClose(h)
  <2>1. ControlTypes'
    BY <1>9 DEF DestroyClose, InProcess
  <2>2. LockInv'
    BY <1>0, <1>9 DEF DestroyClose, LockInv, InProcess, stm
  <2>3. ClientInv'
    BY <1>0, <1>9 DEF DestroyClose, ClientInv
  <2> QED  BY <2>1, <2>2, <2>3
<1>10. CASE DestroyUnregister(h)
  <2>1. ControlTypes'
    BY <1>10 DEF DestroyUnregister, InProcess
  <2>2. LockInv'
    BY <1>0, <1>10 DEF DestroyUnregister, LockInv, InProcess, stm
  <2>3. ClientInv'
    BY <1>0, <1>10 DEF DestroyUnregister, ClientInv
  <2> QED  BY <2>1, <2>2, <2>3
<1> QED
  BY <1>1, <1>2, <1>3, <1>4, <1>5, <1>6, <1>7, <1>8, <1>9, <1>10
  DEF ClientNext, ClientContinue

LEMMA ControlNext == ControlInv /\ [Next]_vars => ControlInv'
<1> SUFFICES ASSUME ControlInv, [Next]_vars PROVE ControlInv'
  OBVIOUS
<1> USE DEF context, device, locals, clients, ghosts
<1>1. CASE Tick
  BY <1>1, ControlKept DEF Tick, ControlInv, ControlTypes, InProcess
<1>2. ASSUME NEW s \in Streams, Fault(s) PROVE ControlInv'
  BY <1>2, ControlKept DEF Fault, ControlInv, ControlTypes, InProcess
<1>3. CASE ContextDestroy
  BY <1>3, ControlKept DEF ContextDestroy, ControlInv, ControlTypes, InProcess
<1>4. CASE UNCHANGED vars
  BY <1>4, ControlKept DEF vars, ControlInv, ControlTypes, InProcess
<1> QED
  BY <1>1, <1>2, <1>3, <1>4, ControlThread, ControlClient DEF Next

LEMMA ControlInvariant == Spec => []ControlInv
BY ControlInit, ControlNext, PTL DEF Spec

\* While alsa_process_stream works on a stream no client takes it, starts it
\* again or destroys it, nor its other half.
THEOREM Exclusion == Spec => []ProcessingIsExclusive
<1>1. ControlInv => ProcessingIsExclusive
  <2> SUFFICES ASSUME ControlInv
               PROVE  InProcess => /\ life[stm] = "open"
                                   /\ Duplex(stm) => life[other] = "open"
    BY DEF ProcessingIsExclusive, ControlInv, LockInv
  <2>1. InProcess => stm \in Streams /\ state[stm] = "PROCESSING"
    BY StreamAt DEF ControlInv, ControlTypes, LockInv, stm
  <2> QED
    BY <2>1, Pairs DEF ControlInv, ClientInv, other
<1> QED  BY <1>1, ControlInvariant, PTL

\* Once alsa_stream_stop has returned the stream is silent until it is started,
\* however the stop met the thread.
THEOREM SilenceAfterStop == Spec => []QuietOnceStopped
<1>1. ControlInv => QuietOnceStopped
  <2> SUFFICES ASSUME ControlInv PROVE Calling => Main(stm) \notin stopped
    BY DEF QuietOnceStopped, ControlInv, ClientInv
  <2>1. Calling => stm \in Streams /\ state[stm] = "PROCESSING"
    BY StreamAt DEF ControlInv, ControlTypes, LockInv, stm, Calling, InProcess
  <2> QED
    BY <2>1 DEF ControlInv, ClientInv
<1> QED  BY <1>1, ControlInvariant, PTL

-----------------------------------------------------------------------------
(* Waking poll.  A stream that runs is polled, or rebuild says that it will *)
(* be; rebuild is only cleared before poll, and everything that sets it    *)
(* during poll leaves a byte, which only the return of poll may take.      *)

WakeInv ==
  /\ pipe \in Nat /\ rebuild \in BOOLEAN
  /\ ctl => rPc = "ready" /\ pipe > 0
  /\ \A s \in Streams : state[s] = "RUNNING" => s \in fds \/ rebuild
  /\ rPc = "poll" /\ rebuild => pipe > 0

LEMMA WakeKept ==
  ASSUME WakeInv, UNCHANGED <<state, fds, rebuild, pipe>>,
         rPc' = "poll" => rPc = "poll", ctl' => ctl /\ rPc' = "ready"
  PROVE  WakeInv'
BY DEF WakeInv

\* A write to the pipe that comes with rebuild.
LEMMA WakeWritten ==
  ASSUME WakeInv, NEW n \in Nat, Wake(n), UNCHANGED fds,
         \A s \in Streams : state'[s] = "RUNNING" =>
           state[s] = "RUNNING" \/ n > 0,
         rPc' = "poll" => rPc = "poll", ctl' => ctl /\ rPc' = "ready"
  PROVE  WakeInv'
<1>1. PipeSize \in Nat \ {0}
  BY AlsaStreamsAssumption
<1>2. pipe' \in Nat /\ (pipe > 0 \/ n > 0 => pipe' > 0)
  BY <1>1 DEF WakeInv, Wake, AtMost
<1> QED  BY <1>2 DEF WakeInv, Wake

LEMMA WakeScan ==
  ASSUME WakeInv, ControlInv, NEW i \in Nat \ {0}, NEW st, NEW k \in Nat,
         NEW b \in {0, 1}, b = 1 => pipe > 0, Scan(i, st, k, b),
         st \in [Streams -> StateNames], k > 0 \/ st = state,
         UNCHANGED fds, ~ctl'
  PROVE  WakeInv'
<1>1. PipeSize \in Nat \ {0} /\ pipe \in Nat
  BY AlsaStreamsAssumption DEF WakeInv
<1>2. CASE /\ state' = st /\ rPc' = "top"
           /\ rebuild' = (rebuild \/ k > 0)
           /\ pipe' = AtMost(pipe - b + k, PipeSize)
  <2>1. pipe' \in Nat
    BY <1>1, <1>2 DEF AtMost
  <2>2. rebuild' \in BOOLEAN /\ (rebuild \/ k > 0 => rebuild')
    BY <1>2
  <2>3. \A s \in Streams : st[s] = "RUNNING" => s \in fds \/ rebuild \/ k > 0
    BY DEF WakeInv
  <2> QED  BY <1>2, <2>1, <2>2, <2>3 DEF WakeInv
<1>3. CASE /\ rPc' = "process" /\ rebuild' = TRUE
           /\ pipe' = AtMost(pipe - b + k + 1, PipeSize)
  BY <1>1, <1>3 DEF WakeInv, AtMost
<1> QED  BY <1>2, <1>3, ScanSteps

LEMMA WakeThread ==
  ASSUME WakeInv, ControlInv, RunNext
  PROVE  WakeInv'
<1> USE DEF context, device, locals, clients, ghosts
<1>1. CASE RunTop
  <2>1. \A s \in Streams : state[s] = "RUNNING" => s \in Registered
    BY Pairs DEF ControlInv, ClientInv, Registered
  <2> QED  BY <1>1, <2>1 DEF RunTop, WakeInv
<1>2. CASE RunPoll
  BY <1>2 DEF RunPoll, WakeInv
<1>3. CASE RunPollTimeout
  BY <1>3, WakeKept DEF RunPollTimeout, WakeInv
<1>4. CASE RunReady
  <2>1. CASE ctl /\ shutdown
    BY <1>4, <2>1 DEF RunReady, WakeInv
  <2>2. CASE ~(ctl /\ shutdown)
    <3>1. /\ Scan(1, state, 0, IF ctl THEN 1 ELSE 0) /\ UNCHANGED fds /\ ~ctl'
          /\ ctl => pipe > 0
      BY <1>4, <2>2 DEF RunReady, WakeInv
    <3>2. state \in [Streams -> StateNames]
      BY DEF ControlInv, ControlTypes
    <3> QED  BY <3>1, <3>2, WakeScan
  <2> QED  BY <2>1, <2>2
<1>5. CASE ProcessNullEvent
  BY <1>5, WakeKept DEF ProcessNullEvent, WakeInv
<1>6. CASE ProcessCapture
  BY <1>6, WakeKept DEF ProcessCapture, WakeInv
<1>7. CASE ProcessPlayback
  BY <1>7, WakeKept DEF ProcessPlayback, WakeInv
<1>8. ASSUME NEW n \in 0 .. buffer_size, DataCallback(n) PROVE WakeInv'
  BY <1>8, WakeKept DEF DataCallback, WakeInv
<1>9. CASE DataCallbackError
  BY <1>9, WakeKept DEF DataCallbackError, WakeInv
<1>10. CASE FinishWrite
  BY <1>10, WakeKept DEF FinishWrite, WakeInv
<1>11. CASE FinishRecover
  BY <1>11, WakeKept DEF FinishRecover, WakeInv
<1>12. CASE FinishError
  BY <1>12, WakeKept DEF FinishError, WakeInv
<1>13. CASE RunResult
  <2> DEFINE also == IF result = "DRAINING" /\ Playback(stm) /\ Duplex(stm)
                     THEN {other} \cap {s \in Streams : state[s] = "RUNNING"}
                     ELSE {}
             st == Set({stm} \cup also, result)
  <2>1. /\ cur + 1 \in Nat \ {0}
        /\ Scan(cur + 1, st, 1 + Cardinality(also), 0)
        /\ UNCHANGED fds /\ ~ctl'
    BY <1>13, AlsaStreamsAssumption
    DEF RunResult, ControlInv, ControlTypes, InProcess, WakeInv
  <2>2. Cardinality(also) \in Nat
    <3>1. also \in SUBSET Streams
      OBVIOUS
    <3> QED  BY <3>1, StreamsFinite, FS_Subset, FS_CardinalityType
  <2>3. st \in [Streams -> StateNames]
    BY DEF Set, ControlInv, ControlTypes
  <2> HIDE DEF also, st
  <2> QED  BY <2>1, <2>2, <2>3, WakeScan
<1>14. CASE RunTimeout
  <2>1. PICK idle \in SUBSET {s \in Registered : state[s] = "RUNNING"} :
          /\ state' = [s \in Streams |-> IF s \in Drained THEN "INACTIVE"
                                         ELSE IF s \in idle THEN "ERROR"
                                         ELSE state[s]]
          /\ Wake(Cardinality(Drained \cup idle))
    BY <1>14 DEF RunTimeout
  <2>2. Cardinality(Drained \cup idle) \in Nat
    <3>1. Drained \cup idle \in SUBSET Streams
      BY DEF Drained, Registered
    <3> QED  BY <3>1, StreamsFinite, FS_Subset, FS_CardinalityType
  <2>3. rPc' = "top" /\ UNCHANGED <<fds, ctl>> /\ rPc = "timeout"
    BY <1>14 DEF RunTimeout
  <2> QED  BY <2>1, <2>2, <2>3, WakeWritten DEF WakeInv
<1> QED
  BY <1>1, <1>2, <1>3, <1>4, <1>5, <1>6, <1>7, <1>8, <1>9, <1>10, <1>11, <1>12,
     <1>13, <1>14
  DEF RunNext

LEMMA WakeClient ==
  ASSUME WakeInv, ControlInv, NEW h \in Handles, ClientNext(h)
  PROVE  WakeInv'
<1> USE DEF context, device, locals, clients, ghosts
<1>1. CASE Start(h)
  BY <1>1, WakeKept DEF Start, WakeInv
<1>2. CASE StartPcm(h)
  BY <1>2, WakeKept DEF StartPcm, WakeInv
<1>3. CASE StartState(h)
  <2>1. Wake(1) /\ UNCHANGED <<fds, rPc, ctl>>
    BY <1>3 DEF StartState
  <2> QED  BY <2>1, WakeWritten DEF StartState, Set, WakeInv
<1>4. CASE StartFails(h)
  BY <1>4, WakeKept DEF StartFails, WakeInv
<1>5. CASE Stop(h)
  BY <1>5, WakeKept DEF Stop, WakeInv
<1>6. CASE StopState(h)
  <2>1. Wake(1) /\ UNCHANGED <<fds, rPc, ctl>>
    BY <1>6 DEF StopState
  <2> QED  BY <2>1, WakeWritten DEF StopState, Set, WakeInv
<1>7. CASE StopPcm(h)
  BY <1>7, WakeKept DEF StopPcm, WakeInv
<1>8. CASE Destroy(h)
  BY <1>8, WakeKept DEF Destroy, WakeInv
<1>9. CASE DestroyClose(h)
  BY <1>9, WakeKept DEF DestroyClose, WakeInv
<1>10. CASE DestroyUnregister(h)
  BY <1>10, WakeKept DEF DestroyUnregister, WakeInv
<1> QED
  BY <1>1, <1>2, <1>3, <1>4, <1>5, <1>6, <1>7, <1>8, <1>9, <1>10
  DEF ClientNext, ClientContinue

\* alsa_run never sleeps in poll on a stream it does not know of, whatever the
\* clients start meanwhile and however small the pipe.
THEOREM WakeupsArrive == Spec => []NoLostWakeup
<1>1. Init => WakeInv
  BY DEF Init, WakeInv
<1>2. WakeInv /\ ControlInv /\ [Next]_vars => WakeInv'
  <2> SUFFICES ASSUME WakeInv, ControlInv, [Next]_vars PROVE WakeInv'
    OBVIOUS
  <2> USE DEF context, device, locals, clients, ghosts
  <2>1. CASE Tick
    BY <2>1, WakeKept DEF Tick, WakeInv
  <2>2. ASSUME NEW s \in Streams, Fault(s) PROVE WakeInv'
    BY <2>2, WakeKept DEF Fault, WakeInv
  <2>3. CASE ContextDestroy
    <3>1. pipe' \in Nat /\ pipe' > 0
      BY <2>3, AlsaStreamsAssumption DEF ContextDestroy, WakeInv, AtMost
    <3> QED  BY <2>3, <3>1 DEF ContextDestroy, WakeInv
  <2>4. CASE UNCHANGED vars
    BY <2>4, WakeKept DEF vars, WakeInv
  <2> QED
    BY <2>1, <2>2, <2>3, <2>4, WakeThread, WakeClient DEF Next
<1>3. WakeInv => NoLostWakeup
  BY DEF WakeInv, NoLostWakeup, Registered
<1> QED  BY <1>1, <1>2, <1>3, ControlInvariant, PTL DEF Spec

-----------------------------------------------------------------------------
(* The buffers.  What the callback is asked for was measured before it is  *)
(* called and used after it returns, without the mutex; meanwhile only the *)
(* device moves, and it can but make room for playback.                    *)

BufferInv ==
  /\ bufframes \in [Streams -> 0 .. buffer_size]
  /\ queued \in [Streams -> 0 .. DevSize]
  /\ pcm \in [Streams -> {"prepared", "running", "paused", "xrun", "closed"}]
  /\ rPc \in {"callback", "finish"} =>
       /\ avail \in CUBEB_ERROR .. buffer_size
       /\ Playback(stm) /\ pcm[stm] # "xrun" => queued[stm] + avail <= DevSize
  /\ Calling =>
       /\ requested \in Nat
       /\ stm \in Capture =>
            /\ requested <= bufframes[stm]
            /\ Duplex(stm) => bufframes[other] + requested <= buffer_size
       /\ Playback(stm) =>
            /\ bufframes[stm] + requested <= avail
            /\ Duplex(stm) => requested <= bufframes[other]

LEMMA Sizes == DevSize \in Nat \ {0} /\ buffer_size \in Nat /\ DevSize <= buffer_size
BY AlsaStreamsAssumption DEF buffer_size

\* The steps of the others, and those of the thread outside the two pcs.
LEMMA BufferKept ==
  ASSUME BufferInv, ControlInv, UNCHANGED bufframes,
         queued' \in [Streams -> 0 .. DevSize],
         pcm' \in [Streams -> {"prepared", "running", "paused", "xrun", "closed"}],
         rPc' \in {"callback", "finish"} =>
           /\ rPc' = rPc /\ UNCHANGED <<cur, avail, requested>>
           /\ Playback(stm) => /\ queued'[stm] <= queued[stm]
                               /\ pcm'[stm] # "xrun" => pcm[stm] # "xrun"
  PROVE  BufferInv'
<1>1. rPc' \in {"callback", "finish"} => stm \in Streams /\ stm' = stm /\ other' = other
  BY StreamAt DEF ControlInv, ControlTypes, InProcess, stm, other
<1>2. CASE rPc' \in {"callback", "finish"}
  <2>1. /\ rPc' = rPc /\ UNCHANGED <<avail, requested>>
        /\ stm \in Streams /\ stm' = stm /\ other' = other
    BY <1>1, <1>2
  <2>2. Playback(stm) /\ pcm'[stm] # "xrun" => queued'[stm] + avail <= DevSize
    BY <1>2, <2>1, Sizes DEF BufferInv, Playback, CUBEB_ERROR
  <2> QED
    BY <1>2, <2>1, <2>2 DEF BufferInv, Calling, Playback
<1>3. CASE rPc' \notin {"callback", "finish"}
  BY <1>3 DEF BufferInv, Calling
<1> QED  BY <1>2, <1>3

LEMMA BufferProcess ==
  ASSUME BufferInv, ControlInv, ProcessCapture \/ ProcessPlayback
  PROVE  BufferInv'
<1> USE DEF context, device, locals, clients, ghosts
<1>1. /\ stm \in Streams /\ stm' = stm /\ other' = other
      /\ Duplex(stm) => other \in Streams /\ other # stm
  BY StreamAt, Pairs
  DEF ControlInv, ControlTypes, InProcess, stm, other, ProcessCapture, ProcessPlayback
<1>2. /\ bufframes[stm] \in 0 .. buffer_size /\ queued[stm] \in 0 .. DevSize
      /\ Duplex(stm) => bufframes[other] \in 0 .. buffer_size
      /\ DevSize \in Nat /\ buffer_size \in Nat /\ DevSize <= buffer_size
  BY <1>1, Sizes DEF BufferInv
<1>3. CASE ProcessCapture
  <2> DEFINE base == IF AvailUpdate + bufframes[stm] > buffer_size
                     THEN 0 ELSE bufframes[stm]
             got  == IF pcm[stm] = "xrun" THEN 0 ELSE AvailUpdate
             have == base + got
  <2>1. /\ AvailUpdate \in 0 .. buffer_size
        /\ pcm[stm] # "xrun" => AvailUpdate = queued[stm]
    BY <1>2, <1>3 DEF ProcessCapture, AvailUpdate, DeviceAvail, Playback
  <2>2. have \in 0 .. buffer_size /\ got \in 0 .. queued[stm]
    BY <1>2, <2>1
  <2> HIDE DEF base, got, have
  <2>3. /\ bufframes' = [bufframes EXCEPT ![stm] = have]
        /\ queued' = [queued EXCEPT ![stm] = @ - got]
        /\ avail' = IF pcm[stm] = "xrun" THEN PcmError ELSE AvailUpdate
        /\ requested' = Accepts(have) /\ stm \in Capture
        /\ rPc' = IF Accepts(have) > 0 THEN "callback" ELSE "finish"
        /\ UNCHANGED pcm
    BY <1>3 DEF ProcessCapture, base, got, have
  <2>4. /\ Accepts(have) \in Nat /\ Accepts(have) <= have
        /\ Duplex(stm) => bufframes[other] + Accepts(have) <= buffer_size
    BY <1>2, <2>2 DEF Accepts, AtMost
  <2>5. /\ bufframes' \in [Streams -> 0 .. buffer_size] /\ bufframes'[stm] = have
        /\ Duplex(stm) => bufframes'[other] = bufframes[other]
    BY <1>1, <2>2, <2>3 DEF BufferInv
  <2>6. queued' \in [Streams -> 0 .. DevSize]
    <3>1. queued[stm] - got \in 0 .. DevSize
      BY <1>2, <2>2
    <3> QED  BY <2>3, <3>1 DEF BufferInv
  <2>7. avail' \in CUBEB_ERROR .. buffer_size
    BY <1>2, <2>1, <2>3 DEF PcmError, CUBEB_ERROR
  <2> QED
    BY <1>1, <2>3, <2>4, <2>5, <2>6, <2>7 DEF BufferInv, Calling, Playback
<1>4. CASE ProcessPlayback
  <2>1. /\ AvailUpdate \in 0 .. buffer_size
        /\ pcm[stm] # "xrun" => queued[stm] + AvailUpdate <= DevSize
    BY <1>2, <1>4 DEF ProcessPlayback, AvailUpdate, DeviceAvail, Playback
  <2>2. /\ requested' \in Nat /\ requested' <= Missing
        /\ Duplex(stm) => requested' <= bufframes[other]
        /\ avail' = AvailUpdate /\ UNCHANGED <<bufframes, queued, pcm>>
        /\ rPc' = "callback" => requested' > 0
        /\ Playback(stm)
    BY <1>2, <1>4, <2>1 DEF ProcessPlayback, Missing, AtMost, Minus
  <2>3. requested' > 0 => bufframes[stm] + requested' <= AvailUpdate
    BY <1>2, <2>1, <2>2 DEF Missing, Minus
  <2>4. avail' \in CUBEB_ERROR .. buffer_size
    BY <2>1, <2>2 DEF CUBEB_ERROR
  <2> QED
    BY <1>1, <2>1, <2>2, <2>3, <2>4 DEF BufferInv, Calling, Playback
<1> QED  BY <1>3, <1>4

LEMMA BufferCallback ==
  ASSUME BufferInv, ControlInv, NEW n \in 0 .. buffer_size, DataCallback(n)
  PROVE  BufferInv'
<1> USE DEF context, device, locals, clients, ghosts
<1>1. /\ stm \in Streams /\ stm' = stm
      /\ Duplex(stm) => other \in Streams /\ other # stm
      /\ ~Duplex(stm) => other \notin Streams
  BY StreamAt, Pairs, AlsaStreamsAssumption
  DEF ControlInv, ControlTypes, InProcess, stm, other, DataCallback, Duplex
<1>2. /\ Calling /\ n \in 0 .. requested
      /\ UNCHANGED <<queued, pcm, avail>> /\ rPc' \in {"finish", "result"}
  BY <1>1 DEF DataCallback, Calling
<1>3. bufframes' \in [Streams -> 0 .. buffer_size]
  <2>1. CASE stm \in Capture
    <3>1. bufframes' = [s \in Streams |->
                          IF s = stm THEN bufframes[s] - n
                          ELSE IF s = other THEN bufframes[s] + n
                          ELSE bufframes[s]]
      BY <2>1 DEF DataCallback
    <3>2. /\ requested \in Nat /\ requested <= bufframes[stm]
          /\ Duplex(stm) => bufframes[other] + requested <= buffer_size
      BY <1>2, <2>1 DEF BufferInv
    <3> QED
      BY <1>1, <1>2, <3>1, <3>2, Sizes DEF BufferInv
  <2>2. CASE stm \notin Capture
    <3>1. bufframes' = [s \in Streams |->
                          IF s = other THEN bufframes[s] - n
                          ELSE IF s = stm THEN bufframes[s] + n
                          ELSE bufframes[s]]
      BY <2>2 DEF DataCallback
    <3>2. /\ requested \in Nat /\ bufframes[stm] + requested <= avail
          /\ avail \in CUBEB_ERROR .. buffer_size
          /\ Duplex(stm) => requested <= bufframes[other]
      BY <1>2, <2>2 DEF BufferInv, Calling, Playback
    <3> QED
      BY <1>1, <1>2, <3>1, <3>2, Sizes DEF BufferInv, CUBEB_ERROR
  <2> QED  BY <2>1, <2>2
<1> QED
  BY <1>1, <1>2, <1>3 DEF BufferInv, Calling

LEMMA BufferFinish ==
  ASSUME BufferInv, ControlInv,
         DataCallbackError \/ FinishWrite \/ FinishRecover \/ FinishError
  PROVE  BufferInv'
<1> USE DEF context, device, locals, clients, ghosts
<1>1. stm \in Streams /\ stm' = stm
  BY StreamAt
  DEF ControlInv, ControlTypes, InProcess, stm, DataCallbackError, FinishWrite,
      FinishRecover, FinishError
<1>2. /\ bufframes[stm] \in 0 .. buffer_size /\ queued[stm] \in 0 .. DevSize
      /\ DevSize \in Nat /\ buffer_size \in Nat
  BY <1>1, Sizes DEF BufferInv
<1>3. CASE DataCallbackError
  <2>1. /\ avail' = CUBEB_ERROR /\ rPc' = "finish"
        /\ UNCHANGED <<bufframes, queued, pcm>>
    BY <1>3 DEF DataCallbackError
  <2>2. avail' \in CUBEB_ERROR .. buffer_size /\ queued[stm] + avail' <= DevSize
    BY <1>2, <2>1 DEF CUBEB_ERROR
  <2> QED  BY <1>1, <2>1, <2>2 DEF BufferInv, Calling, Playback
<1>4. CASE FinishWrite
  <2>1. /\ avail \in 0 .. buffer_size /\ rPc' = "result"
        /\ Playback(stm) => queued[stm] + avail <= DevSize
    BY <1>4 DEF FinishWrite, BufferInv, CUBEB_ERROR
  <2>2. CASE Playback(stm)
    <3>1. /\ bufframes' = [bufframes EXCEPT ![stm] = Minus(@, avail)]
          /\ queued' = [queued EXCEPT ![stm] = @ + avail]
          /\ pcm' = pcm \/ pcm' = [pcm EXCEPT ![stm] = "running"]
      BY <1>4, <2>2 DEF FinishWrite
    <3>2. /\ Minus(bufframes[stm], avail) \in 0 .. buffer_size
          /\ queued[stm] + avail \in 0 .. DevSize
      BY <1>2, <2>1, <2>2 DEF Minus
    <3> QED  BY <2>1, <3>1, <3>2 DEF BufferInv, Calling
  <2>3. CASE ~Playback(stm)
    BY <1>4, <2>1, <2>3 DEF FinishWrite, BufferInv, Calling
  <2> QED  BY <2>2, <2>3
<1>5. ASSUME rPc = "finish"
      PROVE  (IF Silence THEN [bufframes EXCEPT ![stm] = avail] ELSE bufframes)
               \in [Streams -> 0 .. buffer_size]
  <2>1. avail \in CUBEB_ERROR .. buffer_size
    BY <1>5 DEF BufferInv
  <2>2. Silence => avail \in 0 .. buffer_size
    BY <1>2, <2>1 DEF Silence, CUBEB_ERROR
  <2>3. bufframes \in [Streams -> 0 .. buffer_size]
    BY DEF BufferInv
  <2> QED  BY <2>2, <2>3
<1>6. CASE FinishRecover
  <2>1. /\ rPc = "finish" /\ rPc' = "result"
        /\ bufframes' = IF Silence THEN [bufframes EXCEPT ![stm] = avail]
                        ELSE bufframes
        /\ queued' = [queued EXCEPT ![stm] = 0]
        /\ \E p \in {"prepared", "running"} : pcm' = [pcm EXCEPT ![stm] = p]
    BY <1>6 DEF FinishRecover
  <2>2. bufframes' \in [Streams -> 0 .. buffer_size]
    BY <1>5, <2>1
  <2>3. queued' \in [Streams -> 0 .. DevSize]
    <3>1. 0 \in 0 .. DevSize /\ queued \in [Streams -> 0 .. DevSize]
      BY <1>2 DEF BufferInv
    <3> QED  BY <2>1, <3>1
  <2>4. pcm' \in [Streams -> {"prepared", "running", "paused", "xrun", "closed"}]
    BY <2>1 DEF BufferInv
  <2> QED  BY <2>1, <2>2, <2>3, <2>4 DEF BufferInv, Calling
<1>7. CASE FinishError
  <2>1. /\ rPc = "finish" /\ rPc' = "result" /\ UNCHANGED <<queued, pcm>>
        /\ bufframes' = IF Silence THEN [bufframes EXCEPT ![stm] = avail]
                        ELSE bufframes
    BY <1>7 DEF FinishError
  <2>2. bufframes' \in [Streams -> 0 .. buffer_size]
    BY <1>5, <2>1
  <2> QED  BY <2>1, <2>2 DEF BufferInv, Calling
<1> QED  BY <1>3, <1>4, <1>6, <1>7

LEMMA BufferNext == BufferInv /\ ControlInv /\ [Next]_vars => BufferInv'
<1> SUFFICES ASSUME BufferInv, ControlInv, [Next]_vars PROVE BufferInv'
  OBVIOUS
<1> USE DEF context, device, locals, clients, ghosts
<1> DEFINE Same == UNCHANGED <<bufframes, queued, pcm, cur, avail, requested>>
<1>0. ASSUME Same, rPc' \in {"callback", "finish"} => rPc' = rPc
      PROVE  BufferInv'
  <2>1. /\ queued' \in [Streams -> 0 .. DevSize]
        /\ pcm' \in [Streams -> {"prepared", "running", "paused", "xrun", "closed"}]
    BY <1>0 DEF BufferInv
  <2>2. rPc' \in {"callback", "finish"} => queued[stm] \in 0 .. DevSize
    BY <1>0, StreamAt DEF BufferInv, ControlInv, ControlTypes, InProcess, stm
  <2> QED  BY <1>0, <2>1, <2>2, Sizes, BufferKept
<1>1. CASE Tick
  <2>1. /\ UNCHANGED <<bufframes, rPc, cur, avail, requested>>
        /\ queued' = [s \in Streams |->
                        IF pcm[s] = "running" /\ Playback(s)
                        THEN Minus(queued[s], 1)
                        ELSE IF pcm[s] = "running"
                        THEN AtMost(queued[s] + 1, DevSize)
                        ELSE queued[s]]
        /\ \A s \in Streams : pcm'[s] = pcm[s] \/ pcm'[s] = "xrun"
        /\ pcm' \in [Streams -> {"prepared", "running", "paused", "xrun", "closed"}]
    BY <1>1 DEF Tick, BufferInv
  <2>2. \A s \in Streams :
          /\ Minus(queued[s], 1) \in 0 .. DevSize /\ Minus(queued[s], 1) <= queued[s]
          /\ AtMost(queued[s] + 1, DevSize) \in 0 .. DevSize
          /\ queued[s] \in 0 .. DevSize /\ queued[s] <= queued[s]
    BY Sizes DEF BufferInv, Minus, AtMost
  <2>3. queued' \in [Streams -> 0 .. DevSize]
    BY <2>1, <2>2
  <2>4. \A s \in Streams : Playback(s) => queued'[s] <= queued[s]
    BY <2>1, <2>2
  <2>5. rPc \in {"callback", "finish"} => stm \in Streams
    BY StreamAt DEF ControlInv, ControlTypes, InProcess, stm
  <2> QED
    BY <2>1, <2>3, <2>4, <2>5, BufferKept
<1>2. ASSUME NEW s \in Streams, Fault(s) PROVE BufferInv'
  <2>1. /\ UNCHANGED <<bufframes, queued, rPc, cur, avail, requested>>
        /\ \A r \in Streams : pcm'[r] = pcm[r] \/ pcm'[r] = "xrun"
        /\ pcm' \in [Streams -> {"prepared", "running", "paused", "xrun", "closed"}]
    BY <1>2 DEF Fault, BufferInv
  <2>2. rPc \in {"callback", "finish"} =>
          stm \in Streams /\ queued[stm] \in 0 .. DevSize
    BY StreamAt DEF BufferInv, ControlInv, ControlTypes, InProcess, stm
  <2>3. queued' \in [Streams -> 0 .. DevSize]
    BY <2>1 DEF BufferInv
  <2> QED  BY <2>1, <2>2, <2>3, Sizes, BufferKept
<1>3. CASE RunTop
  BY <1>0, <1>3 DEF RunTop
<1>4. CASE RunPoll
  BY <1>0, <1>4 DEF RunPoll
<1>5. CASE RunPollTimeout
  BY <1>0, <1>5 DEF RunPollTimeout
<1>6. CASE RunReady \/ RunResult
  <2>1. rPc' \in {"exited", "top", "process"} /\ UNCHANGED <<bufframes, queued, pcm>>
    BY <1>6 DEF RunReady, RunResult, Scan
  <2> QED  BY <2>1 DEF BufferInv, Calling
<1>7. CASE ProcessNullEvent
  BY <1>0, <1>7 DEF ProcessNullEvent
<1>8. CASE RunTimeout
  BY <1>0, <1>8 DEF RunTimeout
<1>9. CASE ContextDestroy
  BY <1>0, <1>9 DEF ContextDestroy
<1>10. CASE UNCHANGED vars
  BY <1>0, <1>10 DEF vars
<1>11. ASSUME NEW h \in Handles, ClientNext(h) PROVE BufferInv'
  <2>1. CASE Start(h) \/ StartState(h) \/ StartFails(h) \/ Stop(h) \/ StopState(h)
              \/ Destroy(h) \/ DestroyUnregister(h)
    BY <1>0, <2>1
    DEF Start, StartState, StartFails, Stop, StopState, Destroy, DestroyUnregister
  <2>2. rPc \in {"callback", "finish"} =>
          stm \in Streams /\ queued[stm] \in 0 .. DevSize
    BY StreamAt DEF BufferInv, ControlInv, ControlTypes, InProcess, stm
  <2>3. CASE StartPcm(h) \/ StopPcm(h)
    <3>1. /\ UNCHANGED <<bufframes, queued, rPc, cur, avail, requested>>
          /\ \A r \in Streams : pcm'[r] # "xrun" => pcm[r] # "xrun"
          /\ pcm' \in [Streams -> {"prepared", "running", "paused", "xrun", "closed"}]
      BY <2>3 DEF StartPcm, StopPcm, BufferInv
    <3>2. queued' \in [Streams -> 0 .. DevSize]
      BY <3>1 DEF BufferInv
    <3> QED  BY <2>2, <3>1, <3>2, Sizes, BufferKept
  <2>4. CASE DestroyClose(h)
    <3>1. /\ UNCHANGED <<bufframes, queued, rPc, cur, avail, requested>>
          /\ pcm' = [pcm EXCEPT ![cStm[h]] = "closed"]
          /\ pcm' \in [Streams -> {"prepared", "running", "paused", "xrun", "closed"}]
          /\ cPc[h] = "close"
      BY <2>4 DEF DestroyClose, BufferInv
    <3>2. queued' \in [Streams -> 0 .. DevSize]
      BY <3>1 DEF BufferInv
    <3>3. rPc \in {"callback", "finish"} => stm # cStm[h]
      <4>1. Main(cStm[h]) \in stopped /\ cStm[h] \in Streams
        BY <3>1, Pairs DEF ControlInv, ControlTypes, ClientInv
      <4>2. state[cStm[h]] = "INACTIVE"
        BY <4>1 DEF ControlInv, ClientInv
      <4>3. rPc \in {"callback", "finish"} => stm \in Streams /\ state[stm] = "PROCESSING"
        BY StreamAt DEF ControlInv, ControlTypes, LockInv, InProcess, stm
      <4> QED  BY <4>2, <4>3
    <3>4. rPc \in {"callback", "finish"} =>
            queued'[stm] <= queued[stm] /\ pcm'[stm] = pcm[stm]
      BY <2>2, <3>1, <3>3, Sizes DEF BufferInv
    <3>5. UNCHANGED <<bufframes, rPc, cur, avail, requested>>
      BY <3>1
    <3> QED  BY ONLY BufferInv, ControlInv, <3>1, <3>2, <3>4, <3>5, BufferKept
  <2> QED  BY <1>11, <2>1, <2>3, <2>4 DEF ClientNext, ClientContinue
<1>12. RunNext => BufferInv'
  <2>1. (\E n \in 0 .. buffer_size : DataCallback(n)) => BufferInv'
    BY BufferCallback
  <2>2. DataCallbackError \/ FinishWrite \/ FinishRecover \/ FinishError => BufferInv'
    BY BufferFinish
  <2>3. ProcessCapture \/ ProcessPlayback => BufferInv'
    BY BufferProcess
  <2> QED
    BY <1>3, <1>4, <1>5, <1>6, <1>7, <1>8, <2>1, <2>2, <2>3 DEF RunNext
<1>13. Next => BufferInv'
  BY <1>1, <1>2, <1>9, <1>11, <1>12 DEF Next
<1> QED  BY <1>10, <1>13

\* The data callback's frames stay within the two buffers, and what is written
\* to the device is what it has room for, for any buffer size.
THEOREM BuffersHold == Spec => []BuffersBounded
<1>1. Init => BufferInv
  BY Sizes DEF Init, BufferInv, Calling
<1>2. BufferInv /\ ControlInv => BuffersBounded
  <2> SUFFICES ASSUME BufferInv, ControlInv PROVE BuffersBounded
    OBVIOUS
  <2>1. rPc \in {"callback", "finish"} =>
          bufframes[stm] \in 0 .. buffer_size /\ avail \in CUBEB_ERROR .. buffer_size
    BY StreamAt DEF BufferInv, ControlInv, ControlTypes, InProcess, stm
  <2>2. \A s \in Streams : bufframes[s] <= buffer_size
    BY Sizes DEF BufferInv
  <2>3. Calling /\ Playback(stm) => bufframes[stm] + requested <= buffer_size
    BY <2>1, Sizes DEF BufferInv, Calling, CUBEB_ERROR
  <2> QED  BY <2>2, <2>3 DEF BufferInv, BuffersBounded, Calling, Playback
<1> QED
  BY <1>1, <1>2, BufferNext, ControlInvariant, PTL DEF Spec

-----------------------------------------------------------------------------
(* The last data callback.  A handle whose callback has returned less than  *)
(* asked ends with its first half, which the thread processes no more; a    *)
(* playback half in ERROR is the exception.  The client's part: a start     *)
(* follows a stop, and so forgets what was short before anything runs.      *)

Ended == {"DRAINING", "ERROR", "INACTIVE"}
Ending(s, R) ==
  /\ \/ rPc = "finish" /\ draining
     \/ rPc = "result" /\ result \in R
  /\ s = stm

ShortEnds(h) ==
  \/ state[FirstHalf(h)] \in Ended
  \/ Ending(FirstHalf(h), Ended)
  \/ Duplex(h) /\ (state[h] = "ERROR" \/ Ending(h, {"DRAINING", "ERROR"}))

\* A playback half about to ask for frames of a running capture half.
Asks ==
  \/ Calling
  \/ rPc = "process" /\ other_stream_running

ShortInv ==
  /\ short \subseteq Handles
  /\ \A h \in short : ShortEnds(h)
  /\ \A h \in Handles : cPc[h] \in Starting => state[h] = "INACTIVE"
  /\ \A h \in Handles : cPc[h] \in Starting /\ cStm[h] = FirstHalf(h) =>
       state[FirstHalf(h)] = "INACTIVE" /\ h \notin short
  /\ Asks => ~(Duplex(stm) /\ Playback(stm) /\ stm \in short)

\* Outside the tail of a pass, it is the states that tell that a handle ends.
LEMMA ShortStates ==
  ASSUME ShortInv, ~(rPc \in {"finish", "result"}), NEW h \in short
  PROVE  state[FirstHalf(h)] \in Ended \/ (Duplex(h) /\ state[h] = "ERROR")
BY DEF ShortInv, ShortEnds, Ending

\* A step that leaves the states alone and the tail of a pass as it is.
LEMMA ShortKept ==
  ASSUME ShortInv, ControlInv, UNCHANGED <<state, cPc, cStm, short>>,
         \A s \in Streams : Ending(s, Ended) => Ending(s, Ended)',
         \A s \in Streams :
           Ending(s, {"DRAINING", "ERROR"}) => Ending(s, {"DRAINING", "ERROR"})',
         Asks' => stm' = stm /\ (Asks \/ stm \in Capture \/ ~Duplex(stm))
  PROVE  ShortInv'
<1>1. \A h \in short' : ShortEnds(h)'
  BY Pairs DEF ShortInv, ShortEnds
<1>2. Asks' => ~(Duplex(stm') /\ Playback(stm') /\ stm' \in short')
  BY DEF ShortInv, Playback
<1> QED  BY <1>1, <1>2 DEF ShortInv

\* A pass ends and another may begin, as in ControlScan.
LEMMA ShortScan ==
  ASSUME ShortInv, ControlInv, NEW i \in Nat \ {0}, NEW k, NEW b,
         NEW st \in [Streams -> StateNames \ {"PROCESSING"}],
         \A s \in Streams : state[s] = "INACTIVE" => st[s] = "INACTIVE",
         \A h \in short :
           st[FirstHalf(h)] \in Ended \/ (Duplex(h) /\ st[h] = "ERROR"),
         Scan(i, st, k, b),
         UNCHANGED <<cPc, cStm, short>>
  PROVE  ShortInv'
<1>1. CASE state' = st /\ rPc' = "top"
  BY <1>1, Pairs DEF ShortInv, ShortEnds, Asks, Calling
<1>2. CASE /\ stm' \in Streams /\ state' = [st EXCEPT ![stm'] = "PROCESSING"]
           /\ rPc' = "process" /\ st[stm'] = "RUNNING"
           /\ other_stream_running' =
                (Duplex(stm') => st[other_stream[stm']] = "RUNNING")
  <2>1. \A s \in Streams : st[s] # "RUNNING" => state'[s] = st[s]
    BY <1>2
  <2>2. \A h \in short : state'[FirstHalf(h)] \in Ended
                         \/ (Duplex(h) /\ state'[h] = "ERROR")
    BY <2>1, Pairs DEF ShortInv, Ended
  <2>3. Asks' => ~(Duplex(stm') /\ Playback(stm') /\ stm' \in short')
    <3> SUFFICES ASSUME Asks', Duplex(stm'), Playback(stm'), stm' \in short
                 PROVE  FALSE
      OBVIOUS
    <3>1. st[FirstHalf(stm')] = "RUNNING"
      BY <1>2, FirstHalves DEF Asks, Calling, FirstHalf
    <3>2. st[stm'] = "RUNNING"
      BY <1>2
    <3> QED  BY <3>1, <3>2 DEF Ended
  <2>4. \A s \in Streams : state[s] = "INACTIVE" => state'[s] = "INACTIVE"
    BY <2>1
  <2> QED
    BY <2>2, <2>3, <2>4, Pairs DEF ShortInv, ShortEnds
<1> QED  BY <1>1, <1>2, ScanSteps

LEMMA ShortThread ==
  ASSUME ShortInv, ControlInv, RunNext
  PROVE  ShortInv'
<1> USE DEF context, device, locals, clients, ghosts
<1>0. InProcess => stm \in Streams /\ Main(stm) \in Handles
  BY StreamAt, Pairs DEF ControlInv, ControlTypes, stm
<1>1. CASE RunTop \/ RunPoll \/ RunPollTimeout
  <2>1. /\ UNCHANGED <<state, cPc, cStm, short>>
        /\ rPc \notin {"finish", "result"} /\ ~Asks'
    BY <1>1 DEF RunTop, RunPoll, RunPollTimeout, Asks, Calling
  <2> QED  BY <2>1, ShortKept DEF Ending
<1>2. CASE RunReady
  <2>1. rPc = "ready" /\ UNCHANGED <<cPc, cStm, short>>
    BY <1>2 DEF RunReady
  <2>2. CASE ctl /\ shutdown
    <3>1. UNCHANGED state /\ ~Asks'
      BY <1>2, <2>2 DEF RunReady, Asks, Calling
    <3> QED  BY <2>1, <3>1, ShortKept DEF Ending
  <2>3. CASE ~(ctl /\ shutdown)
    <3>1. state \in [Streams -> StateNames \ {"PROCESSING"}]
      BY <2>1 DEF ControlInv, ControlTypes, LockInv, InProcess
    <3>2. \A h \in short :
            state[FirstHalf(h)] \in Ended \/ (Duplex(h) /\ state[h] = "ERROR")
      BY <2>1, ShortStates
    <3> QED  BY <1>2, <2>1, <2>3, <3>1, <3>2, ShortScan DEF RunReady
  <2> QED  BY <2>2, <2>3
<1>3. CASE ProcessNullEvent \/ ProcessCapture \/ ProcessPlayback
  <2>1. /\ UNCHANGED <<state, cPc, cStm, short, cur>> /\ rPc = "process"
        /\ Asks' => Asks \/ stm \in Capture \/ ~Duplex(stm)
    BY <1>3
    DEF ProcessNullEvent, ProcessCapture, ProcessPlayback, Asks, Calling
  <2> QED  BY <2>1, ShortKept DEF Ending, stm
<1>4. ASSUME NEW n \in 0 .. buffer_size, DataCallback(n) PROVE ShortInv'
  <2> DEFINE h == Main(stm)
  <2>1. /\ UNCHANGED <<state, cPc, cStm, cur>> /\ rPc = "callback" /\ ~Asks'
        /\ stm \in Streams /\ stm' = stm /\ h \in Handles
    BY <1>0, <1>4 DEF DataCallback, Asks, Calling, InProcess, stm
  <2>2. \A g \in short :
          state[FirstHalf(g)] \in Ended \/ (Duplex(g) /\ state[g] = "ERROR")
    BY <2>1, ShortStates
  <2>3. CASE short' = short
    BY <2>1, <2>2, <2>3 DEF ShortInv, ShortEnds
  <2>4. CASE short' # short
    <3>1. /\ short' = short \cup {h}
          /\ \/ rPc' = "finish" /\ draining'
             \/ rPc' = "result" /\ result' = "INACTIVE" /\ ~Duplex(stm)
      BY <1>4, <2>4 DEF DataCallback
    <3>2. ShortEnds(h)'
      BY <2>1, <3>1, FirstHalves, Pairs DEF ShortEnds, Ending, Ended
    <3>3. \A g \in short' : ShortEnds(g)'
      BY <2>1, <2>2, <3>1, <3>2 DEF ShortEnds
    <3>4. ~(cPc[h] \in Starting /\ cStm[h] = FirstHalf(h))
      BY <2>1, Pairs DEF ShortInv, ControlInv, LockInv, InProcess
    <3> QED  BY <2>1, <3>1, <3>3, <3>4 DEF ShortInv
  <2> QED  BY <2>3, <2>4
<1>5. CASE DataCallbackError
  <2>1. UNCHANGED <<state, cPc, cStm, short>> /\ rPc = "callback" /\ ~Asks'
    BY <1>5 DEF DataCallbackError, Asks, Calling
  <2> QED  BY <2>1, ShortKept DEF Ending
<1>6. CASE FinishWrite \/ FinishRecover \/ FinishError
  <2>1. /\ UNCHANGED <<state, cPc, cStm, short, cur>>
        /\ rPc = "finish" /\ rPc' = "result" /\ ~Asks'
        /\ draining => result' \in {"DRAINING", "ERROR"}
    BY <1>6
    DEF FinishWrite, FinishRecover, FinishError, Asks, Calling, Outcome, Drains
  <2>2. UNCHANGED stm
    BY <2>1 DEF stm
  <2> QED  BY <2>1, <2>2, ShortKept DEF Ending, Ended
<1>7. CASE RunResult
  <2> DEFINE also == IF result = "DRAINING" /\ Playback(stm) /\ Duplex(stm)
                     THEN {other} \cap {s \in Streams : state[s] = "RUNNING"}
                     ELSE {}
             st == Set({stm} \cup also, result)
  <2>1. /\ InProcess /\ rPc = "result" /\ cur + 1 \in Nat \ {0}
        /\ Scan(cur + 1, st, 1 + Cardinality(also), 0)
        /\ UNCHANGED <<cPc, cStm, short>>
    BY <1>7, AlsaStreamsAssumption DEF RunResult, ControlInv, ControlTypes, InProcess
  <2>2. \A s \in also : state[s] = "RUNNING" /\ s \in Streams /\ s \in Capture
    BY <1>0, <2>1, AlsaStreamsAssumption DEF Playback, Duplex, other
  <2>3. /\ stm \in Streams /\ state[stm] = "PROCESSING"
        /\ \A s \in Streams : s # stm => state[s] # "PROCESSING"
        /\ state \in [Streams -> StateNames]
        /\ result \in StateNames \ {"PROCESSING"}
    BY <1>0, <2>1 DEF ControlInv, ControlTypes, LockInv
  <2>4. result = "DRAINING" /\ Playback(stm) /\ Duplex(stm) =>
          other \in also \/ state[other] # "RUNNING"
    BY <2>3, Pairs DEF other
  <2> HIDE DEF also
  <2>5. st \in [Streams -> StateNames \ {"PROCESSING"}]
    BY <2>3 DEF Set
  <2>6. \A s \in Streams : state[s] = "INACTIVE" => st[s] = "INACTIVE"
    BY <2>2, <2>3 DEF Set
  <2>7. ASSUME NEW h \in short
        PROVE  st[FirstHalf(h)] \in Ended \/ (Duplex(h) /\ st[h] = "ERROR")
    <3>1. h \in Handles /\ h \in Streams /\ FirstHalf(h) \in Streams
      BY Pairs DEF ShortInv
    <3>2. CASE state[FirstHalf(h)] \in Ended
      BY <2>2, <2>3, <3>1, <3>2 DEF Set, Ended
    <3>3. CASE Ending(FirstHalf(h), Ended)
      BY <2>1, <2>3, <3>1, <3>3 DEF Set, Ended, Ending
    <3>4. CASE Duplex(h) /\ state[h] = "ERROR"
      BY <2>2, <2>3, <3>1, <3>4 DEF Set
    <3>5. CASE Duplex(h) /\ Ending(h, {"DRAINING", "ERROR"})
      <4>1. h = stm /\ result \in {"DRAINING", "ERROR"}
        BY <2>1, <3>5 DEF Ending
      <4>2. CASE result = "ERROR"
        BY <2>3, <3>5, <4>1, <4>2 DEF Set
      <4>3. CASE result = "DRAINING"
        <5>1. Playback(stm) /\ other = FirstHalf(h) /\ other # stm
          BY <3>1, <3>5, <4>1, FirstHalves, Pairs DEF Playback, other
        <5>2. st[other] \in Ended
          BY <2>2, <2>3, <2>4, <3>1, <3>5, <4>1, <4>3, <5>1 DEF Set, Ended
        <5> QED  BY <5>1, <5>2
      <4> QED  BY <4>1, <4>2, <4>3
    <3> QED  BY <3>2, <3>3, <3>4, <3>5 DEF ShortInv, ShortEnds
  <2> QED  BY <2>1, <2>5, <2>6, <2>7, ShortScan
<1>8. CASE RunTimeout
  <2>1. PICK idle \in SUBSET {s \in Registered : state[s] = "RUNNING"} :
          state' = [s \in Streams |-> IF s \in Drained THEN "INACTIVE"
                                      ELSE IF s \in idle THEN "ERROR"
                                      ELSE state[s]]
    BY <1>8 DEF RunTimeout
  <2>2. /\ rPc = "timeout" /\ ~Asks' /\ UNCHANGED <<cPc, cStm, short>>
    BY <1>8 DEF RunTimeout, Asks, Calling
  <2>3. \A s \in Streams : /\ s \in Drained => state[s] = "DRAINING"
                           /\ s \in idle => state[s] = "RUNNING"
    BY DEF Drained
  <2>4. \A s \in Streams : /\ state[s] = "INACTIVE" => state'[s] = "INACTIVE"
                           /\ state[s] = "ERROR" => state'[s] = "ERROR"
                           /\ state[s] \in Ended => state'[s] \in Ended
    BY <2>1, <2>3 DEF Ended
  <2>5. \A h \in short :
          state[FirstHalf(h)] \in Ended \/ (Duplex(h) /\ state[h] = "ERROR")
    BY <2>2, ShortStates
  <2>6. \A h \in short' : ShortEnds(h)'
    BY <2>2, <2>4, <2>5, Pairs DEF ShortInv, ShortEnds
  <2> QED  BY <2>2, <2>4, <2>6, Pairs DEF ShortInv
<1> QED
  BY <1>1, <1>2, <1>3, <1>4, <1>5, <1>6, <1>7, <1>8 DEF RunNext

LEMMA ShortClient ==
  ASSUME ~EagerRestart, ShortInv, ControlInv, NEW h \in Handles, ClientNext(h)
  PROVE  ShortInv'
<1> USE DEF context, device, locals, clients, ghosts
<1>0. /\ h \in Streams /\ FirstHalf(h) \in Streams
      /\ cStm[h] = h \/ cStm[h] = FirstHalf(h)
      /\ \A g \in Handles : g # h =>
           /\ g # h /\ g # FirstHalf(h)
           /\ FirstHalf(g) # h /\ FirstHalf(g) # FirstHalf(h)
      /\ \A g \in Handles : g \in Streams /\ FirstHalf(g) \in Streams
  BY Pairs DEF ControlInv, ControlTypes
<1>1. CASE Start(h)
  <2>1. /\ UNCHANGED <<state, rPc, result, draining, cur, other_stream_running>>
        /\ cPc' = [cPc EXCEPT ![h] = "startPcm"]
        /\ cStm' = [cStm EXCEPT ![h] = FirstHalf(h)]
        /\ h \in stopped
    BY <1>1 DEF Start
  <2>2. state[h] = "INACTIVE" /\ state[FirstHalf(h)] = "INACTIVE"
    BY <1>0, <2>1, Pairs DEF ControlInv, ClientInv
  <2>3. short' = short \ {h}
    BY <1>1, <2>2 DEF Start, Halves, Forget
  <2>4. \A g \in short' : ShortEnds(g)'
    BY <2>1, <2>3 DEF ShortInv, ShortEnds, Ending, stm
  <2>5. Asks' => ~(Duplex(stm') /\ Playback(stm') /\ stm' \in short')
    BY <2>1, <2>3 DEF ShortInv, Asks, Calling, stm, Playback
  <2> QED
    BY <1>0, <2>1, <2>2, <2>3, <2>4, <2>5
    DEF ShortInv, ControlInv, ControlTypes
<1>2. CASE StartState(h)
  <2>1. /\ UNCHANGED <<rPc, result, draining, cur, other_stream_running>>
        /\ state' = [state EXCEPT ![cStm[h]] = "RUNNING"]
        /\ cPc[h] = "startState" /\ state[cStm[h]] = "INACTIVE"
        /\ short' = short \/ (~Duplex(h) /\ short' = short \ {h})
    BY <1>0, <1>2 DEF StartState, Forget, Set, ControlInv, ControlTypes
  <2>2. cPc' = [cPc EXCEPT ![h] = "idle"]
        \/ /\ cStm[h] # h /\ cStm' = [cStm EXCEPT ![h] = h]
           /\ cPc' = [cPc EXCEPT ![h] = "startPcm"]
    BY <1>2 DEF StartState
  <2>3. cStm' = cStm \/ cStm' = [cStm EXCEPT ![h] = h]
    BY <1>2 DEF StartState
  <2>4. /\ state[h] = "INACTIVE"
        /\ cStm[h] = FirstHalf(h) => h \notin short
    BY <2>1 DEF ShortInv
  <2>5. ~Ending(h, {"DRAINING", "ERROR"})
    BY <1>0, <2>4 DEF Ending, ControlInv, LockInv, InProcess
  <2>6. ASSUME NEW g \in short' PROVE ShortEnds(g)'
    <3>1. g \in short /\ ShortEnds(g) /\ g \in Handles
      BY <2>1, <2>6 DEF ShortInv
    <3>2. \A R : Ending(FirstHalf(g), R) => Ending(FirstHalf(g), R)'
      BY <2>1 DEF Ending, stm
    <3>3. CASE g = h
      BY <1>0, <2>1, <2>4, <2>5, <3>1, <3>2, <3>3
      DEF ShortEnds, ControlInv, ControlTypes
    <3>4. CASE g # h
      <4>1. state'[g] = state[g] /\ state'[FirstHalf(g)] = state[FirstHalf(g)]
        BY <1>0, <2>1, <3>1, <3>4 DEF ControlInv, ControlTypes
      <4> QED  BY <2>1, <3>1, <4>1 DEF ShortEnds, Ending, stm
    <3> QED  BY <3>3, <3>4
  <2>7. Asks' => ~(Duplex(stm') /\ Playback(stm') /\ stm' \in short')
    BY <2>1 DEF ShortInv, Asks, Calling, stm, Playback
  <2>8. \A g \in Handles : cPc'[g] \in Starting =>
          /\ state'[g] = "INACTIVE"
          /\ cStm'[g] = FirstHalf(g) =>
               state'[FirstHalf(g)] = "INACTIVE" /\ g \notin short'
    <3>1. \A g \in Handles : g # h => cPc'[g] = cPc[g] /\ cStm'[g] = cStm[g]
      BY <2>2, <2>3 DEF ControlInv, ControlTypes
    <3>2. cPc'[h] \in Starting => /\ cStm[h] # h /\ cStm'[h] = h
      BY <2>2 DEF ControlInv, ControlTypes
    <3>3. \A g \in Handles : g # h =>
            state'[g] = state[g] /\ state'[FirstHalf(g)] = state[FirstHalf(g)]
      BY <1>0, <2>1 DEF ControlInv, ControlTypes
    <3>4. cStm[h] # h => state'[h] = state[h]
      BY <1>0, <2>1 DEF ControlInv, ControlTypes
    <3> QED
      BY <1>0, <2>1, <2>4, <3>1, <3>2, <3>3, <3>4 DEF ShortInv
  <2> QED  BY <2>1, <2>6, <2>7, <2>8 DEF ShortInv
<1>3. CASE StopState(h)
  <2>1. /\ UNCHANGED <<rPc, result, draining, cur, other_stream_running, short, cStm>>
        /\ state' = [state EXCEPT ![cStm[h]] = "INACTIVE"]
        /\ cPc' = [cPc EXCEPT ![h] = "stopPcm"] /\ cPc[h] = "stopState"
    BY <1>0, <1>3 DEF StopState, Set, ControlInv, ControlTypes
  <2>2. \A s \in Streams : state[s] = "INACTIVE" => state'[s] = "INACTIVE"
    BY <2>1 DEF ControlInv, ControlTypes
  <2>3. state'[FirstHalf(h)] = "INACTIVE"
    BY <1>0, <2>1 DEF ControlInv, ControlTypes, ClientInv
  <2>4. ASSUME NEW g \in short' PROVE ShortEnds(g)'
    <3>1. CASE g = h
      BY <2>3, <3>1 DEF ShortEnds, Ended
    <3>2. CASE g # h
      <4>1. g \in Handles /\ ShortEnds(g)
        BY <2>1, <2>4 DEF ShortInv
      <4>2. state'[g] = state[g] /\ state'[FirstHalf(g)] = state[FirstHalf(g)]
        BY <1>0, <2>1, <3>2, <4>1 DEF ControlInv, ControlTypes
      <4> QED  BY <2>1, <4>1, <4>2 DEF ShortEnds, Ending, stm
    <3> QED  BY <3>1, <3>2
  <2>5. Asks' => ~(Duplex(stm') /\ Playback(stm') /\ stm' \in short')
    BY <2>1 DEF ShortInv, Asks, Calling, stm, Playback
  <2>6. \A g \in Handles : cPc'[g] \in Starting => cPc[g] \in Starting
    BY <2>1 DEF ControlInv, ControlTypes
  <2> QED  BY <1>0, <2>1, <2>2, <2>4, <2>5, <2>6 DEF ShortInv
<1>4. CASE StartPcm(h) \/ StartFails(h) \/ Stop(h) \/ StopPcm(h)
           \/ Destroy(h) \/ DestroyClose(h) \/ DestroyUnregister(h)
  <2>1. /\ UNCHANGED <<state, rPc, result, draining, cur, other_stream_running, short>>
        /\ \A g \in Handles : cPc'[g] \in Starting =>
             cPc[g] \in Starting /\ cStm'[g] = cStm[g]
    BY <1>0, <1>4
    DEF StartPcm, StartFails, Stop, StopPcm, Destroy, DestroyClose,
        DestroyUnregister, ControlInv, ControlTypes
  <2>2. \A g \in short' : ShortEnds(g)'
    BY <2>1 DEF ShortInv, ShortEnds, Ending, stm
  <2>3. Asks' => ~(Duplex(stm') /\ Playback(stm') /\ stm' \in short')
    BY <2>1 DEF ShortInv, Asks, Calling, stm, Playback
  <2> QED  BY <2>1, <2>2, <2>3 DEF ShortInv
<1> QED
  BY <1>1, <1>2, <1>3, <1>4 DEF ClientNext, ClientContinue

LEMMA ShortNext ==
  ASSUME ~EagerRestart
  PROVE  ShortInv /\ ControlInv /\ [Next]_vars => ShortInv'
<1> SUFFICES ASSUME ShortInv, ControlInv, [Next]_vars PROVE ShortInv'
  OBVIOUS
<1>1. ASSUME UNCHANGED <<state, cPc, cStm, short, rPc, result, draining, cur,
                         other_stream_running>>
      PROVE  ShortInv'
  BY <1>1, ShortKept DEF Ending, stm, Asks, Calling
<1>2. CASE Tick \/ (\E s \in Streams : Fault(s)) \/ ContextDestroy \/ UNCHANGED vars
  BY <1>1, <1>2
  DEF Tick, Fault, ContextDestroy, vars, context, device, locals, clients, ghosts
<1>3. CASE \E h \in Handles : ClientNext(h)
  BY <1>3, ShortClient
<1>4. CASE RunNext
  BY <1>4, ShortThread
<1> QED  BY <1>2, <1>3, <1>4 DEF Next

\* For clients that stop a stream before they start it again: the data callback
\* is not called again once it has returned less than asked, but for the capture
\* half of a duplex stream whose playback half has failed.
THEOREM ShortEndsData ==
  ASSUME ~EagerRestart
  PROVE  Spec => []ShortIsLast
<1>1. Init => ShortInv
  BY DEF Init, ShortInv, Asks, Calling
<1>2. ShortInv /\ ControlInv => ShortIsLast
  <2> SUFFICES ASSUME ShortInv, ControlInv, Calling, Main(stm) \in short
               PROVE  Duplex(stm) /\ stm \in Capture /\ state[other] = "ERROR"
    BY DEF ShortIsLast
  <2>1. stm \in Streams /\ state[stm] = "PROCESSING"
    BY StreamAt DEF ControlInv, ControlTypes, LockInv, InProcess, Calling, stm
  <2>2. \/ state[FirstHalf(Main(stm))] \in Ended
        \/ Duplex(Main(stm)) /\ state[Main(stm)] = "ERROR"
    BY ShortStates DEF Calling
  <2>3. CASE ~Duplex(stm)
    BY <2>1, <2>2, <2>3, FirstHalves, Pairs DEF Ended
  <2>4. CASE Duplex(stm) /\ stm \in Capture
    BY <2>1, <2>2, <2>4, FirstHalves DEF Ended, other
  <2>5. CASE Duplex(stm) /\ stm \notin Capture
    BY <2>1, <2>5, FirstHalves DEF ShortInv, Asks, Playback
  <2> QED  BY <2>3, <2>4, <2>5
<1> QED
  BY <1>1, <1>2, ShortNext, ControlInvariant, PTL DEF Spec

-----------------------------------------------------------------------------
(* An error of the data callback, of a stream that is not duplex: it ends   *)
(* the pass, and the stream stays in ERROR until it is stopped.             *)

FailEnds(h) ==
  \/ state[h] \in {"ERROR", "INACTIVE"}
  \/ /\ \/ rPc = "finish" /\ avail = CUBEB_ERROR
        \/ rPc = "result" /\ result = "ERROR"
     /\ h = stm

FailInv ==
  /\ failed \subseteq Handles
  /\ \A h \in failed : ~Duplex(h) => FailEnds(h)

\* A step after which the streams that have ended still have.
LEMMA FailKept ==
  ASSUME FailInv, failed' \subseteq failed,
         \A h \in failed' : ~Duplex(h) =>
           /\ state[h] \in {"ERROR", "INACTIVE"} => state'[h] \in {"ERROR", "INACTIVE"}
           /\ FailEnds(h) /\ state[h] \notin {"ERROR", "INACTIVE"} => FailEnds(h)'
  PROVE  FailInv'
BY DEF FailInv, FailEnds

LEMMA FailThread ==
  ASSUME FailInv, ControlInv, RunNext
  PROVE  FailInv'
<1> USE DEF context, device, locals, clients, ghosts
<1>0. /\ InProcess => stm \in Streams /\ Main(stm) \in Handles
      /\ \A h \in failed : h \in Handles /\ h \in Streams
  BY StreamAt, Pairs DEF ControlInv, ControlTypes, stm, FailInv
<1>1. CASE RunTop \/ RunPoll \/ RunPollTimeout \/ ProcessNullEvent
           \/ ProcessCapture \/ ProcessPlayback
  <2>1. UNCHANGED <<state, failed>> /\ rPc \notin {"finish", "result"}
    BY <1>1 DEF RunTop, RunPoll, RunPollTimeout, ProcessNullEvent,
                ProcessCapture, ProcessPlayback
  <2> QED  BY <2>1, FailKept DEF FailEnds
<1>2. CASE RunReady
  <2>1. rPc = "ready" /\ UNCHANGED failed
    BY <1>2 DEF RunReady
  <2>2. \A s \in Streams : state[s] \in {"ERROR", "INACTIVE"} => state'[s] = state[s]
    <3>1. CASE ctl /\ shutdown
      BY <1>2, <3>1 DEF RunReady
    <3>2. CASE ~(ctl /\ shutdown)
      <4>1. Scan(1, state, 0, IF ctl THEN 1 ELSE 0) /\ 1 \in Nat \ {0}
        BY <1>2, <3>2 DEF RunReady
      <4>2. \/ state' = state
            \/ /\ state' = [state EXCEPT ![stm'] = "PROCESSING"]
               /\ state[stm'] = "RUNNING"
        BY <4>1, ScanSteps
      <4> QED  BY <4>2 DEF ControlInv, ControlTypes
    <3> QED  BY <3>1, <3>2
  <2> QED  BY <1>0, <2>1, <2>2, FailKept DEF FailEnds
<1>3. ASSUME NEW n \in 0 .. buffer_size, DataCallback(n) PROVE FailInv'
  <2>1. UNCHANGED <<state, failed>> /\ rPc = "callback"
    BY <1>3 DEF DataCallback
  <2> QED  BY <2>1, FailKept DEF FailEnds
<1>4. CASE DataCallbackError
  <2>1. /\ rPc = "callback" /\ rPc' = "finish" /\ avail' = CUBEB_ERROR
        /\ UNCHANGED <<state, cur>> /\ failed' = failed \cup {Main(stm)}
    BY <1>4 DEF DataCallbackError
  <2>2. stm \in Streams /\ Main(stm) \in Handles /\ stm' = stm
    BY <1>0, <2>1 DEF InProcess, stm
  <2>3. ~Duplex(Main(stm)) => Main(stm) = stm
    BY <2>2, FirstHalves, Pairs
  <2> QED  BY <2>1, <2>2, <2>3 DEF FailInv, FailEnds
<1>5. CASE FinishWrite \/ FinishRecover \/ FinishError
  <2>1. /\ UNCHANGED <<state, failed, cur>> /\ rPc = "finish" /\ rPc' = "result"
        /\ avail = CUBEB_ERROR => result' = "ERROR"
    BY <1>5 DEF FinishWrite, FinishRecover, FinishError, Recoverable, CUBEB_ERROR
  <2>2. stm' = stm
    BY <2>1 DEF stm
  <2> QED  BY <2>1, <2>2, FailKept DEF FailEnds
<1>6. CASE RunResult
  <2> DEFINE also == IF result = "DRAINING" /\ Playback(stm) /\ Duplex(stm)
                     THEN {other} \cap {s \in Streams : state[s] = "RUNNING"}
                     ELSE {}
             st == Set({stm} \cup also, result)
  <2>1. /\ InProcess /\ rPc = "result" /\ cur + 1 \in Nat \ {0}
        /\ Scan(cur + 1, st, 1 + Cardinality(also), 0) /\ UNCHANGED failed
    BY <1>6, AlsaStreamsAssumption DEF RunResult, ControlInv, ControlTypes, InProcess
  <2>2. \A s \in also : state[s] = "RUNNING"
    OBVIOUS
  <2> HIDE DEF also
  <2>3. stm \in Streams /\ state[stm] = "PROCESSING"
    BY <1>0, <2>1 DEF ControlInv, LockInv
  <2>4. \A h \in failed : ~Duplex(h) => st[h] \in {"ERROR", "INACTIVE"}
    <3> SUFFICES ASSUME NEW h \in failed, ~Duplex(h)
                 PROVE  st[h] \in {"ERROR", "INACTIVE"}
      OBVIOUS
    <3>1. CASE h = stm
      BY <1>0, <2>1, <2>3, <3>1 DEF FailInv, FailEnds, Set
    <3>2. CASE h # stm
      BY <1>0, <2>2, <3>2 DEF FailInv, FailEnds, Set
    <3> QED  BY <3>1, <3>2
  <2>5. \A s \in Streams : st[s] # "RUNNING" => state'[s] = st[s]
    BY <2>1, ScanSteps DEF Set
  <2> QED  BY <1>0, <2>1, <2>4, <2>5 DEF FailInv, FailEnds
<1>7. CASE RunTimeout
  <2>1. PICK idle \in SUBSET {s \in Registered : state[s] = "RUNNING"} :
          state' = [s \in Streams |-> IF s \in Drained THEN "INACTIVE"
                                      ELSE IF s \in idle THEN "ERROR"
                                      ELSE state[s]]
    BY <1>7 DEF RunTimeout
  <2>2. rPc = "timeout" /\ UNCHANGED failed
    BY <1>7 DEF RunTimeout
  <2> QED  BY <1>0, <2>1, <2>2, FailKept DEF FailEnds
<1> QED
  BY <1>1, <1>2, <1>3, <1>4, <1>5, <1>6, <1>7 DEF RunNext

LEMMA FailClient ==
  ASSUME FailInv, ControlInv, NEW h \in Handles, ClientNext(h)
  PROVE  FailInv'
<1> USE DEF context, device, locals, clients, ghosts
<1>0. /\ cStm[h] \in Streams
      /\ \A g \in failed : g \in Handles /\ g \in Streams
      /\ \A g \in Handles : ~Duplex(g) /\ cStm[h] = g => h = g
  BY FirstHalves, Pairs DEF ControlInv, ControlTypes, FailInv
<1>1. /\ UNCHANGED <<rPc, avail, result, cur>> /\ UNCHANGED stm
      /\ failed' \subseteq failed
  BY DEF ClientNext, ClientContinue, Start, Stop, Destroy, StartPcm, StartState,
         StartFails, StopState, StopPcm, DestroyClose, DestroyUnregister, Forget, stm
<1>2. CASE StartState(h)
  <2>1. /\ state' = [state EXCEPT ![cStm[h]] = "RUNNING"]
        /\ ~Duplex(h) => h \notin failed'
    BY <1>2 DEF StartState, Set, Forget, ControlInv, ControlTypes
  <2>2. \A g \in failed' : ~Duplex(g) => state'[g] = state[g]
    BY <1>0, <1>1, <2>1 DEF ControlInv, ControlTypes
  <2> QED  BY <1>1, <2>2, FailKept DEF FailEnds
<1>3. CASE StopState(h)
  <2>1. state' = [state EXCEPT ![cStm[h]] = "INACTIVE"]
    BY <1>3 DEF StopState, Set, ControlInv, ControlTypes
  <2> QED
    <3>1. \A g \in failed' :
            state[g] \in {"ERROR", "INACTIVE"} => state'[g] \in {"ERROR", "INACTIVE"}
      BY <1>0, <1>1, <2>1 DEF ControlInv, ControlTypes
    <3> QED  BY <1>1, <3>1, FailKept DEF FailEnds
<1>4. CASE UNCHANGED state
  BY <1>1, <1>4, FailKept DEF FailEnds
<1> QED
  BY <1>2, <1>3, <1>4
  DEF ClientNext, ClientContinue, Start, Stop, Destroy, StartPcm, StartFails,
      StopPcm, DestroyClose, DestroyUnregister

\* Without duplex streams: once the data callback has returned an error it is not
\* called again before the stream is stopped and started.
THEOREM ErrorEndsData ==
  ASSUME \A s \in Streams : ~Duplex(s)
  PROVE  Spec => []ErrorStopsData
<1>1. Init => FailInv
  BY DEF Init, FailInv
<1>2. FailInv /\ ControlInv /\ [Next]_vars => FailInv'
  <2> SUFFICES ASSUME FailInv, ControlInv, [Next]_vars PROVE FailInv'
    OBVIOUS
  <2>1. ASSUME UNCHANGED <<state, failed, rPc, avail, result, cur>> PROVE FailInv'
    BY <2>1, FailKept DEF FailEnds, stm
  <2>2. CASE Tick \/ (\E s \in Streams : Fault(s)) \/ ContextDestroy \/ UNCHANGED vars
    BY <2>1, <2>2
    DEF Tick, Fault, ContextDestroy, vars, context, device, locals, clients, ghosts
  <2> QED  BY <2>2, FailThread, FailClient DEF Next
<1>3. FailInv /\ ControlInv => ErrorStopsData
  <2> SUFFICES ASSUME FailInv, ControlInv, Calling, Main(stm) \in failed
               PROVE  FALSE
    BY DEF ErrorStopsData
  <2>1. stm \in Streams /\ state[stm] = "PROCESSING"
    BY StreamAt DEF ControlInv, ControlTypes, LockInv, InProcess, Calling, stm
  <2> QED  BY <2>1, FirstHalves DEF FailInv, FailEnds, Calling
<1> QED
  BY <1>1, <1>2, <1>3, ControlInvariant, PTL DEF Spec
=============================================================================
