------------------------ MODULE AAudioStreamsProofs ------------------------
(***************************************************************************)
(* The threads of an AAudio stream share it soundly, for a playback or a   *)
(* duplex stream, any buffer and any number of failures and of device      *)
(* changes.                                                                *)
(*                                                                         *)
(* The argument has four layers.  Locking: the client, the thread that     *)
(* reinitialises and the state thread hold the mutex exactly where their   *)
(* program counters say so.  Slots: a slot is given back with nothing left *)
(* that could call back, and while a reinit thread is pending it is not    *)
(* given back.  Quiet: a state that is not a playing one was reached with  *)
(* the output stopped and no data callback begun, and only a start undoes  *)
(* that.  Position: what the estimate does follows what the state does.    *)
(*                                                                         *)
(* The timing of the stream goes from the data callback to the client's    *)
(* calls through a triple buffer, timing_info, which implements an atomic   *)
(* latest-value register.  The argument, at the end of the module: the      *)
(* three indices are a permutation of the slots, so the slot being written  *)
(* is neither the one being copied nor the one waiting.  Only the           *)
(* producer's slot is ever half written, hence the two others always hold   *)
(* whole values, and whichever of them carries the last published value is  *)
(* told by the dirty bit.                                                   *)
(***************************************************************************)
EXTENDS AAudioStreams, TripleBuffer, TLAPS

AAudioStates == {"NULL", "OPEN", "STARTING", "STARTED", "PAUSING", "PAUSED",
                 "STOPPING", "STOPPED", "DISCONNECTED"}

InStart == {"startLoad", "startWait", "startIn", "startOut", "startCas"}
InStop  == {"stopLoad", "stopWait", "pauseOut", "stopIn", "stopCas"}
InOpen  == {"openOut", "openIn", "ready"}
InCall  == InStart \cup InStop \cup {"closeOut", "closeIn"} \cup InOpen
ClientHolds == InCall \cup {"position"}
ReinitHolds == InCall \cup {"clearDrain"}

Types ==
  /\ aa \in [Handles -> AAudioStates] /\ seen \in [Handles -> AAudioStates]
  /\ errcb \in [Handles -> {"none", "disconnected", "error"}]

\* Where the mutex is held.
LockInv ==
  /\ mutex \in {"free", "client", "reinit", "state"}
  /\ pc \in [Callers -> ClientHolds \cup ReinitHolds \cup
                        {"idle", "destroyLock", "destroyWait", "reinitLock", "reinitEnd"}]
  /\ pc["client"] \in ClientHolds \cup {"idle", "destroyLock", "destroyWait"}
  /\ pc["reinit"] \in ReinitHolds \cup {"idle", "reinitLock", "reinitEnd"}
  /\ mutex = "client" <=> pc["client"] \in ClientHolds
  /\ mutex = "reinit" <=> pc["reinit"] \in ReinitHolds
  /\ mutex = "state" <=> sPc # "sleep"
  /\ pc["reinit"] # "idle" => pending_reinit

Closed(h) == aa[h] = "NULL" /\ errcb[h] = "none"

\* What a slot that is not in use has: nobody and nothing to call it back.
SlotInv ==
  /\ slot_state # "IN_USE" =>
       mutex = "free" /\ state = "INIT" /\ \A h \in Handles : Closed(h)
  /\ slot_state = "FREE" => pc["reinit"] = "idle"
  /\ pc["client"] = "destroyLock" => slot_state = "IN_USE"
  /\ pc["client"] = "destroyWait" => slot_state = "DESTROYING"
  /\ cb # "idle" => aa["out"] # "NULL"
  /\ \A t \in Callers : pc[t] = "closeIn" => Closed("out")

\* No data callback has begun, and none will before the output is started.
OutQuiet == cb = "idle" /\ aa["out"] \notin {"STARTING", "STARTED"}

\* Who knows that the output is quiet: a caller that has paused or closed it;
CallerQuiet ==
  \A t \in Callers : pc[t] \in {"stopIn", "stopCas", "closeIn"} \cup InOpen => OutQuiet

\* a stream that stops or has stopped, up to the exchange that ends a start;
StateQuiet ==
  /\ state = "DRAINING" => cb = "idle"
  /\ state \in {"STOPPING", "STOPPED"} /\ (\A t \in Callers : pc[t] # "startCas")
       => OutQuiet

\* the state thread that has seen it stop;
ThreadQuiet ==
  /\ seen["out"] = "STOPPED"
       => sPc # "sleep" /\ aa["out"] \notin {"STARTING", "STARTED"}
  /\ sPc # "sleep" /\ old_state = "STOPPING"
       => OutQuiet /\ state \in {"STOPPING", "ERROR"}
  /\ sPc \in {"drainOut", "drainIn", "drained"} => old_state = "DRAINING"
  /\ sPc = "stopped" =>
       \/ old_state = "STOPPING"
       \/ old_state = "DRAINING" /\ seen["out"] = "STOPPED"
  /\ sPc = "started" => old_state = "STARTING"

\* and the client that expects it: nobody is about to start the stream.
ClientQuiet ==
  quiet =>
    /\ OutQuiet
    /\ state \in Playing => sPc = "stopped" /\ state = old_state
    /\ \A t \in Callers : pc[t] \notin InStart
    /\ mutex = "reinit" => ~was_playing

QuietInv == CallerQuiet /\ StateQuiet /\ ThreadQuiet /\ ClientQuiet

\* The estimate follows the state; a stream that is opened again does not play.
PositionInv ==
  /\ state \in {"STARTING", "STARTED"} => pos_estimate \in {"Play", "Resume"}
  /\ \A t \in Callers : pc[t] \in InOpen => state \notin {"STARTING", "STARTED"}

USE DEF context, stateThread, callers, timing, device, frames, ghosts, bounds,
        Callers, AAudioStates, InStart, InStop, InOpen, InCall,
        ClientHolds, ReinitHolds

LEMMA HandleNames ==
  /\ "out" \in Handles /\ \A h \in Handles : h = "in" \/ h = "out"
  /\ Duplex <=> "in" \in Handles
BY AAudioStreamsAssumption DEF Duplex

\* What a request does to AAudio's states.
LEMMA Requests ==
  ASSUME Types, NEW h \in Handles, NEW from, NEW to \in AAudioStates, NEW ok,
         Request(h, from, to, ok)
  PROVE  /\ aa' \in [Handles -> AAudioStates]
         /\ \A k \in Handles : k # h => aa'[k] = aa[k]
         /\ aa'[h] = aa[h] \/ (aa[h] \in from /\ aa'[h] = to)
         /\ ok => aa'[h] = to \/ (aa'[h] = aa[h] /\ aa[h] \notin from \cup {"DISCONNECTED"})
         /\ ~ok => aa' = aa
BY DEF Request, Types

\* A request leaves AAudio's states alone or changes that of its handle, which
\* is open.
LEMMA RequestChanges ==
  ASSUME NEW h, NEW ok
  PROVE  /\ requestStart(h, ok) =>
              \/ aa' = aa
              \/ aa[h] # "NULL" /\ aa' = [aa EXCEPT ![h] = "STARTING"]
         /\ requestPause(ok) =>
              /\ cb = "idle"
              /\ \/ aa' = aa /\ (ok => aa["out"] \notin {"STARTING", "STARTED"})
                 \/ aa["out"] # "NULL" /\ aa' = [aa EXCEPT !["out"] = "PAUSING"]
         /\ requestStop(h, ok) =>
              /\ h = "out" => cb = "idle"
              /\ \/ aa' = aa
                 \/ aa[h] # "NULL" /\ aa' = [aa EXCEPT ![h] = "STOPPING"]
BY DEF requestStart, requestPause, requestStop, Request

-----------------------------------------------------------------------------
(* The mutex.                                                              *)

LEMMA DeviceLocks ==
  ASSUME Types, LockInv, NEW h \in Handles,
         Settle(h) \/ DeviceChange(h) \/ DeviceError(h) \/ Play
  PROVE  Types' /\ LockInv'
<1>1. LockInv'
  BY DEF Settle, DeviceChange, DeviceError, Play, LockInv
<1>2. Types'
  BY DEF Settle, DeviceChange, DeviceError, Play, Types, Transitional, get_stable_state
<1> QED  BY <1>1, <1>2

LEMMA CallbackLocks ==
  ASSUME Types, LockInv, NEW h \in Handles,
         aaudio_error_cb(h) \/ DataCallback \/ DataCallbackReturns
  PROVE  Types' /\ LockInv'
<1> USE DEF DataCallbackReturns, reinitialize_stream, StoreState, Notify, ReturnStop, Goto
<1>1. LockInv'
  <2>1. CASE aaudio_error_cb(h)
    BY <2>1 DEF aaudio_error_cb, LockInv
  <2>2. CASE ReadInput
    BY <2>2 DEF ReadInput, LockInv
  <2>3. CASE DataCallback \/ compute_and_report_latency_metrics \/ FillBuffer
             \/ FillError \/ FillShort \/ StartDraining
    BY <2>3 DEF DataCallback, compute_and_report_latency_metrics, FillBuffer,
                FillError, FillShort, StartDraining, LockInv
  <2> QED  BY <2>1, <2>2, <2>3
<1>2. Types'
  BY HandleNames
  DEF aaudio_error_cb, DataCallback, ReadInput, compute_and_report_latency_metrics,
      FillBuffer, FillError, FillShort, StartDraining, Types
<1> QED  BY <1>1, <1>2

LEMMA ClientLocks ==
  ASSUME Types, LockInv,
         \/ aaudio_stream_init \/ aaudio_stream_start \/ aaudio_stream_stop
         \/ aaudio_stream_destroy \/ DestroyWait
         \/ aaudio_stream_get_position \/ ReadTiming
  PROVE  Types' /\ LockInv'
<1> USE DEF Call, Goto
<1>1. LockInv'
  BY DEF aaudio_stream_init, aaudio_stream_start, aaudio_stream_stop, LockInv,
         aaudio_stream_destroy, DestroyWait, aaudio_stream_get_position, ReadTiming
<1>2. Types'
  BY DEF aaudio_stream_init, aaudio_stream_start, aaudio_stream_stop, Types,
         aaudio_stream_destroy, DestroyWait, aaudio_stream_get_position, ReadTiming
<1> QED  BY <1>1, <1>2

LEMMA ReinitLocks ==
  ASSUME Types, LockInv, ReinitLock \/ ClearDrain \/ ReinitEnd
  PROVE  Types' /\ LockInv'
<1> USE DEF Cancel, Goto
<1>1. LockInv'
  BY DEF ReinitLock, ClearDrain, ReinitEnd, LockInv
<1>2. Types'
  BY DEF ReinitLock, ClearDrain, ReinitEnd, Types
<1> QED  BY <1>1, <1>2

LEMMA CallerLocks ==
  ASSUME Types, LockInv, NEW t \in Callers, CallerNext(t)
  PROVE  Types' /\ LockInv'
<1> USE DEF Goto, Notify, StartReturns, StopReturns, InitFails, Fails, StoreState
<1>1. CASE StartLoad(t) \/ StartWait(t) \/ StartCas(t)
  <2>1. LockInv'
    BY <1>1 DEF StartLoad, StartWait, StartCas, LockInv
  <2>2. Types'
    BY <1>1 DEF StartLoad, StartWait, StartCas, Types
  <2> QED  BY <2>1, <2>2
<1>2. ASSUME NEW label \in {"startIn", "startOut"}, NEW h \in Handles,
             NEW next \in {"startOut", "startCas"}, StartHandle(t, label, h, next)
      PROVE  Types' /\ LockInv'
  <2>1. LockInv'
    <3>1. /\ pc[t] \in InCall /\ UNCHANGED <<sPc, pending_reinit>>
          /\ \/ pc' = [pc EXCEPT ![t] = next] /\ UNCHANGED mutex
             \/ t = "client" /\ pc' = [pc EXCEPT ![t] = "idle"] /\ mutex' = "free"
             \/ t = "reinit" /\ pc' = [pc EXCEPT ![t] = "clearDrain"] /\ UNCHANGED mutex
      BY <1>2 DEF StartHandle
    <3> QED  BY <3>1 DEF LockInv
  <2>2. aa' \in [Handles -> AAudioStates]
    BY <1>2, Requests DEF StartHandle, requestStart
  <2>3. Types'
    BY <1>2, <2>2 DEF StartHandle, Types
  <2> QED  BY <2>1, <2>3
<1>3. CASE StopLoad(t) \/ StopWait(t) \/ StopCas(t)
  <2>1. LockInv'
    BY <1>3 DEF StopLoad, StopWait, StopCas, LockInv
  <2>2. Types'
    BY <1>3 DEF StopLoad, StopWait, StopCas, Types
  <2> QED  BY <2>1, <2>2
<1>4. CASE PauseOut(t) \/ (Duplex /\ StopIn(t))
  <2>1. LockInv'
    <3>1. /\ pc[t] \in InCall /\ UNCHANGED <<sPc, pending_reinit>>
          /\ \/ \E next \in InStop : pc' = [pc EXCEPT ![t] = next] /\ UNCHANGED mutex
             \/ t = "client" /\ pc' = [pc EXCEPT ![t] = "idle"] /\ mutex' = "free"
             \/ t = "reinit" /\ pc' = [pc EXCEPT ![t] = "closeOut"] /\ UNCHANGED mutex
      BY <1>4 DEF PauseOut, StopIn
    <3> QED  BY <3>1 DEF LockInv
  <2>2. aa' \in [Handles -> AAudioStates]
    BY <1>4, Requests, HandleNames DEF PauseOut, StopIn, requestPause, requestStop
  <2>3. Types'
    BY <1>4, <2>2 DEF PauseOut, StopIn, Types
  <2> QED  BY <2>1, <2>3
<1>5. CASE CloseOut(t) \/ CloseIn(t)
  <2>1. LockInv'
    BY <1>5 DEF CloseOut, CloseIn, LockInv
  <2>2. Types'
    BY <1>5 DEF CloseOut, CloseIn, Types
  <2> QED  BY <2>1, <2>2
<1>6. ASSUME NEW label \in {"openOut", "openIn"}, NEW h \in Handles,
             NEW next \in {"openIn", "ready"}, OpenHandle(t, label, h, next)
      PROVE  Types' /\ LockInv'
  <2>1. LockInv'
    BY <1>6 DEF OpenHandle, LockInv
  <2>2. Types'
    BY <1>6 DEF OpenHandle, Types
  <2> QED  BY <2>1, <2>2
<1>7. CASE Ready(t)
  <2>1. LockInv'
    BY <1>7 DEF Ready, LockInv
  <2>2. Types'
    BY <1>7 DEF Ready, Types
  <2> QED  BY <2>1, <2>2
<1> QED
  BY <1>1, <1>2, <1>3, <1>4, <1>5, <1>6, <1>7, HandleNames DEF CallerNext

\* The state thread only stops AAudio.
LEMMA StateRequests ==
  ASSUME DrainStop \/ ShutStop
  PROVE  aa' = aa \/ \E h \in {"in", "out"} : aa' = [aa EXCEPT ![h] = "STOPPING"]
BY DEF DrainStop, ShutStop, requestStop, Request

LEMMA StateLocks ==
  ASSUME Types, LockInv, StateThread
  PROVE  Types' /\ LockInv'
<1> USE DEF Leave, GoOn, StayIn
<1>1. CASE Update \/ Refresh \/ Disconnected \/ Starting \/ Stopping \/ Draining
           \/ Drained
  <2>1. LockInv'
    BY <1>1 DEF Update, Refresh, Disconnected, Starting, Stopping, Draining,
                Drained, LockInv
  <2>2. Types'
    BY <1>1, HandleNames DEF Update, Refresh, Disconnected, Starting, Stopping,
                Draining, Drained, Types
  <2> QED  BY <2>1, <2>2
<1>2. CASE Exchange \/ Shutdown \/ ShutDone
  <2>1. LockInv'
    BY <1>2 DEF Exchange, Shutdown, ShutDone, LockInv
  <2>2. Types'
    BY <1>2 DEF Exchange, Shutdown, ShutDone, Types
  <2> QED  BY <2>1, <2>2
<1>3. CASE DrainStop \/ ShutStop
  <2>1. LockInv'
    BY <1>3 DEF DrainStop, ShutStop, LockInv
  <2>2. aa' \in [Handles -> AAudioStates]
    BY <1>3, StateRequests DEF Types
  <2>3. Types'
    BY <1>3, <2>2 DEF DrainStop, ShutStop, Types
  <2> QED  BY <2>1, <2>3
<1> QED  BY <1>1, <1>2, <1>3 DEF StateThread

LEMMA LocksNext == Types /\ LockInv /\ [Next]_vars => Types' /\ LockInv'
<1>1. Types /\ LockInv /\ UNCHANGED vars => Types' /\ LockInv'
  BY DEF vars, Types, LockInv
<1> QED
  BY <1>1, HandleNames, DeviceLocks, CallbackLocks, ClientLocks, ReinitLocks,
     CallerLocks, StateLocks DEF Next

LEMMA LocksHold == Spec => [](Types /\ LockInv)
<1>1. Init => Types /\ LockInv
  BY DEF Init, Types, LockInv
<1> QED  BY <1>1, LocksNext, PTL DEF Spec

-----------------------------------------------------------------------------
(* The slot.                                                               *)

\* A caller's step between its first and its last leaves the slot's facts alone
\* when it opens and closes nothing.
LEMMA CallerKeepsSlot ==
  ASSUME LockInv, SlotInv, NEW t \in Callers, pc[t] \in InCall,
         UNCHANGED <<slot_state, errcb, cb>>,
         \A h \in Handles : aa[h] # "NULL" => aa'[h] # "NULL",
         NEW next \in InCall \cup {"idle", "clearDrain"}, next # "closeIn",
         pc' = [pc EXCEPT ![t] = next]
  PROVE  SlotInv'
<1>1. slot_state = "IN_USE"
  BY DEF LockInv, SlotInv
<1>2. slot_state' # "FREE" /\ slot_state' = "IN_USE"
  BY <1>1
<1>3. cb' # "idle" => aa'["out"] # "NULL"
  BY HandleNames DEF SlotInv
<1>4. \A u \in Callers : pc'[u] = "closeIn" => u # t /\ pc[u] = "closeIn"
  BY DEF LockInv
<1>5. \A u \in Callers : pc'[u] # "closeIn"
  BY <1>4 DEF LockInv
<1>6. pc'["client"] # "destroyWait"
  BY <1>1 DEF LockInv, SlotInv
<1> HIDE DEF Callers
<1> QED  BY <1>2, <1>3, <1>5, <1>6 DEF SlotInv

LEMMA DeviceSlot ==
  ASSUME Types, LockInv, SlotInv, NEW h \in Handles,
         Settle(h) \/ DeviceChange(h) \/ DeviceError(h) \/ Play
  PROVE  SlotInv'
BY HandleNames DEF Settle, DeviceChange, DeviceError, Play, Types, SlotInv, Closed,
       Transitional, get_stable_state

LEMMA CallbackSlot ==
  ASSUME Types, LockInv, SlotInv, NEW h \in Handles,
         aaudio_error_cb(h) \/ DataCallback \/ DataCallbackReturns
  PROVE  SlotInv'
<1> USE HandleNames
    DEF DataCallbackReturns, reinitialize_stream, StoreState, Notify, ReturnStop,
        Goto, Types, LockInv, SlotInv, Closed
<1>1. CASE aaudio_error_cb(h)
  BY <1>1 DEF aaudio_error_cb
<1>2. CASE DataCallback
  BY <1>2 DEF DataCallback
<1>3. CASE ReadInput
  BY <1>3 DEF ReadInput
<1>4. CASE compute_and_report_latency_metrics \/ FillBuffer \/ FillShort \/ StartDraining
  BY <1>4 DEF compute_and_report_latency_metrics, FillBuffer, FillShort, StartDraining
<1>5. CASE FillError
  BY <1>5 DEF FillError
<1> QED  BY <1>1, <1>2, <1>3, <1>4, <1>5

LEMMA ClientSlot ==
  ASSUME Types, LockInv, SlotInv,
         \/ aaudio_stream_init \/ aaudio_stream_start \/ aaudio_stream_stop
         \/ aaudio_stream_destroy \/ DestroyWait
         \/ aaudio_stream_get_position \/ ReadTiming
  PROVE  SlotInv'
BY DEF Call, Goto, Types, LockInv, SlotInv, Closed,
       aaudio_stream_init, aaudio_stream_start, aaudio_stream_stop,
       aaudio_stream_destroy, DestroyWait, aaudio_stream_get_position, ReadTiming

LEMMA ReinitSlot ==
  ASSUME Types, LockInv, SlotInv, ReinitLock \/ ClearDrain \/ ReinitEnd
  PROVE  SlotInv'
BY DEF Cancel, Goto, ReinitLock, ClearDrain, ReinitEnd, LockInv, SlotInv, Closed

LEMMA CallerSlot ==
  ASSUME Types, LockInv, SlotInv, NEW t \in Callers, CallerNext(t)
  PROVE  SlotInv'
<1> USE DEF Goto, Notify, StartReturns, StopReturns, InitFails, Fails, StoreState,
            Types, LockInv, SlotInv, Closed
<1>1. CASE StartLoad(t) \/ StartWait(t) \/ StartCas(t)
  BY <1>1 DEF StartLoad, StartWait, StartCas
<1>2. ASSUME NEW label \in {"startIn", "startOut"}, NEW h \in Handles,
             NEW next \in {"startOut", "startCas"}, StartHandle(t, label, h, next)
      PROVE  SlotInv'
  <2>1. /\ pc[t] \in InCall /\ UNCHANGED <<slot_state, errcb, cb>>
    BY <1>2 DEF StartHandle
  <2>2. \A k \in Handles : aa[k] # "NULL" => aa'[k] # "NULL"
    BY <1>2, RequestChanges DEF StartHandle
  <2>3. \/ pc' = [pc EXCEPT ![t] = next]
        \/ pc' = [pc EXCEPT ![t] = "idle"]
        \/ pc' = [pc EXCEPT ![t] = "clearDrain"]
    BY <1>2 DEF StartHandle
  <2> HIDE DEF LockInv, SlotInv
  <2> QED  BY <2>1, <2>2, <2>3, CallerKeepsSlot
<1>3. CASE StopLoad(t) \/ StopWait(t) \/ StopCas(t)
  BY <1>3 DEF StopLoad, StopWait, StopCas
<1>4. CASE PauseOut(t) \/ (Duplex /\ StopIn(t))
  <2>1. /\ pc[t] \in InCall /\ UNCHANGED <<slot_state, errcb, cb>>
    BY <1>4 DEF PauseOut, StopIn
  <2>2. \A k \in Handles : aa[k] # "NULL" => aa'[k] # "NULL"
    BY <1>4, RequestChanges DEF PauseOut, StopIn
  <2>3. \/ pc' = [pc EXCEPT ![t] = "stopIn"]
        \/ pc' = [pc EXCEPT ![t] = "stopCas"]
        \/ pc' = [pc EXCEPT ![t] = "idle"]
        \/ pc' = [pc EXCEPT ![t] = "closeOut"]
    BY <1>4 DEF PauseOut, StopIn
  <2> HIDE DEF LockInv, SlotInv
  <2> QED  BY <2>1, <2>2, <2>3, CallerKeepsSlot
<1>5. CASE CloseOut(t)
  <2>1. /\ pc[t] = "closeOut" /\ pc' = [pc EXCEPT ![t] = "closeIn"]
        /\ slot_state = "IN_USE" /\ slot_state' = slot_state /\ cb' = "idle"
    BY <1>5 DEF CloseOut, OutputStops
  <2>2. aa'["out"] = "NULL" /\ errcb'["out"] = "none"
    BY <1>5, HandleNames DEF CloseOut
  <2> QED  BY <2>1, <2>2
<1>6. CASE CloseIn(t)
  BY <1>6, HandleNames DEF CloseIn
<1>7. ASSUME NEW label \in {"openOut", "openIn"}, NEW h \in Handles,
             NEW next \in {"openIn", "ready"}, OpenHandle(t, label, h, next)
      PROVE  SlotInv'
  BY <1>7, HandleNames DEF OpenHandle
<1>8. CASE Ready(t)
  BY <1>8 DEF Ready
<1> QED
  BY <1>1, <1>2, <1>3, <1>4, <1>5, <1>6, <1>7, <1>8, HandleNames DEF CallerNext

LEMMA StateSlot ==
  ASSUME Types, LockInv, SlotInv, StateThread
  PROVE  SlotInv'
<1> USE DEF Leave, GoOn, StayIn, Types, LockInv, SlotInv, Closed
<1>1. CASE Update \/ Refresh \/ Disconnected \/ Starting \/ Stopping \/ Draining
           \/ Drained
  BY <1>1 DEF Update, Refresh, Disconnected, Starting, Stopping, Draining,
              Drained, waiting_state
<1>2. CASE Exchange \/ Shutdown \/ ShutDone
  BY <1>2 DEF Exchange, Shutdown, ShutDone
<1>3. CASE DrainStop \/ ShutStop
  <2>1. /\ UNCHANGED <<slot_state, state, pc, cb, errcb>> /\ sPc # "sleep"
    BY <1>3 DEF DrainStop, ShutStop
  <2>2. /\ slot_state = "IN_USE"
        /\ \A t \in Callers : pc[t] # "closeIn"
    BY <2>1
  <2>3. \A k \in Handles : aa[k] # "NULL" => aa'[k] # "NULL"
    BY <1>3, StateRequests, HandleNames
  <2> QED  BY <2>1, <2>2, <2>3, HandleNames
<1> QED  BY <1>1, <1>2, <1>3 DEF StateThread

LEMMA SlotNext == Types /\ LockInv /\ SlotInv /\ [Next]_vars => SlotInv'
<1>1. SlotInv /\ UNCHANGED vars => SlotInv'
  BY DEF vars, SlotInv, Closed
<1> QED
  BY <1>1, HandleNames, DeviceSlot, CallbackSlot, ClientSlot, ReinitSlot,
     CallerSlot, StateSlot DEF Next

LEMMA SlotHolds == Spec => []SlotInv
<1>1. Init => SlotInv
  BY DEF Init, SlotInv, Closed
<1> QED  BY <1>1, LocksHold, SlotNext, PTL DEF Spec

\* The slot is not given to another stream while a thread that reinitialises
\* this one is alive: destroy waits for it, and it has said that it is pending
\* before the handle whose error made it is closed.
THEOREM SlotIsKept == Spec => []ReinitKeepsSlot
<1>1. SlotInv => ReinitKeepsSlot
  BY DEF SlotInv, ReinitKeepsSlot
<1> QED  BY <1>1, SlotHolds, PTL

-----------------------------------------------------------------------------
(* The quiet.                                                              *)

QuietContext == Types /\ LockInv /\ SlotInv /\ QuietInv

\* What is quiet stays so while AAudio and its callbacks start nothing.
LEMMA QuietKept ==
  ASSUME QuietInv,
         UNCHANGED <<mutex, was_playing, stateThread, quiet>>,
         OutQuiet => cb' = "idle",
         aa["out"] \notin {"STARTING", "STARTED"} => aa'["out"] \notin {"STARTING", "STARTED"},
         state' \in {state, "ERROR"}, state = "DRAINING" => cb' = "idle",
         \A t \in Callers : pc'[t] = pc[t] \/ (pc'[t] = "reinitLock" /\ pc[t] = "idle")
  PROVE  QuietInv'
<1>1. OutQuiet => OutQuiet'
  BY DEF OutQuiet
<1>2. CallerQuiet'
  BY <1>1 DEF QuietInv, CallerQuiet
<1>3. StateQuiet'
  <2>1. (\A t \in Callers : pc'[t] # "startCas") => \A t \in Callers : pc[t] # "startCas"
    OBVIOUS
  <2> QED  BY <1>1, <2>1 DEF QuietInv, StateQuiet
<1>4. ThreadQuiet'
  BY <1>1 DEF QuietInv, ThreadQuiet
<1>5. ClientQuiet'
  BY <1>1 DEF QuietInv, ClientQuiet, Playing
<1> QED  BY <1>2, <1>3, <1>4, <1>5 DEF QuietInv

LEMMA DeviceQuiet ==
  ASSUME QuietContext, NEW h \in Handles,
         Settle(h) \/ DeviceChange(h) \/ DeviceError(h) \/ Play
  PROVE  QuietInv'
<1>1. /\ UNCHANGED <<state, mutex, callers, stateThread, cb, quiet>>
      /\ aa["out"] \notin {"STARTING", "STARTED"} => aa'["out"] \notin {"STARTING", "STARTED"}
  BY HandleNames DEF QuietContext, Types, Settle, DeviceChange, DeviceError, Play,
                     Transitional, get_stable_state
<1>2. QuietInv /\ (state = "DRAINING" => cb' = "idle") /\ (OutQuiet => cb' = "idle")
  BY <1>1 DEF QuietContext, QuietInv, StateQuiet, OutQuiet
<1> QED  BY <1>1, <1>2, QuietKept

\* What the error callback and the data callback do to a thread that reinitialises.
LEMMA ReinitStarts ==
  ASSUME LockInv, reinitialize_stream
  PROVE  /\ UNCHANGED <<expected, was_playing, failing>>
         /\ \A t \in Callers : pc'[t] = pc[t] \/ (pc'[t] = "reinitLock" /\ pc[t] = "idle")
BY DEF reinitialize_stream, LockInv, Goto

LEMMA ErrorQuiet ==
  ASSUME QuietContext, NEW h \in Handles, aaudio_error_cb(h)
  PROVE  QuietInv'
<1>1. /\ UNCHANGED <<mutex, expected, was_playing, stateThread, cb, aa, quiet>>
      /\ state' \in {state, "ERROR"}
      /\ UNCHANGED callers \/ reinitialize_stream
  BY ReinitStarts DEF aaudio_error_cb, StoreState, QuietContext
<1>2. QuietInv /\ (state = "DRAINING" => cb' = "idle") /\ (OutQuiet => cb' = "idle")
  BY <1>1 DEF QuietContext, QuietInv, StateQuiet, OutQuiet
<1>3. \A t \in Callers : pc'[t] = pc[t] \/ (pc'[t] = "reinitLock" /\ pc[t] = "idle")
  BY <1>1, ReinitStarts DEF QuietContext
<1> QED  BY <1>1, <1>2, <1>3, QuietKept

\* A data callback begins and runs only where nobody expects quiet.
LEMMA CallbackQuiet ==
  ASSUME QuietContext, DataCallback \/ DataCallbackReturns
  PROVE  QuietInv'
<1> USE DEF DataCallback, DataCallbackReturns, ReadInput, StoreState, ReturnStop,
            compute_and_report_latency_metrics, FillBuffer, FillError, FillShort
<1>1. ~OutQuiet
  BY DEF OutQuiet, StartDraining
<1>2. /\ UNCHANGED <<mutex, was_playing, stateThread, quiet>>
      /\ UNCHANGED callers \/ reinitialize_stream
  BY ReinitStarts DEF QuietContext, StartDraining
<1>3. \A t \in Callers : pc'[t] = pc[t] \/ (pc'[t] = "reinitLock" /\ pc[t] = "idle")
  BY <1>2, ReinitStarts DEF QuietContext
<1>4. aa["out"] \notin {"STARTING", "STARTED"} => aa'["out"] \notin {"STARTING", "STARTED"}
  BY HandleNames DEF QuietContext, Types, StartDraining
<1>5. CASE StartDraining
  <2>1. state' = "DRAINING" /\ cb' = "idle" /\ UNCHANGED <<pc, aa>>
    BY <1>5 DEF StartDraining
  <2>2. CallerQuiet' /\ StateQuiet'
    BY <1>1, <2>1 DEF QuietContext, QuietInv, CallerQuiet, StateQuiet
  <2>3. ThreadQuiet' /\ ClientQuiet'
    BY <1>1, <1>2, <2>1 DEF QuietContext, QuietInv, ThreadQuiet, ClientQuiet
  <2> QED  BY <2>2, <2>3 DEF QuietInv
<1>6. CASE ~StartDraining
  <2>1. state' \in {state, "ERROR"} /\ (state = "DRAINING" => cb' = "idle")
    BY <1>6 DEF QuietContext, QuietInv, StateQuiet
  <2> QED  BY <1>1, <1>2, <1>3, <1>4, <2>1, QuietKept DEF QuietContext
<1> QED  BY <1>5, <1>6

LEMMA ClientStepsQuiet ==
  ASSUME QuietContext,
         \/ aaudio_stream_init \/ aaudio_stream_start \/ aaudio_stream_stop
         \/ aaudio_stream_destroy \/ DestroyWait
         \/ aaudio_stream_get_position \/ ReadTiming
  PROVE  QuietInv'
<1> USE DEF Call, Goto, aaudio_stream_init, aaudio_stream_start, aaudio_stream_stop,
            aaudio_stream_destroy, DestroyWait, aaudio_stream_get_position, ReadTiming
<1>1. /\ UNCHANGED <<state, sPc, old_state, seen, cb, aa, was_playing>>
      /\ \E next \in {"openOut", "startLoad", "stopLoad", "closeOut", "position", "idle"} :
           pc' = [pc EXCEPT !["client"] = next]
      /\ pc["client"] # "startCas" /\ mutex' \in {"client", "free", mutex}
  BY DEF QuietContext, LockInv
<1>2. aaudio_stream_init =>
        OutQuiet /\ state = "INIT" /\ pc["reinit"] = "idle"
  BY HandleNames DEF QuietContext, SlotInv, OutQuiet, Closed
<1>3. pc'["client"] = "openOut" => aaudio_stream_init
  BY DEF QuietContext, LockInv
<1>4. \A t \in Callers : t # "client" => pc'[t] = pc[t]
  BY <1>1 DEF QuietContext, LockInv
<1>5. CallerQuiet'
  BY <1>1, <1>2, <1>3, <1>4 DEF QuietContext, QuietInv, CallerQuiet, OutQuiet, LockInv
<1>6. StateQuiet'
  <2>1. (\A t \in Callers : pc'[t] # "startCas") => \A t \in Callers : pc[t] # "startCas"
    BY <1>1, <1>4
  <2> QED  BY <1>1, <2>1 DEF QuietContext, QuietInv, StateQuiet, OutQuiet
<1>7. ThreadQuiet'
  BY <1>1 DEF QuietContext, QuietInv, ThreadQuiet, OutQuiet
<1>8. ClientQuiet'
  <2>1. CASE aaudio_stream_init
    BY <2>1, <1>1, <1>2, <1>4 DEF ClientQuiet, OutQuiet, Playing, QuietContext, LockInv
  <2>2. CASE aaudio_stream_start
    BY <2>2 DEF ClientQuiet
  <2>3. CASE ~aaudio_stream_init /\ ~aaudio_stream_start
    <3>1. quiet' = quiet /\ pc'["client"] \notin InStart
      BY <2>3 DEF QuietContext, LockInv
    <3> QED
      BY <3>1, <1>1, <1>4 DEF QuietContext, QuietInv, ClientQuiet, OutQuiet, Playing
  <2> QED  BY <2>1, <2>2, <2>3
<1> QED  BY <1>5, <1>6, <1>7, <1>8 DEF QuietInv

LEMMA ReinitStepsQuiet ==
  ASSUME QuietContext, ReinitLock \/ ClearDrain \/ ReinitEnd
  PROVE  QuietInv'
<1> USE DEF Cancel, Goto, ReinitLock, ClearDrain, ReinitEnd
<1>1. /\ UNCHANGED <<state, sPc, old_state, seen, cb, aa, quiet>>
      /\ \E next \in {"stopLoad", "reinitEnd", "closeOut", "idle"} :
           pc' = [pc EXCEPT !["reinit"] = next]
      /\ pc["reinit"] # "startCas"
  OBVIOUS
<1>2. \A t \in Callers : t # "reinit" => pc'[t] = pc[t]
  BY <1>1 DEF QuietContext, LockInv
<1>3. CallerQuiet'
  BY <1>1, <1>2 DEF QuietContext, QuietInv, CallerQuiet, OutQuiet, LockInv
<1>4. StateQuiet'
  <2>1. (\A t \in Callers : pc'[t] # "startCas") => \A t \in Callers : pc[t] # "startCas"
    BY <1>1, <1>2
  <2> QED  BY <1>1, <2>1 DEF QuietContext, QuietInv, StateQuiet, OutQuiet
<1>5. ThreadQuiet'
  BY <1>1 DEF QuietContext, QuietInv, ThreadQuiet, OutQuiet
<1>6. ClientQuiet'
  <2>1. quiet' /\ mutex' = "reinit" => ~was_playing'
    <3>1. CASE ReinitLock
      <4>1. quiet => sPc = "sleep" /\ state \notin Playing
        BY <3>1 DEF QuietContext, QuietInv, ClientQuiet, LockInv
      <4> QED  BY <3>1, <4>1 DEF QuietContext, QuietInv, ClientQuiet
    <3>2. CASE ClearDrain
      BY <3>2 DEF QuietContext, QuietInv, ClientQuiet
    <3>3. CASE ReinitEnd
      BY <3>3
    <3> QED  BY <3>1, <3>2, <3>3
  <2>2. pc'["reinit"] \notin InStart
    BY <1>1 DEF QuietContext, LockInv
  <2> QED
    BY <1>1, <1>2, <2>1, <2>2 DEF QuietContext, QuietInv, ClientQuiet, OutQuiet, Playing
<1> QED  BY <1>3, <1>4, <1>5, <1>6 DEF QuietInv

\* A caller in start, stop, destroy or init is alone with the callbacks.
LEMMA CallerAlone ==
  ASSUME LockInv, NEW t \in Callers, pc[t] \in InCall
  PROVE  sPc = "sleep" /\ mutex = t /\ \A u \in Callers : u # t => pc[u] \notin InCall
BY DEF LockInv

\* What its step has to show.
LEMMA CallerKeepsQuiet ==
  ASSUME QuietContext, NEW t \in Callers, pc[t] \in InCall, UNCHANGED stateThread,
         NEW next, pc' = [pc EXCEPT ![t] = next],
         next \in {"stopIn", "stopCas", "closeIn"} \cup InOpen => OutQuiet',
         state' = "DRAINING" => cb' = "idle",
         state' \in {"STOPPING", "STOPPED"} /\ next # "startCas" => OutQuiet',
         quiet' => OutQuiet' /\ next \notin InStart /\ state' \notin Playing,
         quiet' /\ mutex' = "reinit" => ~was_playing'
  PROVE  QuietInv'
<1>1. /\ sPc = "sleep" /\ pc'[t] = next
      /\ \A u \in Callers : u # t => pc'[u] = pc[u] /\ pc[u] \notin InCall
  BY CallerAlone DEF QuietContext, LockInv
<1>2. CallerQuiet'
  BY <1>1 DEF CallerQuiet
<1>3. StateQuiet'
  BY <1>1 DEF StateQuiet
<1>4. ThreadQuiet'
  BY <1>1 DEF ThreadQuiet, QuietContext, QuietInv
<1>5. ClientQuiet'
  BY <1>1 DEF ClientQuiet
<1> QED  BY <1>2, <1>3, <1>4, <1>5 DEF QuietInv

\* The start of a stream is nothing that the client expects to be quiet.
LEMMA StartQuiet ==
  ASSUME QuietContext, NEW t \in Callers,
         \/ StartLoad(t) \/ StartWait(t) \/ StartCas(t)
         \/ Duplex /\ StartHandle(t, "startIn", "in", "startOut")
         \/ StartHandle(t, "startOut", "out", "startCas")
  PROVE  QuietInv'
<1> USE DEF Goto, Notify, StartReturns, Fails
<1>0. pc[t] \in InStart /\ UNCHANGED <<stateThread, cb, quiet, was_playing>>
  BY DEF StartLoad, StartWait, StartHandle, StartCas
<1>1. pc[t] \in InStart /\ UNCHANGED <<stateThread, cb, was_playing>> /\ ~quiet'
  BY <1>0 DEF QuietContext, QuietInv, ClientQuiet
<1>2. state = "DRAINING" => cb' = "idle"
  BY <1>1 DEF QuietContext, QuietInv, StateQuiet
<1>3. \A u \in Callers : u # t => pc[u] # "startCas"
  BY <1>1, CallerAlone DEF QuietContext
<1>4. state \in {"STOPPING", "STOPPED"} /\ pc[t] # "startCas" => OutQuiet
  BY <1>3 DEF QuietContext, QuietInv, StateQuiet
<1> DEFINE Shown(next) ==
      /\ pc' = [pc EXCEPT ![t] = next]
      /\ next \in InStart \cup {"idle", "clearDrain"}
      /\ state' = "DRAINING" => cb' = "idle"
      /\ state' \in {"STOPPING", "STOPPED"} /\ next # "startCas" => OutQuiet'
<1>5. ASSUME NEW next, Shown(next)
      PROVE  QuietInv'
  BY <1>1, <1>5, CallerKeepsQuiet
<1>6. CASE StartLoad(t)
  <2>1. /\ UNCHANGED <<state, aa, cb>>
        /\ \/ pc' = [pc EXCEPT ![t] = "startWait"]
           \/ pc' = [pc EXCEPT ![t] = "idle"]
           \/ pc' = [pc EXCEPT ![t] = "clearDrain"]
        /\ pc[t] # "startCas"
    BY <1>6 DEF StartLoad
  <2>2. Shown("startWait") \/ Shown("idle") \/ Shown("clearDrain")
    BY <2>1, <1>2, <1>4 DEF OutQuiet
  <2> QED  BY <2>2, <1>5
<1>7. CASE StartWait(t)
  <2>1. /\ state' \in {state, "ERROR"} /\ UNCHANGED <<aa, cb>>
        /\ \/ pc' = [pc EXCEPT ![t] = "startIn"]
           \/ pc' = [pc EXCEPT ![t] = "startOut"]
           \/ pc' = [pc EXCEPT ![t] = "idle"]
           \/ pc' = [pc EXCEPT ![t] = "clearDrain"]
        /\ pc[t] # "startCas"
    BY <1>7 DEF StartWait
  <2>2. Shown("startIn") \/ Shown("startOut") \/ Shown("idle") \/ Shown("clearDrain")
    BY <2>1, <1>2, <1>4 DEF OutQuiet
  <2> QED  BY <2>2, <1>5
<1>8. CASE Duplex /\ StartHandle(t, "startIn", "in", "startOut")
  <2>1. /\ state' \in {state, "ERROR"} /\ UNCHANGED cb
        /\ \/ pc' = [pc EXCEPT ![t] = "startOut"]
           \/ pc' = [pc EXCEPT ![t] = "idle"]
           \/ pc' = [pc EXCEPT ![t] = "clearDrain"]
        /\ pc[t] # "startCas"
    BY <1>8 DEF StartHandle
  <2>2. aa'["out"] = aa["out"]
    <3>1. aa' = aa \/ aa' = [aa EXCEPT !["in"] = "STARTING"]
      BY <1>8, RequestChanges DEF StartHandle
    <3> QED  BY <3>1, HandleNames DEF QuietContext, Types
  <2>3. Shown("startOut") \/ Shown("idle") \/ Shown("clearDrain")
    BY <2>1, <2>2, <1>2, <1>4 DEF OutQuiet
  <2> QED  BY <2>3, <1>5
<1>9. CASE StartHandle(t, "startOut", "out", "startCas")
  <2>1. /\ UNCHANGED cb
        /\ \/ UNCHANGED state /\ pc' = [pc EXCEPT ![t] = "startCas"]
           \/ state' = "ERROR" /\ pc' = [pc EXCEPT ![t] = "idle"]
           \/ state' = "ERROR" /\ pc' = [pc EXCEPT ![t] = "clearDrain"]
    BY <1>9 DEF StartHandle
  <2>2. Shown("startCas") \/ Shown("idle") \/ Shown("clearDrain")
    BY <2>1, <1>2
  <2> QED  BY <2>2, <1>5
<1>10. CASE StartCas(t)
  <2>1. \/ /\ UNCHANGED <<state, aa, cb>> /\ state \notin {"STOPPING", "STOPPED"}
           /\ \/ pc' = [pc EXCEPT ![t] = "idle"]
              \/ pc' = [pc EXCEPT ![t] = "clearDrain"]
        \/ /\ state' = "STARTING"
           /\ \/ pc' = [pc EXCEPT ![t] = "idle"]
              \/ pc' = [pc EXCEPT ![t] = "clearDrain"]
        \/ UNCHANGED <<state, pc, cb>> /\ pc[t] = "startCas"
    BY <1>10 DEF StartCas
  <2>2. UNCHANGED pc /\ pc[t] = "startCas" => pc' = [pc EXCEPT ![t] = "startCas"]
    BY DEF QuietContext, LockInv
  <2>3. Shown("startCas") \/ Shown("idle") \/ Shown("clearDrain")
    BY <2>1, <2>2, <1>2
  <2> QED  BY <2>3, <1>5
<1> QED  BY <1>6, <1>7, <1>8, <1>9, <1>10

\* The stop of a stream pauses the output before it waits for the input, and
\* closing it ends its data callback; a stream opened again is not started unless
\* it was playing.
LEMMA StopQuiet ==
  ASSUME QuietContext, NEW t \in Callers,
         \/ StopLoad(t) \/ StopWait(t) \/ PauseOut(t) \/ StopCas(t)
         \/ Duplex /\ StopIn(t)
  PROVE  QuietInv'
<1> USE DEF Goto, Notify, StopReturns, Fails
<1>1. pc[t] \in InStop /\ UNCHANGED <<stateThread, cb, was_playing>>
  BY DEF StopLoad, StopWait, PauseOut, StopCas, StopIn
<1>2. state = "DRAINING" => cb' = "idle"
  BY <1>1 DEF QuietContext, QuietInv, StateQuiet
<1>3. sPc = "sleep" /\ mutex = t /\ \A u \in Callers : pc[u] # "startCas"
  BY <1>1, CallerAlone DEF QuietContext
<1>4. state \in {"STOPPING", "STOPPED"} => OutQuiet
  BY <1>3 DEF QuietContext, QuietInv, StateQuiet
<1>5. quiet => OutQuiet /\ state \notin Playing /\ (t = "reinit" => ~was_playing)
  BY <1>3 DEF QuietContext, QuietInv, ClientQuiet
<1>6. pc[t] \in {"stopIn", "stopCas"} => OutQuiet
  BY DEF QuietContext, QuietInv, CallerQuiet
<1>7. mutex' = "reinit" => t = "reinit"
  BY <1>3 DEF StopLoad, StopWait, PauseOut, StopCas, StopIn
<1> DEFINE Shown(next) ==
      /\ pc' = [pc EXCEPT ![t] = next]
      /\ next \in InStop \cup {"idle", "closeOut"}
      /\ next \in {"stopIn", "stopCas"} => OutQuiet'
      /\ state' = "DRAINING" => cb' = "idle"
      /\ state' \in {"STOPPING", "STOPPED"} => OutQuiet'
      /\ quiet' => OutQuiet' /\ state' \notin Playing
      /\ quiet' /\ mutex' = "reinit" => ~was_playing'
<1>8. ASSUME NEW next, Shown(next)
      PROVE  QuietInv'
  BY <1>1, <1>8, CallerKeepsQuiet
<1>9. CASE StopLoad(t) \/ StopWait(t)
  <2>1. /\ state' \in {state, "ERROR"} /\ UNCHANGED <<aa, cb, quiet>>
        /\ \/ pc' = [pc EXCEPT ![t] = "stopWait"]
           \/ pc' = [pc EXCEPT ![t] = "pauseOut"]
           \/ pc' = [pc EXCEPT ![t] = "idle"]
           \/ pc' = [pc EXCEPT ![t] = "closeOut"]
    BY <1>9 DEF StopLoad, StopWait
  <2>2. Shown("stopWait") \/ Shown("pauseOut") \/ Shown("idle") \/ Shown("closeOut")
    BY <2>1, <1>1, <1>2, <1>4, <1>5, <1>7 DEF OutQuiet, Playing
  <2> QED  BY <2>2, <1>8
<1>10. CASE PauseOut(t)
  <2>1. /\ UNCHANGED <<cb, quiet>> /\ cb = "idle"
        /\ aa["out"] \notin {"STARTING", "STARTED"} => aa'["out"] \notin {"STARTING", "STARTED"}
    BY <1>10, RequestChanges, HandleNames DEF PauseOut, QuietContext, Types
  <2>2. \/ /\ UNCHANGED state /\ aa'["out"] \notin {"STARTING", "STARTED"}
           /\ \/ pc' = [pc EXCEPT ![t] = "stopIn"]
              \/ pc' = [pc EXCEPT ![t] = "stopCas"]
        \/ /\ state' = "ERROR"
           /\ \/ pc' = [pc EXCEPT ![t] = "idle"]
              \/ pc' = [pc EXCEPT ![t] = "closeOut"]
    BY <1>10, RequestChanges, HandleNames DEF PauseOut, QuietContext, Types
  <2>3. Shown("stopIn") \/ Shown("stopCas") \/ Shown("idle") \/ Shown("closeOut")
    BY <2>1, <2>2, <1>1, <1>2, <1>4, <1>5, <1>7 DEF OutQuiet, Playing
  <2> QED  BY <2>3, <1>8
<1>11. CASE Duplex /\ StopIn(t)
  <2>1. /\ UNCHANGED <<cb, quiet>> /\ pc[t] = "stopIn"
        /\ \/ UNCHANGED state /\ pc' = [pc EXCEPT ![t] = "stopCas"]
           \/ state' = "ERROR" /\ pc' = [pc EXCEPT ![t] = "idle"]
           \/ state' = "ERROR" /\ pc' = [pc EXCEPT ![t] = "closeOut"]
    BY <1>11 DEF StopIn
  <2>2. aa'["out"] = aa["out"]
    <3>1. aa' = aa \/ aa' = [aa EXCEPT !["in"] = "STOPPING"]
      BY <1>11, RequestChanges DEF StopIn
    <3> QED  BY <3>1, HandleNames DEF QuietContext, Types
  <2>3. Shown("stopCas") \/ Shown("idle") \/ Shown("closeOut")
    BY <2>1, <2>2, <1>1, <1>2, <1>4, <1>5, <1>6, <1>7 DEF OutQuiet, Playing
  <2> QED  BY <2>3, <1>8
<1>12. CASE StopCas(t)
  <2>1. /\ UNCHANGED <<cb, aa>> /\ pc[t] = "stopCas"
        /\ \/ /\ state' = "STOPPING" /\ quiet' = (quiet \/ t = "client")
              /\ \/ t = "client" /\ pc' = [pc EXCEPT ![t] = "idle"]
                 \/ t # "client" /\ pc' = [pc EXCEPT ![t] = "closeOut"]
           \/ UNCHANGED <<state, quiet, pc>>
           \/ /\ UNCHANGED <<state, quiet>>
              /\ \/ pc' = [pc EXCEPT ![t] = "idle"]
                 \/ pc' = [pc EXCEPT ![t] = "closeOut"]
    BY <1>12 DEF StopCas
  <2>2. UNCHANGED pc /\ pc[t] = "stopCas" => pc' = [pc EXCEPT ![t] = "stopCas"]
    BY DEF QuietContext, LockInv
  <2>3. Shown("stopCas") \/ Shown("idle") \/ Shown("closeOut")
    BY <2>1, <2>2, <1>1, <1>2, <1>4, <1>5, <1>6, <1>7 DEF OutQuiet, Playing
  <2> QED  BY <2>3, <1>8
<1> QED  BY <1>9, <1>10, <1>11, <1>12

\* Closing the output ends its data callback, and a stream that is opened again
\* is started again only where it was playing, which nobody expects to be quiet.
LEMMA OpenQuiet ==
  ASSUME QuietContext, NEW t \in Callers,
         \/ CloseOut(t) \/ CloseIn(t)
         \/ \E next \in {"openIn", "ready"} : OpenHandle(t, "openOut", "out", next)
         \/ Duplex /\ OpenHandle(t, "openIn", "in", "ready")
         \/ Ready(t)
  PROVE  QuietInv'
<1> USE DEF Goto, Notify, StoreState, InitFails
<1>1. /\ pc[t] \in {"closeOut", "closeIn"} \cup InOpen
      /\ UNCHANGED <<stateThread, cb, quiet, was_playing>>
  BY DEF CloseOut, CloseIn, OpenHandle, Ready
<1>2. mutex = t /\ \A u \in Callers : pc[u] # "startCas"
  BY <1>1, CallerAlone DEF QuietContext
<1>3. state = "DRAINING" => cb' = "idle"
  BY <1>1 DEF QuietContext, QuietInv, StateQuiet
<1>4. quiet => state \notin Playing /\ (t = "reinit" => ~was_playing)
  BY <1>1, <1>2, CallerAlone DEF QuietContext, QuietInv, ClientQuiet
<1>5. mutex' = "reinit" => t = "reinit"
  BY <1>2 DEF CloseOut, CloseIn, OpenHandle, Ready
<1>6. OutQuiet'
  <2>1. cb = "idle"
    <3>1. pc[t] = "closeOut" => CloseOut(t)
      BY DEF CloseIn, OpenHandle, Ready
    <3>2. pc[t] # "closeOut" => OutQuiet
      BY <1>1 DEF QuietContext, QuietInv, CallerQuiet
    <3> QED  BY <3>1, <3>2 DEF CloseOut, OutputStops, OutQuiet
  <2>2. aa'["out"] \notin {"STARTING", "STARTED"}
    <3>1. CASE CloseOut(t)
      BY <3>1, HandleNames DEF CloseOut, QuietContext, Types
    <3>2. CASE ~CloseOut(t)
      <4>1. aa["out"] \notin {"STARTING", "STARTED"}
        BY <3>2 DEF CloseIn, OpenHandle, Ready, QuietContext, QuietInv, CallerQuiet, OutQuiet
      <4> QED
        BY <3>2, <4>1, HandleNames DEF CloseIn, OpenHandle, Ready, QuietContext, Types
    <3> QED  BY <3>1, <3>2
  <2> QED  BY <2>1, <2>2, <1>1 DEF OutQuiet
<1> DEFINE Shown(next) ==
      /\ pc' = [pc EXCEPT ![t] = next]
      /\ state' = "DRAINING" => state = "DRAINING"
      /\ quiet' => state' \notin Playing /\ next \notin InStart
<1>7. ASSUME NEW next, Shown(next)
      PROVE  QuietInv'
  BY <1>1, <1>3, <1>4, <1>5, <1>6, <1>7, CallerKeepsQuiet
<1>8. CASE CloseOut(t) \/ CloseIn(t)
  <2>1. /\ state' \in {state, "INIT", "ERROR"}
        /\ \/ pc' = [pc EXCEPT ![t] = "closeIn"]
           \/ pc' = [pc EXCEPT ![t] = "destroyWait"]
           \/ pc' = [pc EXCEPT ![t] = "reinitEnd"]
           \/ pc' = [pc EXCEPT ![t] = "openOut"]
    BY <1>8 DEF CloseOut, CloseIn
  <2>2. Shown("closeIn") \/ Shown("destroyWait") \/ Shown("reinitEnd") \/ Shown("openOut")
    BY <2>1, <1>1, <1>4 DEF Playing
  <2> QED  BY <2>2, <1>7
<1>9. CASE \/ \E next \in {"openIn", "ready"} : OpenHandle(t, "openOut", "out", next)
           \/ Duplex /\ OpenHandle(t, "openIn", "in", "ready")
  <2>1. /\ UNCHANGED state
        /\ \/ pc' = [pc EXCEPT ![t] = "openIn"]
           \/ pc' = [pc EXCEPT ![t] = "ready"]
           \/ pc' = [pc EXCEPT ![t] = "destroyLock"]
           \/ pc' = [pc EXCEPT ![t] = "closeOut"]
    BY <1>9 DEF OpenHandle
  <2>2. Shown("openIn") \/ Shown("ready") \/ Shown("destroyLock") \/ Shown("closeOut")
    BY <2>1, <1>1, <1>4
  <2> QED  BY <2>2, <1>7
<1>10. CASE Ready(t)
  <2>1. /\ state' \in {state, "STOPPED"}
        /\ \/ pc' = [pc EXCEPT ![t] = "idle"]
           \/ t = "reinit" /\ was_playing /\ pc' = [pc EXCEPT ![t] = "startLoad"]
           \/ pc' = [pc EXCEPT ![t] = "reinitEnd"]
           \/ pc' = [pc EXCEPT ![t] = "destroyLock"]
           \/ pc' = [pc EXCEPT ![t] = "closeOut"]
    BY <1>10 DEF Ready
  <2>2. \/ Shown("idle") \/ Shown("startLoad") \/ Shown("reinitEnd")
        \/ Shown("destroyLock") \/ Shown("closeOut")
    BY <2>1, <1>1, <1>4 DEF Playing
  <2> QED  BY <2>2, <1>7
<1> QED  BY <1>8, <1>9, <1>10

\* The state thread starts nothing, and signals what it has seen stop.
LEMMA StateStepsQuiet ==
  ASSUME QuietContext, StateThread
  PROVE  QuietInv'
<1> USE DEF Leave, GoOn, StayIn
<1>1. UNCHANGED <<pc, was_playing, cb>>
  BY DEF StateThread, Update, Refresh, Disconnected, Starting, Stopping, Draining,
         DrainStop, Drained, Exchange, Shutdown, ShutStop, ShutDone
<1>2. aa["out"] \notin {"STARTING", "STARTED"} => aa'["out"] \notin {"STARTING", "STARTED"}
  <2>1. aa' = aa \/ \E h \in {"in", "out"} : aa' = [aa EXCEPT ![h] = "STOPPING"]
    BY StateRequests DEF StateThread, Update, Refresh, Disconnected, Starting, Stopping,
           Draining, Drained, Exchange, Shutdown, ShutDone
  <2> QED  BY <2>1, HandleNames DEF QuietContext, Types
<1>3. OutQuiet => OutQuiet'
  BY <1>1, <1>2 DEF OutQuiet
<1>4. CallerQuiet'
  BY <1>1, <1>3 DEF QuietContext, QuietInv, CallerQuiet
<1>5. sPc # "sleep" => mutex = "state" /\ \A t \in Callers : pc[t] \notin InCall
  BY DEF QuietContext, LockInv
<1>6. sPc # "sleep" /\ state \in {"STOPPING", "STOPPED"} => OutQuiet
  BY <1>5 DEF QuietContext, QuietInv, StateQuiet
<1>7. mutex = "free" /\ state = "STOPPING" => OutQuiet
  BY DEF QuietContext, LockInv, QuietInv, StateQuiet
<1>8. CASE Update
  <2>1. /\ UNCHANGED <<state, aa, seen, quiet>> /\ sPc = "sleep"
        /\ \/ /\ sPc' \in {"refresh", "shutdown"} /\ old_state' = state
              /\ mutex = "free" /\ mutex' = "state"
           \/ sPc' = "sleep" /\ UNCHANGED <<mutex, old_state>>
    BY <1>8 DEF Update
  <2>2. StateQuiet'
    BY <1>1, <2>1 DEF QuietContext, QuietInv, StateQuiet, OutQuiet
  <2>3. ThreadQuiet'
    BY <1>3, <1>7, <2>1 DEF QuietContext, QuietInv, ThreadQuiet
  <2>4. ClientQuiet'
    BY <1>1, <1>3, <2>1 DEF QuietContext, QuietInv, ClientQuiet
  <2> QED  BY <1>4, <2>2, <2>3, <2>4 DEF QuietInv
<1>9. CASE Refresh \/ Disconnected \/ Starting \/ Draining \/ Shutdown
  <2>1. /\ UNCHANGED <<state, aa, quiet>>
        /\ old_state' = old_state \/ sPc' = "sleep"
        /\ sPc \notin {"sleep", "stopped"} /\ mutex' \in {mutex, "free"}
    BY <1>9 DEF Refresh, Disconnected, Starting, Draining, Shutdown
  <2>2. StateQuiet'
    BY <1>1, <2>1 DEF QuietContext, QuietInv, StateQuiet, OutQuiet
  <2>3. ThreadQuiet'
    <3>1. seen'["out"] = "STOPPED" =>
            sPc' # "sleep" /\ aa'["out"] \notin {"STARTING", "STARTED"}
      BY <1>9, HandleNames
      DEF Refresh, Disconnected, Starting, Draining, Shutdown, QuietContext, Types,
          QuietInv, ThreadQuiet
    <3>2. /\ sPc' \in {"drainOut", "drainIn", "drained"} => old_state' = "DRAINING"
          /\ sPc' # "stopped"
          /\ sPc' = "started" => old_state' = "STARTING"
      BY <1>9 DEF Refresh, Disconnected, Starting, Draining, Shutdown
    <3>3. sPc' # "sleep" /\ old_state' = "STOPPING"
            => OutQuiet' /\ state' \in {"STOPPING", "ERROR"}
      BY <1>3, <2>1 DEF QuietContext, QuietInv, ThreadQuiet
    <3> QED  BY <3>1, <3>2, <3>3 DEF ThreadQuiet
  <2>4. ClientQuiet'
    BY <1>1, <1>3, <1>5, <2>1 DEF QuietContext, QuietInv, ClientQuiet
  <2> QED  BY <1>4, <2>2, <2>3, <2>4 DEF QuietInv
<1>10. CASE Stopping
  <2>1. /\ UNCHANGED <<state, aa>> /\ sPc = "decide" /\ old_state = "STOPPING"
        /\ mutex' \in {mutex, "free"}
        /\ \/ sPc' = "stopped" /\ UNCHANGED <<old_state, seen>>
           \/ sPc' = "sleep" /\ seen'["out"] # "STOPPED" /\ quiet' = quiet
    BY <1>10, HandleNames DEF Stopping
  <2>2. OutQuiet /\ state \in {"STOPPING", "ERROR"}
    BY <2>1 DEF QuietContext, QuietInv, ThreadQuiet
  <2>3. StateQuiet'
    BY <1>3, <2>1, <2>2 DEF StateQuiet
  <2>4. ThreadQuiet'
    BY <1>3, <2>1, <2>2 DEF QuietContext, QuietInv, ThreadQuiet
  <2>5. ClientQuiet'
    BY <1>1, <1>3, <1>5, <2>1, <2>2 DEF ClientQuiet, Playing
  <2> QED  BY <1>4, <2>3, <2>4, <2>5 DEF QuietInv
<1>11. CASE DrainStop \/ ShutStop
  <2>1. /\ UNCHANGED <<state, quiet>> /\ sPc \notin {"sleep", "stopped"}
        /\ mutex' \in {mutex, "free"}
        /\ \/ /\ sPc' \in {"drainIn", "drained"} /\ UNCHANGED <<old_state, seen>>
              /\ sPc \in {"drainOut", "drainIn"}
           \/ sPc' \in {"shutOut", "shutDone"} /\ UNCHANGED <<old_state, seen>>
           \/ sPc' = "sleep" /\ seen'["out"] # "STOPPED"
    BY <1>11, HandleNames DEF DrainStop, ShutStop
  <2>2. StateQuiet'
    BY <1>1, <1>3, <2>1 DEF QuietContext, QuietInv, StateQuiet
  <2>3. ThreadQuiet'
    BY <1>2, <1>3, <2>1 DEF QuietContext, QuietInv, ThreadQuiet
  <2>4. ClientQuiet'
    BY <1>1, <1>3, <1>5, <2>1 DEF QuietContext, QuietInv, ClientQuiet
  <2> QED  BY <1>4, <2>2, <2>3, <2>4 DEF QuietInv
<1>12. CASE Drained
  <2>1. /\ UNCHANGED <<state, aa>> /\ sPc = "drained" /\ old_state = "DRAINING"
        /\ mutex' \in {mutex, "free"}
        /\ \/ /\ sPc' = "stopped" /\ UNCHANGED <<old_state, seen>>
              /\ seen["out"] = "STOPPED" /\ quiet' = (quiet \/ state = old_state)
           \/ sPc' = "sleep" /\ seen'["out"] # "STOPPED" /\ quiet' = quiet
    BY <1>12, HandleNames DEF Drained, QuietContext, QuietInv, ThreadQuiet
  <2>2. seen["out"] = "STOPPED" /\ state = old_state => OutQuiet
    BY <2>1 DEF QuietContext, QuietInv, StateQuiet, ThreadQuiet, OutQuiet
  <2>3. StateQuiet'
    BY <1>1, <1>3, <2>1 DEF QuietContext, QuietInv, StateQuiet
  <2>4. ThreadQuiet'
    BY <1>1, <2>1 DEF QuietContext, QuietInv, ThreadQuiet, OutQuiet
  <2>5. quiet => OutQuiet /\ state \notin Playing
    BY <2>1 DEF QuietContext, QuietInv, ClientQuiet
  <2>6. ClientQuiet'
    BY <1>1, <1>3, <1>5, <2>1, <2>2, <2>5 DEF ClientQuiet
  <2> QED  BY <1>4, <2>3, <2>4, <2>6 DEF QuietInv
<1>13. CASE Exchange \/ ShutDone
  <2>1. /\ UNCHANGED <<aa, quiet>> /\ sPc # "sleep" /\ mutex' \in {mutex, "free"}
        /\ \/ /\ sPc' = "sleep" /\ seen'["out"] # "STOPPED"
              /\ \/ state' \in {state, "SHUTDOWN"} /\ sPc = "shutDone"
                 \/ sPc = "started" /\ state = old_state /\ state' = "STARTED"
                 \/ sPc = "stopped" /\ state = old_state /\ state' = "STOPPED"
           \/ /\ sPc' \in {"refresh", "shutdown"} /\ old_state' = state
              /\ state # old_state /\ UNCHANGED <<state, seen>>
    BY <1>13, HandleNames DEF Exchange, ShutDone
  <2>2. sPc = "stopped" /\ state = old_state => OutQuiet
    BY DEF QuietContext, QuietInv, StateQuiet, ThreadQuiet, OutQuiet
  <2>3. StateQuiet'
    BY <1>1, <1>3, <1>6, <2>1, <2>2 DEF QuietContext, QuietInv, StateQuiet
  <2>4. ThreadQuiet'
    BY <1>3, <1>6, <2>1 DEF QuietContext, QuietInv, ThreadQuiet
  <2>5. quiet => state' \notin Playing
    BY <2>1 DEF QuietContext, QuietInv, ClientQuiet, ThreadQuiet, Playing
  <2>6. ClientQuiet'
    BY <1>1, <1>3, <1>5, <2>1, <2>5 DEF QuietContext, QuietInv, ClientQuiet
  <2> QED  BY <1>4, <2>3, <2>4, <2>6 DEF QuietInv
<1> QED
  BY <1>8, <1>9, <1>10, <1>11, <1>12, <1>13 DEF StateThread

LEMMA CallerQuietNext ==
  ASSUME QuietContext, NEW t \in Callers, CallerNext(t)
  PROVE  QuietInv'
BY StartQuiet, StopQuiet, OpenQuiet DEF CallerNext

LEMMA QuietNext == QuietContext /\ [Next]_vars => QuietInv'
<1>1. QuietInv /\ UNCHANGED vars => QuietInv'
  BY DEF vars, QuietInv, CallerQuiet, StateQuiet, ThreadQuiet, ClientQuiet, OutQuiet
<1> QED
  BY <1>1, HandleNames, DeviceQuiet, ErrorQuiet, CallbackQuiet, ClientStepsQuiet,
     ReinitStepsQuiet, CallerQuietNext, StateStepsQuiet DEF Next, QuietContext

LEMMA QuietHolds == Spec => []QuietContext
<1>1. Init => QuietInv
  BY HandleNames DEF Init, QuietInv, CallerQuiet, StateQuiet, ThreadQuiet, ClientQuiet,
                     OutQuiet, Playing
<1> QED  BY <1>1, LocksHold, SlotHolds, QuietNext, PTL DEF Spec, QuietContext

\* Once stop has returned for a playing stream, or STOPPED was signalled, or
\* DRAINED of a stream no error had taken out of DRAINING, the client's data
\* callback is not called until the client calls start: not after a start that
\* AAudio had already begun, nor when the stream is opened again on another
\* device.
THEOREM QuietHeld == Spec => []QuietOnceStopped
<1>1. QuietContext => QuietOnceStopped
  BY DEF QuietContext, QuietInv, ClientQuiet, OutQuiet, QuietOnceStopped
<1> QED  BY <1>1, QuietHolds, PTL

-----------------------------------------------------------------------------
(* The position.                                                           *)

LEMMA PositionNext == QuietContext /\ PositionInv /\ [Next]_vars => PositionInv'
<1> SUFFICES ASSUME QuietContext, PositionInv, [Next]_vars
             PROVE  PositionInv'
  OBVIOUS
<1> USE DEF Goto, Notify, StoreState
<1> DEFINE Runs == {"STARTING", "STARTED"}
<1>1. ASSUME UNCHANGED pos_estimate, state' \in Runs => state \in Runs,
             \A t \in Callers : pc'[t] \in InOpen => pc[t] \in InOpen \/ state' \notin Runs
      PROVE  PositionInv'
  BY <1>1 DEF PositionInv
<1>2. CASE Play \/ UNCHANGED vars
  BY <1>1, <1>2 DEF Play, vars
<1>3. ASSUME NEW h \in Handles,
             Settle(h) \/ DeviceChange(h) \/ DeviceError(h) \/ aaudio_error_cb(h)
      PROVE  PositionInv'
  <2>1. UNCHANGED pos_estimate /\ (state' \in Runs => state \in Runs)
    BY <1>3 DEF Settle, DeviceChange, DeviceError, aaudio_error_cb
  <2>2. UNCHANGED pc \/ reinitialize_stream
    BY <1>3 DEF Settle, DeviceChange, DeviceError, aaudio_error_cb
  <2>3. \A t \in Callers : pc'[t] \in InOpen => pc[t] \in InOpen
    BY <2>2, ReinitStarts DEF QuietContext
  <2> QED  BY <2>1, <2>3, <1>1
<1>4. CASE DataCallback \/ DataCallbackReturns
  <2> USE DEF DataCallback, DataCallbackReturns, ReadInput, FillBuffer, FillError,
              compute_and_report_latency_metrics, FillShort, StartDraining
  <2>1. UNCHANGED pos_estimate /\ (state' \in Runs => state \in Runs)
    BY <1>4
  <2>2. UNCHANGED pc \/ reinitialize_stream
    BY <1>4
  <2>3. \A t \in Callers : pc'[t] \in InOpen => pc[t] \in InOpen
    BY <2>2, ReinitStarts DEF QuietContext
  <2> QED  BY <2>1, <2>3, <1>1
<1>5. CASE \/ aaudio_stream_init \/ aaudio_stream_start \/ aaudio_stream_stop
           \/ aaudio_stream_destroy \/ DestroyWait \/ aaudio_stream_get_position
  <2> USE DEF Call, aaudio_stream_init, aaudio_stream_start, aaudio_stream_stop,
              aaudio_stream_destroy, DestroyWait, aaudio_stream_get_position
  <2>1. UNCHANGED <<pos_estimate, state>>
    BY <1>5
  <2>2. CASE aaudio_stream_init
    <3>1. state = "INIT"
      BY <2>2 DEF QuietContext, SlotInv
    <3> QED  BY <2>1, <3>1, <1>1
  <2>3. CASE ~aaudio_stream_init
    <3>1. \A t \in Callers : pc'[t] \in InOpen => pc[t] \in InOpen
      BY <1>5, <2>3 DEF QuietContext, LockInv
    <3> QED  BY <2>1, <3>1, <1>1
  <2> QED  BY <2>2, <2>3
<1>6. CASE ReadTiming
  BY <1>6 DEF ReadTiming, PositionInv, QuietContext, LockInv
<1>7. CASE ReinitLock \/ ClearDrain \/ ReinitEnd
  <2>1. UNCHANGED <<pos_estimate, state>>
    BY <1>7 DEF ReinitLock, ClearDrain, ReinitEnd
  <2>2. \A t \in Callers : pc'[t] \in InOpen => pc[t] \in InOpen
    BY <1>7 DEF ReinitLock, ClearDrain, ReinitEnd, Cancel, QuietContext, LockInv
  <2> QED  BY <2>1, <2>2, <1>1
<1>8. ASSUME NEW t \in Callers, CallerNext(t)
      PROVE  PositionInv'
  <2> USE DEF StartReturns, StopReturns, Fails
  <2>1. CASE StartLoad(t) \/ StartWait(t) \/ StopLoad(t) \/ StopWait(t)
    BY <2>1, <1>1 DEF StartLoad, StartWait, StopLoad, StopWait, QuietContext, LockInv
  <2>2. CASE StartCas(t)
    BY <2>2, CallerAlone DEF StartCas, PositionStart, PositionInv, QuietContext, LockInv
  <2>3. ASSUME NEW label, NEW h, NEW next \in InStart, StartHandle(t, label, h, next)
        PROVE  PositionInv'
    BY <2>3, <1>1 DEF StartHandle, QuietContext, LockInv
  <2>4. CASE PauseOut(t) \/ StopIn(t)
    BY <2>4, <1>1 DEF PauseOut, StopIn, QuietContext, LockInv
  <2>5. CASE StopCas(t)
    BY <2>5 DEF StopCas, PositionStop, PositionInv, QuietContext, LockInv
  <2>6. CASE CloseOut(t)
    BY <2>6, <1>1 DEF CloseOut, QuietContext, LockInv
  <2>7. CASE CloseIn(t)
    BY <2>7 DEF CloseIn, PositionInv
  <2>8. ASSUME NEW label \in InOpen, NEW h, NEW next \in InOpen, OpenHandle(t, label, h, next)
        PROVE  PositionInv'
    BY <2>8 DEF OpenHandle, InitFails, PositionInv, QuietContext, LockInv
  <2>9. CASE Ready(t)
    BY <2>9, CallerAlone DEF Ready, InitFails, PositionInv, QuietContext, LockInv
  <2> QED
    BY <1>8, <2>1, <2>2, <2>3, <2>4, <2>5, <2>6, <2>7, <2>8, <2>9 DEF CallerNext
<1>9. CASE StateThread
  <2>1. UNCHANGED <<pos_estimate, pc>>
    BY <1>9 DEF StateThread, Update, Refresh, Disconnected, Starting, Stopping, Draining,
           DrainStop, Drained, Exchange, Shutdown, ShutStop, ShutDone
  <2>2. CASE Exchange
    BY <2>1, <2>2 DEF Exchange, PositionInv, QuietContext, QuietInv, ThreadQuiet, LockInv
  <2>3. CASE ~Exchange
    <3>1. state' \in Runs => state \in Runs
      BY <1>9, <2>3 DEF StateThread, Update, Refresh, Disconnected, Starting, Stopping,
             Draining, DrainStop, Drained, Shutdown, ShutStop, ShutDone
    <3> QED  BY <2>1, <3>1, <1>1
  <2> QED  BY <2>2, <2>3
<1> QED
  BY <1>2, <1>3, <1>4, <1>5, <1>6, <1>7, <1>8, <1>9 DEF Next

\* The estimate of the position runs whenever the stream does: a start, or the
\* exchange that ends it, is not separated from it by a reinitialisation.
THEOREM PositionKept == Spec => []PositionRuns
<1>1. Init => PositionInv
  BY DEF Init, PositionInv
<1>2. PositionInv => PositionRuns
  BY DEF PositionInv, PositionRuns
<1> QED  BY <1>1, <1>2, QuietHolds, PositionNext, PTL DEF Spec

-----------------------------------------------------------------------------
\* The triple buffer of the timing.

back == shared_state.idx

\* The slot of the producer is whole unless a write is under way, the two
\* others always are, and no value in them is newer than the last published.
WholeInv ==
  /\ storage[back].lo = storage[back].hi
  /\ storage[output_idx].lo = storage[output_idx].hi
  /\ storage[back].lo <= published /\ storage[output_idx].lo <= published
  /\ pPc = "idle" => /\ storage[input_idx].lo = storage[input_idx].hi
                     /\ storage[input_idx].lo <= published
  /\ pPc = "half" => storage[input_idx].lo = published + 1
  /\ pPc = "publish" => storage[input_idx] = Whole(published + 1)

\* The dirty bit tells where the last published value is.
LatestInv ==
  /\ updated => storage[back].lo = published
  /\ ~updated /\ published > base => storage[output_idx].lo = published

\* What the consumer has in hand between the steps of read().
ReadInv ==
  /\ cPc = "exchange" => updated
  /\ cPc \in {"copyLo", "copyHi"} /\ atLeast > base
       => storage[output_idx].lo >= atLeast
  /\ cPc = "copyHi" => copy.lo = storage[output_idx].lo
  /\ cPc # "copyHi" => copy.lo = copy.hi

BufferInv == /\ TypeOK
        /\ SlotsOwnedOnce
        /\ WholeInv
        /\ LatestInv
        /\ ReadInv
        /\ FreshEnough
        /\ PublishedAccountedFor

-----------------------------------------------------------------------------
\* The facts the steps use: three different slots, each with its value.
LEMMA BufferFacts ==
  ASSUME BufferInv
  PROVE  /\ input_idx \in Slots /\ back \in Slots /\ output_idx \in Slots
         /\ input_idx # back /\ input_idx # output_idx /\ back # output_idx
         /\ shared_state = [idx |-> back, dirty |-> updated]
         /\ updated \in BOOLEAN
         /\ \A s \in Slots : /\ storage[s] \in Values
                             /\ storage[s].lo \in Nat /\ storage[s].hi \in Nat
         /\ copy \in Values
         /\ published \in Nat /\ base \in 0 .. published
BY DEF BufferInv, TypeOK, SlotsOwnedOnce, Slots, Values, back, updated

THEOREM BufferInvInit == BufferInit => BufferInv
<1> SUFFICES ASSUME BufferInit PROVE BufferInv
  OBVIOUS
<1>1. TypeOK
  <2>1. Whole(0) \in Values
    BY DEF Whole, Values
  <2>2. storage \in [Slots -> Values] /\ copy \in Values
    BY <2>1 DEF BufferInit
  <2>3. shared_state \in [idx : Slots, dirty : BOOLEAN]
    BY DEF BufferInit, Slots
  <2>4. /\ input_idx \in Slots /\ output_idx \in Slots
        /\ pPc = "idle" /\ cPc = "idle"
        /\ published \in Nat /\ taken \in Nat /\ lost \in Nat
        /\ base \in 0 .. published /\ atLeast \in 0 .. published
        /\ invalidates \in Nat
    BY DEF BufferInit, Slots
  <2>5. overwrote \in BOOLEAN
    BY Zenon DEF BufferInit
  <2> QED
    BY <2>2, <2>3, <2>4, <2>5 DEF TypeOK
<1>2. SlotsOwnedOnce
  BY DEF BufferInit, SlotsOwnedOnce, Slots
<1>3. WholeInv /\ LatestInv /\ ReadInv
  BY DEF BufferInit, WholeInv, LatestInv, ReadInv, Whole, Slots, back, updated
<1>4. FreshEnough /\ PublishedAccountedFor
  BY DEF BufferInit, FreshEnough, PublishedAccountedFor, updated
<1> QED
  BY <1>1, <1>2, <1>3, <1>4 DEF BufferInv

THEOREM BufferInvStep == BufferInv /\ [BufferNext]_bufferVars => BufferInv'
<1> SUFFICES ASSUME BufferInv, [BufferNext]_bufferVars PROVE BufferInv'
  OBVIOUS
<1> USE BufferFacts DEF producerVars, consumerVars
<1>1. CASE WriteLo
  <2>1. /\ storage'[input_idx] = [storage[input_idx] EXCEPT !.lo = published + 1]
        /\ \A s \in Slots : s # input_idx => storage'[s] = storage[s]
        /\ back' = back /\ (updated' <=> updated)
    BY <1>1 DEF WriteLo, BufferInv, TypeOK, back, updated
  <2>2. TypeOK'
    BY <1>1, <2>1 DEF WriteLo, BufferInv, TypeOK, Values
  <2>3. SlotsOwnedOnce' /\ FreshEnough' /\ PublishedAccountedFor'
    BY <1>1, <2>1
    DEF WriteLo, BufferInv, SlotsOwnedOnce, FreshEnough, PublishedAccountedFor
  <2>4. WholeInv' /\ LatestInv' /\ ReadInv'
    BY <1>1, <2>1 DEF WriteLo, BufferInv, WholeInv, LatestInv, ReadInv, Values
  <2> QED
    BY <2>2, <2>3, <2>4 DEF BufferInv
<1>2. CASE WriteHi
  <2>1. /\ storage'[input_idx] = [storage[input_idx] EXCEPT !.hi = published + 1]
        /\ \A s \in Slots : s # input_idx => storage'[s] = storage[s]
        /\ back' = back /\ (updated' <=> updated)
    BY <1>2 DEF WriteHi, BufferInv, TypeOK, back, updated
  <2>2. TypeOK'
    BY <1>2, <2>1 DEF WriteHi, BufferInv, TypeOK, Values
  <2>3. SlotsOwnedOnce' /\ FreshEnough' /\ PublishedAccountedFor'
    BY <1>2, <2>1
    DEF WriteHi, BufferInv, SlotsOwnedOnce, FreshEnough, PublishedAccountedFor
  <2>4. WholeInv' /\ LatestInv' /\ ReadInv'
    BY <1>2, <2>1
    DEF WriteHi, BufferInv, WholeInv, LatestInv, ReadInv, Values, Whole
  <2> QED
    BY <2>2, <2>3, <2>4 DEF BufferInv
<1>3. CASE Publish
  <2>1. /\ back' = input_idx /\ input_idx' = back /\ updated'
        /\ storage' = storage /\ output_idx' = output_idx
    BY <1>3 DEF Publish, back, updated
  <2>2. TypeOK'
    BY <1>3 DEF Publish, BufferInv, TypeOK
  <2>3. SlotsOwnedOnce'
    BY <1>3, <2>1 DEF Publish, BufferInv, SlotsOwnedOnce, back
  <2>4. WholeInv' /\ LatestInv' /\ ReadInv'
    BY <1>3, <2>1 DEF Publish, BufferInv, WholeInv, LatestInv, ReadInv, Whole
  <2>5. FreshEnough' /\ PublishedAccountedFor'
    BY <1>3, <2>1
    DEF Publish, BufferInv, TypeOK, FreshEnough, PublishedAccountedFor, updated
  <2> QED
    BY <2>2, <2>3, <2>4, <2>5 DEF BufferInv
<1>4. CASE ReadCheck
  <2>1. back' = back /\ (updated' <=> updated)
    BY <1>4 DEF ReadCheck, back, updated
  <2>2. TypeOK'
    BY <1>4 DEF ReadCheck, BufferInv, TypeOK
  <2>3. SlotsOwnedOnce' /\ FreshEnough' /\ PublishedAccountedFor'
    BY <1>4, <2>1
    DEF ReadCheck, BufferInv, SlotsOwnedOnce, FreshEnough, PublishedAccountedFor
  <2>4. WholeInv' /\ LatestInv' /\ ReadInv'
    BY <1>4, <2>1 DEF ReadCheck, BufferInv, WholeInv, LatestInv, ReadInv
  <2> QED
    BY <2>2, <2>3, <2>4 DEF BufferInv
<1>5. CASE ReadExchange
  <2>1. /\ back' = output_idx /\ output_idx' = back /\ ~updated' /\ updated
        /\ storage' = storage
    BY <1>5 DEF ReadExchange, back, updated, BufferInv, ReadInv
  <2>2. TypeOK'
    BY <1>5 DEF ReadExchange, BufferInv, TypeOK
  <2>3. SlotsOwnedOnce'
    BY <1>5, <2>1 DEF ReadExchange, BufferInv, SlotsOwnedOnce, back
  <2>4. WholeInv' /\ LatestInv' /\ ReadInv'
    BY <1>5, <2>1
    DEF ReadExchange, BufferInv, TypeOK, WholeInv, LatestInv, ReadInv
  <2>5. FreshEnough' /\ PublishedAccountedFor'
    BY <1>5, <2>1
    DEF ReadExchange, BufferInv, TypeOK, FreshEnough, PublishedAccountedFor, updated
  <2> QED
    BY <2>2, <2>3, <2>4, <2>5 DEF BufferInv
<1>6. CASE CopyLo
  <2>1. /\ back' = back /\ (updated' <=> updated)
        /\ copy' = [copy EXCEPT !.lo = storage[output_idx].lo]
        /\ copy'.lo = storage[output_idx].lo
    BY <1>6 DEF CopyLo, back, updated, Values
  <2>2. TypeOK'
    BY <1>6 DEF CopyLo, BufferInv, TypeOK, Values
  <2>3. SlotsOwnedOnce' /\ FreshEnough' /\ PublishedAccountedFor'
    BY <1>6, <2>1
    DEF CopyLo, BufferInv, SlotsOwnedOnce, FreshEnough, PublishedAccountedFor
  <2>4. WholeInv' /\ LatestInv' /\ ReadInv'
    BY <1>6, <2>1 DEF CopyLo, BufferInv, WholeInv, LatestInv, ReadInv
  <2> QED
    BY <2>2, <2>3, <2>4 DEF BufferInv
<1>7. CASE CopyHi
  <2>1. /\ back' = back /\ (updated' <=> updated)
        /\ copy'.lo = storage[output_idx].lo
        /\ copy'.hi = storage[output_idx].hi
    BY <1>7 DEF CopyHi, back, updated, Values, BufferInv, ReadInv
  <2>2. TypeOK'
    BY <1>7 DEF CopyHi, BufferInv, TypeOK, Values
  <2>3. SlotsOwnedOnce' /\ FreshEnough' /\ PublishedAccountedFor'
    BY <1>7, <2>1
    DEF CopyHi, BufferInv, SlotsOwnedOnce, FreshEnough, PublishedAccountedFor, ReadInv
  <2>4. WholeInv' /\ LatestInv' /\ ReadInv'
    BY <1>7, <2>1 DEF CopyHi, BufferInv, WholeInv, LatestInv, ReadInv
  <2> QED
    BY <2>2, <2>3, <2>4 DEF BufferInv
<1>8. CASE invalidate
  <2>1. /\ back' = 0 /\ input_idx' = 1 /\ output_idx' = 2 /\ ~updated'
        /\ storage' = storage
    BY <1>8 DEF invalidate, back, updated
  <2>2. \A s \in Slots : storage[s].lo = storage[s].hi
                         /\ storage[s].lo <= published
    BY <1>8 DEF invalidate, BufferInv, WholeInv, Slots
  <2>3. TypeOK'
    BY <1>8 DEF invalidate, BufferInv, TypeOK, Slots
  <2>4. SlotsOwnedOnce'
    BY <1>8 DEF invalidate, SlotsOwnedOnce, Slots
  <2>5. WholeInv' /\ LatestInv' /\ ReadInv'
    BY <1>8, <2>1, <2>2
    DEF invalidate, BufferInv, WholeInv, LatestInv, ReadInv, Slots
  <2>6. FreshEnough' /\ PublishedAccountedFor'
    BY <1>8, <2>1
    DEF invalidate, BufferInv, TypeOK, FreshEnough, PublishedAccountedFor, updated
  <2> QED
    BY <2>3, <2>4, <2>5, <2>6 DEF BufferInv
<1>9. CASE UNCHANGED bufferVars
  BY <1>9
  DEF bufferVars, BufferInv, TypeOK, SlotsOwnedOnce, WholeInv, LatestInv, ReadInv,
      FreshEnough, PublishedAccountedFor, back, updated
<1> QED
  BY <1>1, <1>2, <1>3, <1>4, <1>5, <1>6, <1>7, <1>8, <1>9 DEF BufferNext

THEOREM BufferInvHolds == BufferSpec => []BufferInv
BY BufferInvInit, BufferInvStep, PTL DEF BufferSpec

-----------------------------------------------------------------------------
\* Type correctness.
THEOREM BufferTypes == BufferSpec => []TypeOK
<1>1. BufferInv => TypeOK
  BY DEF BufferInv
<1> QED
  BY <1>1, BufferInvHolds, PTL

\* Producer, back buffer and consumer own one slot each, always.
THEOREM OwnedOnce == BufferSpec => []SlotsOwnedOnce
<1>1. BufferInv => SlotsOwnedOnce
  BY DEF BufferInv
<1> QED
  BY <1>1, BufferInvHolds, PTL

\* No reader ever holds or copies a half-written value.
THEOREM NoTearing == BufferSpec => []NeverTorn
<1>1. BufferInv => NeverTorn
  BY DEF BufferInv, WholeInv, ReadInv, NeverTorn
<1> QED
  BY <1>1, BufferInvHolds, PTL

\* A read returns the last value published when it was called, or a newer one.
THEOREM Freshness == BufferSpec => []FreshEnough
<1>1. BufferInv => FreshEnough
  BY DEF BufferInv
<1> QED
  BY <1>1, BufferInvHolds, PTL

\* write() reports exactly the values that were lost.
THEOREM Accounting == BufferSpec => []PublishedAccountedFor
<1>1. BufferInv => PublishedAccountedFor
  BY DEF BufferInv
<1> QED
  BY <1>1, BufferInvHolds, PTL

-----------------------------------------------------------------------------
(* Refinement: publish() is the register's Write, the exchange of update() *)
(* its Read; every other step stutters.                                    *)

LEMMA RegisterInit == BufferInit => Register!Init
BY DEF BufferInit, Register!Init, updated, Slots, Whole

LEMMA RegisterStep == BufferInv /\ [BufferNext]_bufferVars => [Register!Next]_(Register!vars)
<1> SUFFICES ASSUME BufferInv, [BufferNext]_bufferVars
             PROVE  [Register!Next]_(Register!vars)
  OBVIOUS
<1> USE BufferFacts DEF producerVars, consumerVars, Register!vars
<1>1. CASE WriteLo
  BY <1>1 DEF WriteLo, updated, BufferInv, TypeOK
<1>2. CASE WriteHi
  BY <1>2 DEF WriteHi, updated, BufferInv, TypeOK
<1>3. CASE Publish
  <2>1. Register!Write
    BY <1>3 DEF Publish, Register!Write, updated
  <2> QED
    BY <2>1 DEF Register!Next
<1>4. CASE ReadCheck
  BY <1>4 DEF ReadCheck, updated
<1>5. CASE ReadExchange
  <2>1. updated /\ storage[back].lo = published
    BY <1>5 DEF ReadExchange, BufferInv, ReadInv, LatestInv
  <2>2. Register!Read
    BY <1>5, <2>1 DEF ReadExchange, Register!Read, updated, back
  <2> QED
    BY <2>2 DEF Register!Next
<1>6. CASE CopyLo
  BY <1>6 DEF CopyLo, updated
<1>7. CASE CopyHi
  BY <1>7 DEF CopyHi, updated
<1>8. CASE invalidate
  <2>1. storage[2].lo \in 0 .. published
    BY <1>8 DEF invalidate, BufferInv, WholeInv, Slots
  <2>2. Register!Invalidate
    BY <1>8, <2>1 DEF invalidate, Register!Invalidate, updated
  <2> QED
    BY <2>2 DEF Register!Next
<1>9. CASE UNCHANGED bufferVars
  BY <1>9 DEF bufferVars, updated
<1> QED
  BY <1>1, <1>2, <1>3, <1>4, <1>5, <1>6, <1>7, <1>8, <1>9 DEF BufferNext

\* The buffer implements the atomic latest-value register.
THEOREM Refinement == BufferSpec => ImplementsRegister
<1> QED
  BY RegisterInit, RegisterStep, BufferInvHolds, PTL
  DEF BufferSpec, ImplementsRegister, Register!Spec

\* The value the consumer holds never goes back, invalidate() excepted: the
\* exchange of update() brings the last published one, which no other exceeds.
THEOREM NeverBack == BufferSpec => NeverOlder
<1> DEFINE Forward == invalidates' = invalidates
                        => storage[output_idx].lo <= storage'[output_idx'].lo
<1>1. BufferInv /\ [BufferNext]_bufferVars => Forward
  <2> SUFFICES ASSUME BufferInv, [BufferNext]_bufferVars PROVE Forward
    OBVIOUS
  <2> USE BufferFacts
  <2>1. CASE WriteLo \/ WriteHi
    BY <2>1 DEF WriteLo, WriteHi, consumerVars, BufferInv, TypeOK
  <2>2. CASE Publish \/ ReadCheck \/ CopyLo \/ CopyHi
    BY <2>2 DEF Publish, ReadCheck, CopyLo, CopyHi, consumerVars
  <2>3. CASE ReadExchange
    BY <2>3 DEF ReadExchange, BufferInv, ReadInv, LatestInv, WholeInv, back
  <2>4. CASE invalidate
    BY <2>4 DEF invalidate, BufferInv, TypeOK
  <2>5. CASE UNCHANGED bufferVars
    BY <2>5 DEF bufferVars, consumerVars
  <2> QED
    BY <2>1, <2>2, <2>3, <2>4, <2>5 DEF BufferNext
<1>2. BufferInv /\ [BufferNext]_bufferVars => [Forward]_bufferVars
  BY <1>1
<1> QED
  BY <1>2, BufferInvHolds, PTL DEF BufferSpec, NeverOlder
=============================================================================
