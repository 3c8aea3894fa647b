------------------------------ MODULE CubebProofs ------------------------------
(* Whatever backend cubeb_init settles on, what cubeb.h promises holds: the      *)
(* invariants of the rest of the backends, and the theorems about all of them.   *)
EXTENDS BackendProofs

-----------------------------------------------------------------------------
(* PulseAudio: the callbacks run under the mainloop's lock, and an event of start's
   may outlive the stream. *)

PulseFields ==
  /\ stm = [ends |-> stm.ends, state |-> stm.state, shutdown |-> stm.shutdown, corked |-> stm.corked,
            failed |-> stm.failed, drain_timer |-> stm.drain_timer, deferred |-> stm.deferred,
            queued |-> stm.queued, held |-> stm.held]
  /\ stm.ends \subseteq {"output", "input"} /\ stm.failed \subseteq stm.ends /\ stm.queued \in {0, 1, 2}
  /\ stm.state \in {"none", "STARTED", "STOPPED", "DRAINED", "ERROR"}

\* An event is left with the mainloop by each start, and no more.
PulseEvents ==
  /\ starts \in 0..MaxStarts /\ stm.deferred \in Nat
  /\ stm.deferred + (IF pc.client \in {"uncork", "STARTED", "defer"} THEN 1 ELSE 0) <= starts

\* What each of start's and stop's steps under the lock finds.
PulseRuns ==
  /\ pc.client \in {"idle", "failed", "uncork", "STARTED", "defer", "drain", "STOPPED"} /\ Asks
  /\ pc.thread \in {"none", "data", "ERROR", "undefined"}
  /\ pc.client \notin {"idle", "failed"} => phase \in Running
  /\ pc.client \in {"drain", "STOPPED"} => stm.shutdown
  /\ pc.client = "STOPPED" => ~stm.drain_timer /\ pc.thread \notin {"data", "ERROR"}
  /\ pc.thread = "data" => phase = "started" /\ ~stm.shutdown /\ ("output" \in stm.ends => stm.queued # 2)
  /\ pc.thread = "ERROR" => phase = "error"
  /\ stm.drain_timer => phase \in {"draining", "error"} /\ stm.shutdown
  /\ phase \in {"draining", "drained"} => stm.shutdown
  /\ phase = "error" => stm.shutdown \/ stm.failed # {}
  /\ stm.deferred > 0 => stm.ends = {"output"}
  /\ pc.client = "defer" => stm.ends = {"output"}
  /\ phase \in {"closed", "none", "stopped"} /\ ~stm.shutdown =>
       stm.state # "STARTED" /\ stm.corked /\ stm.deferred = 0

\* What is held is what the client has created.
PulseHolds == Holds({"libpulse", "context", "device_ids", "mainloop", "pa_context"}, {"stm"} \cup stm.ends)

PulseInv == PulseFields /\ PulseEvents /\ PulseRuns /\ PulseHolds

\* What the inits acquire, and what is left of it when they fail.
LEMMA PulseSets ==
  /\ Pulse!All(Pulse!Opened) = {"libpulse", "context", "device_ids", "mainloop", "pa_context"}
  /\ \A left \in Pulse!Left(Pulse!Opened, {"libpulse", "context", "device_ids", "mainloop", "pa_context"}) :
     left = {}
  /\ stm.ends \subseteq {"output", "input"} =>
       /\ Pulse!All(Pulse!Wants) = {"stm"} \cup stm.ends
       /\ \A left \in Pulse!Left(Pulse!Wants \o <<"ready">>, Pulse!All(Pulse!Wants) \cup {"ready"}) : left = {}
<1>1. /\ Pulse!All(Pulse!Opened) = {"libpulse", "context", "device_ids", "mainloop", "pa_context"}
      /\ \A left \in Pulse!Left(Pulse!Opened, {"libpulse", "context", "device_ids", "mainloop",
         "pa_context"}) : left = {}
  BY DEF Pulse!All, Pulse!Left, Pulse!Opened
<1>2. ASSUME stm.ends \subseteq {"output", "input"}
      PROVE  /\ Pulse!All(Pulse!Wants) = {"stm"} \cup stm.ends
             /\ \A left \in Pulse!Left(Pulse!Wants \o <<"ready">>, Pulse!All(Pulse!Wants) \cup {"ready"}) :
                left = {}
  <2> DEFINE s == <<"stm">>
             p == IF "output" \in stm.ends THEN <<"output">> ELSE <<>>
             r == IF "input" \in stm.ends THEN <<"input">> ELSE <<>>
             e == <<"ready">>
  <2>1. s \in Seq(Names) /\ All(s) = {"stm"}
    BY DEF Names, All
  <2>2. p \in Seq(Names) /\ All(p) = {"output"} \cap stm.ends
    BY AllOfOne DEF Names
  <2>3. r \in Seq(Names) /\ All(r) = {"input"} \cap stm.ends
    BY AllOfOne DEF Names
  <2>4. e \in Seq(Names) /\ All(e) = {"ready"}
    BY DEF Names, All
  <2>5. Pulse!Wants = (s \o p) \o r
    BY DEF Pulse!Wants, Pulse!Plays, Pulse!Records
  <2> HIDE DEF s, p, r, e
  <2>6. Pulse!Wants \in Seq(Names) /\ All(Pulse!Wants) = (All(s) \cup All(p)) \cup All(r)
    <3>1. s \o p \in Seq(Names) /\ All(s \o p) = All(s) \cup All(p)
      BY <2>1, <2>2, AllJoins, Zenon
    <3> QED  BY <2>3, <2>5, <3>1, AllJoins, Zenon
  <2>7. All(Pulse!Wants) = {"stm"} \cup stm.ends
    BY <1>2, <2>1, <2>2, <2>3, <2>6
  <2>8. Pulse!Wants \o e \in Seq(Names) /\ All(Pulse!Wants \o e) = All(Pulse!Wants) \cup {"ready"}
    BY <2>4, <2>6, AllJoins, Zenon
  <2>9. \A left \in Left(Pulse!Wants \o e, All(Pulse!Wants) \cup {"ready"}) : left = {}
    BY <2>8, LeftOfAll
  <2> QED  BY <2>7, <2>9 DEF e, All, Left, Pulse!All, Pulse!Left
<1> QED  BY <1>1, <1>2

\* The invariant holds of a context that is not open.
LEMMA PulseFirst ==
  Fresh /\ backend = "pulse" => PulseInv
<1> SUFFICES ASSUME Fresh, backend = "pulse"
              PROVE  PulseInv
  OBVIOUS
<1> USE DEF Fresh, Streams, AtRest, Pulse!Streams, Pulse!Closed, Pulse!Ends, Asks, Holds, Absent, Bare,
            Running, Exists
<1>1. PulseFields
  BY DEF PulseFields
<1>2. PulseEvents
  BY MaxStartsAssumption DEF PulseEvents
<1>3. PulseRuns
  BY DEF PulseRuns
<1>4. PulseHolds
  BY DEF PulseHolds
<1> QED  BY <1>1, <1>2, <1>3, <1>4 DEF PulseInv

\* Every step keeps the invariant, and to the contract but for the liberties.
LEMMA PulseSteps ==
  ASSUME ClientInv, PulseInv, backend = "pulse", Pulse!Calls \/ Pulse!Client \/ Pulse!Thread \/ Pulse!Device \/
         Pulse!stream_state_callback \/ UNCHANGED vars
  PROVE  ClientInv' /\ PulseInv' /\ Moves /\ Played
<1> USE DEF ClientInv, PulseInv, Asks, Holds, Absent, Bare, Running, Exists, Phases, Pulse!Goto, Pulse!Become,
            Pulse!user, Pulse!Idle, Pulse!Unlocked, Pulse!Plays, Pulse!Records
<1>1. CASE Pulse!pulse_init
  <2> USE <1>1 DEF Pulse!pulse_init, Pulse!Opens, Pulse!MayOpen, Pulse!Acquire, Pulse!Fails
  <2>1. ClientInv' /\ Moves
    BY PulseSets, ClientMoves, DataMoves, ReportMoves, LibertiesTaken DEF PulseFields, PulseRuns
  <2>2. PulseFields'
    BY PulseSets DEF PulseFields
  <2>3. PulseEvents'
    BY PulseSets DEF PulseFields, PulseEvents, PulseRuns
  <2>4. PulseRuns'
    BY PulseSets DEF PulseFields, PulseRuns, PulseHolds
  <2>5. PulseHolds'
    BY PulseSets DEF PulseFields, PulseRuns, PulseHolds
  <2>6. Played
    BY LibertiesTaken DEF Played
  <2> QED  BY <2>1, <2>2, <2>3, <2>4, <2>5, <2>6
<1>2. CASE Pulse!pulse_destroy
  <2> USE <1>2 DEF Pulse!pulse_destroy, Pulse!Closes, Pulse!MayClose, Pulse!Release
  <2>1. ClientInv' /\ Moves
    BY PulseSets, ClientMoves, DataMoves, ReportMoves, LibertiesTaken DEF PulseFields, PulseRuns
  <2>2. PulseFields'
    BY PulseSets DEF PulseFields
  <2>3. PulseEvents'
    BY PulseSets DEF PulseFields, PulseEvents, PulseRuns
  <2>4. PulseRuns'
    BY PulseSets DEF PulseFields, PulseRuns, PulseHolds
  <2>5. PulseHolds'
    BY PulseSets DEF PulseFields, PulseRuns, PulseHolds
  <2>6. Played
    BY LibertiesTaken DEF Played
  <2> QED  BY <2>1, <2>2, <2>3, <2>4, <2>5, <2>6
<1>3. CASE Pulse!pulse_stream_init
  <2> USE <1>3 DEF Pulse!pulse_stream_init, Pulse!MayInit, Pulse!Acquire, Pulse!Fails
  <2>1. ClientInv' /\ Moves
    BY PulseSets, ClientMoves, DataMoves, ReportMoves, LibertiesTaken DEF PulseFields, PulseRuns
  <2>2. PulseFields'
    BY PulseSets DEF PulseFields
  <2>3. PulseEvents'
    BY PulseSets DEF PulseFields, PulseEvents, PulseRuns
  <2>4. PulseRuns'
    BY PulseSets DEF PulseFields, PulseRuns, PulseHolds
  <2>5. PulseHolds'
    BY PulseSets DEF PulseFields, PulseRuns, PulseHolds
  <2>6. Played
    BY LibertiesTaken DEF Played
  <2> QED  BY <2>1, <2>2, <2>3, <2>4, <2>5, <2>6
<1>4. CASE Pulse!pulse_stream_destroy
  <2> USE <1>4 DEF Pulse!pulse_stream_destroy, Pulse!MayDestroy
  <2>1. ClientInv' /\ Moves
    BY PulseSets, ClientMoves, DataMoves, ReportMoves, LibertiesTaken DEF PulseFields, PulseRuns
  <2>2. PulseFields'
    BY PulseSets DEF PulseFields
  <2>3. PulseEvents'
    BY PulseSets DEF PulseFields, PulseEvents, PulseRuns
  <2>4. PulseRuns'
    BY PulseSets DEF PulseFields, PulseRuns, PulseHolds
  <2>5. PulseHolds'
    BY PulseSets DEF PulseFields, PulseRuns, PulseHolds
  <2>6. Played
    BY LibertiesTaken DEF Played
  <2> QED  BY <2>1, <2>2, <2>3, <2>4, <2>5, <2>6
<1>5. CASE Pulse!pulse_stream_start
  <2> USE <1>5 DEF Pulse!pulse_stream_start, Pulse!MayStart, Pulse!Begins
  <2>1. starts + 1 \in 0..MaxStarts /\ starts <= starts + 1
    BY MaxStartsAssumption DEF PulseEvents
  <2>2. ClientInv' /\ Moves
    BY <2>1, ClientMoves, DataMoves, ReportMoves, LibertiesTaken DEF PulseFields, PulseRuns
  <2>3. PulseFields'
    BY <2>1 DEF PulseFields
  <2>4. PulseEvents'
    BY <2>1 DEF PulseFields, PulseEvents, PulseRuns
  <2>5. PulseRuns'
    BY <2>1 DEF PulseFields, PulseRuns, PulseHolds
  <2>6. PulseHolds'
    BY <2>1 DEF PulseFields, PulseRuns, PulseHolds
  <2>7. Played
    BY <2>1, LibertiesTaken DEF Played
  <2> QED  BY <2>2, <2>3, <2>4, <2>5, <2>6, <2>7
<1>6. CASE Pulse!Uncork
  <2> USE <1>6 DEF Pulse!Uncork
  <2>1. ClientInv' /\ Moves
    BY ClientMoves, DataMoves, ReportMoves, LibertiesTaken DEF PulseFields, PulseRuns
  <2>2. PulseFields'
    BY DEF PulseFields
  <2>3. PulseEvents'
    BY DEF PulseFields, PulseEvents, PulseRuns
  <2>4. PulseRuns'
    BY DEF PulseFields, PulseRuns, PulseHolds
  <2>5. PulseHolds'
    BY DEF PulseFields, PulseRuns, PulseHolds
  <2>6. Played
    BY LibertiesTaken DEF Played
  <2> QED  BY <2>1, <2>2, <2>3, <2>4, <2>5, <2>6
<1>7. CASE Pulse!NotifyStarted
  <2> USE <1>7 DEF Pulse!NotifyStarted, Pulse!Told
  <2>1. ClientInv' /\ Moves
    BY ClientMoves, DataMoves, ReportMoves, LibertiesTaken DEF PulseFields, PulseRuns
  <2>2. PulseFields'
    BY DEF PulseFields
  <2>3. PulseEvents'
    BY DEF PulseFields, PulseEvents, PulseRuns
  <2>4. PulseRuns'
    BY DEF PulseFields, PulseRuns, PulseHolds
  <2>5. PulseHolds'
    BY DEF PulseFields, PulseRuns, PulseHolds
  <2>6. Played
    BY LibertiesTaken DEF Played
  <2> QED  BY <2>1, <2>2, <2>3, <2>4, <2>5, <2>6
<1>8. CASE Pulse!Defer
  <2> USE <1>8 DEF Pulse!Defer
  <2>1. ClientInv' /\ Moves
    BY ClientMoves, DataMoves, ReportMoves, LibertiesTaken DEF PulseFields, PulseRuns
  <2>2. PulseFields'
    BY DEF PulseFields
  <2>3. PulseEvents'
    BY DEF PulseFields, PulseEvents, PulseRuns
  <2>4. PulseRuns'
    BY DEF PulseFields, PulseRuns, PulseHolds
  <2>5. PulseHolds'
    BY DEF PulseFields, PulseRuns, PulseHolds
  <2>6. Played
    BY LibertiesTaken DEF Played
  <2> QED  BY <2>1, <2>2, <2>3, <2>4, <2>5, <2>6
<1>9. CASE Pulse!pulse_stream_stop
  <2> USE <1>9 DEF Pulse!pulse_stream_stop, Pulse!MayStop
  <2>1. ClientInv' /\ Moves
    BY ClientMoves, DataMoves, ReportMoves, LibertiesTaken DEF PulseFields, PulseRuns
  <2>2. PulseFields'
    BY DEF PulseFields
  <2>3. PulseEvents'
    BY DEF PulseFields, PulseEvents, PulseRuns
  <2>4. PulseRuns'
    BY DEF PulseFields, PulseRuns, PulseHolds
  <2>5. PulseHolds'
    BY DEF PulseFields, PulseRuns, PulseHolds
  <2>6. Played
    BY LibertiesTaken DEF Played
  <2> QED  BY <2>1, <2>2, <2>3, <2>4, <2>5, <2>6
<1>10. CASE Pulse!Cork
  <2> USE <1>10 DEF Pulse!Cork
  <2>1. ClientInv' /\ Moves
    BY ClientMoves, DataMoves, ReportMoves, LibertiesTaken DEF PulseFields, PulseRuns
  <2>2. PulseFields'
    BY DEF PulseFields
  <2>3. PulseEvents'
    BY DEF PulseFields, PulseEvents, PulseRuns
  <2>4. PulseRuns'
    BY DEF PulseFields, PulseRuns, PulseHolds
  <2>5. PulseHolds'
    BY DEF PulseFields, PulseRuns, PulseHolds
  <2>6. Played
    BY LibertiesTaken DEF Played
  <2> QED  BY <2>1, <2>2, <2>3, <2>4, <2>5, <2>6
<1>11. CASE Pulse!NotifyStopped
  <2> USE <1>11 DEF Pulse!NotifyStopped
  <2>1. ClientInv' /\ Moves
    BY ClientMoves, DataMoves, ReportMoves, LibertiesTaken DEF PulseFields, PulseRuns
  <2>2. PulseFields'
    BY DEF PulseFields
  <2>3. PulseEvents'
    BY DEF PulseFields, PulseEvents, PulseRuns
  <2>4. PulseRuns'
    BY DEF PulseFields, PulseRuns, PulseHolds
  <2>5. PulseHolds'
    BY DEF PulseFields, PulseRuns, PulseHolds
  <2>6. Played
    BY LibertiesTaken DEF Played
  <2> QED  BY <2>1, <2>2, <2>3, <2>4, <2>5, <2>6
<1>12. CASE Pulse!stream_write_callback
  <2> USE <1>12 DEF Pulse!stream_write_callback, Pulse!trigger_user_callback, Pulse!CallData, Pulse!Buf
  <2>1. pc'.thread = "data" => phase = "started" /\ calling' = 1
    BY DEF PulseFields, PulseRuns, PulseHolds
  <2>2. ClientInv' /\ Moves
    BY <2>1, ClientMoves, DataMoves, ReportMoves, LibertiesTaken DEF PulseFields, PulseRuns
  <2>3. PulseFields'
    BY <2>1 DEF PulseFields
  <2>4. PulseEvents'
    BY <2>1 DEF PulseFields, PulseEvents, PulseRuns
  <2>5. PulseRuns'
    BY <2>1 DEF PulseFields, PulseRuns, PulseHolds
  <2>6. PulseHolds'
    BY <2>1 DEF PulseFields, PulseRuns, PulseHolds
  <2>7. Played
    BY <2>1, LibertiesTaken DEF Played
  <2> QED  BY <2>2, <2>3, <2>4, <2>5, <2>6, <2>7
<1>13. CASE Pulse!stream_read_callback
  <2> USE <1>13 DEF Pulse!stream_read_callback, Pulse!trigger_user_callback, Pulse!CallData, Pulse!Buf
  <2>1. pc'.thread = "data" => phase = "started" /\ calling' = 1
    BY DEF PulseFields, PulseRuns, PulseHolds
  <2>2. ClientInv' /\ Moves
    BY <2>1, ClientMoves, DataMoves, ReportMoves, LibertiesTaken DEF PulseFields, PulseRuns
  <2>3. PulseFields'
    BY <2>1 DEF PulseFields
  <2>4. PulseEvents'
    BY <2>1 DEF PulseFields, PulseEvents, PulseRuns
  <2>5. PulseRuns'
    BY <2>1 DEF PulseFields, PulseRuns, PulseHolds
  <2>6. PulseHolds'
    BY <2>1 DEF PulseFields, PulseRuns, PulseHolds
  <2>7. Played
    BY <2>1, LibertiesTaken DEF Played
  <2> QED  BY <2>2, <2>3, <2>4, <2>5, <2>6, <2>7
<1>14. CASE Pulse!pulse_defer_event_cb
  <2> USE <1>14 DEF Pulse!pulse_defer_event_cb, Pulse!trigger_user_callback, Pulse!CallData, Pulse!Buf
  <2>1. pc'.thread = "data" => phase = "started" /\ calling' = 1
    BY DEF PulseFields, PulseRuns, PulseHolds
  <2>2. ClientInv' /\ Moves
    BY <2>1, ClientMoves, DataMoves, ReportMoves, LibertiesTaken DEF PulseFields, PulseRuns
  <2>3. PulseFields'
    BY <2>1 DEF PulseFields
  <2>4. PulseEvents'
    BY <2>1 DEF PulseFields, PulseEvents, PulseRuns
  <2>5. PulseRuns'
    BY <2>1 DEF PulseFields, PulseRuns, PulseHolds
  <2>6. PulseHolds'
    BY <2>1 DEF PulseFields, PulseRuns, PulseHolds
  <2>7. Played
    BY <2>1, LibertiesTaken DEF Played
  <2> QED  BY <2>2, <2>3, <2>4, <2>5, <2>6, <2>7
<1>15. CASE Pulse!Returned
  <2> USE <1>15 DEF Pulse!Returned, Pulse!Answer, Pulse!Results, Pulse!Short
  <2>1. calling' = 0
    BY DEF PulseRuns
  <2>2. "output" \in stm.ends => stm.queued + 1 \in {0, 1, 2}
    BY DEF PulseFields, PulseRuns
  <2>3. ClientInv' /\ Moves
    BY <2>1, <2>2, ClientMoves, DataMoves, ReportMoves, LibertiesTaken DEF PulseFields, PulseRuns
  <2>4. PulseFields'
    BY <2>1, <2>2 DEF PulseFields
  <2>5. PulseEvents'
    BY <2>1, <2>2 DEF PulseFields, PulseEvents, PulseRuns
  <2>6. PulseRuns'
    BY <2>1, <2>2 DEF PulseFields, PulseRuns, PulseHolds
  <2>7. PulseHolds'
    BY <2>1, <2>2 DEF PulseFields, PulseRuns, PulseHolds
  <2>8. Played
    BY <2>1, <2>2, LibertiesTaken DEF Played
  <2> QED  BY <2>3, <2>4, <2>5, <2>6, <2>7, <2>8
<1>16. CASE Pulse!TellError
  <2> USE <1>16 DEF Pulse!TellError, Pulse!Told
  <2>1. ClientInv' /\ Moves
    BY ClientMoves, DataMoves, ReportMoves, LibertiesTaken DEF PulseFields, PulseRuns
  <2>2. PulseFields'
    BY DEF PulseFields
  <2>3. PulseEvents'
    BY DEF PulseFields, PulseEvents, PulseRuns
  <2>4. PulseRuns'
    BY DEF PulseFields, PulseRuns, PulseHolds
  <2>5. PulseHolds'
    BY DEF PulseFields, PulseRuns, PulseHolds
  <2>6. Played
    BY LibertiesTaken DEF Played
  <2> QED  BY <2>1, <2>2, <2>3, <2>4, <2>5, <2>6
<1>17. CASE Pulse!stream_drain_callback
  <2> USE <1>17 DEF Pulse!stream_drain_callback, Pulse!Told
  <2>1. ClientInv' /\ Moves
    BY ClientMoves, DataMoves, ReportMoves, LibertiesTaken DEF PulseFields, PulseRuns
  <2>2. PulseFields'
    BY DEF PulseFields
  <2>3. PulseEvents'
    BY DEF PulseFields, PulseEvents, PulseRuns
  <2>4. PulseRuns'
    BY DEF PulseFields, PulseRuns, PulseHolds
  <2>5. PulseHolds'
    BY DEF PulseFields, PulseRuns, PulseHolds
  <2>6. Played
    BY LibertiesTaken DEF Played
  <2> QED  BY <2>1, <2>2, <2>3, <2>4, <2>5, <2>6
<1>18. CASE Pulse!stream_state_callback
  <2> USE <1>18 DEF Pulse!stream_state_callback, Pulse!Told
  <2>1. phase \in Exists
    BY DEF PulseFields, PulseHolds
  <2>2. PICK e \in stm.ends : stm' = [stm EXCEPT !.failed = @ \cup {e}, !.state = "ERROR"]
    OBVIOUS
  <2>3. stm'.failed = stm.failed \cup {e} /\ stm'.failed # {} /\ stm'.failed \subseteq stm.ends
    BY <2>2 DEF PulseFields
  <2>4. ClientInv' /\ Moves
    BY <2>1, <2>2, <2>3, ClientMoves, DataMoves, ReportMoves, LibertiesTaken DEF PulseFields, PulseRuns
  <2>5. PulseFields'
    BY <2>1, <2>2, <2>3 DEF PulseFields
  <2>6. PulseEvents'
    BY <2>1, <2>2, <2>3 DEF PulseFields, PulseEvents, PulseRuns
  <2>7. PulseRuns'
    BY <2>1, <2>2, <2>3 DEF PulseFields, PulseRuns, PulseHolds
  <2>8. PulseHolds'
    BY <2>1, <2>2, <2>3 DEF PulseFields, PulseRuns, PulseHolds
  <2>9. Played
    BY <2>1, <2>2, <2>3, LibertiesTaken DEF Played
  <2> QED  BY <2>4, <2>5, <2>6, <2>7, <2>8, <2>9
<1>19. CASE Pulse!Device
  <2> USE <1>19 DEF Pulse!Device
  <2>1. stm.queued - 1 \in {0, 1, 2}
    BY DEF PulseFields
  <2>2. ClientInv' /\ Moves
    BY <2>1, ClientMoves, DataMoves, ReportMoves, LibertiesTaken DEF PulseFields, PulseRuns
  <2>3. PulseFields'
    BY <2>1 DEF PulseFields
  <2>4. PulseEvents'
    BY <2>1 DEF PulseFields, PulseEvents, PulseRuns
  <2>5. PulseRuns'
    BY <2>1 DEF PulseFields, PulseRuns, PulseHolds
  <2>6. PulseHolds'
    BY <2>1 DEF PulseFields, PulseRuns, PulseHolds
  <2>7. Played
    BY <2>1, LibertiesTaken DEF Played
  <2> QED  BY <2>2, <2>3, <2>4, <2>5, <2>6, <2>7
<1>20. CASE UNCHANGED vars
  <2> USE <1>20 DEF vars
  <2>1. ClientInv' /\ Moves /\ Played
    BY ClientMoves DEF Played
  <2>2. PulseFields'
    BY DEF PulseFields
  <2>3. PulseEvents'
    BY DEF PulseEvents
  <2>4. PulseRuns'
    BY DEF PulseRuns
  <2>5. PulseHolds'
    BY DEF PulseHolds
  <2> QED  BY <2>1, <2>2, <2>3, <2>4, <2>5
<1> QED  BY <1>1, <1>2, <1>3, <1>4, <1>5, <1>6, <1>7, <1>8, <1>9, <1>10, <1>11, <1>12, <1>13, <1>14, <1>15,
            <1>16, <1>17, <1>18, <1>19, <1>20 DEF Pulse!Calls, Pulse!Client, Pulse!Thread

\* The invariant implies what is promised of the state.
LEMMA PulsePromises ==
  ASSUME ClientInv, PulseInv, backend = "pulse"
  PROVE  Pulse!TypeOK /\ NothingLeaks /\ NothingUndefined
<1> USE DEF PulseInv, PulseFields, PulseEvents, PulseRuns, PulseHolds, Asks, Holds, Absent, Bare, Running,
            Exists
<1>1. Pulse!TypeOK
  <2>1. stm.held \subseteq Pulse!All(Pulse!Opened) \cup Pulse!All(Pulse!Wants)
    BY PulseSets
  <2>2. stm.deferred \in 0..MaxStarts
    <3>1. /\ starts \in 0..MaxStarts /\ stm.deferred \in Nat /\ MaxStarts \in Nat
          /\ stm.deferred <= starts \/ stm.deferred + 1 <= starts
      BY MaxStartsAssumption
    <3> QED  BY ONLY <3>1
  <2> QED  BY <2>1, <2>2 DEF Pulse!TypeOK, Pulse!Ends, Pulse!Buf
<1>2. NothingLeaks
  BY LibertiesTaken DEF NothingLeaks
<1>3. NothingUndefined
  BY LibertiesTaken DEF NothingUndefined, ClientInv
<1> QED  BY <1>1, <1>2, <1>3

-----------------------------------------------------------------------------
(* OpenSL ES: the callbacks of the player and the recorder, and the end told by a marker. *)

OpenSLFields ==
  /\ stm = [ends |-> stm.ends, playing |-> stm.playing, recording |-> stm.recording,
            shutdown |-> stm.shutdown, draining |-> stm.draining, written |-> stm.written,
            silence |-> stm.silence, marker |-> stm.marker, enqueued |-> stm.enqueued,
            input_queue |-> stm.input_queue, queued |-> stm.queued, held |-> stm.held]
  /\ stm.ends \subseteq {"output", "input"} /\ stm.queued \in {0, 1} /\ stm.input_queue \in {0, 1}
  /\ stm.held \subseteq OpenSL!All(OpenSL!Opened) \cup OpenSL!All(OpenSL!Wants)

\* The callbacks run while there is a stream.
OpenSLRuns ==
  /\ Asks /\ pc.client \in {"idle", "failed", "destroy", "undefined"}
  /\ pc.thread # "none" \/ stm.playing \/ stm.recording => phase \in Exists
  /\ pc.client \in {"destroy", "undefined"} => phase \in {"stopped", "drained", "error"}

OpenSLInv == OpenSLFields /\ OpenSLRuns

\* Which resources a stream acquires depends on its ends only.
LEMMA OpenSLSame ==
  /\ OpenSL!All(OpenSL!Opened)' = OpenSL!All(OpenSL!Opened)
  /\ stm'.ends = stm.ends => OpenSL!All(OpenSL!Wants)' = OpenSL!All(OpenSL!Wants)
BY DEF OpenSL!All, OpenSL!Opened, OpenSL!Wants, OpenSL!opensl_configure_playback,
   OpenSL!opensl_configure_capture, OpenSL!Of, OpenSL!Plays, OpenSL!Records

\* What the inits acquire, and what is left of it when they fail.
LEMMA OpenSLSets ==
  /\ OpenSL!All(OpenSL!Opened)' = OpenSL!All(OpenSL!Opened)
  /\ stm'.ends = stm.ends => OpenSL!All(OpenSL!Wants)' = OpenSL!All(OpenSL!Wants)
  /\ \A left \in OpenSL!Left(OpenSL!Opened, OpenSL!All(OpenSL!Opened)) : left = {}
  /\ \A left \in OpenSL!Left(OpenSL!Wants, OpenSL!Freed) : left \subseteq OpenSL!All(OpenSL!Wants)
<1>1. OpenSL!Opened \in Seq(Names)
  BY DEF OpenSL!Opened, Names
<1>2. OpenSL!Wants \in Seq(Names)
  <2> DEFINE s == <<"stm", "params">>
             p == OpenSL!opensl_configure_playback
             r == OpenSL!opensl_configure_capture
             e == <<"resampler">>
  <2>1. s \in Seq(Names) /\ e \in Seq(Names)
    BY DEF Names
  <2>a. <<"queuebuf", "playerObj">> \in Seq(Names) /\ <<"recorderObj", "input_buffer_array">> \in Seq(Names)
          /\ <<>> \in Seq(Names)
    BY DEF Names
  <2>2. p \in Seq(Names)
    BY <2>a, Zenon DEF OpenSL!opensl_configure_playback, OpenSL!Of
  <2>3. r \in Seq(Names)
    BY <2>a, Zenon DEF OpenSL!opensl_configure_capture, OpenSL!Of
  <2>4. OpenSL!Wants = ((s \o p) \o r) \o e
    BY DEF OpenSL!Wants
  <2> HIDE DEF s, p, r, e
  <2> QED  BY <2>1, <2>2, <2>3, <2>4, AllJoins, Zenon
<1>3. \A left \in Left(OpenSL!Opened, OpenSL!All(OpenSL!Opened)) :
      left \subseteq All(OpenSL!Opened) \ OpenSL!All(OpenSL!Opened)
  BY <1>1, LeftOfAll
<1>4. \A left \in Left(OpenSL!Wants, OpenSL!Freed) : left \subseteq All(OpenSL!Wants)
  BY <1>2, LeftOfAll
<1> QED  BY <1>3, <1>4, OpenSLSame DEF All, Left, OpenSL!All, OpenSL!Left

\* The invariant holds of a context that is not open.
LEMMA OpenSLFirst ==
  Fresh /\ backend = "opensl" => OpenSLInv
<1> SUFFICES ASSUME Fresh, backend = "opensl"
              PROVE  OpenSLInv
  OBVIOUS
<1> USE DEF Fresh, Streams, AtRest, OpenSL!Streams, OpenSL!Closed, OpenSL!Ends, Asks, Absent, Bare, Running,
            Exists
<1>1. OpenSLFields
  BY DEF OpenSLFields
<1>2. OpenSLRuns
  BY DEF OpenSLRuns
<1> QED  BY <1>1, <1>2 DEF OpenSLInv

\* Every step keeps the invariant, and to the contract but for the liberties.
LEMMA OpenSLSteps ==
  ASSUME ClientInv, OpenSLInv, backend = "opensl", OpenSL!Calls \/ OpenSL!Client \/ OpenSL!Thread \/
         OpenSL!Device \/ UNCHANGED vars
  PROVE  ClientInv' /\ OpenSLInv' /\ Moves /\ Played
<1> USE DEF ClientInv, OpenSLInv, Asks, Absent, Bare, Running, Exists, Phases, OpenSL!Goto, OpenSL!Become,
            OpenSL!user, OpenSL!Idle, OpenSL!Plays, OpenSL!Records
<1>1. CASE OpenSL!opensl_init
  <2> USE <1>1 DEF OpenSL!opensl_init, OpenSL!Opens, OpenSL!MayOpen, OpenSL!Acquire, OpenSL!Fails
  <2>1. ClientInv' /\ Moves
    BY OpenSLSets, ClientMoves, DataMoves, ReportMoves, LibertiesTaken DEF OpenSLFields, OpenSLRuns
  <2>2. OpenSLFields'
    BY OpenSLSets DEF OpenSLFields
  <2>3. OpenSLRuns'
    BY OpenSLSets DEF OpenSLFields, OpenSLRuns
  <2>4. Played
    BY LibertiesTaken DEF Played
  <2> QED  BY <2>1, <2>2, <2>3, <2>4
<1>2. CASE OpenSL!opensl_destroy
  <2> USE <1>2 DEF OpenSL!opensl_destroy, OpenSL!Closes, OpenSL!MayClose, OpenSL!Release
  <2>1. ClientInv' /\ Moves
    BY OpenSLSame, ClientMoves, DataMoves, ReportMoves, LibertiesTaken DEF OpenSLFields, OpenSLRuns
  <2>2. OpenSLFields'
    BY OpenSLSame DEF OpenSLFields
  <2>3. OpenSLRuns'
    BY OpenSLSame DEF OpenSLFields, OpenSLRuns
  <2>4. Played
    BY LibertiesTaken DEF Played
  <2> QED  BY <2>1, <2>2, <2>3, <2>4
<1>3. CASE OpenSL!opensl_stream_init
  <2> USE <1>3 DEF OpenSL!opensl_stream_init, OpenSL!MayInit
  <2>1. \/ UNCHANGED stm
        \/ stm' = [stm EXCEPT !.enqueued = ("output" \in stm.ends), !.held = @ \cup OpenSL!All(OpenSL!Wants)]
        \/ \E h \in SUBSET OpenSL!All(OpenSL!Wants) : stm' = [stm EXCEPT !.held = @ \cup h]
    BY OpenSLSets
  <2>2. ClientInv' /\ Moves
    BY <2>1, OpenSLSets, ClientMoves, DataMoves, ReportMoves, LibertiesTaken DEF OpenSLFields, OpenSLRuns
  <2>3. OpenSLFields'
    <3>1. CASE UNCHANGED stm
      BY <3>1, OpenSLSame DEF OpenSLFields
    <3>2. ASSUME NEW h \in SUBSET OpenSL!All(OpenSL!Wants), stm' = [stm EXCEPT !.held = @ \cup h]
          PROVE  OpenSLFields'
      <4>1. stm'.ends = stm.ends /\ stm'.held = stm.held \cup h
        BY <3>2 DEF OpenSLFields
      <4>2. OpenSL!All(OpenSL!Opened)' = OpenSL!All(OpenSL!Opened) /\
            OpenSL!All(OpenSL!Wants)' = OpenSL!All(OpenSL!Wants)
        BY <4>1, OpenSLSame
      <4>3. stm'.held \subseteq OpenSL!All(OpenSL!Opened) \cup OpenSL!All(OpenSL!Wants)
        BY <4>1 DEF OpenSLFields
      <4> QED  BY <3>2, <4>2, <4>3 DEF OpenSLFields
    <3>3. CASE stm' = [stm EXCEPT !.enqueued = ("output" \in stm.ends),
          !.held = @ \cup OpenSL!All(OpenSL!Wants)]
      <4> DEFINE h == OpenSL!All(OpenSL!Wants)
      <4>1. stm'.ends = stm.ends /\ stm'.held = stm.held \cup h
        BY <3>3 DEF OpenSLFields
      <4>2. OpenSL!All(OpenSL!Opened)' = OpenSL!All(OpenSL!Opened) /\
            OpenSL!All(OpenSL!Wants)' = OpenSL!All(OpenSL!Wants)
        BY <4>1, OpenSLSame
      <4>3. stm'.held \subseteq OpenSL!All(OpenSL!Opened) \cup OpenSL!All(OpenSL!Wants)
        BY <4>1 DEF OpenSLFields
      <4> QED  BY <3>3, <4>2, <4>3 DEF OpenSLFields
    <3> QED  BY <2>1, <3>1, <3>2, <3>3
  <2>4. OpenSLRuns'
    BY <2>1, OpenSLSets DEF OpenSLFields, OpenSLRuns
  <2>5. Played
    BY <2>1, LibertiesTaken DEF Played
  <2> QED  BY <2>2, <2>3, <2>4, <2>5
<1>4. CASE OpenSL!opensl_stream_start
  <2> USE <1>4 DEF OpenSL!opensl_stream_start, OpenSL!MayStart, OpenSL!Begins
  <2>1. ClientInv' /\ Moves
    BY OpenSLSame, ClientMoves, DataMoves, ReportMoves, LibertiesTaken DEF OpenSLFields, OpenSLRuns
  <2>2. OpenSLFields'
    BY OpenSLSame DEF OpenSLFields
  <2>3. OpenSLRuns'
    BY OpenSLSame DEF OpenSLFields, OpenSLRuns
  <2>4. Played
    BY LibertiesTaken DEF Played
  <2> QED  BY <2>1, <2>2, <2>3, <2>4
<1>5. CASE OpenSL!opensl_stream_stop
  <2> USE <1>5 DEF OpenSL!opensl_stream_stop, OpenSL!MayStop
  <2>1. ClientInv' /\ Moves
    BY OpenSLSame, ClientMoves, DataMoves, ReportMoves, LibertiesTaken DEF OpenSLFields, OpenSLRuns
  <2>2. OpenSLFields'
    BY OpenSLSame DEF OpenSLFields
  <2>3. OpenSLRuns'
    BY OpenSLSame DEF OpenSLFields, OpenSLRuns
  <2>4. Played
    BY LibertiesTaken DEF Played
  <2> QED  BY <2>1, <2>2, <2>3, <2>4
<1>6. CASE OpenSL!opensl_stream_destroy
  <2> USE <1>6 DEF OpenSL!opensl_stream_destroy, OpenSL!MayDestroy
  <2>1. ClientInv' /\ Moves
    BY OpenSLSame, ClientMoves, DataMoves, ReportMoves, LibertiesTaken DEF OpenSLFields, OpenSLRuns
  <2>2. OpenSLFields'
    BY OpenSLSame DEF OpenSLFields
  <2>3. OpenSLRuns'
    BY OpenSLSame DEF OpenSLFields, OpenSLRuns
  <2>4. Played
    BY LibertiesTaken DEF Played
  <2> QED  BY <2>1, <2>2, <2>3, <2>4
<1>7. CASE OpenSL!Destroyed
  <2> USE <1>7 DEF OpenSL!Destroyed
  <2>1. ClientInv' /\ Moves
    BY OpenSLSame, ClientMoves, DataMoves, ReportMoves, LibertiesTaken DEF OpenSLFields, OpenSLRuns
  <2>2. OpenSLFields'
    BY OpenSLSame DEF OpenSLFields
  <2>3. OpenSLRuns'
    BY OpenSLSame DEF OpenSLFields, OpenSLRuns
  <2>4. Played
    BY LibertiesTaken DEF Played
  <2> QED  BY <2>1, <2>2, <2>3, <2>4
<1>8. CASE OpenSL!BufferDone
  <2> USE <1>8 DEF OpenSL!BufferDone
  <2>1. ClientInv' /\ Moves
    BY OpenSLSame, ClientMoves, DataMoves, ReportMoves, LibertiesTaken DEF OpenSLFields, OpenSLRuns
  <2>2. OpenSLFields'
    BY OpenSLSame DEF OpenSLFields
  <2>3. OpenSLRuns'
    BY OpenSLSame DEF OpenSLFields, OpenSLRuns
  <2>4. Played
    BY LibertiesTaken DEF Played
  <2> QED  BY <2>1, <2>2, <2>3, <2>4
<1>9. CASE OpenSL!Flags
  <2> USE <1>9 DEF OpenSL!Flags, OpenSL!Duplex
  <2>1. stm.input_queue > 0 => stm.input_queue - 1 \in {0, 1}
    BY DEF OpenSLFields
  <2>2. ClientInv' /\ Moves
    BY <2>1, OpenSLSame, ClientMoves, DataMoves, ReportMoves, LibertiesTaken DEF OpenSLFields, OpenSLRuns
  <2>3. OpenSLFields'
    BY <2>1, OpenSLSame DEF OpenSLFields
  <2>4. OpenSLRuns'
    BY <2>1, OpenSLSame DEF OpenSLFields, OpenSLRuns
  <2>5. Played
    BY <2>1, LibertiesTaken DEF Played
  <2> QED  BY <2>2, <2>3, <2>4, <2>5
<1>10. CASE OpenSL!Silent
  <2> USE <1>10 DEF OpenSL!Silent
  <2>1. ClientInv' /\ Moves
    BY OpenSLSame, ClientMoves, DataMoves, ReportMoves, LibertiesTaken DEF OpenSLFields, OpenSLRuns
  <2>2. OpenSLFields'
    BY OpenSLSame DEF OpenSLFields
  <2>3. OpenSLRuns'
    BY OpenSLSame DEF OpenSLFields, OpenSLRuns
  <2>4. Played
    BY LibertiesTaken DEF Played
  <2> QED  BY <2>1, <2>2, <2>3, <2>4
<1>11. CASE OpenSL!Fill
  <2> USE <1>11 DEF OpenSL!Fill, OpenSL!CallData
  <2>1. calling' = 1
    BY DEF OpenSLRuns
  <2>2. ClientInv' /\ Moves
    BY <2>1, OpenSLSame, ClientMoves, DataMoves, ReportMoves, LibertiesTaken DEF OpenSLFields, OpenSLRuns
  <2>3. OpenSLFields'
    BY <2>1, OpenSLSame DEF OpenSLFields
  <2>4. OpenSLRuns'
    BY <2>1, OpenSLSame DEF OpenSLFields, OpenSLRuns
  <2>5. Played
    BY <2>1, LibertiesTaken DEF Played
  <2> QED  BY <2>2, <2>3, <2>4, <2>5
<1>12. CASE OpenSL!Returned
  <2> USE <1>12 DEF OpenSL!Returned, OpenSL!Answer, OpenSL!Results, OpenSL!Short
  <2>1. calling' = 0
    BY DEF OpenSLRuns
  <2>2. ClientInv' /\ Moves
    BY <2>1, OpenSLSame, ClientMoves, DataMoves, ReportMoves, LibertiesTaken DEF OpenSLFields, OpenSLRuns
  <2>3. OpenSLFields'
    BY <2>1, OpenSLSame DEF OpenSLFields
  <2>4. OpenSLRuns'
    BY <2>1, OpenSLSame DEF OpenSLFields, OpenSLRuns
  <2>5. Played
    BY <2>1, LibertiesTaken DEF Played
  <2> QED  BY <2>2, <2>3, <2>4, <2>5
<1>13. CASE OpenSL!Halt
  <2> USE <1>13 DEF OpenSL!Halt, OpenSL!Halted, OpenSL!Asserted
  <2>1. ClientInv' /\ Moves
    BY OpenSLSame, ClientMoves, DataMoves, ReportMoves, LibertiesTaken DEF OpenSLFields, OpenSLRuns
  <2>2. OpenSLFields'
    BY OpenSLSame DEF OpenSLFields
  <2>3. OpenSLRuns'
    BY OpenSLSame DEF OpenSLFields, OpenSLRuns
  <2>4. Played
    BY LibertiesTaken DEF Played
  <2> QED  BY <2>1, <2>2, <2>3, <2>4
<1>14. CASE OpenSL!TellError
  <2> USE <1>14 DEF OpenSL!TellError, OpenSL!Told, OpenSL!Duplex
  <2>1. ClientInv' /\ Moves
    BY OpenSLSame, ClientMoves, DataMoves, ReportMoves, LibertiesTaken DEF OpenSLFields, OpenSLRuns
  <2>2. OpenSLFields'
    BY OpenSLSame DEF OpenSLFields
  <2>3. OpenSLRuns'
    BY OpenSLSame DEF OpenSLFields, OpenSLRuns
  <2>4. Played
    BY LibertiesTaken DEF Played
  <2> QED  BY <2>1, <2>2, <2>3, <2>4
<1>15. CASE OpenSL!Marker
  <2> USE <1>15 DEF OpenSL!Marker
  <2>1. ClientInv' /\ Moves
    BY OpenSLSame, ClientMoves, DataMoves, ReportMoves, LibertiesTaken DEF OpenSLFields, OpenSLRuns
  <2>2. OpenSLFields'
    BY OpenSLSame DEF OpenSLFields
  <2>3. OpenSLRuns'
    BY OpenSLSame DEF OpenSLFields, OpenSLRuns
  <2>4. Played
    BY LibertiesTaken DEF Played
  <2> QED  BY <2>1, <2>2, <2>3, <2>4
<1>16. CASE OpenSL!opensl_notify_drained
  <2> USE <1>16 DEF OpenSL!opensl_notify_drained, OpenSL!Told
  <2>1. ClientInv' /\ Moves
    BY OpenSLSame, ClientMoves, DataMoves, ReportMoves, LibertiesTaken DEF OpenSLFields, OpenSLRuns
  <2>2. OpenSLFields'
    BY OpenSLSame DEF OpenSLFields
  <2>3. OpenSLRuns'
    BY OpenSLSame DEF OpenSLFields, OpenSLRuns
  <2>4. Played
    BY LibertiesTaken DEF Played
  <2> QED  BY <2>1, <2>2, <2>3, <2>4
<1>17. CASE OpenSL!StopsItself
  <2> USE <1>17 DEF OpenSL!StopsItself, OpenSL!Halted, OpenSL!Asserted
  <2>1. ClientInv' /\ Moves
    BY OpenSLSame, ClientMoves, DataMoves, ReportMoves, LibertiesTaken DEF OpenSLFields, OpenSLRuns
  <2>2. OpenSLFields'
    BY OpenSLSame DEF OpenSLFields
  <2>3. OpenSLRuns'
    BY OpenSLSame DEF OpenSLFields, OpenSLRuns
  <2>4. Played
    BY LibertiesTaken DEF Played
  <2> QED  BY <2>1, <2>2, <2>3, <2>4
<1>18. CASE OpenSL!recorder_fullduplex_callback
  <2> USE <1>18 DEF OpenSL!recorder_fullduplex_callback, OpenSL!Duplex
  <2>1. ClientInv' /\ Moves
    BY OpenSLSame, ClientMoves, DataMoves, ReportMoves, LibertiesTaken DEF OpenSLFields, OpenSLRuns
  <2>2. OpenSLFields'
    BY OpenSLSame DEF OpenSLFields
  <2>3. OpenSLRuns'
    BY OpenSLSame DEF OpenSLFields, OpenSLRuns
  <2>4. Played
    BY LibertiesTaken DEF Played
  <2> QED  BY <2>1, <2>2, <2>3, <2>4
<1>19. CASE UNCHANGED vars
  <2> USE <1>19 DEF vars
  <2>1. ClientInv' /\ Moves /\ Played
    BY ClientMoves DEF Played
  <2>2. OpenSLFields'
    BY OpenSLSame DEF OpenSLFields
  <2>3. OpenSLRuns'
    BY OpenSLSame DEF OpenSLRuns
  <2> QED  BY <2>1, <2>2, <2>3
<1> QED  BY <1>1, <1>2, <1>3, <1>4, <1>5, <1>6, <1>7, <1>8, <1>9, <1>10, <1>11, <1>12, <1>13, <1>14, <1>15,
            <1>16, <1>17, <1>18, <1>19 DEF OpenSL!Calls, OpenSL!Client, OpenSL!Thread, OpenSL!Device

\* The invariant implies what is promised of the state.
LEMMA OpenSLPromises ==
  ASSUME ClientInv, OpenSLInv, backend = "opensl"
  PROVE  OpenSL!TypeOK /\ NothingLeaks /\ NothingUndefined
<1> USE DEF OpenSLInv, OpenSLFields, OpenSLRuns, Asks, Absent, Bare, Running, Exists
<1>1. OpenSL!TypeOK
  BY DEF OpenSL!TypeOK, OpenSL!Ends
<1>2. NothingLeaks
  BY LibertiesTaken DEF NothingLeaks
<1>3. NothingUndefined
  BY LibertiesTaken DEF NothingUndefined, ClientInv
<1> QED  BY <1>1, <1>2, <1>3

-----------------------------------------------------------------------------
(* WASAPI: the render thread lives from the init of the stream to its destroy. *)

WasapiFields ==
  /\ stm = [ends |-> stm.ends, pinned |-> stm.pinned, active |-> stm.active, running |-> stm.running,
            draining |-> stm.draining, clients |-> stm.clients, failed |-> stm.failed,
            device |-> stm.device, shutdown_event |-> stm.shutdown_event,
            reconfigure_event |-> stm.reconfigure_event, refill_event |-> stm.refill_event,
            follows |-> stm.follows, padding |-> stm.padding, queued |-> stm.queued, held |-> stm.held]
  /\ stm.ends \subseteq {"output", "input"} /\ stm.clients \subseteq stm.ends
  /\ stm.padding \in {0, 1} /\ stm.queued \in {0, 1} /\ (stm.padding = 1 => stm.queued = 1)
  /\ stm.held \subseteq {"ctx", "device_ids", "stm", "reconfigure", "refill", "input_available", "shutdown",
     "mmcss",
                   "thread_ready", "clients", "thread"}

\* The render thread is there as long as the stream.
WasapiRuns ==
  /\ Asks /\ pc.client \in {"idle", "failed", "join", "undefined"}
  /\ pc.thread \in {"none", "wait", "data", "DRAINED", "ERROR", "leave", "failed", "ended"}
  /\ pc.thread = "none" <=> phase \notin Exists
  /\ pc.client = "join" => phase \in {"stopped", "drained", "error"}
  /\ pc.thread = "wait" => phase \in {"stopped", "started"} \/ (phase = "draining" /\ stm.draining)
  /\ pc.thread = "data" => phase \in {"stopped", "started"}

WasapiInv == WasapiFields /\ WasapiRuns

\* What the inits acquire, and what is left of it when they fail.
LEMMA WasapiSets ==
  /\ Wasapi!All(Wasapi!Opened) = {"ctx", "device_ids"}
  /\ Wasapi!All(Wasapi!Wants) = {"stm", "reconfigure", "refill", "input_available", "shutdown", "mmcss",
                                 "thread_ready", "clients", "thread"}
  /\ Wasapi!Freed \subseteq Wasapi!All(Wasapi!Wants)
  /\ \A left \in Wasapi!Left(Wasapi!Wants, Wasapi!Freed) : left \subseteq Wasapi!All(Wasapi!Wants)
<1>1. Wasapi!Wants \in Seq(Names)
  BY DEF Wasapi!Wants, Names
<1>2. \A left \in Left(Wasapi!Wants, Wasapi!Freed) : left \subseteq All(Wasapi!Wants)
  BY <1>1, LeftOfAll
<1>3. Wasapi!All(Wasapi!Opened) = {"ctx", "device_ids"}
  BY DEF Wasapi!All, Wasapi!Opened
<1>4. Wasapi!All(Wasapi!Wants) = {"stm", "reconfigure", "refill", "input_available", "shutdown", "mmcss",
                                 "thread_ready", "clients", "thread"}
  BY DEF Wasapi!All, Wasapi!Wants
<1> QED  BY <1>2, <1>3, <1>4 DEF All, Left, Wasapi!All, Wasapi!Left, Wasapi!Freed

\* The invariant holds of a context that is not open.
LEMMA WasapiFirst ==
  Fresh /\ backend = "wasapi" => WasapiInv
<1> SUFFICES ASSUME Fresh, backend = "wasapi"
              PROVE  WasapiInv
  OBVIOUS
<1>a. stm \in Wasapi!Streams
  BY DEF Fresh, Streams
<1>b. PICK p \in BOOLEAN : stm \in { [Wasapi!Closed EXCEPT !.ends = e, !.pinned = p] :
      e \in (SUBSET Wasapi!Ends) \ {{}} }
  BY <1>a DEF Wasapi!Streams
<1>c. PICK e \in (SUBSET Wasapi!Ends) \ {{}} : stm = [Wasapi!Closed EXCEPT !.ends = e, !.pinned = p]
  BY <1>b
<1> USE DEF Fresh, AtRest, Wasapi!Closed, Wasapi!Ends, Asks, Absent, Bare, Running, Exists
<1>1. WasapiFields
  BY <1>c DEF WasapiFields
<1>2. WasapiRuns
  BY <1>c DEF WasapiRuns
<1> QED  BY <1>1, <1>2 DEF WasapiInv

\* Every step keeps the invariant, and to the contract but for the liberties.
LEMMA WasapiSteps ==
  ASSUME ClientInv, WasapiInv, backend = "wasapi", Wasapi!Calls \/ Wasapi!Client \/ Wasapi!Thread \/
         Wasapi!Device \/ Wasapi!OnDefaultDeviceChanged \/ UNCHANGED vars
  PROVE  ClientInv' /\ WasapiInv' /\ Moves /\ Played
<1> USE DEF ClientInv, WasapiInv, Asks, Absent, Bare, Running, Exists, Phases, Wasapi!Goto, Wasapi!Become,
            Wasapi!user, Wasapi!Idle, Wasapi!Plays
<1>1. CASE Wasapi!wasapi_init
  <2> USE <1>1 DEF Wasapi!wasapi_init, Wasapi!MayOpen, Wasapi!Acquire
  <2>1. ClientInv' /\ Moves
    BY WasapiSets, ClientMoves, DataMoves, ReportMoves, LibertiesTaken DEF WasapiFields, WasapiRuns
  <2>2. WasapiFields'
    BY WasapiSets DEF WasapiFields
  <2>3. WasapiRuns'
    BY WasapiSets DEF WasapiFields, WasapiRuns
  <2>4. Played
    BY LibertiesTaken DEF Played
  <2> QED  BY <2>1, <2>2, <2>3, <2>4
<1>2. CASE Wasapi!wasapi_destroy
  <2> USE <1>2 DEF Wasapi!wasapi_destroy, Wasapi!Closes, Wasapi!MayClose, Wasapi!Release
  <2>1. ClientInv' /\ Moves
    BY ClientMoves, DataMoves, ReportMoves, LibertiesTaken DEF WasapiFields, WasapiRuns
  <2>2. WasapiFields'
    BY DEF WasapiFields
  <2>3. WasapiRuns'
    BY DEF WasapiFields, WasapiRuns
  <2>4. Played
    BY LibertiesTaken DEF Played
  <2> QED  BY <2>1, <2>2, <2>3, <2>4
<1>3. CASE Wasapi!wasapi_stream_init
  <2> USE <1>3 DEF Wasapi!wasapi_stream_init, Wasapi!MayInit, Wasapi!Fails
  <2>1. ClientInv' /\ Moves
    BY WasapiSets, ClientMoves, DataMoves, ReportMoves, LibertiesTaken DEF WasapiFields, WasapiRuns
  <2>2. WasapiFields'
    <3>1. CASE stm' = [stm EXCEPT !.clients = stm.ends, !.held = @ \cup Wasapi!Freed]
      BY <3>1, WasapiSets DEF WasapiFields
    <3>2. ASSUME NEW left \in Wasapi!Left(Wasapi!Wants, Wasapi!Freed), stm' = [stm EXCEPT !.held = @ \cup left]
          PROVE  WasapiFields'
      <4>1. left \subseteq Wasapi!All(Wasapi!Wants)
        BY WasapiSets
      <4> QED  BY <3>2, <4>1, WasapiSets DEF WasapiFields
    <3> QED  BY <3>1, <3>2
  <2>3. WasapiRuns'
    BY WasapiSets DEF WasapiFields, WasapiRuns
  <2>4. Played
    BY LibertiesTaken DEF Played
  <2> QED  BY <2>1, <2>2, <2>3, <2>4
<1>4. CASE Wasapi!wasapi_stream_start
  <2> USE <1>4 DEF Wasapi!wasapi_stream_start, Wasapi!MayStart, Wasapi!Begins
  <2>1. ClientInv' /\ Moves
    BY ClientMoves, DataMoves, ReportMoves, LibertiesTaken DEF WasapiFields, WasapiRuns
  <2>2. WasapiFields'
    <3>1. CASE UNCHANGED stm
      BY <3>1 DEF WasapiFields
    <3>2. CASE stm' = [stm EXCEPT !.active = TRUE, !.running = (stm.device # "invalid"),
                                  !.reconfigure_event = @ \/ stm.device = "invalid"]
      BY <3>2 DEF WasapiFields
    <3>3. ASSUME NEW r, stm' = [stm EXCEPT !.running = r]
          PROVE  WasapiFields'
      BY <3>3 DEF WasapiFields
    <3> QED  BY <3>1, <3>2, <3>3
  <2>3. WasapiRuns'
    BY DEF WasapiFields, WasapiRuns
  <2>4. Played
    BY LibertiesTaken DEF Played
  <2> QED  BY <2>1, <2>2, <2>3, <2>4
<1>5. CASE Wasapi!wasapi_stream_stop
  <2> USE <1>5 DEF Wasapi!wasapi_stream_stop, Wasapi!MayStop
  <2>1. ClientInv' /\ Moves
    BY ClientMoves, DataMoves, ReportMoves, LibertiesTaken DEF WasapiFields, WasapiRuns
  <2>2. WasapiFields'
    <3>1. ASSUME NEW a, NEW r, stm' = [stm EXCEPT !.active = a, !.running = r]
          PROVE  WasapiFields'
      BY <3>1 DEF WasapiFields
    <3>2. ASSUME NEW r, stm' = [stm EXCEPT !.running = r]
          PROVE  WasapiFields'
      BY <3>2 DEF WasapiFields
    <3> QED  BY <3>1, <3>2
  <2>3. WasapiRuns'
    BY DEF WasapiFields, WasapiRuns
  <2>4. Played
    BY LibertiesTaken DEF Played
  <2> QED  BY <2>1, <2>2, <2>3, <2>4
<1>6. CASE Wasapi!stop_and_join_render_thread
  <2> USE <1>6 DEF Wasapi!stop_and_join_render_thread, Wasapi!MayDestroy
  <2>1. ClientInv' /\ Moves
    BY ClientMoves, DataMoves, ReportMoves, LibertiesTaken DEF WasapiFields, WasapiRuns
  <2>2. WasapiFields'
    BY DEF WasapiFields
  <2>3. WasapiRuns'
    BY DEF WasapiFields, WasapiRuns
  <2>4. Played
    BY LibertiesTaken DEF Played
  <2> QED  BY <2>1, <2>2, <2>3, <2>4
<1>7. CASE Wasapi!wasapi_stream_release
  <2> USE <1>7 DEF Wasapi!wasapi_stream_release, Wasapi!Closed, Wasapi!AtRest
  <2>1. calling = 0
    BY DEF WasapiRuns
  <2>2. ClientInv' /\ Moves
    BY <2>1, ClientMoves, DataMoves, ReportMoves, LibertiesTaken DEF WasapiFields, WasapiRuns
  <2>3. WasapiFields'
    BY <2>1 DEF WasapiFields
  <2>4. WasapiRuns'
    BY <2>1 DEF WasapiFields, WasapiRuns
  <2>5. Played
    BY <2>1, LibertiesTaken DEF Played
  <2> QED  BY <2>2, <2>3, <2>4, <2>5
<1>8. CASE Wasapi!Shutdown
  <2> USE <1>8 DEF Wasapi!Shutdown
  <2>1. ClientInv' /\ Moves
    BY ClientMoves, DataMoves, ReportMoves, LibertiesTaken DEF WasapiFields, WasapiRuns
  <2>2. WasapiFields'
    BY DEF WasapiFields
  <2>3. WasapiRuns'
    BY DEF WasapiFields, WasapiRuns
  <2>4. Played
    BY LibertiesTaken DEF Played
  <2> QED  BY <2>1, <2>2, <2>3, <2>4
<1>9. CASE Wasapi!Reconfigure
  <2> USE <1>9 DEF Wasapi!Reconfigure
  <2>1. ClientInv' /\ Moves
    BY ClientMoves, DataMoves, ReportMoves, LibertiesTaken DEF WasapiFields, WasapiRuns
  <2>2. WasapiFields'
    <3> DEFINE closed == [stm EXCEPT !.reconfigure_event = FALSE, !.running = FALSE, !.clients = {},
        !.padding = 0]
    <3>1. CASE stm' = [stm EXCEPT !.reconfigure_event = FALSE]
      BY <3>1 DEF WasapiFields
    <3>2. CASE stm' = [closed EXCEPT !.clients = stm.ends, !.running = TRUE, !.follows = TRUE,
                                     !.device = IF @ = "valid" THEN @ ELSE "new"]
      BY <3>2 DEF WasapiFields
    <3>3. ASSUME NEW c \in SUBSET stm.ends, stm' = [closed EXCEPT !.clients = c, !.failed = TRUE]
          PROVE  WasapiFields'
      BY <3>3 DEF WasapiFields
    <3> QED  BY <3>1, <3>2, <3>3
  <2>3. WasapiRuns'
    <3>1. stm'.draining = stm.draining
      <4> DEFINE closed == [stm EXCEPT !.reconfigure_event = FALSE, !.running = FALSE, !.clients = {},
          !.padding = 0]
      <4>1. CASE stm' = [stm EXCEPT !.reconfigure_event = FALSE]
        BY <4>1 DEF WasapiFields
      <4>2. CASE stm' = [closed EXCEPT !.clients = stm.ends, !.running = TRUE, !.follows = TRUE,
                                       !.device = IF @ = "valid" THEN @ ELSE "new"]
        BY <4>2 DEF WasapiFields
      <4>3. ASSUME NEW c \in SUBSET stm.ends, stm' = [closed EXCEPT !.clients = c, !.failed = TRUE]
            PROVE  stm'.draining = stm.draining
        BY <4>3 DEF WasapiFields
      <4> QED  BY <4>1, <4>2, <4>3
    <3>2. UNCHANGED <<phase, calling>> /\ pc.thread = "wait" /\ (UNCHANGED pc \/
          pc' = [pc EXCEPT !.thread = "leave"])
      OBVIOUS
    <3> QED  BY ONLY <3>1, <3>2, ClientInv, WasapiInv
                DEF ClientInv, WasapiInv, WasapiRuns, Asks, Exists, Running
  <2>4. Played
    BY LibertiesTaken DEF Played
  <2> QED  BY <2>1, <2>2, <2>3, <2>4
<1>10. CASE Wasapi!Refill
  <2> USE <1>10 DEF Wasapi!Refill, Wasapi!CallData
  <2>1. calling + 1 = 1
    BY DEF WasapiRuns
  <2>2. ClientInv' /\ Moves
    BY <2>1, ClientMoves, DataMoves, ReportMoves, LibertiesTaken DEF WasapiFields, WasapiRuns
  <2>3. WasapiFields'
    BY <2>1 DEF WasapiFields
  <2>4. WasapiRuns'
    BY <2>1 DEF WasapiFields, WasapiRuns
  <2>5. Played
    BY <2>1, LibertiesTaken DEF Played
  <2> QED  BY <2>2, <2>3, <2>4, <2>5
<1>11. CASE Wasapi!Returned
  <2> USE <1>11 DEF Wasapi!Returned, Wasapi!Answer, Wasapi!Results, Wasapi!Short
  <2>1. calling' = 0
    BY DEF WasapiRuns
  <2>2. ClientInv' /\ Moves
    BY <2>1, ClientMoves, DataMoves, ReportMoves, LibertiesTaken DEF WasapiFields, WasapiRuns
  <2>3. WasapiFields'
    <3>1. PICK r \in Wasapi!Results :
            LET some  == r \in {"all", "some"} /\ "output" \in stm.ends
                wrote == [stm EXCEPT !.draining = @ \/ r \in {"some", "none"},
                                     !.padding = IF some THEN 1 ELSE @,
                                     !.queued  = IF some THEN 1 ELSE @]
            IN  UNCHANGED stm \/ stm' = wrote \/ stm' = [wrote EXCEPT !.padding = 0, !.queued = 0]
      OBVIOUS
    <3> DEFINE d == stm.draining \/ r \in {"some", "none"}
    <3>2. CASE UNCHANGED stm
      BY <3>2 DEF WasapiFields
    <3>3. CASE stm' = [stm EXCEPT !.draining = d, !.padding = 1, !.queued = 1]
      BY <3>3 DEF WasapiFields
    <3>4. CASE stm' = [stm EXCEPT !.draining = d]
      <4> HIDE DEF d
      <4> QED  BY <3>4 DEF WasapiFields
    <3>5. CASE stm' = [stm EXCEPT !.draining = d, !.padding = 0, !.queued = 0]
      BY <3>5 DEF WasapiFields
    <3>6. \A p, q : [[stm EXCEPT !.draining = d, !.padding = p, !.queued = q] EXCEPT !.padding = 0,
          !.queued = 0]
                      = [stm EXCEPT !.draining = d, !.padding = 0, !.queued = 0]
      <4> HIDE DEF d
      <4> QED  BY DEF WasapiFields
    <3>7. [stm EXCEPT !.draining = d, !.padding = @, !.queued = @] = [stm EXCEPT !.draining = d]
      <4> HIDE DEF d
      <4> QED  BY DEF WasapiFields
    <3>8. \/ UNCHANGED stm
          \/ stm' = [stm EXCEPT !.draining = d, !.padding = 1, !.queued = 1]
          \/ stm' = [stm EXCEPT !.draining = d]
          \/ stm' = [stm EXCEPT !.draining = d, !.padding = 0, !.queued = 0]
      <4> HIDE DEF d
      <4>1. CASE r \in {"all", "some"} /\ "output" \in stm.ends
        BY <3>1, <3>6, <4>1 DEF d
      <4>2. CASE ~(r \in {"all", "some"} /\ "output" \in stm.ends)
        BY <3>1, <3>6, <3>7, <4>2 DEF d
      <4> QED  BY <4>1, <4>2
    <3> QED  BY <3>2, <3>3, <3>4, <3>5, <3>8
  <2>4. WasapiRuns'
    BY <2>1 DEF WasapiFields, WasapiRuns
  <2>5. Played
    BY <2>1, LibertiesTaken DEF Played
  <2> QED  BY <2>2, <2>3, <2>4, <2>5
<1>12. CASE Wasapi!Tell
  <2> USE <1>12 DEF Wasapi!Tell, Wasapi!Told
  <2>1. ClientInv' /\ Moves
    BY ClientMoves, DataMoves, ReportMoves, LibertiesTaken DEF WasapiFields, WasapiRuns
  <2>2. WasapiFields'
    BY DEF WasapiFields
  <2>3. WasapiRuns'
    BY DEF WasapiFields, WasapiRuns
  <2>4. Played
    BY LibertiesTaken DEF Played
  <2> QED  BY <2>1, <2>2, <2>3, <2>4
<1>13. CASE Wasapi!StopClients
  <2> USE <1>13 DEF Wasapi!StopClients
  <2>1. ClientInv' /\ Moves
    BY ClientMoves, DataMoves, ReportMoves, LibertiesTaken DEF WasapiFields, WasapiRuns
  <2>2. WasapiFields'
    BY DEF WasapiFields
  <2>3. WasapiRuns'
    BY DEF WasapiFields, WasapiRuns
  <2>4. Played
    BY LibertiesTaken DEF Played
  <2> QED  BY <2>1, <2>2, <2>3, <2>4
<1>14. CASE Wasapi!TellFailed
  <2> USE <1>14 DEF Wasapi!TellFailed, Wasapi!Told
  <2>1. ClientInv' /\ Moves
    BY ClientMoves, DataMoves, ReportMoves, LibertiesTaken DEF WasapiFields, WasapiRuns
  <2>2. WasapiFields'
    BY DEF WasapiFields
  <2>3. WasapiRuns'
    BY DEF WasapiFields, WasapiRuns
  <2>4. Played
    BY LibertiesTaken DEF Played
  <2> QED  BY <2>1, <2>2, <2>3, <2>4
<1>15. CASE Wasapi!Period
  <2> USE <1>15 DEF Wasapi!Period
  <2>1. ClientInv' /\ Moves
    BY ClientMoves, DataMoves, ReportMoves, LibertiesTaken DEF WasapiFields, WasapiRuns
  <2>2. WasapiFields'
    BY DEF WasapiFields
  <2>3. WasapiRuns'
    BY DEF WasapiFields, WasapiRuns
  <2>4. Played
    BY LibertiesTaken DEF Played
  <2> QED  BY <2>1, <2>2, <2>3, <2>4
<1>16. CASE Wasapi!OnDefaultDeviceChanged
  <2> USE <1>16 DEF Wasapi!OnDefaultDeviceChanged
  <2>1. ClientInv' /\ Moves
    BY ClientMoves, DataMoves, ReportMoves, LibertiesTaken DEF WasapiFields, WasapiRuns
  <2>2. WasapiFields'
    BY DEF WasapiFields
  <2>3. WasapiRuns'
    BY DEF WasapiFields, WasapiRuns
  <2>4. Played
    BY LibertiesTaken DEF Played
  <2> QED  BY <2>1, <2>2, <2>3, <2>4
<1>17. CASE UNCHANGED vars
  <2> USE <1>17 DEF vars
  <2>1. ClientInv' /\ Moves /\ Played
    BY ClientMoves DEF Played
  <2>2. WasapiFields'
    BY DEF WasapiFields
  <2>3. WasapiRuns'
    BY DEF WasapiRuns
  <2> QED  BY <2>1, <2>2, <2>3
<1> QED  BY <1>1, <1>2, <1>3, <1>4, <1>5, <1>6, <1>7, <1>8, <1>9, <1>10, <1>11, <1>12, <1>13, <1>14, <1>15,
            <1>16, <1>17 DEF Wasapi!Calls, Wasapi!Client, Wasapi!Thread, Wasapi!Device

\* The invariant implies what is promised of the state.
LEMMA WasapiPromises ==
  ASSUME ClientInv, WasapiInv, backend = "wasapi"
  PROVE  Wasapi!TypeOK /\ NothingLeaks /\ NothingUndefined
<1> USE DEF WasapiInv, WasapiFields, WasapiRuns, Asks, Absent, Bare, Running, Exists
<1>1. Wasapi!TypeOK
  BY WasapiSets DEF Wasapi!TypeOK, Wasapi!Ends
<1>2. NothingLeaks
  BY LibertiesTaken DEF NothingLeaks
<1>3. NothingUndefined
  BY LibertiesTaken DEF NothingUndefined, ClientInv
<1> QED  BY <1>1, <1>2, <1>3

-----------------------------------------------------------------------------
(* AudioUnit: the callback of Core Audio, and the tasks of the serial queue. *)

AudioUnitFields ==
  /\ stm = [ends |-> stm.ends, units |-> stm.units, running |-> stm.running, shutdown |-> stm.shutdown,
            draining |-> stm.draining, reinit_pending |-> stm.reinit_pending,
            switching_device |-> stm.switching_device, destroy_pending |-> stm.destroy_pending,
            listening |-> stm.listening, changes |-> stm.changes, padding |-> stm.padding,
            queued |-> stm.queued, held |-> stm.held]
  /\ stm.units \subseteq stm.ends /\ stm.running \subseteq stm.units
  /\ stm.padding \in {0, 1} /\ stm.queued \in {0, 1} /\ (stm.padding = 1 => stm.queued = 1)
  /\ stm.changes \in {0, 1, 2}
  /\ stm.held \subseteq {"ctx", "serial_queue", "stm", "units", "device_listeners", "system_listeners"}

\* Which units run, and what the serial queue finds of the stream.
AudioUnitRuns ==
  /\ Asks /\ pc.client \in {"idle", "failed", "sync"}
  /\ pc.thread \in {"none", "data", "DRAINED", "ERROR"}
  /\ pc.worker \in {"none", "queued", "setup", "start", "failed", "undefined"}
  /\ stm.shutdown => stm.running = {}
  /\ pc.thread # "none" \/ ~stm.shutdown => phase \in Exists
  /\ pc.client = "sync" => phase \in {"stopped", "error"} /\ pc.thread = "none" /\ stm.shutdown
  /\ pc.worker \in {"setup", "start", "failed"} => phase \in Exists
  /\ pc.worker = "setup" => stm.running = {}
  /\ phase \notin Exists => stm.units = {}

AudioUnitInv == AudioUnitFields /\ AudioUnitRuns

\* What the inits acquire, and what is left of it when they fail.
LEMMA AudioUnitSets ==
  /\ AudioUnit!All(AudioUnit!Opened) = {"ctx", "serial_queue"}
  /\ AudioUnit!All(AudioUnit!Wants) = {"stm", "units", "device_listeners", "system_listeners"}
  /\ \A left \in AudioUnit!Left(AudioUnit!Wants, AudioUnit!Freed) :
     left \subseteq AudioUnit!All(AudioUnit!Wants)
<1>1. AudioUnit!Wants \in Seq(Names)
  BY DEF AudioUnit!Wants, Names
<1>2. \A left \in Left(AudioUnit!Wants, AudioUnit!Freed) : left \subseteq All(AudioUnit!Wants)
  BY <1>1, LeftOfAll
<1>3. AudioUnit!All(AudioUnit!Opened) = {"ctx", "serial_queue"}
  BY DEF AudioUnit!All, AudioUnit!Opened
<1>4. AudioUnit!All(AudioUnit!Wants) = {"stm", "units", "device_listeners", "system_listeners"}
  BY DEF AudioUnit!All, AudioUnit!Wants
<1> QED  BY <1>2, <1>3, <1>4 DEF All, Left, AudioUnit!All, AudioUnit!Left

\* The invariant holds of a context that is not open.
LEMMA AudioUnitFirst ==
  Fresh /\ backend = "audiounit" => AudioUnitInv
<1> SUFFICES ASSUME Fresh, backend = "audiounit"
              PROVE  AudioUnitInv
  OBVIOUS
<1> USE DEF Fresh, Streams, AtRest, AudioUnit!Streams, AudioUnit!Closed, AudioUnit!Ends, Asks, Absent, Bare,
            Running, Exists
<1>1. AudioUnitFields
  BY DEF AudioUnitFields
<1>2. AudioUnitRuns
  BY DEF AudioUnitRuns
<1> QED  BY <1>1, <1>2 DEF AudioUnitInv

\* Every step keeps the invariant, and to the contract but for the liberties.
LEMMA AudioUnitSteps ==
  ASSUME ClientInv, AudioUnitInv, backend = "audiounit", AudioUnit!Calls \/ AudioUnit!Client \/
         AudioUnit!Thread \/ AudioUnit!Device \/ AudioUnit!Events \/ UNCHANGED vars
  PROVE  ClientInv' /\ AudioUnitInv' /\ Moves /\ Played
<1> USE DEF ClientInv, AudioUnitInv, Asks, Absent, Bare, Running, Exists, Phases, AudioUnit!Goto,
            AudioUnit!Become, AudioUnit!user, AudioUnit!Idle, AudioUnit!Plays
<1>1. CASE AudioUnit!audiounit_init
  <2> USE <1>1 DEF AudioUnit!audiounit_init, AudioUnit!MayOpen, AudioUnit!Acquire
  <2>1. ClientInv' /\ Moves
    BY AudioUnitSets, ClientMoves, DataMoves, ReportMoves, LibertiesTaken DEF AudioUnitFields, AudioUnitRuns
  <2>2. AudioUnitFields'
    BY AudioUnitSets DEF AudioUnitFields
  <2>3. AudioUnitRuns'
    BY AudioUnitSets DEF AudioUnitFields, AudioUnitRuns
  <2>4. Played
    BY LibertiesTaken DEF Played
  <2> QED  BY <2>1, <2>2, <2>3, <2>4
<1>2. CASE AudioUnit!audiounit_destroy
  <2> USE <1>2 DEF AudioUnit!audiounit_destroy, AudioUnit!Closes, AudioUnit!MayClose, AudioUnit!Release
  <2>1. ClientInv' /\ Moves
    BY ClientMoves, DataMoves, ReportMoves, LibertiesTaken DEF AudioUnitFields, AudioUnitRuns
  <2>2. AudioUnitFields'
    BY DEF AudioUnitFields
  <2>3. AudioUnitRuns'
    BY DEF AudioUnitFields, AudioUnitRuns
  <2>4. Played
    BY LibertiesTaken DEF Played
  <2> QED  BY <2>1, <2>2, <2>3, <2>4
<1>3. CASE AudioUnit!audiounit_stream_init
  <2> USE <1>3 DEF AudioUnit!audiounit_stream_init, AudioUnit!MayInit, AudioUnit!Fails, AudioUnit!Closed
  <2>1. ClientInv' /\ Moves
    BY AudioUnitSets, ClientMoves, DataMoves, ReportMoves, LibertiesTaken DEF AudioUnitFields, AudioUnitRuns
  <2>2. AudioUnitFields'
    <3>1. CASE stm' = [AudioUnit!Closed EXCEPT !.ends = stm.ends, !.units = stm.ends, !.listening = TRUE,
                                               !.held = stm.held \cup AudioUnit!All(AudioUnit!Wants)]
      <4>1. stm.held \cup AudioUnit!All(AudioUnit!Wants)
              \subseteq {"ctx", "serial_queue", "stm", "units", "device_listeners", "system_listeners"}
        BY AudioUnitSets DEF AudioUnitFields
      <4> QED  BY ONLY <3>1, <4>1 DEF AudioUnitFields, AudioUnit!Closed
    <3>2. ASSUME NEW left \in AudioUnit!Left(AudioUnit!Wants, AudioUnit!Freed),
                 stm' = [stm EXCEPT !.held = @ \cup left]
          PROVE  AudioUnitFields'
      <4>1. left \subseteq AudioUnit!All(AudioUnit!Wants)
        BY AudioUnitSets
      <4> QED  BY <3>2, <4>1, AudioUnitSets DEF AudioUnitFields
    <3>3. CASE stm' = [stm EXCEPT !.held = @ \cup {"stm"}, !.reinit_pending = TRUE]
      BY <3>3 DEF AudioUnitFields
    <3> QED  BY <3>1, <3>2, <3>3
  <2>3. AudioUnitRuns'
    <3>1. \/ phase' = "stopped" /\ UNCHANGED pc /\ stm'.shutdown = TRUE /\ stm'.running = {}
          \/ /\ UNCHANGED phase /\ pc' = [pc EXCEPT !.worker = pc'.worker] /\ pc'.worker \in {"none", "queued"}
             /\ stm'.shutdown = stm.shutdown /\ stm'.running = stm.running /\ stm'.units = stm.units
      <4>1. CASE stm' = [AudioUnit!Closed EXCEPT !.ends = stm.ends, !.units = stm.ends, !.listening = TRUE,
                                                 !.held = stm.held \cup AudioUnit!All(AudioUnit!Wants)]
                 /\ phase' = "stopped" /\ UNCHANGED pc
        BY ONLY <4>1 DEF AudioUnit!Closed
      <4>2. ASSUME NEW left, stm' = [stm EXCEPT !.held = @ \cup left], UNCHANGED <<phase, pc>>
            PROVE  /\ UNCHANGED phase /\ pc' = [pc EXCEPT !.worker = pc'.worker] /\ pc'.worker = "none"
                   /\ stm'.shutdown = stm.shutdown /\ stm'.running = stm.running /\ stm'.units = stm.units
        BY <4>2 DEF AudioUnitFields
      <4>3. CASE stm' = [stm EXCEPT !.held = @ \cup {"stm"}, !.reinit_pending = TRUE]
                 /\ pc' = [pc EXCEPT !.worker = "queued"] /\ UNCHANGED phase
        BY <4>3 DEF AudioUnitFields
      <4> QED  BY <4>1, <4>2, <4>3
    <3>2. UNCHANGED calling /\ pc.client = "idle" /\ phase = "none" /\ pc.worker = "none"
      OBVIOUS
    <3> QED  BY ONLY <3>1, <3>2, ClientInv, AudioUnitInv
                DEF ClientInv, AudioUnitInv, AudioUnitRuns, Asks, Exists, Running
  <2>4. Played
    BY LibertiesTaken DEF Played
  <2> QED  BY <2>1, <2>2, <2>3, <2>4
<1>4. CASE AudioUnit!audiounit_stream_start
  <2> USE <1>4 DEF AudioUnit!audiounit_stream_start, AudioUnit!MayStart, AudioUnit!Begins, AudioUnit!MutexIsFree
  <2>1. ClientInv' /\ Moves
    BY ClientMoves, DataMoves, ReportMoves, LibertiesTaken DEF AudioUnitFields, AudioUnitRuns
  <2>2. AudioUnitFields'
    <3>1. ASSUME NEW r \in SUBSET stm.units, stm' = [stm EXCEPT !.shutdown = FALSE, !.draining = FALSE,
                 !.running = r]
          PROVE  AudioUnitFields'
      BY <3>1 DEF AudioUnitFields
    <3> QED  BY <3>1 DEF AudioUnitFields
  <2>3. AudioUnitRuns'
    BY DEF AudioUnitFields, AudioUnitRuns
  <2>4. Played
    BY LibertiesTaken DEF Played
  <2> QED  BY <2>1, <2>2, <2>3, <2>4
<1>5. CASE AudioUnit!audiounit_stream_stop
  <2> USE <1>5 DEF AudioUnit!audiounit_stream_stop, AudioUnit!MayStop, AudioUnit!MutexIsFree
  <2>1. ClientInv' /\ Moves
    BY ClientMoves, DataMoves, ReportMoves, LibertiesTaken DEF AudioUnitFields, AudioUnitRuns
  <2>2. AudioUnitFields'
    BY DEF AudioUnitFields
  <2>3. AudioUnitRuns'
    BY DEF AudioUnitFields, AudioUnitRuns
  <2>4. Played
    BY LibertiesTaken DEF Played
  <2> QED  BY <2>1, <2>2, <2>3, <2>4
<1>6. CASE AudioUnit!audiounit_stream_destroy
  <2> USE <1>6 DEF AudioUnit!audiounit_stream_destroy, AudioUnit!MayDestroy, AudioUnit!MutexIsFree
  <2>1. ClientInv' /\ Moves
    BY ClientMoves, DataMoves, ReportMoves, LibertiesTaken DEF AudioUnitFields, AudioUnitRuns
  <2>2. AudioUnitFields'
    BY DEF AudioUnitFields
  <2>3. AudioUnitRuns'
    BY DEF AudioUnitFields, AudioUnitRuns
  <2>4. Played
    BY LibertiesTaken DEF Played
  <2> QED  BY <2>1, <2>2, <2>3, <2>4
<1>7. CASE AudioUnit!audiounit_stream_destroy_internal
  <2> USE <1>7 DEF AudioUnit!audiounit_stream_destroy_internal
  <2>1. calling = 0
    BY DEF AudioUnitRuns
  <2>2. ClientInv' /\ Moves
    BY <2>1, ClientMoves, DataMoves, ReportMoves, LibertiesTaken DEF AudioUnitFields, AudioUnitRuns
  <2>3. AudioUnitFields'
    BY <2>1 DEF AudioUnitFields, AudioUnitRuns
  <2>4. AudioUnitRuns'
    BY <2>1 DEF AudioUnitFields, AudioUnitRuns
  <2>5. Played
    BY <2>1, LibertiesTaken DEF Played
  <2> QED  BY <2>2, <2>3, <2>4, <2>5
<1>8. CASE AudioUnit!Callback
  <2> USE <1>8 DEF AudioUnit!Callback, AudioUnit!CallData
  <2>1. calling + 1 = 1
    BY DEF AudioUnitRuns
  <2>2. ClientInv' /\ Moves
    BY <2>1, ClientMoves, DataMoves, ReportMoves, LibertiesTaken DEF AudioUnitFields, AudioUnitRuns
  <2>3. AudioUnitFields'
    <3> DEFINE asked == [stm EXCEPT !.queued = IF stm.padding > 0 THEN 0 ELSE @, !.padding = 0]
    <3>1. CASE stm' = asked
      BY <3>1 DEF AudioUnitFields
    <3>2. ASSUME NEW u, stm' = [asked EXCEPT !.running = @ \ {u}]
          PROVE  AudioUnitFields'
      BY <3>2 DEF AudioUnitFields
    <3> QED  BY <3>1, <3>2
  <2>4. AudioUnitRuns'
    BY <2>1 DEF AudioUnitFields, AudioUnitRuns
  <2>5. Played
    BY <2>1, LibertiesTaken DEF Played
  <2> QED  BY <2>2, <2>3, <2>4, <2>5
<1>9. CASE AudioUnit!InputDrains
  <2> USE <1>9 DEF AudioUnit!InputDrains, AudioUnit!Duplex
  <2>1. ClientInv' /\ Moves
    BY ClientMoves, DataMoves, ReportMoves, LibertiesTaken DEF AudioUnitFields, AudioUnitRuns
  <2>2. AudioUnitFields'
    BY DEF AudioUnitFields
  <2>3. AudioUnitRuns'
    BY DEF AudioUnitFields, AudioUnitRuns
  <2>4. Played
    BY LibertiesTaken DEF Played
  <2> QED  BY <2>1, <2>2, <2>3, <2>4
<1>10. CASE AudioUnit!Returned
  <2> USE <1>10 DEF AudioUnit!Returned, AudioUnit!Answer, AudioUnit!Results, AudioUnit!Short
  <2>1. calling' = 0
    BY DEF AudioUnitRuns
  <2>2. ClientInv' /\ Moves
    BY <2>1, ClientMoves, DataMoves, ReportMoves, LibertiesTaken DEF AudioUnitFields, AudioUnitRuns
  <2>3. AudioUnitFields'
    BY <2>1 DEF AudioUnitFields
  <2>4. AudioUnitRuns'
    BY <2>1 DEF AudioUnitFields, AudioUnitRuns
  <2>5. Played
    BY <2>1, LibertiesTaken DEF Played
  <2> QED  BY <2>2, <2>3, <2>4, <2>5
<1>11. CASE AudioUnit!Tell
  <2> USE <1>11 DEF AudioUnit!Tell, AudioUnit!Told
  <2>1. ClientInv' /\ Moves
    BY ClientMoves, DataMoves, ReportMoves, LibertiesTaken DEF AudioUnitFields, AudioUnitRuns
  <2>2. AudioUnitFields'
    BY DEF AudioUnitFields
  <2>3. AudioUnitRuns'
    BY DEF AudioUnitFields, AudioUnitRuns
  <2>4. Played
    BY LibertiesTaken DEF Played
  <2> QED  BY <2>1, <2>2, <2>3, <2>4
<1>12. CASE AudioUnit!audiounit_property_listener_callback
  <2> USE <1>12 DEF AudioUnit!audiounit_property_listener_callback, AudioUnit!Async, AudioUnit!MAX_CHANGES
  <2>1. stm'.shutdown = stm.shutdown /\ stm'.running = stm.running /\ stm'.units = stm.units
    BY DEF AudioUnitFields
  <2>2. pc'.thread = pc.thread /\ pc'.client = pc.client /\ UNCHANGED <<phase, calling>>
    OBVIOUS
  <2>3. pc'.worker \in {pc.worker, "queued", "undefined"}
    OBVIOUS
  <2>4. stm.changes < 2 => stm.changes + 1 \in {0, 1, 2}
    BY DEF AudioUnitFields
  <2>5. ClientInv' /\ Moves
    BY <2>1, <2>2, <2>3, <2>4, ClientMoves, DataMoves, ReportMoves, LibertiesTaken
       DEF AudioUnitFields, AudioUnitRuns
  <2>6. AudioUnitFields'
    BY <2>1, <2>2, <2>3, <2>4 DEF AudioUnitFields
  <2>7. AudioUnitRuns'
    BY <2>1, <2>2, <2>3, <2>4 DEF AudioUnitFields, AudioUnitRuns
  <2>8. Played
    BY <2>1, <2>2, <2>3, <2>4, LibertiesTaken DEF Played
  <2> QED  BY <2>5, <2>6, <2>7, <2>8
<1>13. CASE AudioUnit!ProfileChanges
  <2> USE <1>13 DEF AudioUnit!ProfileChanges, AudioUnit!Async, AudioUnit!MAX_CHANGES, AudioUnit!Duplex
  <2>1. stm.changes < 2 => stm.changes + 1 \in {0, 1, 2}
    BY DEF AudioUnitFields
  <2>2. ClientInv' /\ Moves
    BY <2>1, ClientMoves, DataMoves, ReportMoves, LibertiesTaken DEF AudioUnitFields, AudioUnitRuns
  <2>3. AudioUnitFields'
    BY <2>1 DEF AudioUnitFields
  <2>4. AudioUnitRuns'
    BY <2>1 DEF AudioUnitFields, AudioUnitRuns
  <2>5. Played
    BY <2>1, LibertiesTaken DEF Played
  <2> QED  BY <2>2, <2>3, <2>4, <2>5
<1>14. CASE AudioUnit!Reinit
  <2> USE <1>14 DEF AudioUnit!Reinit
  <2>1. ClientInv' /\ Moves
    BY ClientMoves, DataMoves, ReportMoves, LibertiesTaken DEF AudioUnitFields, AudioUnitRuns
  <2>2. AudioUnitFields'
    BY DEF AudioUnitFields, AudioUnitRuns
  <2>3. AudioUnitRuns'
    BY DEF AudioUnitFields, AudioUnitRuns
  <2>4. Played
    BY LibertiesTaken DEF Played
  <2> QED  BY <2>1, <2>2, <2>3, <2>4
<1>15. CASE AudioUnit!Setup
  <2> USE <1>15 DEF AudioUnit!Setup
  <2>1. ClientInv' /\ Moves
    BY ClientMoves, DataMoves, ReportMoves, LibertiesTaken DEF AudioUnitFields, AudioUnitRuns
  <2>2. AudioUnitFields'
    BY DEF AudioUnitFields
  <2>3. AudioUnitRuns'
    BY DEF AudioUnitFields, AudioUnitRuns
  <2>4. Played
    BY LibertiesTaken DEF Played
  <2> QED  BY <2>1, <2>2, <2>3, <2>4
<1>16. CASE AudioUnit!Start
  <2> USE <1>16 DEF AudioUnit!Start
  <2>1. ClientInv' /\ Moves
    BY ClientMoves, DataMoves, ReportMoves, LibertiesTaken DEF AudioUnitFields, AudioUnitRuns
  <2>2. AudioUnitFields'
    <3>1. CASE UNCHANGED stm
      BY <3>1 DEF AudioUnitFields
    <3>2. ASSUME NEW r \in SUBSET stm.units,
                 stm' = [stm EXCEPT !.running = r, !.switching_device = FALSE, !.reinit_pending = FALSE]
          PROVE  AudioUnitFields'
      BY <3>2 DEF AudioUnitFields
    <3>3. stm.running \subseteq stm.units
      BY DEF AudioUnitFields
    <3> QED  BY <3>1, <3>2, <3>3
  <2>3. AudioUnitRuns'
    BY DEF AudioUnitFields, AudioUnitRuns
  <2>4. Played
    BY LibertiesTaken DEF Played
  <2> QED  BY <2>1, <2>2, <2>3, <2>4
<1>17. CASE AudioUnit!TellFailed
  <2> USE <1>17 DEF AudioUnit!TellFailed, AudioUnit!Told
  <2>1. ClientInv' /\ Moves
    BY ClientMoves, DataMoves, ReportMoves, LibertiesTaken DEF AudioUnitFields, AudioUnitRuns
  <2>2. AudioUnitFields'
    BY DEF AudioUnitFields
  <2>3. AudioUnitRuns'
    BY DEF AudioUnitFields, AudioUnitRuns
  <2>4. Played
    BY LibertiesTaken DEF Played
  <2> QED  BY <2>1, <2>2, <2>3, <2>4
<1>18. CASE UNCHANGED vars
  <2> USE <1>18 DEF vars
  <2>1. ClientInv' /\ Moves /\ Played
    BY ClientMoves DEF Played
  <2>2. AudioUnitFields'
    BY DEF AudioUnitFields
  <2>3. AudioUnitRuns'
    BY DEF AudioUnitRuns
  <2> QED  BY <2>1, <2>2, <2>3
<1> QED  BY <1>1, <1>2, <1>3, <1>4, <1>5, <1>6, <1>7, <1>8, <1>9, <1>10, <1>11, <1>12, <1>13, <1>14, <1>15,
            <1>16, <1>17, <1>18 DEF AudioUnit!Calls, AudioUnit!Client, AudioUnit!Thread, AudioUnit!Events,
            AudioUnit!Device

\* The invariant implies what is promised of the state.
LEMMA AudioUnitPromises ==
  ASSUME ClientInv, AudioUnitInv, backend = "audiounit"
  PROVE  AudioUnit!TypeOK /\ NothingLeaks /\ NothingUndefined
<1> USE DEF AudioUnitInv, AudioUnitFields, AudioUnitRuns, Asks, Absent, Bare, Running, Exists
<1>1. AudioUnit!TypeOK
  BY AudioUnitSets DEF AudioUnit!TypeOK, AudioUnit!MAX_CHANGES
<1>2. NothingLeaks
  BY LibertiesTaken DEF NothingLeaks
<1>3. NothingUndefined
  BY LibertiesTaken DEF NothingUndefined, ClientInv
<1> QED  BY <1>1, <1>2, <1>3

-----------------------------------------------------------------------------
(* AAudio: the state thread, the notifier and the data callback exchange the state of
   the stream with the client's calls. *)

ThreadLocks == {"decide", "STARTED", "STOPPED", "DRAINED", "ERROR"}
ClientLocks == {"settle_start", "exchange_STARTING", "started", "settle_stop", "exchange_STOPPING", "stopped"}
Active      == {"STARTING", "STARTED"}
Startable   == {"STOPPED", "STOPPING", "DRAINING"}
Dead        == {"ERROR", "SHUTDOWN"}

AAudioFields ==
  /\ stm = [end |-> stm.end, state |-> stm.state, aa |-> stm.aa, cb |-> stm.cb, expected |-> stm.expected,
            waiting |-> stm.waiting, join |-> stm.join, polling |-> stm.polling, lost |-> stm.lost,
            queued |-> stm.queued, held |-> stm.held]
  /\ stm.end \in {"output", "input"} /\ stm.queued \in {0, 1, 2}
  /\ stm.state \in {"INIT", "STARTED"} \cup {"STARTING"} \cup Startable \cup Dead
  /\ stm.aa \in {"NULL", "OPEN", "STARTING", "STARTED", "PAUSING", "PAUSED", "STOPPING", "STOPPED"}
  /\ stm.cb \in {"none", "data", "short", "error", "notify", "notify_stop"}
  /\ stm.cb = "data" => stm.queued # 2

\* Where the threads are, and that one of them holds the stream's mutex.
AAudioThreads ==
  /\ pc.client \in {"idle", "failed", "join", "joining"} \cup ClientLocks
  /\ pc.thread \in {"none", "begin", "loop", "update", "updated", "sleep", "wait", "timed", "woken", "ended"}
                    \cup ThreadLocks
  /\ pc.worker \in {"none", "begin", "loop", "sleep", "wait", "woken", "ended"}
  /\ calling = IF stm.cb = "data" THEN 1 ELSE 0
  /\ ~(pc.thread \in ThreadLocks /\ pc.client \in ClientLocks)

\* What each of the client's calls finds when it has the mutex.
AAudioCalls ==
  /\ phase \in Absent => pc.thread = "none" /\ pc.worker = "none" /\ pc.client \in {"idle", "failed"}
  /\ pc.client \in {"join", "joining"} => phase \in Bare
  /\ pc.client = "settle_start" => phase = "stopped" /\ stm.state = stm.expected /\ stm.expected \in Startable
  /\ pc.client \in ClientLocks \ {"settle_start"} => phase \in Running
  /\ pc.client = "exchange_STARTING" => phase # "drained"
  /\ phase = "stopped" \/ pc.client = "stopped" => stm.state \notin Active

\* What AAudio does of a stream in each of its states, and where the client or
\* the state thread is in its exchange of the state for another one.
AAudioStates ==
  /\ phase \notin Exists => stm.state = "INIT" /\ stm.aa = "NULL"
  /\ stm.cb # "none" => stm.aa \in Active
  /\ stm.cb = "data" => stm.state # "DRAINING"
  /\ stm.cb \in {"error", "notify_stop"} => stm.state \in Dead
  /\ stm.state \in Active \cup {"STOPPING"} =>
       stm.aa \in Active \cup IF stm.end = "output" THEN {"PAUSING", "PAUSED"} ELSE {"STOPPING", "STOPPED"}
  /\ phase = "error" => stm.state \in Dead /\ stm.cb \in {"none", "error", "notify_stop"}
                        /\ (stm.cb = "none" => stm.aa \notin Active)

\* What is expected when the state is exchanged for another one.
AAudioExchanges ==
  /\ stm.state \in {"STOPPED", "STOPPING"} /\ pc.client # "exchange_STARTING" => stm.aa \notin Active
  /\ pc.client = "exchange_STOPPING" => stm.aa \notin Active
  /\ pc.client = "exchange_STARTING" =>
       /\ stm.aa \in Active \/ stm.state \in Dead
       /\ stm.expected \in Startable
       /\ stm.state = "DRAINING" /\ stm.expected # "DRAINING" => phase = "draining"
  /\ stm.state = "DRAINING" /\ pc.client # "exchange_STARTING" => phase \in {"draining", "drained", "stopped"}
  /\ pc.thread = "DRAINED" => stm.state = "DRAINING" /\ stm.aa = "STOPPED"
  /\ pc.thread = "ERROR" => stm.state \in Dead /\ stm.aa \in {"STOPPED", "PAUSED"}

AAudioHolds == Holds({"context", "threads"}, {"slot", "stream", "resampler"})

AAudioInv ==
  AAudioFields /\ AAudioThreads /\ AAudioCalls /\ AAudioStates /\ AAudioExchanges /\ AAudioHolds

\* A thread that waits for the condition variable may have been woken.
Wakes(client, thread, worker) ==
  /\ pc' = [client |-> client, thread |-> pc'.thread, worker |-> pc'.worker]
  /\ \/ pc'.thread = thread
     \/ pc.thread \in {"wait", "timed"} /\ pc'.thread = "woken"
  /\ \/ pc'.worker = worker
     \/ pc.worker \in {"wait", "timed"} /\ pc'.worker = "woken"

\* What a notification does to who waits.
LEMMA AAudioNotifies ==
  \A c, t, w : LET next == [client |-> c, thread |-> t, worker |-> w]
               IN  AAudio!notify_one(next) \/ AAudio!notify_all(next) => Wakes(c, t, w)
<1> TAKE c, t, w
<1> DEFINE next == [client |-> c, thread |-> t, worker |-> w]
<1>1. \A v \in AAudio!Waiters : v \in {"thread", "worker"} /\ pc[v] \in {"wait", "timed"}
  BY DEF AAudio!Waiters
<1>2. CASE pc' = next
  BY <1>2 DEF Wakes
<1>3. ASSUME NEW v \in AAudio!Waiters, pc' = [next EXCEPT ![v] = "woken"]
      PROVE  Wakes(c, t, w)
  <2>1. CASE v = "thread"
    BY <1>1, <1>3, <2>1 DEF Wakes
  <2>2. CASE v = "worker"
    BY <1>1, <1>3, <2>2 DEF Wakes
  <2> QED  BY <1>1, <2>1, <2>2
<1>4. ASSUME pc' = [next EXCEPT !.thread = IF "thread" \in AAudio!Waiters THEN "woken" ELSE @,
                                !.worker = IF "worker" \in AAudio!Waiters THEN "woken" ELSE @]
      PROVE  Wakes(c, t, w)
  BY <1>1, <1>4 DEF Wakes
<1> QED  BY <1>2, <1>3, <1>4 DEF AAudio!notify_one, AAudio!notify_all

\* What only moves one of the two threads on, outside of what holds the stream's mutex.
LEMMA AAudioGoesOn ==
  ASSUME ClientInv, AAudioInv, UNCHANGED <<phase, calling, starts>>, phase \notin Absent,
         pc' = [client |-> pc.client, thread |-> pc'.thread, worker |-> pc'.worker],
         pc'.thread \in {"none", "begin", "loop", "update", "updated", "sleep", "wait", "timed", "woken",
           "ended"}
           \/ pc'.thread = pc.thread \/ (pc'.thread = "decide" /\ pc.client \notin ClientLocks),
         pc'.worker \in {"none", "begin", "loop", "sleep", "wait", "woken", "ended"},
         stm' = [end |-> stm.end, state |-> stm.state, aa |-> stm.aa, cb |-> stm.cb, expected |-> stm.expected,
                 waiting |-> stm'.waiting, join |-> stm.join, polling |-> stm'.polling, lost |-> stm'.lost,
                 queued |-> stm.queued, held |-> stm.held]
  PROVE  ClientInv' /\ AAudioInv' /\ Moves /\ Played
<1>1. /\ pc'.client = pc.client /\ stm'.end = stm.end /\ stm'.state = stm.state /\ stm'.aa = stm.aa
      /\ stm'.cb = stm.cb /\ stm'.expected = stm.expected /\ stm'.held = stm.held
  BY DEF AAudioInv, AAudioFields
<1>2. ClientInv'
  BY <1>1 DEF ClientInv
<1>3. AAudioFields'
  BY DEF AAudioInv, AAudioFields
<1>4. AAudioThreads'
  BY <1>1 DEF AAudioInv, AAudioThreads, ThreadLocks
<1>5. AAudioCalls'
  BY <1>1 DEF AAudioInv, AAudioCalls
<1>6. AAudioStates'
  BY <1>1 DEF AAudioInv, AAudioStates
<1>7. AAudioExchanges'
  BY <1>1 DEF AAudioInv, AAudioExchanges
<1>8. AAudioHolds'
  BY <1>1 DEF AAudioInv, AAudioHolds, Holds
<1>9. Moves /\ Played
  BY ClientMoves DEF Played
<1> QED  BY <1>2, <1>3, <1>4, <1>5, <1>6, <1>7, <1>8, <1>9 DEF AAudioInv

\* What the inits acquire, and what is left of it when they fail.
LEMMA AAudioSets ==
  /\ AAudio!All(<<"context", "threads">>) = {"context", "threads"}
  /\ \A left \in AAudio!Left(<<"slot", "stream", "resampler">>, {"slot", "stream", "resampler"}) : left = {}
BY DEF AAudio!All, AAudio!Left

\* The invariant holds of a context that is not open.
LEMMA AAudioFirst ==
  Fresh /\ backend = "aaudio" => AAudioInv
<1> SUFFICES ASSUME Fresh, backend = "aaudio"
              PROVE  AAudioInv
  OBVIOUS
<1> USE DEF Fresh, Streams, AtRest, AAudio!Streams, AAudio!Closed, AAudio!Ends, Holds, Absent, Bare, Running,
            Exists, ThreadLocks, ClientLocks, Active, Startable, Dead
<1>1. AAudioFields
  BY DEF AAudioFields
<1>2. AAudioThreads
  BY DEF AAudioThreads
<1>3. AAudioCalls
  BY DEF AAudioCalls
<1>4. AAudioStates
  BY DEF AAudioStates
<1>5. AAudioExchanges
  BY DEF AAudioExchanges
<1>6. AAudioHolds
  BY DEF AAudioHolds
<1> QED  BY <1>1, <1>2, <1>3, <1>4, <1>5, <1>6 DEF AAudioInv

\* Every step keeps the invariant, and to the contract but for the liberties.
LEMMA AAudioSteps ==
  ASSUME ClientInv, AAudioInv, backend = "aaudio", AAudio!Calls \/ AAudio!Client \/ AAudio!Thread \/
         AAudio!Device \/ AAudio!SpuriousWakeup \/ AAudio!notifier_thread \/ AAudio!Callback \/ UNCHANGED vars
  PROVE  ClientInv' /\ AAudioInv' /\ Moves /\ Played
<1> USE DEF ClientInv, AAudioInv, Holds, Absent, Bare, Running, Exists, Phases, ThreadLocks, ClientLocks,
            Active, Startable, Dead, Wakes, AAudio!Goto, AAudio!Become, AAudio!user, AAudio!Idle
<1>1. CASE AAudio!aaudio_init
  <2> USE <1>1 DEF AAudio!aaudio_init, AAudio!MayOpen, AAudio!Acquire
  <2>1. ClientInv'
    BY AAudioSets DEF AAudioFields, AAudioThreads, AAudioCalls, AAudioStates
  <2>2. Moves
    BY AAudioSets, ClientMoves, DataMoves, ReportMoves, LibertiesTaken
       DEF AAudioFields, AAudioThreads, AAudioCalls, AAudioStates
  <2>3. AAudioFields'
    BY AAudioSets DEF AAudioFields
  <2>4. AAudioThreads'
    BY AAudioSets DEF AAudioFields, AAudioThreads
  <2>5. AAudioCalls'
    BY AAudioSets DEF AAudioFields, AAudioThreads, AAudioCalls
  <2>6. AAudioStates'
    BY AAudioSets DEF AAudioFields, AAudioThreads, AAudioCalls, AAudioStates
  <2>7. AAudioExchanges'
    BY AAudioSets DEF AAudioFields, AAudioThreads, AAudioCalls, AAudioStates, AAudioExchanges
  <2>8. AAudioHolds'
    BY AAudioSets DEF AAudioFields, AAudioThreads, AAudioCalls, AAudioHolds
  <2>9. Played
    BY LibertiesTaken DEF Played
  <2> QED  BY <2>1, <2>2, <2>3, <2>4, <2>5, <2>6, <2>7, <2>8, <2>9
<1>2. CASE AAudio!aaudio_destroy
  <2> USE <1>2 DEF AAudio!aaudio_destroy, AAudio!MayClose
  <2>1. ClientInv'
    BY DEF AAudioFields, AAudioThreads, AAudioCalls, AAudioStates
  <2>2. Moves
    BY ClientMoves, DataMoves, ReportMoves, LibertiesTaken
       DEF AAudioFields, AAudioThreads, AAudioCalls, AAudioStates
  <2>3. AAudioFields'
    BY DEF AAudioFields
  <2>4. AAudioThreads'
    BY DEF AAudioFields, AAudioThreads
  <2>5. AAudioCalls'
    BY DEF AAudioFields, AAudioThreads, AAudioCalls
  <2>6. AAudioStates'
    BY DEF AAudioFields, AAudioThreads, AAudioCalls, AAudioStates
  <2>7. AAudioExchanges'
    BY DEF AAudioFields, AAudioThreads, AAudioCalls, AAudioStates, AAudioExchanges
  <2>8. AAudioHolds'
    BY DEF AAudioFields, AAudioThreads, AAudioCalls, AAudioHolds
  <2>9. Played
    BY LibertiesTaken DEF Played
  <2> QED  BY <2>1, <2>2, <2>3, <2>4, <2>5, <2>6, <2>7, <2>8, <2>9
<1>3. CASE AAudio!NotifyJoin
  <2> USE <1>3 DEF AAudio!NotifyJoin
  <2>1. Wakes("joining", pc.thread, pc.worker)
    BY AAudioNotifies
  <2>2. ClientInv'
    BY <2>1 DEF AAudioFields, AAudioThreads, AAudioCalls, AAudioStates
  <2>3. Moves
    BY <2>1, ClientMoves, DataMoves, ReportMoves, LibertiesTaken
       DEF AAudioFields, AAudioThreads, AAudioCalls, AAudioStates
  <2>4. AAudioFields'
    BY <2>1 DEF AAudioFields
  <2>5. AAudioThreads'
    BY <2>1 DEF AAudioFields, AAudioThreads
  <2>6. AAudioCalls'
    BY <2>1 DEF AAudioFields, AAudioThreads, AAudioCalls
  <2>7. AAudioStates'
    BY <2>1 DEF AAudioFields, AAudioThreads, AAudioCalls, AAudioStates
  <2>8. AAudioExchanges'
    BY <2>1 DEF AAudioFields, AAudioThreads, AAudioCalls, AAudioStates, AAudioExchanges
  <2>9. AAudioHolds'
    BY <2>1 DEF AAudioFields, AAudioThreads, AAudioCalls, AAudioHolds
  <2>10. Played
    BY <2>1, LibertiesTaken DEF Played
  <2> QED  BY <2>2, <2>3, <2>4, <2>5, <2>6, <2>7, <2>8, <2>9, <2>10
<1>4. CASE AAudio!Joined
  <2> USE <1>4 DEF AAudio!Joined, AAudio!Release, AAudio!AtRest
  <2>1. calling = 0
    BY DEF AAudioFields, AAudioThreads, AAudioCalls, AAudioStates
  <2>2. ClientInv'
    BY <2>1 DEF AAudioFields, AAudioThreads, AAudioCalls, AAudioStates
  <2>3. Moves
    BY <2>1, ClientMoves, DataMoves, ReportMoves, LibertiesTaken
       DEF AAudioFields, AAudioThreads, AAudioCalls, AAudioStates
  <2>4. AAudioFields'
    BY <2>1 DEF AAudioFields
  <2>5. AAudioThreads'
    BY <2>1 DEF AAudioFields, AAudioThreads
  <2>6. AAudioCalls'
    BY <2>1 DEF AAudioFields, AAudioThreads, AAudioCalls
  <2>7. AAudioStates'
    BY <2>1 DEF AAudioFields, AAudioThreads, AAudioCalls, AAudioStates
  <2>8. AAudioExchanges'
    BY <2>1 DEF AAudioFields, AAudioThreads, AAudioCalls, AAudioStates, AAudioExchanges
  <2>9. AAudioHolds'
    BY <2>1 DEF AAudioFields, AAudioThreads, AAudioCalls, AAudioHolds
  <2>10. Played
    BY <2>1, LibertiesTaken DEF Played
  <2> QED  BY <2>2, <2>3, <2>4, <2>5, <2>6, <2>7, <2>8, <2>9, <2>10
<1>5. CASE AAudio!aaudio_stream_init
  <2> USE <1>5 DEF AAudio!aaudio_stream_init, AAudio!MayInit, AAudio!Fails
  <2>1. UNCHANGED <<pc, calling>> /\ stm'.cb = stm.cb
    BY AAudioSets DEF AAudioFields
  <2>2. ClientInv'
    BY <2>1, AAudioSets DEF AAudioFields, AAudioThreads, AAudioCalls, AAudioStates
  <2>3. Moves
    BY <2>1, AAudioSets, ClientMoves, DataMoves, ReportMoves, LibertiesTaken
       DEF AAudioFields, AAudioThreads, AAudioCalls, AAudioStates
  <2>4. AAudioFields'
    BY <2>1, AAudioSets DEF AAudioFields
  <2>5. AAudioThreads'
    BY <2>1, AAudioSets DEF AAudioFields, AAudioThreads
  <2>6. AAudioCalls'
    BY <2>1, AAudioSets DEF AAudioFields, AAudioThreads, AAudioCalls
  <2>7. AAudioStates'
    BY <2>1, AAudioSets DEF AAudioFields, AAudioThreads, AAudioCalls, AAudioStates
  <2>8. AAudioExchanges'
    BY <2>1, AAudioSets DEF AAudioFields, AAudioThreads, AAudioCalls, AAudioStates, AAudioExchanges
  <2>9. AAudioHolds'
    BY <2>1, AAudioSets DEF AAudioFields, AAudioThreads, AAudioCalls, AAudioHolds
  <2>10. Played
    BY <2>1, LibertiesTaken DEF Played
  <2> QED  BY <2>2, <2>3, <2>4, <2>5, <2>6, <2>7, <2>8, <2>9, <2>10
<1>6. CASE AAudio!aaudio_stream_destroy
  <2> USE <1>6 DEF AAudio!aaudio_stream_destroy, AAudio!MayDestroy, AAudio!Unlocked
  <2>1. stm.state \notin Active
    BY DEF AAudioCalls
  <2>2. UNCHANGED <<pc, calling>> /\ phase' = "destroyed" /\ pc.client = "idle"
    BY <2>1
  <2>3. stm'.cb = "none" /\ stm'.state = "INIT" /\ stm'.aa = "NULL" /\ stm.cb = "none"
    BY <2>1 DEF AAudioFields
  <2>4. ClientInv'
    BY <2>1, <2>2, <2>3 DEF AAudioFields, AAudioThreads, AAudioCalls, AAudioStates
  <2>5. Moves
    BY <2>1, <2>2, <2>3, ClientMoves, DataMoves, ReportMoves, LibertiesTaken
       DEF AAudioFields, AAudioThreads, AAudioCalls, AAudioStates
  <2>6. AAudioFields'
    BY <2>1, <2>2, <2>3 DEF AAudioFields
  <2>7. AAudioThreads'
    BY <2>1, <2>2, <2>3 DEF AAudioFields, AAudioThreads
  <2>8. AAudioCalls'
    BY <2>1, <2>2, <2>3 DEF AAudioFields, AAudioThreads, AAudioCalls
  <2>9. AAudioStates'
    BY <2>1, <2>2, <2>3 DEF AAudioFields, AAudioThreads, AAudioCalls, AAudioStates
  <2>10. AAudioExchanges'
    BY <2>1, <2>2, <2>3 DEF AAudioFields, AAudioThreads, AAudioCalls, AAudioStates, AAudioExchanges
  <2>11. AAudioHolds'
    BY <2>1, <2>2, <2>3 DEF AAudioFields, AAudioThreads, AAudioCalls, AAudioHolds
  <2>12. Played
    BY <2>1, <2>2, <2>3, LibertiesTaken DEF Played
  <2> QED  BY <2>4, <2>5, <2>6, <2>7, <2>8, <2>9, <2>10, <2>11, <2>12
<1>7. CASE AAudio!aaudio_stream_start
  <2> USE <1>7 DEF AAudio!aaudio_stream_start, AAudio!MayStart, AAudio!Unlocked
  <2>1. ClientInv'
    BY DEF AAudioFields, AAudioThreads, AAudioCalls, AAudioStates
  <2>2. Moves
    BY ClientMoves, DataMoves, ReportMoves, LibertiesTaken
       DEF AAudioFields, AAudioThreads, AAudioCalls, AAudioStates
  <2>3. AAudioFields'
    BY DEF AAudioFields
  <2>4. AAudioThreads'
    BY DEF AAudioFields, AAudioThreads
  <2>5. AAudioCalls'
    BY DEF AAudioFields, AAudioThreads, AAudioCalls
  <2>6. AAudioStates'
    BY DEF AAudioFields, AAudioThreads, AAudioCalls, AAudioStates
  <2>7. AAudioExchanges'
    BY DEF AAudioFields, AAudioThreads, AAudioCalls, AAudioStates, AAudioExchanges
  <2>8. AAudioHolds'
    BY DEF AAudioFields, AAudioThreads, AAudioCalls, AAudioHolds
  <2>9. Played
    BY LibertiesTaken DEF Played
  <2> QED  BY <2>1, <2>2, <2>3, <2>4, <2>5, <2>6, <2>7, <2>8, <2>9
<1>8. CASE AAudio!requestStart
  <2> USE <1>8 DEF AAudio!requestStart, AAudio!Transitional, AAudio!Begins, AAudio!Refused
  <2>1. stm'.cb = stm.cb /\ stm'.expected = stm.expected
    BY DEF AAudioFields
  <2>2. \/ pc'.client = "exchange_STARTING" /\ phase' = "started" /\ stm'.aa \in Active /\
           stm'.state = stm.state
        \/ pc'.client = "idle" /\ UNCHANGED phase /\ stm'.aa = stm.aa /\ stm'.state = "ERROR"
    BY DEF AAudioFields
  <2>3. pc.thread \notin ThreadLocks /\ pc'.thread = pc.thread
    BY DEF AAudioThreads
  <2>4. ClientInv'
    BY <2>1, <2>2, <2>3 DEF AAudioFields, AAudioThreads, AAudioCalls, AAudioStates
  <2>5. Moves
    BY <2>1, <2>2, <2>3, ClientMoves, DataMoves, ReportMoves, LibertiesTaken
       DEF AAudioFields, AAudioThreads, AAudioCalls, AAudioStates
  <2>6. AAudioFields'
    <3>1. CASE UNCHANGED stm
      BY <3>1 DEF AAudioFields
    <3>2. CASE stm' = [stm EXCEPT !.aa = "STARTING"]
      BY <3>2 DEF AAudioFields
    <3>3. CASE stm' = [stm EXCEPT !.aa = "STARTING", !.queued = 0]
      <4>1. 0 \in {0, 1, 2} /\ 0 # 2
        OBVIOUS
      <4> QED  BY ONLY AAudioInv, <3>3, <4>1 DEF AAudioInv, AAudioFields
    <3>4. CASE stm' = [stm EXCEPT !.state = "ERROR"]
      BY <3>4 DEF AAudioFields
    <3>5. [stm EXCEPT !.aa = "STARTING", !.queued = @] = [stm EXCEPT !.aa = "STARTING"]
      BY DEF AAudioFields
    <3> QED  BY <3>1, <3>2, <3>3, <3>4, <3>5
  <2>7. AAudioThreads'
    BY <2>1, <2>2, <2>3 DEF AAudioFields, AAudioThreads
  <2>8. AAudioCalls'
    BY <2>1, <2>2, <2>3 DEF AAudioFields, AAudioThreads, AAudioCalls
  <2>9. AAudioStates'
    BY <2>1, <2>2, <2>3 DEF AAudioFields, AAudioThreads, AAudioCalls, AAudioStates
  <2>10. AAudioExchanges'
    BY <2>1, <2>2, <2>3 DEF AAudioFields, AAudioThreads, AAudioCalls, AAudioStates, AAudioExchanges
  <2>11. AAudioHolds'
    BY <2>1, <2>2, <2>3 DEF AAudioFields, AAudioThreads, AAudioCalls, AAudioHolds
  <2>12. Played
    BY <2>1, <2>2, <2>3, LibertiesTaken DEF Played
  <2> QED  BY <2>4, <2>5, <2>6, <2>7, <2>8, <2>9, <2>10, <2>11, <2>12
<1>9. CASE AAudio!ExchangeStarting
  <2> USE <1>9 DEF AAudio!ExchangeStarting
  <2>1. stm'.cb = stm.cb /\ stm'.aa = stm.aa /\ UNCHANGED phase /\ (stm'.state = stm.state \/
        (stm'.state = "STARTING" /\ stm.state \in Startable))
    BY DEF AAudioFields, AAudioExchanges
  <2>2. stm.aa \in Active \/ stm.state \in Dead
    BY DEF AAudioExchanges
  <2>3. ClientInv'
    BY <2>1, <2>2 DEF AAudioFields, AAudioThreads, AAudioCalls, AAudioStates
  <2>4. Moves
    BY <2>1, <2>2, ClientMoves, DataMoves, ReportMoves, LibertiesTaken
       DEF AAudioFields, AAudioThreads, AAudioCalls, AAudioStates
  <2>5. AAudioFields'
    BY <2>1, <2>2 DEF AAudioFields
  <2>6. AAudioThreads'
    BY <2>1, <2>2 DEF AAudioFields, AAudioThreads
  <2>7. AAudioCalls'
    BY <2>1, <2>2 DEF AAudioFields, AAudioThreads, AAudioCalls
  <2>8. AAudioStates'
    BY <2>1, <2>2 DEF AAudioFields, AAudioThreads, AAudioCalls, AAudioStates
  <2>9. AAudioExchanges'
    BY <2>1, <2>2 DEF AAudioFields, AAudioThreads, AAudioCalls, AAudioStates, AAudioExchanges
  <2>10. AAudioHolds'
    BY <2>1, <2>2 DEF AAudioFields, AAudioThreads, AAudioCalls, AAudioHolds
  <2>11. Played
    BY <2>1, <2>2, LibertiesTaken DEF Played
  <2> QED  BY <2>3, <2>4, <2>5, <2>6, <2>7, <2>8, <2>9, <2>10, <2>11
<1>10. CASE AAudio!aaudio_stream_stop
  <2> USE <1>10 DEF AAudio!aaudio_stream_stop, AAudio!MayStop, AAudio!Unlocked
  <2>1. ClientInv'
    BY DEF AAudioFields, AAudioThreads, AAudioCalls, AAudioStates
  <2>2. Moves
    BY ClientMoves, DataMoves, ReportMoves, LibertiesTaken
       DEF AAudioFields, AAudioThreads, AAudioCalls, AAudioStates
  <2>3. AAudioFields'
    BY DEF AAudioFields
  <2>4. AAudioThreads'
    BY DEF AAudioFields, AAudioThreads
  <2>5. AAudioCalls'
    BY DEF AAudioFields, AAudioThreads, AAudioCalls
  <2>6. AAudioStates'
    BY DEF AAudioFields, AAudioThreads, AAudioCalls, AAudioStates
  <2>7. AAudioExchanges'
    BY DEF AAudioFields, AAudioThreads, AAudioCalls, AAudioStates, AAudioExchanges
  <2>8. AAudioHolds'
    BY DEF AAudioFields, AAudioThreads, AAudioCalls, AAudioHolds
  <2>9. Played
    BY LibertiesTaken DEF Played
  <2> QED  BY <2>1, <2>2, <2>3, <2>4, <2>5, <2>6, <2>7, <2>8, <2>9
<1>11. CASE AAudio!requestPause
  <2> USE <1>11 DEF AAudio!requestPause, AAudio!Stopped, AAudio!Refused
  <2>1. ClientInv'
    BY DEF AAudioFields, AAudioThreads, AAudioCalls, AAudioStates
  <2>2. Moves
    BY ClientMoves, DataMoves, ReportMoves, LibertiesTaken
       DEF AAudioFields, AAudioThreads, AAudioCalls, AAudioStates
  <2>3. AAudioFields'
    BY DEF AAudioFields
  <2>4. AAudioThreads'
    BY DEF AAudioFields, AAudioThreads
  <2>5. AAudioCalls'
    BY DEF AAudioFields, AAudioThreads, AAudioCalls
  <2>6. AAudioStates'
    BY DEF AAudioFields, AAudioThreads, AAudioCalls, AAudioStates
  <2>7. AAudioExchanges'
    BY DEF AAudioFields, AAudioThreads, AAudioCalls, AAudioStates, AAudioExchanges
  <2>8. AAudioHolds'
    BY DEF AAudioFields, AAudioThreads, AAudioCalls, AAudioHolds
  <2>9. Played
    BY LibertiesTaken DEF Played
  <2> QED  BY <2>1, <2>2, <2>3, <2>4, <2>5, <2>6, <2>7, <2>8, <2>9
<1>12. CASE AAudio!ExchangeStopping
  <2> USE <1>12 DEF AAudio!ExchangeStopping
  <2>1. stm'.cb = stm.cb /\ UNCHANGED calling /\ pc'.client \in {"idle", "stopped"} /\
        pc'.thread = pc.thread /\ pc'.worker = pc.worker
    BY DEF AAudioFields
  <2>2. stm'.aa = stm.aa /\ stm'.end = stm.end /\ (stm'.state = stm.state \/ (stm.state \in Active /\
        stm'.state = "STOPPING"))
    BY DEF AAudioFields
  <2>3. phase' = "stopped" \/ (UNCHANGED phase /\ stm.state \notin Dead)
    OBVIOUS
  <2>4. ClientInv'
    BY <2>1, <2>2, <2>3 DEF AAudioFields, AAudioThreads, AAudioCalls, AAudioStates
  <2>5. Moves
    BY <2>1, <2>2, <2>3, ClientMoves, DataMoves, ReportMoves, LibertiesTaken
       DEF AAudioFields, AAudioThreads, AAudioCalls, AAudioStates
  <2>6. AAudioFields'
    BY <2>1, <2>2, <2>3 DEF AAudioFields
  <2>7. AAudioThreads'
    BY <2>1, <2>2, <2>3 DEF AAudioFields, AAudioThreads
  <2>8. AAudioCalls'
    BY <2>1, <2>2, <2>3 DEF AAudioFields, AAudioThreads, AAudioCalls
  <2>9. AAudioStates'
    BY <2>1, <2>2, <2>3 DEF AAudioFields, AAudioThreads, AAudioCalls, AAudioStates
  <2>10. AAudioExchanges'
    BY <2>1, <2>2, <2>3 DEF AAudioFields, AAudioThreads, AAudioCalls, AAudioStates, AAudioExchanges
  <2>11. AAudioHolds'
    BY <2>1, <2>2, <2>3 DEF AAudioFields, AAudioThreads, AAudioCalls, AAudioHolds
  <2>12. Played
    BY <2>1, <2>2, <2>3, LibertiesTaken DEF Played
  <2> QED  BY <2>4, <2>5, <2>6, <2>7, <2>8, <2>9, <2>10, <2>11, <2>12
<1>13. CASE AAudio!NotifyClient
  <2> USE <1>13 DEF AAudio!NotifyClient, AAudio!Notified
  <2>1. Wakes("idle", pc.thread, pc.worker)
    BY AAudioNotifies
  <2>2. ClientInv'
    BY <2>1 DEF AAudioFields, AAudioThreads, AAudioCalls, AAudioStates
  <2>3. Moves
    BY <2>1, ClientMoves, DataMoves, ReportMoves, LibertiesTaken
       DEF AAudioFields, AAudioThreads, AAudioCalls, AAudioStates
  <2>4. AAudioFields'
    BY <2>1 DEF AAudioFields
  <2>5. AAudioThreads'
    BY <2>1 DEF AAudioFields, AAudioThreads
  <2>6. AAudioCalls'
    BY <2>1 DEF AAudioFields, AAudioThreads, AAudioCalls
  <2>7. AAudioStates'
    BY <2>1 DEF AAudioFields, AAudioThreads, AAudioCalls, AAudioStates
  <2>8. AAudioExchanges'
    BY <2>1 DEF AAudioFields, AAudioThreads, AAudioCalls, AAudioStates, AAudioExchanges
  <2>9. AAudioHolds'
    BY <2>1 DEF AAudioFields, AAudioThreads, AAudioCalls, AAudioHolds
  <2>10. Played
    BY <2>1, LibertiesTaken DEF Played
  <2> QED  BY <2>2, <2>3, <2>4, <2>5, <2>6, <2>7, <2>8, <2>9, <2>10
<1>14. CASE AAudio!data_cb
  <2> USE <1>14 DEF AAudio!data_cb, AAudio!CallData, AAudio!Buf
  <2>1. calling' = 1
    BY DEF AAudioThreads
  <2>2. ClientInv'
    BY <2>1 DEF AAudioFields, AAudioThreads, AAudioCalls, AAudioStates
  <2>3. Moves
    BY <2>1, ClientMoves, DataMoves, ReportMoves, LibertiesTaken
       DEF AAudioFields, AAudioThreads, AAudioCalls, AAudioStates
  <2>4. AAudioFields'
    BY <2>1 DEF AAudioFields
  <2>5. AAudioThreads'
    BY <2>1 DEF AAudioFields, AAudioThreads
  <2>6. AAudioCalls'
    BY <2>1 DEF AAudioFields, AAudioThreads, AAudioCalls
  <2>7. AAudioStates'
    BY <2>1 DEF AAudioFields, AAudioThreads, AAudioCalls, AAudioStates
  <2>8. AAudioExchanges'
    BY <2>1 DEF AAudioFields, AAudioThreads, AAudioCalls, AAudioStates, AAudioExchanges
  <2>9. AAudioHolds'
    BY <2>1 DEF AAudioFields, AAudioThreads, AAudioCalls, AAudioHolds
  <2>10. Played
    BY <2>1, LibertiesTaken DEF Played
  <2> QED  BY <2>2, <2>3, <2>4, <2>5, <2>6, <2>7, <2>8, <2>9, <2>10
<1>15. CASE AAudio!Returned
  <2> USE <1>15 DEF AAudio!Returned, AAudio!Answer, AAudio!Results, AAudio!Short
  <2>1. pc.client # "settle_start" /\ phase \in Exists
    BY DEF AAudioFields, AAudioCalls, AAudioStates, AAudioExchanges
  <2>2. /\ UNCHANGED pc /\ stm'.aa = stm.aa /\ stm'.expected = stm.expected
        /\ \/ stm'.state = stm.state /\ phase' = phase
           \/ stm'.state = "ERROR" /\ phase' = IF phase = "started" THEN "error" ELSE phase
           \/ stm'.state = "DRAINING" /\ phase' = IF phase = "started" THEN "draining" ELSE phase
    BY DEF AAudioFields
  <2>3. calling' = 0
    BY DEF AAudioThreads
  <2>4. stm.queued + 1 \in {0, 1, 2}
    BY DEF AAudioFields
  <2>5. ClientInv'
    BY <2>1, <2>2, <2>3, <2>4 DEF AAudioFields, AAudioThreads, AAudioCalls, AAudioStates
  <2>6. Moves
    BY <2>1, <2>2, <2>3, <2>4, ClientMoves, DataMoves, ReportMoves, LibertiesTaken
       DEF AAudioFields, AAudioThreads, AAudioCalls, AAudioStates
  <2>7. AAudioFields'
    BY <2>1, <2>2, <2>3, <2>4 DEF AAudioFields
  <2>8. AAudioThreads'
    BY <2>1, <2>2, <2>3, <2>4 DEF AAudioFields, AAudioThreads
  <2>9. AAudioCalls'
    BY <2>1, <2>2, <2>3, <2>4 DEF AAudioFields, AAudioThreads, AAudioCalls
  <2>10. AAudioStates'
    BY <2>1, <2>2, <2>3, <2>4 DEF AAudioFields, AAudioThreads, AAudioCalls, AAudioStates
  <2>11. AAudioExchanges'
    BY <2>1, <2>2, <2>3, <2>4 DEF AAudioFields, AAudioThreads, AAudioCalls, AAudioStates, AAudioExchanges
  <2>12. AAudioHolds'
    BY <2>1, <2>2, <2>3, <2>4 DEF AAudioFields, AAudioThreads, AAudioCalls, AAudioHolds
  <2>13. Played
    BY <2>1, <2>2, <2>3, <2>4, LibertiesTaken DEF Played
  <2> QED  BY <2>5, <2>6, <2>7, <2>8, <2>9, <2>10, <2>11, <2>12, <2>13
<1>16. CASE AAudio!SetWaiting
  <2> USE <1>16 DEF AAudio!SetWaiting
  <2>1. ClientInv'
    BY DEF AAudioFields, AAudioThreads, AAudioCalls, AAudioStates
  <2>2. Moves
    BY ClientMoves, DataMoves, ReportMoves, LibertiesTaken
       DEF AAudioFields, AAudioThreads, AAudioCalls, AAudioStates
  <2>3. AAudioFields'
    BY DEF AAudioFields
  <2>4. AAudioThreads'
    BY DEF AAudioFields, AAudioThreads
  <2>5. AAudioCalls'
    BY DEF AAudioFields, AAudioThreads, AAudioCalls
  <2>6. AAudioStates'
    BY DEF AAudioFields, AAudioThreads, AAudioCalls, AAudioStates
  <2>7. AAudioExchanges'
    BY DEF AAudioFields, AAudioThreads, AAudioCalls, AAudioStates, AAudioExchanges
  <2>8. AAudioHolds'
    BY DEF AAudioFields, AAudioThreads, AAudioCalls, AAudioHolds
  <2>9. Played
    BY LibertiesTaken DEF Played
  <2> QED  BY <2>1, <2>2, <2>3, <2>4, <2>5, <2>6, <2>7, <2>8, <2>9
<1>17. CASE AAudio!NotifyState
  <2> USE <1>17 DEF AAudio!NotifyState, AAudio!Notified, AAudio!Stopped
  <2>1. Wakes(pc.client, pc.thread, pc.worker)
    BY AAudioNotifies
  <2>2. ClientInv'
    BY <2>1 DEF AAudioFields, AAudioThreads, AAudioCalls, AAudioStates
  <2>3. Moves
    BY <2>1, ClientMoves, DataMoves, ReportMoves, LibertiesTaken
       DEF AAudioFields, AAudioThreads, AAudioCalls, AAudioStates
  <2>4. AAudioFields'
    BY <2>1 DEF AAudioFields
  <2>5. AAudioThreads'
    BY <2>1 DEF AAudioFields, AAudioThreads
  <2>6. AAudioCalls'
    BY <2>1 DEF AAudioFields, AAudioThreads, AAudioCalls
  <2>7. AAudioStates'
    BY <2>1 DEF AAudioFields, AAudioThreads, AAudioCalls, AAudioStates
  <2>8. AAudioExchanges'
    BY <2>1 DEF AAudioFields, AAudioThreads, AAudioCalls, AAudioStates, AAudioExchanges
  <2>9. AAudioHolds'
    BY <2>1 DEF AAudioFields, AAudioThreads, AAudioCalls, AAudioHolds
  <2>10. Played
    BY <2>1, LibertiesTaken DEF Played
  <2> QED  BY <2>2, <2>3, <2>4, <2>5, <2>6, <2>7, <2>8, <2>9, <2>10
<1>18. CASE AAudio!Lock
  <2>1. phase \notin Absent /\ UNCHANGED <<phase, calling, starts>>
    BY <1>18 DEF AAudio!Lock, AAudio!MutexIsFree, AAudioInv, AAudioThreads, AAudioCalls, AAudio!user,
       ThreadLocks
  <2>2. stm' = [end |-> stm.end, state |-> stm.state, aa |-> stm.aa, cb |-> stm.cb, expected |-> stm.expected,
                 waiting |-> stm'.waiting, join |-> stm.join, polling |-> stm'.polling, lost |-> stm'.lost,
                 queued |-> stm.queued, held |-> stm.held]
    BY <1>18 DEF AAudio!Lock, AAudio!MutexIsFree, AAudioInv, AAudioFields
  <2>3. pc' = [client |-> pc.client, thread |-> "loop", worker |-> pc.worker]
    BY <1>18 DEF AAudio!Lock, AAudio!MutexIsFree, ClientInv, AAudio!Goto
  <2>4. pc' = [client |-> pc.client, thread |-> pc'.thread, worker |-> pc'.worker]
    BY <2>3 DEF Wakes
  <2> QED  BY <2>3, <2>1, <2>2, <2>4, AAudioGoesOn DEF AAudioInv, AAudioThreads, Wakes
<1>19. CASE AAudio!state_thread
  <2>1. phase \notin Absent /\ UNCHANGED <<phase, calling, starts>>
    BY <1>19 DEF AAudio!state_thread, AAudioInv, AAudioThreads, AAudioCalls, AAudio!user, ThreadLocks
  <2>2. stm' = [end |-> stm.end, state |-> stm.state, aa |-> stm.aa, cb |-> stm.cb, expected |-> stm.expected,
                 waiting |-> stm'.waiting, join |-> stm.join, polling |-> stm'.polling, lost |-> stm'.lost,
                 queued |-> stm.queued, held |-> stm.held]
    BY <1>19 DEF AAudio!state_thread, AAudioInv, AAudioFields
  <2>3. \/ \E l \in {"update", "sleep"} : pc' = [client |-> pc.client, thread |-> l, worker |-> pc.worker]
        \/ Wakes(pc.client, "ended", pc.worker)
    BY <1>19, AAudioNotifies DEF AAudio!state_thread, ClientInv, AAudio!Goto
  <2>4. pc' = [client |-> pc.client, thread |-> pc'.thread, worker |-> pc'.worker]
    BY <2>3 DEF Wakes
  <2> QED  BY <2>3, <2>1, <2>2, <2>4, AAudioGoesOn DEF AAudioInv, AAudioThreads, Wakes
<1>20. CASE AAudio!Sleep
  <2>1. phase \notin Absent /\ UNCHANGED <<phase, calling, starts>>
    BY <1>20 DEF AAudio!Sleep, AAudioInv, AAudioThreads, AAudioCalls, AAudio!user, ThreadLocks
  <2>2. stm' = [end |-> stm.end, state |-> stm.state, aa |-> stm.aa, cb |-> stm.cb, expected |-> stm.expected,
                 waiting |-> stm'.waiting, join |-> stm.join, polling |-> stm'.polling, lost |-> stm'.lost,
                 queued |-> stm.queued, held |-> stm.held]
    BY <1>20 DEF AAudio!Sleep, AAudioInv, AAudioFields
  <2>3. pc' = [client |-> pc.client, thread |-> "wait", worker |-> pc.worker]
    BY <1>20 DEF AAudio!Sleep, ClientInv, AAudio!Goto
  <2>4. pc' = [client |-> pc.client, thread |-> pc'.thread, worker |-> pc'.worker]
    BY <2>3 DEF Wakes
  <2> QED  BY <2>3, <2>1, <2>2, <2>4, AAudioGoesOn DEF AAudioInv, AAudioThreads, Wakes
<1>21. CASE AAudio!update_state
  <2>1. phase \notin Absent /\ UNCHANGED <<phase, calling, starts>>
    BY <1>21 DEF AAudio!update_state, AAudio!waiting_state, AAudio!Unlocked, AAudio!Notified, AAudioInv,
       AAudioThreads, AAudioCalls, AAudio!user, ThreadLocks
  <2>2. stm' = [end |-> stm.end, state |-> stm.state, aa |-> stm.aa, cb |-> stm.cb, expected |-> stm.expected,
                 waiting |-> stm'.waiting, join |-> stm.join, polling |-> stm'.polling, lost |-> stm'.lost,
                 queued |-> stm.queued, held |-> stm.held]
    BY <1>21 DEF AAudio!update_state, AAudio!waiting_state, AAudio!Unlocked, AAudio!Notified, AAudioInv,
       AAudioFields
  <2>3. \/ pc' = [client |-> pc.client, thread |-> "updated", worker |-> pc.worker]
        \/ pc' = [client |-> pc.client, thread |-> "decide", worker |-> pc.worker] /\
           pc.client \notin ClientLocks
        \/ Wakes(pc.client, "updated", pc.worker)
    BY <1>21, AAudioNotifies DEF AAudio!update_state, AAudio!waiting_state, AAudio!Unlocked, AAudio!Notified,
       ClientInv, AAudio!Goto, AAudio!Unlocked, ClientLocks
  <2>4. pc' = [client |-> pc.client, thread |-> pc'.thread, worker |-> pc'.worker]
    BY <2>3 DEF Wakes
  <2> QED  BY <2>3, <2>1, <2>2, <2>4, AAudioGoesOn DEF AAudioInv, AAudioThreads, Wakes
<1>22. CASE AAudio!Updated
  <2>1. phase \notin Absent /\ UNCHANGED <<phase, calling, starts>>
    BY <1>22 DEF AAudio!Updated, AAudio!waiting_state, AAudioInv, AAudioThreads, AAudioCalls, AAudio!user,
       ThreadLocks
  <2>2. stm' = [end |-> stm.end, state |-> stm.state, aa |-> stm.aa, cb |-> stm.cb, expected |-> stm.expected,
                 waiting |-> stm'.waiting, join |-> stm.join, polling |-> stm'.polling, lost |-> stm'.lost,
                 queued |-> stm.queued, held |-> stm.held]
    BY <1>22 DEF AAudio!Updated, AAudio!waiting_state, AAudioInv, AAudioFields
  <2>3. \E l \in {"timed", "loop"} : pc' = [client |-> pc.client, thread |-> l, worker |-> pc.worker]
    BY <1>22 DEF AAudio!Updated, AAudio!waiting_state, ClientInv, AAudio!Goto
  <2>4. pc' = [client |-> pc.client, thread |-> pc'.thread, worker |-> pc'.worker]
    BY <2>3 DEF Wakes
  <2> QED  BY <2>3, <2>1, <2>2, <2>4, AAudioGoesOn DEF AAudioInv, AAudioThreads, Wakes
<1>23. CASE AAudio!Timeout
  <2>1. phase \notin Absent /\ UNCHANGED <<phase, calling, starts>>
    BY <1>23 DEF AAudio!Timeout, AAudioInv, AAudioThreads, AAudioCalls, AAudio!user, ThreadLocks
  <2>2. stm' = [end |-> stm.end, state |-> stm.state, aa |-> stm.aa, cb |-> stm.cb, expected |-> stm.expected,
                 waiting |-> stm'.waiting, join |-> stm.join, polling |-> stm'.polling, lost |-> stm'.lost,
                 queued |-> stm.queued, held |-> stm.held]
    BY <1>23 DEF AAudio!Timeout, AAudioInv, AAudioFields
  <2>3. pc' = [client |-> pc.client, thread |-> "woken", worker |-> pc.worker]
    BY <1>23 DEF AAudio!Timeout, ClientInv, AAudio!Goto
  <2>4. pc' = [client |-> pc.client, thread |-> pc'.thread, worker |-> pc'.worker]
    BY <2>3 DEF Wakes
  <2> QED  BY <2>3, <2>1, <2>2, <2>4, AAudioGoesOn DEF AAudioInv, AAudioThreads, Wakes
<1>24. CASE AAudio!Decide
  <2> USE <1>24 DEF AAudio!Decide, AAudio!Leaves, AAudio!Signals, AAudio!requestStop,
      AAudio!shutdown_with_error, AAudio!Drain, AAudio!Ended, AAudio!Ending, AAudio!Stopped
  <2>1. stm'.cb = stm.cb /\ UNCHANGED <<phase, calling, starts>>
    BY DEF AAudioFields
  <2>2. \E l \in {"updated", "STARTED", "STOPPED", "DRAINED", "ERROR"} : pc' = [client |-> pc.client,
        thread |-> l, worker |-> pc.worker]
    BY DEF AAudioFields, AAudioStates
  <2>3. ClientInv'
    BY <2>1, <2>2 DEF AAudioFields, AAudioThreads, AAudioCalls, AAudioStates
  <2>4. Moves
    BY <2>1, <2>2, ClientMoves, DataMoves, ReportMoves, LibertiesTaken
       DEF AAudioFields, AAudioThreads, AAudioCalls, AAudioStates
  <2>5. AAudioFields'
    BY <2>1, <2>2 DEF AAudioFields
  <2>6. AAudioThreads'
    BY <2>1, <2>2 DEF AAudioFields, AAudioThreads
  <2>7. AAudioCalls'
    BY <2>1, <2>2 DEF AAudioFields, AAudioThreads, AAudioCalls
  <2>8. AAudioStates'
    BY <2>1, <2>2 DEF AAudioFields, AAudioThreads, AAudioCalls, AAudioStates
  <2>9. AAudioExchanges'
    BY <2>1, <2>2 DEF AAudioFields, AAudioThreads, AAudioCalls, AAudioStates, AAudioExchanges
  <2>10. AAudioHolds'
    BY <2>1, <2>2 DEF AAudioFields, AAudioThreads, AAudioCalls, AAudioHolds
  <2>11. Played
    BY <2>1, <2>2, LibertiesTaken DEF Played
  <2> QED  BY <2>3, <2>4, <2>5, <2>6, <2>7, <2>8, <2>9, <2>10, <2>11
<1>25. CASE AAudio!TellError
  <2> USE <1>25 DEF AAudio!TellError, AAudio!Told
  <2>1. phase \in Exists
    BY DEF AAudioStates, AAudioExchanges
  <2>2. ClientInv'
    BY <2>1 DEF AAudioFields, AAudioThreads, AAudioCalls, AAudioStates
  <2>3. Moves
    BY <2>1, ClientMoves, DataMoves, ReportMoves, LibertiesTaken
       DEF AAudioFields, AAudioThreads, AAudioCalls, AAudioStates
  <2>4. AAudioFields'
    BY <2>1 DEF AAudioFields
  <2>5. AAudioThreads'
    BY <2>1 DEF AAudioFields, AAudioThreads, AAudioCalls, AAudioStates, AAudioExchanges
  <2>6. AAudioCalls'
    BY <2>1 DEF AAudioFields, AAudioThreads, AAudioCalls, AAudioStates, AAudioExchanges
  <2>7. AAudioStates'
    BY <2>1 DEF AAudioFields, AAudioThreads, AAudioCalls, AAudioStates, AAudioExchanges
  <2>8. AAudioExchanges'
    BY <2>1 DEF AAudioFields, AAudioThreads, AAudioCalls, AAudioStates, AAudioExchanges
  <2>9. AAudioHolds'
    BY <2>1 DEF AAudioFields, AAudioThreads, AAudioCalls, AAudioStates, AAudioExchanges, AAudioHolds
  <2>10. Played
    BY <2>1, LibertiesTaken DEF Played
  <2> QED  BY <2>2, <2>3, <2>4, <2>5, <2>6, <2>7, <2>8, <2>9, <2>10
<1>26. CASE AAudio!Exchange("STARTING", "STARTED", "STARTED")
  <2> USE <1>26 DEF AAudio!Exchange, AAudio!Told
  <2>1. ClientInv'
    BY DEF AAudioFields, AAudioThreads, AAudioCalls, AAudioStates
  <2>2. Moves
    BY ClientMoves, DataMoves, ReportMoves, LibertiesTaken
       DEF AAudioFields, AAudioThreads, AAudioCalls, AAudioStates
  <2>3. AAudioFields'
    BY DEF AAudioFields
  <2>4. AAudioThreads'
    BY DEF AAudioFields, AAudioThreads
  <2>5. AAudioCalls'
    BY DEF AAudioFields, AAudioThreads, AAudioCalls
  <2>6. AAudioStates'
    BY DEF AAudioFields, AAudioThreads, AAudioCalls, AAudioStates
  <2>7. AAudioExchanges'
    BY DEF AAudioFields, AAudioThreads, AAudioCalls, AAudioStates, AAudioExchanges
  <2>8. AAudioHolds'
    BY DEF AAudioFields, AAudioThreads, AAudioCalls, AAudioHolds
  <2>9. Played
    BY LibertiesTaken DEF Played
  <2> QED  BY <2>1, <2>2, <2>3, <2>4, <2>5, <2>6, <2>7, <2>8, <2>9
<1>27. CASE AAudio!Exchange("STOPPING", "STOPPED", "STOPPED")
  <2> USE <1>27 DEF AAudio!Exchange, AAudio!Told
  <2>1. ClientInv'
    BY DEF AAudioFields, AAudioThreads, AAudioCalls, AAudioStates
  <2>2. Moves
    BY ClientMoves, DataMoves, ReportMoves, LibertiesTaken
       DEF AAudioFields, AAudioThreads, AAudioCalls, AAudioStates
  <2>3. AAudioFields'
    BY DEF AAudioFields
  <2>4. AAudioThreads'
    BY DEF AAudioFields, AAudioThreads
  <2>5. AAudioCalls'
    BY DEF AAudioFields, AAudioThreads, AAudioCalls
  <2>6. AAudioStates'
    BY DEF AAudioFields, AAudioThreads, AAudioCalls, AAudioStates, AAudioExchanges
  <2>7. AAudioExchanges'
    BY DEF AAudioFields, AAudioThreads, AAudioCalls, AAudioStates, AAudioExchanges
  <2>8. AAudioHolds'
    BY DEF AAudioFields, AAudioThreads, AAudioCalls, AAudioHolds
  <2>9. Played
    BY LibertiesTaken DEF Played
  <2> QED  BY <2>1, <2>2, <2>3, <2>4, <2>5, <2>6, <2>7, <2>8, <2>9
<1>28. CASE AAudio!Exchange("DRAINING", "DRAINED", "STOPPED")
  <2> USE <1>28 DEF AAudio!Exchange, AAudio!Told
  <2>1. phase \in {"draining", "drained", "stopped"}
    BY DEF AAudioThreads, AAudioExchanges
  <2>2. ClientInv'
    BY <2>1 DEF AAudioFields, AAudioThreads, AAudioCalls, AAudioStates
  <2>3. Moves
    BY <2>1, ClientMoves, DataMoves, ReportMoves, LibertiesTaken
       DEF AAudioFields, AAudioThreads, AAudioCalls, AAudioStates
  <2>4. AAudioFields'
    BY <2>1 DEF AAudioFields
  <2>5. AAudioThreads'
    BY <2>1 DEF AAudioFields, AAudioThreads, AAudioCalls, AAudioStates, AAudioExchanges
  <2>6. AAudioCalls'
    BY <2>1 DEF AAudioFields, AAudioThreads, AAudioCalls, AAudioStates, AAudioExchanges
  <2>7. AAudioStates'
    BY <2>1 DEF AAudioFields, AAudioThreads, AAudioCalls, AAudioStates, AAudioExchanges
  <2>8. AAudioExchanges'
    BY <2>1 DEF AAudioFields, AAudioThreads, AAudioCalls, AAudioStates, AAudioExchanges
  <2>9. AAudioHolds'
    BY <2>1 DEF AAudioFields, AAudioThreads, AAudioCalls, AAudioStates, AAudioExchanges, AAudioHolds
  <2>10. Played
    BY <2>1, LibertiesTaken DEF Played
  <2> QED  BY <2>2, <2>3, <2>4, <2>5, <2>6, <2>7, <2>8, <2>9, <2>10
<1>29. CASE AAudio!notifier_thread
  <2>1. phase \notin Absent /\ UNCHANGED <<phase, calling, starts>>
    BY <1>29 DEF AAudio!notifier_thread, AAudio!Renotify, AAudioInv, AAudioThreads, AAudioCalls, AAudio!user,
       ThreadLocks
  <2>2. stm' = [end |-> stm.end, state |-> stm.state, aa |-> stm.aa, cb |-> stm.cb, expected |-> stm.expected,
                 waiting |-> stm'.waiting, join |-> stm.join, polling |-> stm'.polling, lost |-> stm'.lost,
                 queued |-> stm.queued, held |-> stm.held]
    BY <1>29 DEF AAudio!notifier_thread, AAudio!Renotify, AAudioInv, AAudioFields
  <2>3. \/ \E l \in {"loop", "sleep", "wait"} : pc' = [client |-> pc.client, thread |-> pc.thread, worker |-> l]
        \/ \E l \in {"loop", "ended"} : Wakes(pc.client, pc.thread, l)
    BY <1>29, AAudioNotifies DEF AAudio!notifier_thread, AAudio!Renotify, ClientInv, AAudio!Goto
  <2>4. pc' = [client |-> pc.client, thread |-> pc'.thread, worker |-> pc'.worker]
    BY <2>3 DEF Wakes
  <2> QED  BY <2>3, <2>1, <2>2, <2>4, AAudioGoesOn DEF AAudioInv, AAudioThreads, Wakes
<1>30. CASE AAudio!SpuriousWakeup
  <2>1. phase \notin Absent /\ UNCHANGED <<phase, calling, starts>>
    BY <1>30 DEF AAudio!SpuriousWakeup, AAudio!Waiters, AAudioInv, AAudioThreads, AAudioCalls, AAudio!user,
       ThreadLocks
  <2>2. stm' = [end |-> stm.end, state |-> stm.state, aa |-> stm.aa, cb |-> stm.cb, expected |-> stm.expected,
                 waiting |-> stm'.waiting, join |-> stm.join, polling |-> stm'.polling, lost |-> stm'.lost,
                 queued |-> stm.queued, held |-> stm.held]
    BY <1>30 DEF AAudio!SpuriousWakeup, AAudio!Waiters, AAudioInv, AAudioFields
  <2>3. \/ pc' = [client |-> pc.client, thread |-> "woken", worker |-> pc.worker]
        \/ pc' = [client |-> pc.client, thread |-> pc.thread, worker |-> "woken"]
    BY <1>30 DEF AAudio!SpuriousWakeup, AAudio!Waiters, ClientInv, AAudio!Goto
  <2>4. pc' = [client |-> pc.client, thread |-> pc'.thread, worker |-> pc'.worker]
    BY <2>3 DEF Wakes
  <2> QED  BY <2>3, <2>1, <2>2, <2>4, AAudioGoesOn DEF AAudioInv, AAudioThreads, Wakes
<1>31. CASE AAudio!Device
  <2> USE <1>31 DEF AAudio!Device, AAudio!Settle, AAudio!Play, AAudio!Transitional
  <2>1. stm.queued > 0 => stm.queued - 1 \in {0, 1, 2}
    BY DEF AAudioFields
  <2>2. ClientInv'
    BY <2>1 DEF AAudioFields, AAudioThreads, AAudioCalls, AAudioStates
  <2>3. Moves
    BY <2>1, ClientMoves, DataMoves, ReportMoves, LibertiesTaken
       DEF AAudioFields, AAudioThreads, AAudioCalls, AAudioStates
  <2>4. AAudioFields'
    BY <2>1 DEF AAudioFields
  <2>5. AAudioThreads'
    BY <2>1 DEF AAudioFields, AAudioThreads
  <2>6. AAudioCalls'
    BY <2>1 DEF AAudioFields, AAudioThreads, AAudioCalls
  <2>7. AAudioStates'
    BY <2>1 DEF AAudioFields, AAudioThreads, AAudioCalls, AAudioStates
  <2>8. AAudioExchanges'
    BY <2>1 DEF AAudioFields, AAudioThreads, AAudioCalls, AAudioStates, AAudioExchanges
  <2>9. AAudioHolds'
    BY <2>1 DEF AAudioFields, AAudioThreads, AAudioCalls, AAudioHolds
  <2>10. Played
    BY <2>1, LibertiesTaken DEF Played
  <2> QED  BY <2>2, <2>3, <2>4, <2>5, <2>6, <2>7, <2>8, <2>9, <2>10
<1>32. CASE UNCHANGED vars
  <2> USE <1>32 DEF vars
  <2>1. ClientInv' /\ Moves /\ Played
    BY ClientMoves DEF Played
  <2>2. AAudioFields'
    BY DEF AAudioFields
  <2>3. AAudioThreads'
    BY DEF AAudioThreads
  <2>4. AAudioCalls'
    BY DEF AAudioCalls
  <2>5. AAudioStates'
    BY DEF AAudioStates
  <2>6. AAudioExchanges'
    BY DEF AAudioExchanges
  <2>7. AAudioHolds'
    BY DEF AAudioHolds
  <2> QED  BY <2>1, <2>2, <2>3, <2>4, <2>5, <2>6, <2>7
<1> QED  BY <1>1, <1>2, <1>3, <1>4, <1>5, <1>6, <1>7, <1>8, <1>9, <1>10, <1>11, <1>12, <1>13, <1>14, <1>15,
            <1>16, <1>17, <1>18, <1>19, <1>20, <1>21, <1>22, <1>23, <1>24, <1>25, <1>26, <1>27, <1>28, <1>29,
            <1>30, <1>31, <1>32 DEF AAudio!Calls, AAudio!Client, AAudio!Thread, AAudio!Callback

\* The invariant implies what is promised of the state.
LEMMA AAudioPromises ==
  ASSUME ClientInv, AAudioInv, backend = "aaudio"
  PROVE  AAudio!TypeOK /\ NothingLeaks /\ NothingUndefined
<1> USE DEF AAudioInv, AAudioFields, AAudioThreads, AAudioCalls, AAudioStates, AAudioExchanges, AAudioHolds,
            Holds, Absent, Bare, Running, Exists, ThreadLocks, ClientLocks, Active, Startable, Dead
<1>1. AAudio!TypeOK
  BY DEF AAudio!TypeOK, AAudio!waiting_state, AAudio!Transitional, AAudio!Buf
<1>2. NothingLeaks
  BY LibertiesTaken DEF NothingLeaks
<1>3. NothingUndefined
  BY LibertiesTaken DEF NothingUndefined, ClientInv
<1> QED  BY <1>1, <1>2, <1>3

-----------------------------------------------------------------------------
(* The backend that was chosen keeps its own invariant. *)

TableInv == backend \in Compiled /\ nth \in {0} \cup default_init

BackendInv ==
  /\ backend = "kai" => KaiInv
  /\ backend = "audiotrack" => AudioTrackInv
  /\ backend = "sndio" => SndioInv
  /\ backend = "sun" => SunInv
  /\ backend = "jack" => JackInv
  /\ backend = "oss" => OssInv
  /\ backend = "winmm" => WinmmInv
  /\ backend = "pulse" => PulseInv
  /\ backend = "opensl" => OpenSLInv
  /\ backend = "wasapi" => WasapiInv
  /\ backend = "audiounit" => AudioUnitInv
  /\ backend = "aaudio" => AAudioInv

IInv == ClientInv /\ TableInv /\ BackendInv

BackendCalls == Calls \/ Client \/ Thread \/ Notifier \/ Callback \/ Device \/ Spurious

\* cubeb_init has no other backends to choose from.
LEMMA Backends ==
  Compiled \subseteq {"kai", "audiotrack", "sndio", "sun", "jack", "oss",
                 "winmm", "pulse", "opensl", "wasapi", "audiounit", "aaudio"}
BY CompiledAssumption DEF Known

\* What comes after an entry of default_init is an entry of it.
LEMMA InTable ==
  \A n : \A m \in After(n) : m \in default_init /\ Known[m] \in Compiled
BY DEF After, default_init

\* A context that is about to be opened keeps the invariant of its backend.
LEMMA FreshInv ==
  Fresh /\ TableInv => IInv
<1> SUFFICES ASSUME Fresh, TableInv  PROVE IInv
  OBVIOUS
<1>1. ClientInv
  BY DEF Fresh, ClientInv, AtRest, Phases, Absent
<1>2. BackendInv
  BY KaiFirst, AudioTrackFirst, SndioFirst, SunFirst, JackFirst, OssFirst, WinmmFirst, PulseFirst, OpenSLFirst,
     WasapiFirst, AudioUnitFirst, AAudioFirst DEF BackendInv
<1> QED  BY <1>1, <1>2 DEF IInv

\* So does one that cubeb_init tries when another backend has failed.
LEMMA InitGoesOn ==
  ASSUME IInv, cubeb_init
  PROVE  Fresh' /\ TableInv' /\ Moves /\ Played
<1>1. phase = "closed" /\ calling = 0 /\ starts = 0
  BY DEF cubeb_init, IInv, ClientInv
<1>2. Fresh'
  BY <1>1 DEF cubeb_init, Fresh, user, AtRest
<1>3. TableInv'
  BY InTable DEF cubeb_init, TableInv
<1>4. Moves /\ Played
  BY ClientMoves DEF cubeb_init, user, Played
<1> QED  BY <1>2, <1>3, <1>4

\* A step of the client, of a thread or of the device is one of the backend's.
LEMMA BackendStep ==
  ASSUME ClientInv, BackendInv, backend \in Compiled, BackendCalls \/ UNCHANGED vars, UNCHANGED backend
  PROVE  ClientInv' /\ BackendInv' /\ Moves /\ Played
<1> USE DEF BackendInv, BackendCalls, Calls, Client, Thread, Notifier, Callback, Device, Spurious
<1>1. CASE backend = "kai"
  <2>1. Kai!Calls \/ Kai!Thread \/ Kai!Device \/ UNCHANGED vars
    BY <1>1
  <2>2. ClientInv' /\ KaiInv' /\ Moves /\ Played
    BY <1>1, <2>1, KaiSteps
  <2> QED  BY <1>1, <2>2
<1>2. CASE backend = "audiotrack"
  <2>1. AudioTrack!Calls \/ AudioTrack!Thread \/ AudioTrack!Device \/ UNCHANGED vars
    BY <1>2
  <2>2. ClientInv' /\ AudioTrackInv' /\ Moves /\ Played
    BY <1>2, <2>1, AudioTrackSteps
  <2> QED  BY <1>2, <2>2
<1>3. CASE backend = "sndio"
  <2>1. Sndio!Calls \/ Sndio!Client \/ Sndio!Thread \/ UNCHANGED vars
    BY <1>3
  <2>2. ClientInv' /\ SndioInv' /\ Moves /\ Played
    BY <1>3, <2>1, SndioSteps
  <2> QED  BY <1>3, <2>2
<1>4. CASE backend = "sun"
  <2>1. Sun!Calls \/ Sun!Client \/ Sun!Thread \/ Sun!Device \/ UNCHANGED vars
    BY <1>4
  <2>2. ClientInv' /\ SunInv' /\ Moves /\ Played
    BY <1>4, <2>1, SunSteps
  <2> QED  BY <1>4, <2>2
<1>5. CASE backend = "jack"
  <2>1. Jack!Calls \/ Jack!Client \/ Jack!Thread \/ UNCHANGED vars
    BY <1>5
  <2>2. ClientInv' /\ JackInv' /\ Moves /\ Played
    BY <1>5, <2>1, JackSteps
  <2> QED  BY <1>5, <2>2
<1>6. CASE backend = "oss"
  <2>1. Oss!Calls \/ Oss!Client \/ Oss!Thread \/ Oss!Device \/ Oss!SpuriousWakeup \/ UNCHANGED vars
    BY <1>6
  <2>2. ClientInv' /\ OssInv' /\ Moves /\ Played
    BY <1>6, <2>1, OssSteps
  <2> QED  BY <1>6, <2>2
<1>7. CASE backend = "winmm"
  <2>1. Winmm!Calls \/ Winmm!Client \/ Winmm!Thread \/ Winmm!Device \/ UNCHANGED vars
    BY <1>7
  <2>2. ClientInv' /\ WinmmInv' /\ Moves /\ Played
    BY <1>7, <2>1, WinmmSteps
  <2> QED  BY <1>7, <2>2
<1>8. CASE backend = "pulse"
  <2>1. Pulse!Calls \/ Pulse!Client \/ Pulse!Thread \/ Pulse!Device \/ Pulse!stream_state_callback \/
        UNCHANGED vars
    BY <1>8
  <2>2. ClientInv' /\ PulseInv' /\ Moves /\ Played
    BY <1>8, <2>1, PulseSteps
  <2> QED  BY <1>8, <2>2
<1>9. CASE backend = "opensl"
  <2>1. OpenSL!Calls \/ OpenSL!Client \/ OpenSL!Thread \/ OpenSL!Device \/ UNCHANGED vars
    BY <1>9
  <2>2. ClientInv' /\ OpenSLInv' /\ Moves /\ Played
    BY <1>9, <2>1, OpenSLSteps
  <2> QED  BY <1>9, <2>2
<1>10. CASE backend = "wasapi"
  <2>1. Wasapi!Calls \/ Wasapi!Client \/ Wasapi!Thread \/ Wasapi!Device \/ Wasapi!OnDefaultDeviceChanged \/
        UNCHANGED vars
    BY <1>10
  <2>2. ClientInv' /\ WasapiInv' /\ Moves /\ Played
    BY <1>10, <2>1, WasapiSteps
  <2> QED  BY <1>10, <2>2
<1>11. CASE backend = "audiounit"
  <2>1. AudioUnit!Calls \/ AudioUnit!Client \/ AudioUnit!Thread \/ AudioUnit!Device \/ AudioUnit!Events \/
        UNCHANGED vars
    BY <1>11
  <2>2. ClientInv' /\ AudioUnitInv' /\ Moves /\ Played
    BY <1>11, <2>1, AudioUnitSteps
  <2> QED  BY <1>11, <2>2
<1>12. CASE backend = "aaudio"
  <2>1. AAudio!Calls \/ AAudio!Client \/ AAudio!Thread \/ AAudio!Device \/ AAudio!SpuriousWakeup \/
        AAudio!notifier_thread \/ AAudio!Callback \/ UNCHANGED vars
    BY <1>12
  <2>2. ClientInv' /\ AAudioInv' /\ Moves /\ Played
    BY <1>12, <2>1, AAudioSteps
  <2> QED  BY <1>12, <2>2
<1> QED  BY Backends, <1>1, <1>2, <1>3, <1>4, <1>5, <1>6, <1>7, <1>8, <1>9, <1>10, <1>11, <1>12

\* Every step keeps the invariant, is a step of the contract but for the liberties,
\* and tells of no end before what was to be played is played, but for them.
LEMMA NextStep ==
  ASSUME IInv, [Next]_all
  PROVE  IInv' /\ Moves /\ Played
<1>1. CASE cubeb_init
  <2>1. (Fresh /\ TableInv)' /\ Moves /\ Played
    BY <1>1, InitGoesOn
  <2>2. (Fresh /\ TableInv => IInv)'
    BY FreshInv, PTL
  <2> QED  BY <2>1, <2>2
<1>2. CASE BackendCalls /\ nth' \in {0, nth} /\ UNCHANGED backend
  <2>1. ClientInv' /\ BackendInv' /\ Moves /\ Played
    BY <1>2, BackendStep DEF IInv, TableInv
  <2>2. TableInv'
    BY <1>2 DEF IInv, TableInv, default_init
  <2> QED  BY <2>1, <2>2 DEF IInv
<1>3. CASE UNCHANGED all
  <2>1. UNCHANGED vars /\ UNCHANGED <<backend, nth>>
    BY <1>3 DEF all, vars
  <2>2. ClientInv' /\ BackendInv' /\ Moves /\ Played
    BY <2>1, BackendStep DEF IInv, TableInv
  <2>3. TableInv'
    BY <2>1 DEF IInv, TableInv, default_init
  <2> QED  BY <2>2, <2>3 DEF IInv
<1> QED  BY <1>1, <1>2, <1>3 DEF Next, BackendCalls

\* It implies what the runs check of the state.
LEMMA InvPromises ==
  IInv => TypeOK /\ NothingLeaks /\ NothingUndefined
<1> SUFFICES ASSUME IInv  PROVE TypeOK /\ NothingLeaks /\ NothingUndefined
  OBVIOUS
<1> USE DEF IInv, TableInv, BackendInv
<1>1. CASE backend = "kai"
  BY <1>1, KaiPromises DEF TypeOK
<1>2. CASE backend = "audiotrack"
  BY <1>2, AudioTrackPromises DEF TypeOK
<1>3. CASE backend = "sndio"
  BY <1>3, SndioPromises DEF TypeOK
<1>4. CASE backend = "sun"
  BY <1>4, SunPromises DEF TypeOK
<1>5. CASE backend = "jack"
  BY <1>5, JackPromises DEF TypeOK
<1>6. CASE backend = "oss"
  BY <1>6, OssPromises DEF TypeOK
<1>7. CASE backend = "winmm"
  BY <1>7, WinmmPromises DEF TypeOK
<1>8. CASE backend = "pulse"
  BY <1>8, PulsePromises DEF TypeOK
<1>9. CASE backend = "opensl"
  BY <1>9, OpenSLPromises DEF TypeOK
<1>10. CASE backend = "wasapi"
  BY <1>10, WasapiPromises DEF TypeOK
<1>11. CASE backend = "audiounit"
  BY <1>11, AudioUnitPromises DEF TypeOK
<1>12. CASE backend = "aaudio"
  BY <1>12, AAudioPromises DEF TypeOK
<1> QED  BY Backends, <1>1, <1>2, <1>3, <1>4, <1>5, <1>6, <1>7, <1>8, <1>9, <1>10, <1>11, <1>12

-----------------------------------------------------------------------------
(* What cubeb.h promises. *)

\* Every backend keeps its invariant, in every behaviour.
THEOREM Invariance == Spec => []IInv
<1>1. Init => IInv
  <2> SUFFICES ASSUME Init  PROVE IInv
    OBVIOUS
  <2>1. Fresh
    BY DEF Init, Fresh
  <2>2. TableInv
    BY InTable DEF Init, TableInv
  <2> QED  BY <2>1, <2>2, FreshInv
<1>2. IInv /\ [Next]_all => IInv'
  BY NextStep
<1> QED  BY <1>1, <1>2, PTL DEF Spec

\* The structures of every backend have their types, and its counters their bounds.
THEOREM TypeCorrect == Spec => []TypeOK
<1>1. IInv => TypeOK
  BY InvPromises
<1> QED  BY <1>1, Invariance, PTL

\* However the calls and the threads interleave, and whatever fails, what a backend
\* acquires is released when its context is destroyed or its init fails, but for the
\* four backends that leak.
THEOREM NothingIsLeaked == Spec => []NothingLeaks
<1>1. IInv => NothingLeaks
  BY InvPromises
<1> QED  BY <1>1, Invariance, PTL

\* No thread uses what is not created yet or is released, nor breaks an assertion,
\* but for the backends that take the liberty.
THEOREM NothingIsUndefined == Spec => []NothingUndefined
<1>1. IInv => NothingUndefined
  BY InvPromises
<1> QED  BY <1>1, Invariance, PTL

\* cubeb.h's contract for the callbacks, refined by every backend but for its
\* liberties: when the data callback may run, one call at a time, and which reports
\* follow which.
THEOREM ContractIsImplemented == Spec => ImplementsContract
<1>1. Init => Contract!Init
  BY DEF Init, Contract!Init
<1>2. IInv /\ [Next]_all => [ContractStep]_<<phase, calling>>
  BY NextStep DEF Moves
<1> QED  BY <1>1, <1>2, Invariance, PTL DEF Spec, ImplementsContract

\* When DRAINED is told nothing that the client provided is left to play, but for
\* the backends that take the liberty.
THEOREM DrainedWasPlayed == Spec => DrainedIsPlayed
<1>1. IInv /\ [Next]_all => [phase' = "drained" /\ phase # "drained"
                               => stm.queued = 0 \/ Takes("early DRAINED")]_all
  BY NextStep DEF Played
<1> QED  BY <1>1, Invariance, PTL DEF Spec, DrainedIsPlayed
================================================================================
