------------------------------ MODULE BackendProofs ------------------------------
(* Every backend keeps the contract of cubeb.h for the callbacks, releases what  *)
(* it acquired and uses nothing that is gone, but for its liberties.  Each has    *)
(* an invariant of its own, which relates where its threads are to what the       *)
(* client was told, and to what is held; CubebProofs puts them together.           *)
EXTENDS Cubeb, TLAPS

Absent  == {"closed", "gone"}                 \* there is no context
Bare    == {"none", "destroyed"}              \* there is no stream
Running == {"started", "draining", "drained", "error"}
Exists  == Running \cup {"stopped"}
Phases  == Absent \cup Bare \cup Exists

\* Of every backend: the client opens the context once, and no other call comes first.
ClientInv ==
  /\ pc = [client |-> pc.client, thread |-> pc.thread, worker |-> pc.worker]
  /\ phase \in Phases /\ calling \in {0, 1}
  /\ phase = "closed" => calling = 0 /\ starts = 0
  /\ pc.client = "failed" => phase = "closed"

\* The data callback runs where the thread says so.
Asks == calling = IF pc.thread = "data" THEN 1 ELSE 0

\* What is held is what the client has created.
Holds(context, stream) ==
  stm.held = IF phase \in Absent THEN {} ELSE IF phase \in Bare THEN context ELSE context \cup stream

\* The callback is called in a run, and has more to play until it ends.

\* A context that cubeb_init is about to open.
Fresh == stm \in Streams(backend) /\ pc = AtRest /\ phase = "closed" /\ calling = 0 /\ starts = 0

-----------------------------------------------------------------------------
(* The steps that the contract allows, of the client and of the callbacks. *)

Moves  == [ContractStep]_<<phase, calling>>
Played == phase' = "drained" /\ phase # "drained" => stm.queued = 0 \/ Takes("early DRAINED")

\* The calls of the client that change what it may do next.
LEMMA ClientMoves ==
  ASSUME UNCHANGED calling
  PROVE  /\ phase' = phase => Moves
         /\ phase = "closed" /\ phase' = "none" => Moves
         /\ phase \in Bare /\ phase' = "gone" => Moves
         /\ phase = "none" /\ phase' = "stopped" => Moves
         /\ phase = "stopped" /\ phase' = "started" => Moves
         /\ phase \in Running /\ phase' = "stopped" => Moves
         /\ phase = "stopped" /\ calling = 0 /\ phase' = "destroyed" => Moves
BY DEF Moves, ContractStep, Contract!Next, Contract!Become, Contract!ContextInit, Contract!ContextDestroy,
       Contract!StreamInit, Contract!Start, Contract!Stop, Contract!Destroy, Bare, Running

\* The data callback.
LEMMA DataMoves ==
  /\ phase = "started" /\ phase' = phase /\ calling = 0 /\ calling' = 1 => Moves
  /\ phase' = phase /\ calling = 1 /\ calling' = 0 => Moves
  /\ phase = "started" /\ phase' \in {"draining", "error"} /\ calling = 1 /\ calling' = 0 => Moves
  /\ Takes("late data") /\ phase \in {"none", "stopped"} /\ phase' = phase
       /\ calling = 0 /\ calling' = 1 => Moves
  /\ Takes("goes on") /\ phase \in {"error", "draining", "drained"} /\ phase' = phase
       /\ calling = 0 /\ calling' = 1 => Moves
BY DEF Moves, ContractStep, Contract!Next, Contract!BeginData, Contract!EndData, Contract!EndShort,
       Contract!EndError, LateData, GoesOn

\* The state callback.
LEMMA ReportMoves ==
  ASSUME UNCHANGED calling
  PROVE  /\ phase = "draining" /\ phase' = "drained" => Moves
         /\ phase \in Running /\ phase' = "error" => Moves
         /\ Takes("late report") /\ phase = "stopped" /\ phase' \in {"drained", "error"} => Moves
         /\ Takes("late report") /\ phase \in {"drained", "error"} /\ phase' = "destroyed" => Moves
         /\ Takes("stale report") /\ phase \in {"started", "drained", "error"}
              /\ phase' \in {"drained", "error"} => Moves
         /\ Takes("error drains") /\ phase = "error" /\ phase' = "drained" => Moves
BY DEF Moves, ContractStep, Contract!Next, Contract!Become, Contract!Drained, Contract!Error,
       LateReport, StaleReport, ErrorDrains, Running

\* What each backend takes the liberty of.
LEMMA LibertiesTaken ==
  /\ backend \in {"pulse", "jack", "oss", "winmm", "opensl", "wasapi", "audiounit",
     "aaudio"} => Takes("late report")
  /\ backend \in {"jack", "oss", "audiotrack", "winmm", "opensl", "wasapi",
     "audiounit"} => Takes("stale report")
  /\ backend \in {"jack", "winmm", "opensl", "wasapi", "audiounit", "aaudio"} => Takes("late data")
  /\ backend \in {"jack", "oss", "kai", "opensl", "audiounit", "aaudio"} => Takes("goes on")
  /\ backend \in {"pulse", "kai"} => Takes("error drains")
  /\ backend \in {"pulse", "oss", "sun", "kai", "opensl", "wasapi", "audiounit",
     "aaudio"} => Takes("early DRAINED")
  /\ backend \in {"sndio", "opensl", "wasapi", "audiounit"} => Takes("leaks")
  /\ backend \in {"pulse", "jack", "sun", "opensl", "wasapi", "audiounit"} => Takes("undefined")
BY DEF Takes, Liberties

-----------------------------------------------------------------------------
(* What steps that are put together acquire, and what is left when one fails. *)

\* The resources of the backends whose inits are put together from steps.
Names == {"record", "play", "mutex", "buf", "mtx", "doorbell_cv", "stopped_cv", "stm", "output", "input",
  "ready", "params",
          "queuebuf", "playerObj", "recorderObj", "input_buffer_array", "resampler", "ctx", "lib", "engObj",
            "outmixObj",
          "reconfigure", "refill", "input_available", "shutdown", "mmcss", "thread_ready", "clients", "thread",
          "units", "device_listeners", "system_listeners"}

\* What two runs of steps acquire together.
LEMMA AllJoins ==
  \A s, t \in Seq(Names) : s \o t \in Seq(Names) /\ All(s \o t) = All(s) \cup All(t)
<1> TAKE s, t \in Seq(Names)
<1>1. s \o t \in Seq(Names) /\ Len(s \o t) = Len(s) + Len(t) /\ DOMAIN (s \o t) = 1..Len(s \o t)
  OBVIOUS
<1>2. \A i \in DOMAIN s : i \in DOMAIN (s \o t) /\ (s \o t)[i] = s[i]
  OBVIOUS
<1>3. \A i \in DOMAIN t : i + Len(s) \in DOMAIN (s \o t) /\ (s \o t)[i + Len(s)] = t[i]
  OBVIOUS
<1>4. ASSUME NEW i \in DOMAIN (s \o t), i \notin DOMAIN s
      PROVE  i - Len(s) \in DOMAIN t /\ (s \o t)[i] = t[i - Len(s)]
  BY <1>1, <1>4
<1>5. ASSUME NEW x \in All(s \o t)  PROVE  x \in All(s) \cup All(t)
  BY <1>2, <1>4 DEF All
<1>6. ASSUME NEW x \in All(s) \cup All(t)  PROVE  x \in All(s \o t)
  BY <1>2, <1>3 DEF All
<1> QED  BY <1>1, <1>5, <1>6

\* Nothing that is freed is left, and nothing else than what was acquired.
LEMMA LeftOfAll ==
  \A freed : \A steps \in Seq(Names) : \A left \in Left(steps, freed) : left \subseteq All(steps) \ freed
<1> TAKE freed
<1> TAKE steps \in Seq(Names)
<1>1. ASSUME NEW i \in 0..(Len(steps) - 1), NEW j \in 1..i
      PROVE  steps[j] \in All(steps)
  <2>1. j \in DOMAIN steps
    OBVIOUS
  <2> QED  BY <2>1 DEF All
<1> QED  BY <1>1 DEF Left

\* What a step that is taken on a condition acquires.
LEMMA AllOfOne ==
  \A f : \A x \in Names : LET step == IF x \in f THEN <<x>> ELSE <<>>
                         IN  step \in Seq(Names) /\ All(step) = {x} \cap f
<1> TAKE f
<1> TAKE x \in Names
<1>1. CASE x \in f
  BY <1>1 DEF All
<1>2. CASE x \notin f
  BY <1>2 DEF All
<1> QED  BY <1>1, <1>2

-----------------------------------------------------------------------------
(* KAI: the callback of the library plays what it was handed, and tells the end. *)

\* The callback is called in a run, and has more to play until it ends.
KaiInv ==
  /\ stm = [playing |-> stm.playing, ended |-> stm.ended, got |-> stm.got, queued |-> stm.queued,
            held |-> stm.held]
  /\ stm.got \in {0, 1} /\ stm.queued \in {0, 1, 2}
  /\ pc.client \in {"idle", "failed"} /\ pc.thread \in {"none", "data", "tell", "hand"} /\ Asks
  /\ pc.worker = "none"
  /\ pc.thread # "none" => phase \in Running /\ stm.queued # 2
  /\ pc.thread = "tell" => phase # "started"
  /\ stm.playing => phase \in Running
  /\ Holds({"kai"}, {"mutex", "hkai"})

\* What the inits acquire, and what is left of it when they fail.
LEMMA KaiSets ==
  /\ Kai!All(<<"kai">>) = {"kai"}
  /\ Kai!All(<<"mutex", "hkai">>) = {"mutex", "hkai"}
  /\ \A left \in Kai!Left(<<"kai">>, {}) : left = {}
  /\ \A left \in Kai!Left(<<"mutex", "hkai">>, {"mutex"}) : left = {}
BY DEF Kai!All, Kai!Left

\* The invariant holds of a context that is not open.
LEMMA KaiFirst ==
  Fresh /\ backend = "kai" => KaiInv
<1> SUFFICES ASSUME Fresh, backend = "kai"
              PROVE  KaiInv
  OBVIOUS
<1> USE DEF Fresh, Streams, AtRest, Kai!Streams, Kai!Closed, Asks, Holds, Absent, Bare, Running, Exists
<1>1. KaiInv
  BY DEF KaiInv
<1> QED  BY <1>1

\* Every step keeps the invariant, and to the contract but for the liberties.
LEMMA KaiSteps ==
  ASSUME ClientInv, KaiInv, backend = "kai", Kai!Calls \/ Kai!Thread \/ Kai!Device \/ UNCHANGED vars
  PROVE  ClientInv' /\ KaiInv' /\ Moves /\ Played
<1> USE DEF ClientInv, KaiInv, Asks, Holds, Absent, Bare, Running, Exists, Phases, Kai!Goto, Kai!Become,
            Kai!user, Kai!Idle, Kai!NBUFS
<1>1. CASE Kai!kai_init
  <2> USE <1>1 DEF Kai!kai_init, Kai!Opens, Kai!MayOpen, Kai!Acquire, Kai!Fails
  <2>1. ClientInv' /\ Moves
    BY KaiSets, ClientMoves, DataMoves, ReportMoves, LibertiesTaken
  <2>2. KaiInv'
    BY KaiSets
  <2>3. Played
    BY LibertiesTaken DEF Played
  <2> QED  BY <2>1, <2>2, <2>3
<1>2. CASE Kai!kai_destroy
  <2> USE <1>2 DEF Kai!kai_destroy, Kai!Closes, Kai!MayClose, Kai!Release
  <2>1. ClientInv' /\ Moves
    BY ClientMoves, DataMoves, ReportMoves, LibertiesTaken
  <2>2. KaiInv'
    OBVIOUS
  <2>3. Played
    BY LibertiesTaken DEF Played
  <2> QED  BY <2>1, <2>2, <2>3
<1>3. CASE Kai!kai_stream_init
  <2> USE <1>3 DEF Kai!kai_stream_init, Kai!MayInit, Kai!Acquire, Kai!Fails
  <2>1. ClientInv' /\ Moves
    BY KaiSets, ClientMoves, DataMoves, ReportMoves, LibertiesTaken
  <2>2. KaiInv'
    BY KaiSets
  <2>3. Played
    BY LibertiesTaken DEF Played
  <2> QED  BY <2>1, <2>2, <2>3
<1>4. CASE Kai!kai_stream_start
  <2> USE <1>4 DEF Kai!kai_stream_start, Kai!MayStart, Kai!Begins
  <2>1. ClientInv' /\ Moves
    BY ClientMoves, DataMoves, ReportMoves, LibertiesTaken
  <2>2. KaiInv'
    OBVIOUS
  <2>3. Played
    BY LibertiesTaken DEF Played
  <2> QED  BY <2>1, <2>2, <2>3
<1>5. CASE Kai!kai_stream_stop
  <2> USE <1>5 DEF Kai!kai_stream_stop, Kai!MayStop
  <2>1. ClientInv' /\ Moves
    BY ClientMoves, DataMoves, ReportMoves, LibertiesTaken
  <2>2. KaiInv'
    OBVIOUS
  <2>3. Played
    BY LibertiesTaken DEF Played
  <2> QED  BY <2>1, <2>2, <2>3
<1>6. CASE Kai!kai_stream_destroy
  <2> USE <1>6 DEF Kai!kai_stream_destroy, Kai!MayDestroy, Kai!Release
  <2>1. ClientInv' /\ Moves
    BY ClientMoves, DataMoves, ReportMoves, LibertiesTaken
  <2>2. KaiInv'
    OBVIOUS
  <2>3. Played
    BY LibertiesTaken DEF Played
  <2> QED  BY <2>1, <2>2, <2>3
<1>7. CASE Kai!kai_callback
  <2> USE <1>7 DEF Kai!kai_callback, Kai!CallData
  <2>1. calling' = 1
    OBVIOUS
  <2>2. ClientInv' /\ Moves
    BY <2>1, ClientMoves, DataMoves, ReportMoves, LibertiesTaken
  <2>3. KaiInv'
    BY <2>1
  <2>4. Played
    BY <2>1, LibertiesTaken DEF Played
  <2> QED  BY <2>2, <2>3, <2>4
<1>8. CASE Kai!Returned
  <2> USE <1>8 DEF Kai!Returned, Kai!Answer, Kai!Results
  <2>1. calling' = 0
    OBVIOUS
  <2>2. ClientInv' /\ Moves
    BY <2>1, ClientMoves, DataMoves, ReportMoves, LibertiesTaken
  <2>3. KaiInv'
    BY <2>1
  <2>4. Played
    BY <2>1, LibertiesTaken DEF Played
  <2> QED  BY <2>2, <2>3, <2>4
<1>9. CASE Kai!Tell
  <2> USE <1>9 DEF Kai!Tell, Kai!Told
  <2>1. ClientInv' /\ Moves
    BY ClientMoves, DataMoves, ReportMoves, LibertiesTaken
  <2>2. KaiInv'
    OBVIOUS
  <2>3. Played
    BY LibertiesTaken DEF Played
  <2> QED  BY <2>1, <2>2, <2>3
<1>10. CASE Kai!Hand
  <2> USE <1>10 DEF Kai!Hand
  <2>1. stm.queued + stm.got \in {0, 1, 2}
    OBVIOUS
  <2>2. ClientInv' /\ Moves
    BY <2>1, ClientMoves, DataMoves, ReportMoves, LibertiesTaken
  <2>3. KaiInv'
    BY <2>1
  <2>4. Played
    BY <2>1, LibertiesTaken DEF Played
  <2> QED  BY <2>2, <2>3, <2>4
<1>11. CASE Kai!Device
  <2> USE <1>11 DEF Kai!Device
  <2>1. stm.queued - 1 \in {0, 1, 2}
    OBVIOUS
  <2>2. ClientInv' /\ Moves
    BY <2>1, ClientMoves, DataMoves, ReportMoves, LibertiesTaken
  <2>3. KaiInv'
    BY <2>1
  <2>4. Played
    BY <2>1, LibertiesTaken DEF Played
  <2> QED  BY <2>2, <2>3, <2>4
<1>12. CASE UNCHANGED vars
  <2> USE <1>12 DEF vars
  <2>1. ClientInv' /\ Moves /\ Played
    BY ClientMoves DEF Played
  <2>2. KaiInv'
    OBVIOUS
  <2> QED  BY <2>1, <2>2
<1> QED  BY <1>1, <1>2, <1>3, <1>4, <1>5, <1>6, <1>7, <1>8, <1>9, <1>10, <1>11, <1>12 DEF Kai!Calls, Kai!Thread

\* The invariant implies what is promised of the state.
LEMMA KaiPromises ==
  ASSUME ClientInv, KaiInv, backend = "kai"
  PROVE  Kai!TypeOK /\ NothingLeaks /\ NothingUndefined
<1> USE DEF KaiInv, Asks, Holds, Absent, Bare, Running, Exists
<1>1. Kai!TypeOK
  BY DEF Kai!TypeOK, Kai!NBUFS
<1>2. NothingLeaks
  BY LibertiesTaken DEF NothingLeaks
<1>3. NothingUndefined
  BY LibertiesTaken DEF NothingUndefined, ClientInv
<1> QED  BY <1>1, <1>2, <1>3

-----------------------------------------------------------------------------
(* AudioTrack: the callback fills the buffers, and a marker tells the end. *)

\* Data is asked for while the stream is started, and each end of a run drains it.
AudioTrackInv ==
  /\ stm = [playing |-> stm.playing, draining |-> stm.draining, marker |-> stm.marker,
            queued |-> stm.queued, held |-> stm.held]
  /\ stm.queued \in {0, 1, 2}
  /\ pc.client \in {"idle", "failed"} /\ pc.thread \in {"none", "data"} /\ Asks
  /\ pc.worker = "none"
  /\ pc.thread = "data" => phase = "started" /\ stm.queued # 2
  /\ stm.playing => phase \in Running
  /\ phase \in Running \ {"started"} => stm.draining
  /\ stm.marker => stm.draining
  /\ Holds({"library", "symbols"}, {"stream", "instance", "check"})

\* What the inits acquire, and what is left of it when they fail.
LEMMA AudioTrackSets ==
  /\ AudioTrack!All(<<"library", "symbols">>) = {"library", "symbols"}
  /\ AudioTrack!All(<<"stream", "instance", "check">>) = {"stream", "instance", "check"}
  /\ \A left \in AudioTrack!Left(<<"library", "symbols">>, {"library"}) : left = {}
  /\ \A left \in AudioTrack!Left(<<"stream", "instance", "check">>, {"stream", "instance"}) : left = {}
BY DEF AudioTrack!All, AudioTrack!Left

\* The invariant holds of a context that is not open.
LEMMA AudioTrackFirst ==
  Fresh /\ backend = "audiotrack" => AudioTrackInv
<1> SUFFICES ASSUME Fresh, backend = "audiotrack"
              PROVE  AudioTrackInv
  OBVIOUS
<1> USE DEF Fresh, Streams, AtRest, AudioTrack!Streams, AudioTrack!Closed, Asks, Holds, Absent, Bare, Running,
            Exists
<1>1. AudioTrackInv
  BY DEF AudioTrackInv
<1> QED  BY <1>1

\* Every step keeps the invariant, and to the contract but for the liberties.
LEMMA AudioTrackSteps ==
  ASSUME ClientInv, AudioTrackInv, backend = "audiotrack", AudioTrack!Calls \/ AudioTrack!Thread \/
         AudioTrack!Device \/ UNCHANGED vars
  PROVE  ClientInv' /\ AudioTrackInv' /\ Moves /\ Played
<1> USE DEF ClientInv, AudioTrackInv, Asks, Holds, Absent, Bare, Running, Exists, Phases, AudioTrack!Goto,
            AudioTrack!Become, AudioTrack!user, AudioTrack!Idle, AudioTrack!Buf
<1>1. CASE AudioTrack!audiotrack_init
  <2> USE <1>1 DEF AudioTrack!audiotrack_init, AudioTrack!Opens, AudioTrack!MayOpen, AudioTrack!Acquire,
      AudioTrack!Fails
  <2>1. ClientInv' /\ Moves
    BY AudioTrackSets, ClientMoves, DataMoves, ReportMoves, LibertiesTaken
  <2>2. AudioTrackInv'
    BY AudioTrackSets
  <2>3. Played
    BY LibertiesTaken DEF Played
  <2> QED  BY <2>1, <2>2, <2>3
<1>2. CASE AudioTrack!audiotrack_destroy
  <2> USE <1>2 DEF AudioTrack!audiotrack_destroy, AudioTrack!Closes, AudioTrack!MayClose, AudioTrack!Release
  <2>1. ClientInv' /\ Moves
    BY ClientMoves, DataMoves, ReportMoves, LibertiesTaken
  <2>2. AudioTrackInv'
    OBVIOUS
  <2>3. Played
    BY LibertiesTaken DEF Played
  <2> QED  BY <2>1, <2>2, <2>3
<1>3. CASE AudioTrack!audiotrack_stream_init
  <2> USE <1>3 DEF AudioTrack!audiotrack_stream_init, AudioTrack!MayInit, AudioTrack!Acquire, AudioTrack!Fails,
      AudioTrack!Steps
  <2>1. ClientInv' /\ Moves
    BY AudioTrackSets, ClientMoves, DataMoves, ReportMoves, LibertiesTaken
  <2>2. AudioTrackInv'
    BY AudioTrackSets
  <2>3. Played
    BY LibertiesTaken DEF Played
  <2> QED  BY <2>1, <2>2, <2>3
<1>4. CASE AudioTrack!audiotrack_stream_start
  <2> USE <1>4 DEF AudioTrack!audiotrack_stream_start, AudioTrack!MayStart, AudioTrack!Begins
  <2>1. ClientInv' /\ Moves
    BY ClientMoves, DataMoves, ReportMoves, LibertiesTaken
  <2>2. AudioTrackInv'
    OBVIOUS
  <2>3. Played
    BY LibertiesTaken DEF Played
  <2> QED  BY <2>1, <2>2, <2>3
<1>5. CASE AudioTrack!audiotrack_stream_stop
  <2> USE <1>5 DEF AudioTrack!audiotrack_stream_stop, AudioTrack!MayStop
  <2>1. ClientInv' /\ Moves
    BY ClientMoves, DataMoves, ReportMoves, LibertiesTaken
  <2>2. AudioTrackInv'
    OBVIOUS
  <2>3. Played
    BY LibertiesTaken DEF Played
  <2> QED  BY <2>1, <2>2, <2>3
<1>6. CASE AudioTrack!audiotrack_stream_destroy
  <2> USE <1>6 DEF AudioTrack!audiotrack_stream_destroy, AudioTrack!MayDestroy, AudioTrack!Release
  <2>1. ClientInv' /\ Moves
    BY ClientMoves, DataMoves, ReportMoves, LibertiesTaken
  <2>2. AudioTrackInv'
    OBVIOUS
  <2>3. Played
    BY LibertiesTaken DEF Played
  <2> QED  BY <2>1, <2>2, <2>3
<1>7. CASE AudioTrack!MoreData
  <2> USE <1>7 DEF AudioTrack!MoreData, AudioTrack!CallData
  <2>1. calling' = 1
    OBVIOUS
  <2>2. ClientInv' /\ Moves
    BY <2>1, ClientMoves, DataMoves, ReportMoves, LibertiesTaken
  <2>3. AudioTrackInv'
    BY <2>1
  <2>4. Played
    BY <2>1, LibertiesTaken DEF Played
  <2> QED  BY <2>2, <2>3, <2>4
<1>8. CASE AudioTrack!Returned
  <2> USE <1>8 DEF AudioTrack!Returned, AudioTrack!Answer, AudioTrack!Results
  <2>1. calling' = 0
    OBVIOUS
  <2>2. stm.queued + 1 \in {0, 1, 2}
    OBVIOUS
  <2>3. ClientInv' /\ Moves
    BY <2>1, <2>2, ClientMoves, DataMoves, ReportMoves, LibertiesTaken
  <2>4. AudioTrackInv'
    BY <2>1, <2>2
  <2>5. Played
    BY <2>1, <2>2, LibertiesTaken DEF Played
  <2> QED  BY <2>3, <2>4, <2>5
<1>9. CASE AudioTrack!Marker
  <2> USE <1>9 DEF AudioTrack!Marker, AudioTrack!Told
  <2>1. ClientInv' /\ Moves
    BY ClientMoves, DataMoves, ReportMoves, LibertiesTaken
  <2>2. AudioTrackInv'
    OBVIOUS
  <2>3. Played
    BY LibertiesTaken DEF Played
  <2> QED  BY <2>1, <2>2, <2>3
<1>10. CASE AudioTrack!Device
  <2> USE <1>10 DEF AudioTrack!Device
  <2>1. stm.queued - 1 \in {0, 1, 2}
    OBVIOUS
  <2>2. ClientInv' /\ Moves
    BY <2>1, ClientMoves, DataMoves, ReportMoves, LibertiesTaken
  <2>3. AudioTrackInv'
    BY <2>1
  <2>4. Played
    BY <2>1, LibertiesTaken DEF Played
  <2> QED  BY <2>2, <2>3, <2>4
<1>11. CASE UNCHANGED vars
  <2> USE <1>11 DEF vars
  <2>1. ClientInv' /\ Moves /\ Played
    BY ClientMoves DEF Played
  <2>2. AudioTrackInv'
    OBVIOUS
  <2> QED  BY <2>1, <2>2
<1> QED  BY <1>1, <1>2, <1>3, <1>4, <1>5, <1>6, <1>7, <1>8, <1>9, <1>10, <1>11
            DEF AudioTrack!Calls, AudioTrack!Thread

\* The invariant implies what is promised of the state.
LEMMA AudioTrackPromises ==
  ASSUME ClientInv, AudioTrackInv, backend = "audiotrack"
  PROVE  AudioTrack!TypeOK /\ NothingLeaks /\ NothingUndefined
<1> USE DEF AudioTrackInv, Asks, Holds, Absent, Bare, Running, Exists
<1>1. AudioTrack!TypeOK
  <2>1. stm.queued \in 0..AudioTrack!Buf
    BY DEF AudioTrack!Buf
  <2>2. stm.held \subseteq {"library", "symbols"} \cup AudioTrack!All(AudioTrack!Steps)
    BY AudioTrackSets DEF AudioTrack!Steps
  <2> QED  BY <2>1, <2>2 DEF AudioTrack!TypeOK
<1>2. NothingLeaks
  BY LibertiesTaken DEF NothingLeaks
<1>3. NothingUndefined
  BY LibertiesTaken DEF NothingUndefined, ClientInv
<1> QED  BY <1>1, <1>2, <1>3

-----------------------------------------------------------------------------
(* sndio: a thread for each run, which is joined by the stop. *)

SndioFields ==
  /\ stm = [mode |-> stm.mode, active |-> stm.active, eof |-> stm.eof, prime |-> stm.prime,
            played |-> stm.played, pend |-> stm.pend, recorded |-> stm.recorded, told |-> stm.told,
            queued |-> stm.queued, held |-> stm.held]
  /\ stm.played \in {0, 1, 2} /\ stm.pend \in {0, 1, 2} /\ stm.recorded \in {0, 1, 2}
  /\ stm.prime \in {0, 1} /\ stm.queued \in {0, 1, 2, 3, 4}
  /\ stm.held \subseteq {"libsndio", "context", "hdl", "pbuf", "rbuf", "thread"}

\* The thread is there for the run that the client is told of.
SndioRuns ==
  /\ pc.client \in {"idle", "failed", "join"} /\ pc.worker = "none" /\ Asks
  /\ pc.thread \in {"none", "begin", "loop", "data", "poll", "tell", "done"}
  /\ pc.thread = "none" <=> phase \notin Running
  /\ phase \in Running => pc.client = "join" \/ (pc.client = "idle" /\ stm.active)
  /\ pc.client = "join" => phase \in Running
  /\ pc.thread \in {"begin", "data"} => phase = "started"
  /\ pc.thread \in {"loop", "poll"} => phase = IF stm.eof THEN "draining" ELSE "started"
  /\ pc.thread = "tell" => stm.told \in {"STOPPED", "DRAINED", "ERROR"} /\ stm.queued = 0
  /\ pc.thread = "tell" /\ stm.told = "DRAINED" => phase = "draining"
  /\ pc.thread = "tell" => phase # "drained"

SndioInv == SndioFields /\ SndioRuns

\* What the inits acquire, and what is left of it when they fail.
LEMMA SndioSets ==
  /\ Sndio!All(<<"libsndio", "context">>) = {"libsndio", "context"}
  /\ \A left \in Sndio!Left(<<"libsndio", "context">>, {}) : left \subseteq {"libsndio", "context"}
  /\ Sndio!All(Sndio!Wants(stm.mode)) \subseteq {"hdl", "pbuf", "rbuf"}
  /\ \A left \in Sndio!Left(Sndio!Wants(stm.mode), {"hdl", "pbuf"}) : left \subseteq {"hdl", "pbuf", "rbuf"}
BY DEF Sndio!All, Sndio!Left, Sndio!Wants

\* What is played, recorded and buffered stays within its bounds.
LEMMA SndioPolls ==
  ASSUME SndioFields, Sndio!Poll
  PROVE  /\ stm'.played \in {0, 1, 2} /\ stm'.recorded \in {0, 1, 2}
         /\ stm'.queued \in {0, 1, 2, 3, 4}
<1>1. CASE Sndio!Leaves(stm, "ERROR")
  BY <1>1 DEF SndioFields, Sndio!Leaves, Sndio!Finish
<1>2. ASSUME NEW d \in 0..stm.queued, NEW w \in {0, 1, 2}, NEW r \in {0, 1, 2}
      PROVE  /\ (w > 0 => stm.played + w <= stm.pend) => stm.played + w \in {0, 1, 2}
             /\ (r > 0 => stm.recorded + r <= 2) => stm.recorded + r \in {0, 1, 2}
             /\ stm.queued - d + w <= 4 => stm.queued - d + w \in {0, 1, 2, 3, 4}
  <2>1. /\ stm.played \in {0, 1, 2} /\ stm.pend \in {0, 1, 2} /\ stm.recorded \in {0, 1, 2}
        /\ stm.queued \in {0, 1, 2, 3, 4}
    BY DEF SndioFields
  <2>2. (w > 0 => stm.played + w <= stm.pend) => stm.played + w \in {0, 1, 2}
    BY <2>1
  <2>3. (r > 0 => stm.recorded + r <= 2) => stm.recorded + r \in {0, 1, 2}
    BY <2>1
  <2>4. stm.queued - d + w <= 4 => stm.queued - d + w \in {0, 1, 2, 3, 4}
    BY <2>1
  <2> QED  BY <2>2, <2>3, <2>4
<1>3. CASE ~Sndio!Leaves(stm, "ERROR")
  <2>1. PICK d \in 0..stm.queued, w \in Sndio!Units, r \in Sndio!Units :
          /\ w > 0 => Sndio!Play(stm.mode) /\ stm.played + w <= stm.pend
          /\ stm.queued - d + w <= 2 * (1 + 1)
          /\ r > 0 => Sndio!Rec(stm.mode) /\ stm.prime = 0 /\ stm.recorded + r <= 2
          /\ stm' = [Sndio!onmove(stm, d) EXCEPT !.queued = @ + w, !.played = @ + w,
                 !.recorded = IF stm.prime > 0 /\ Sndio!Rec(stm.mode) THEN 2 ELSE @ + r]
    BY <1>3 DEF Sndio!Poll, Sndio!Block, Sndio!Nblks
  <2>2. w \in {0, 1, 2} /\ r \in {0, 1, 2}
    BY DEF Sndio!Units, Sndio!Block
  <2>3. /\ stm'.queued = stm.queued - d + w /\ stm'.played = stm.played + w
        /\ stm'.recorded = 2 \/ stm'.recorded = stm.recorded + r
    BY <2>1 DEF Sndio!onmove, SndioFields
  <2>4. stm.queued - d + w <= 4
    BY <2>1
  <2> QED  BY <1>2, <2>1, <2>2, <2>3, <2>4
<1> QED  BY <1>1, <1>3
\* The invariant holds of a context that is not open.
LEMMA SndioFirst ==
  Fresh /\ backend = "sndio" => SndioInv
<1> SUFFICES ASSUME Fresh, backend = "sndio"
              PROVE  SndioInv
  OBVIOUS
<1> USE DEF Fresh, Streams, AtRest, Sndio!Streams, Sndio!Closed, Sndio!Block, Asks, Holds, Absent, Bare,
            Running, Exists
<1>1. SndioFields
  BY DEF SndioFields
<1>2. SndioRuns
  BY DEF SndioRuns
<1> QED  BY <1>1, <1>2 DEF SndioInv

\* Every step keeps the invariant, and to the contract but for the liberties.
LEMMA SndioSteps ==
  ASSUME ClientInv, SndioInv, backend = "sndio", Sndio!Calls \/ Sndio!Client \/ Sndio!Thread \/ UNCHANGED vars
  PROVE  ClientInv' /\ SndioInv' /\ Moves /\ Played
<1> USE DEF ClientInv, SndioInv, SndioFields, SndioRuns, Asks, Holds, Absent, Bare, Running, Exists, Phases,
            Sndio!Goto, Sndio!Become, Sndio!user, Sndio!Idle, AtRest
<1>1. CASE Sndio!sndio_init
  <2> USE <1>1 DEF Sndio!sndio_init, Sndio!Opens, Sndio!MayOpen, Sndio!Acquire, Sndio!Fails
  <2>1. ClientInv' /\ Moves
    BY SndioSets, ClientMoves, DataMoves, ReportMoves, LibertiesTaken
  <2>2. SndioFields'
    BY SndioSets
  <2>3. SndioRuns'
    BY SndioSets
  <2>4. Played
    BY LibertiesTaken DEF Played
  <2> QED  BY <2>1, <2>2, <2>3, <2>4
<1>2. CASE Sndio!sndio_destroy
  <2> USE <1>2 DEF Sndio!sndio_destroy, Sndio!Closes, Sndio!MayClose, Sndio!Release
  <2>1. ClientInv' /\ Moves
    BY SndioSets, ClientMoves, DataMoves, ReportMoves, LibertiesTaken
  <2>2. SndioFields'
    BY SndioSets
  <2>3. SndioRuns'
    BY SndioSets
  <2>4. Played
    BY LibertiesTaken DEF Played
  <2> QED  BY <2>1, <2>2, <2>3, <2>4
<1>3. CASE Sndio!sndio_stream_init
  <2> USE <1>3 DEF Sndio!sndio_stream_init, Sndio!MayInit, Sndio!Acquire, Sndio!Fails
  <2>1. ClientInv' /\ Moves
    BY SndioSets, ClientMoves, DataMoves, ReportMoves, LibertiesTaken
  <2>2. SndioFields'
    BY SndioSets
  <2>3. SndioRuns'
    BY SndioSets
  <2>4. Played
    BY LibertiesTaken DEF Played
  <2> QED  BY <2>1, <2>2, <2>3, <2>4
<1>4. CASE Sndio!sndio_stream_start
  <2> USE <1>4 DEF Sndio!sndio_stream_start, Sndio!MayStart, Sndio!Begins
  <2>1. stm.held \cup {"thread"} \subseteq {"libsndio", "context", "hdl", "pbuf", "rbuf", "thread"}
    OBVIOUS
  <2>2. ClientInv' /\ Moves
    BY <2>1, ClientMoves, DataMoves, ReportMoves, LibertiesTaken
  <2>3. SndioFields'
    BY <2>1
  <2>4. SndioRuns'
    BY <2>1
  <2>5. Played
    BY <2>1, LibertiesTaken DEF Played
  <2> QED  BY <2>2, <2>3, <2>4, <2>5
<1>5. CASE Sndio!sndio_stream_stop
  <2> USE <1>5 DEF Sndio!sndio_stream_stop, Sndio!MayStop
  <2>1. ClientInv' /\ Moves
    BY ClientMoves, DataMoves, ReportMoves, LibertiesTaken
  <2>2. SndioFields'
    OBVIOUS
  <2>3. SndioRuns'
    OBVIOUS
  <2>4. Played
    BY LibertiesTaken DEF Played
  <2> QED  BY <2>1, <2>2, <2>3, <2>4
<1>6. CASE Sndio!sndio_stream_destroy
  <2> USE <1>6 DEF Sndio!sndio_stream_destroy, Sndio!MayDestroy, Sndio!Release
  <2>1. ClientInv' /\ Moves
    BY ClientMoves, DataMoves, ReportMoves, LibertiesTaken
  <2>2. SndioFields'
    OBVIOUS
  <2>3. SndioRuns'
    OBVIOUS
  <2>4. Played
    BY LibertiesTaken DEF Played
  <2> QED  BY <2>1, <2>2, <2>3, <2>4
<1>7. CASE Sndio!Join
  <2> USE <1>7 DEF Sndio!Join, Sndio!AtRest
  <2>1. ClientInv' /\ Moves
    BY ClientMoves, DataMoves, ReportMoves, LibertiesTaken
  <2>2. SndioFields'
    OBVIOUS
  <2>3. SndioRuns'
    OBVIOUS
  <2>4. Played
    BY LibertiesTaken DEF Played
  <2> QED  BY <2>1, <2>2, <2>3, <2>4
<1>8. CASE Sndio!Begin
  <2> USE <1>8 DEF Sndio!Begin, Sndio!Block, Sndio!Nblks
  <2>1. stm'.active = stm.active
    OBVIOUS
  <2>2. ClientInv' /\ Moves
    BY <2>1, ClientMoves, DataMoves, ReportMoves, LibertiesTaken
  <2>3. SndioFields'
    BY <2>1
  <2>4. SndioRuns'
    BY <2>1
  <2>5. Played
    BY <2>1, LibertiesTaken DEF Played
  <2> QED  BY <2>2, <2>3, <2>4, <2>5
<1>9. CASE Sndio!Loop
  <2> USE <1>9 DEF Sndio!Loop, Sndio!CallData, Sndio!Leaves, Sndio!Finish
  <2>1. pc'.thread = "data" => calling' = 1
    OBVIOUS
  <2>2. ClientInv' /\ Moves
    BY <2>1, ClientMoves, DataMoves, ReportMoves, LibertiesTaken
  <2>3. SndioFields'
    BY <2>1
  <2>4. SndioRuns'
    BY <2>1
  <2>5. Played
    BY <2>1, LibertiesTaken DEF Played
  <2> QED  BY <2>2, <2>3, <2>4, <2>5
<1>10. CASE Sndio!Data
  <2> USE <1>10 DEF Sndio!Data, Sndio!Answer, Sndio!Results, Sndio!Leaves, Sndio!Finish, Sndio!Frames,
      Sndio!Block, Sndio!Ends
  <2>1. calling' = 0
    OBVIOUS
  <2>2. stm.prime > 0 => stm.prime - 1 \in {0, 1}
    OBVIOUS
  <2>3. stm'.active = stm.active
    OBVIOUS
  <2>4. ClientInv' /\ Moves
    BY <2>1, <2>2, <2>3, ClientMoves, DataMoves, ReportMoves, LibertiesTaken
  <2>5. SndioFields'
    BY <2>1, <2>2, <2>3
  <2>6. SndioRuns'
    BY <2>1, <2>2, <2>3
  <2>7. Played
    BY <2>1, <2>2, <2>3, LibertiesTaken DEF Played
  <2> QED  BY <2>4, <2>5, <2>6, <2>7
<1>11. CASE Sndio!Poll
  <2> USE <1>11 DEF Sndio!Poll, Sndio!Leaves, Sndio!Finish, Sndio!onmove, Sndio!Units, Sndio!Block, Sndio!Nblks
  <2>1. ClientInv' /\ Moves
    BY SndioPolls, ClientMoves, DataMoves, ReportMoves, LibertiesTaken
  <2>2. SndioFields'
    BY SndioPolls
  <2>3. SndioRuns'
    BY SndioPolls
  <2>4. Played
    BY LibertiesTaken DEF Played
  <2> QED  BY <2>1, <2>2, <2>3, <2>4
<1>12. CASE Sndio!Tell
  <2> USE <1>12 DEF Sndio!Tell, Sndio!Told
  <2>1. ClientInv' /\ Moves
    BY ClientMoves, DataMoves, ReportMoves, LibertiesTaken
  <2>2. SndioFields'
    OBVIOUS
  <2>3. SndioRuns'
    OBVIOUS
  <2>4. Played
    BY LibertiesTaken DEF Played
  <2> QED  BY <2>1, <2>2, <2>3, <2>4
<1>13. CASE UNCHANGED vars
  <2> USE <1>13 DEF vars
  <2>1. ClientInv' /\ Moves /\ Played
    BY ClientMoves DEF Played
  <2>2. SndioFields'
    OBVIOUS
  <2>3. SndioRuns'
    OBVIOUS
  <2> QED  BY <2>1, <2>2, <2>3
<1> QED  BY <1>1, <1>2, <1>3, <1>4, <1>5, <1>6, <1>7, <1>8, <1>9, <1>10, <1>11, <1>12, <1>13
            DEF Sndio!Calls, Sndio!Client, Sndio!Thread

\* The invariant implies what is promised of the state.
LEMMA SndioPromises ==
  ASSUME ClientInv, SndioInv, backend = "sndio"
  PROVE  Sndio!TypeOK /\ NothingLeaks /\ NothingUndefined
<1> USE DEF SndioInv, SndioFields, SndioRuns, Asks, Holds, Absent, Bare, Running, Exists
<1>1. Sndio!TypeOK
  BY DEF Sndio!TypeOK, Sndio!Units, Sndio!Nblks, Sndio!Block
<1>2. NothingLeaks
  BY LibertiesTaken DEF NothingLeaks
<1>3. NothingUndefined
  BY LibertiesTaken DEF NothingUndefined, ClientInv
<1> QED  BY <1>1, <1>2, <1>3

-----------------------------------------------------------------------------
(* Sun: a thread for each run, which is joined by the stop. *)

SunFields ==
  /\ stm = [files |-> stm.files, running |-> stm.running, to_write |-> stm.to_write,
            to_read |-> stm.to_read, drain |-> stm.drain, told |-> stm.told,
            queued |-> stm.queued, held |-> stm.held]
  /\ stm.files \subseteq {"play", "record"} /\ stm.queued \in {0, 1, 2, 3}
  /\ stm.to_write \in {0, 1, 2} /\ stm.to_read \in {0, 1, 2}

\* A run has its thread until the stop has joined it.
SunRuns ==
  /\ pc.client \in {"idle", "failed", "stop", "undefined"} /\ Asks
  /\ pc.thread \in {"none", "begin", "loop", "data", "transfer", "tell", "done"}
  /\ pc.thread = "none" <=> phase \notin Running
  /\ phase \in Running => pc.client = "stop" \/ (pc.client = "idle" /\ stm.running)
  /\ pc.client = "stop" => phase \in Running
  /\ pc.thread \in {"begin", "loop", "data"} => phase = "started" /\ ~stm.drain
  /\ pc.thread = "transfer" => phase = IF stm.drain THEN "draining" ELSE "started"
  /\ pc.thread = "tell" => stm.told \in {"STOPPED", "DRAINED", "ERROR"}
  /\ pc.thread = "tell" /\ stm.told = "DRAINED" => phase = "draining"
  /\ Holds({"context"}, stm.files \cup {"mutex", "buf"}
                          \cup (IF phase \in Running THEN {"thread"} ELSE {}))

SunInv == SunFields /\ SunRuns

\* What the inits acquire, and what is left of it when they fail.
LEMMA SunSets ==
  /\ Sun!All(<<"context">>) = {"context"}
  /\ \A left \in Sun!Left(<<"context">>, {}) : left = {}
  /\ stm.files \subseteq {"play", "record"} =>
       /\ Sun!All(Sun!Wants(stm.files)) = stm.files \cup {"mutex", "buf"}
       /\ \A left \in Sun!Left(Sun!Wants(stm.files), Sun!Owned) : left = {}
<1>1. Sun!All(<<"context">>) = {"context"} /\ \A left \in Sun!Left(<<"context">>, {}) : left = {}
  BY DEF Sun!All, Sun!Left
<1>2. ASSUME stm.files \subseteq {"play", "record"}
      PROVE  /\ Sun!All(Sun!Wants(stm.files)) = stm.files \cup {"mutex", "buf"}
             /\ \A left \in Sun!Left(Sun!Wants(stm.files), Sun!Owned) : left = {}
  <2> DEFINE r == Sun!Of("record", stm.files)
             p == Sun!Of("play", stm.files)
             m == <<"mutex", "buf">>
  <2>1. r \in Seq(Names) /\ All(r) = {"record"} \cap stm.files
    BY AllOfOne DEF Sun!Of, Names
  <2>2. p \in Seq(Names) /\ All(p) = {"play"} \cap stm.files
    BY AllOfOne DEF Sun!Of, Names
  <2>3. m \in Seq(Names) /\ All(m) = {"mutex", "buf"}
    BY DEF Names, All
  <2>4. Sun!Wants(stm.files) = (r \o p) \o m
    BY DEF Sun!Wants
  <2> HIDE DEF r, p, m
  <2>5. (r \o p) \o m \in Seq(Names) /\ All((r \o p) \o m) = All(r) \cup All(p) \cup All(m)
    <3>1. r \o p \in Seq(Names) /\ All(r \o p) = All(r) \cup All(p)
      BY <2>1, <2>2, AllJoins, Zenon
    <3> QED  BY <2>3, <3>1, AllJoins, Zenon
  <2>6. /\ Sun!Wants(stm.files) \in Seq(Names)
        /\ All(Sun!Wants(stm.files)) = stm.files \cup {"mutex", "buf"}
    BY <1>2, <2>1, <2>2, <2>3, <2>4, <2>5
  <2>7. \A left \in Left(Sun!Wants(stm.files), Sun!Owned) : left = {}
    BY <1>2, <2>6, LeftOfAll DEF Sun!Owned
  <2> QED  BY <2>6, <2>7 DEF All, Left, Sun!All, Sun!Left
<1> QED  BY <1>1, <1>2

\* What is left to transfer and what the device has stays within its bounds.
LEMMA SunTransfers ==
  ASSUME SunFields, Sun!Transfer
  PROVE  stm'.to_write \in {0, 1, 2} /\ stm'.to_read \in {0, 1, 2} /\ stm'.queued \in {0, 1, 2, 3}
<1>1. CASE stm' = Sun!Tells("ERROR")
  BY <1>1 DEF SunFields, Sun!Tells
<1>2. CASE stm' # Sun!Tells("ERROR")
  <2>1. PICK w \in 0..stm.to_write, r \in 0..stm.to_read :
          /\ stm.queued + w <= 3
          /\ stm' = [stm EXCEPT !.to_write = @ - w, !.to_read = @ - r, !.queued = @ + w]
    BY <1>2 DEF Sun!Transfer, Sun!Buf
  <2>2. stm'.to_write = stm.to_write - w /\ stm'.to_read = stm.to_read - r /\ stm'.queued = stm.queued + w
    BY <2>1 DEF SunFields
  <2>3. stm.to_write \in {0, 1, 2} /\ stm.to_read \in {0, 1, 2} /\ stm.queued \in {0, 1, 2, 3}
    BY DEF SunFields
  <2>4. stm.to_write - w \in {0, 1, 2} /\ stm.to_read - r \in {0, 1, 2}
    BY <2>3
  <2>5. stm.queued + w \in {0, 1, 2, 3}
    BY <2>1, <2>3
  <2> QED  BY <2>2, <2>4, <2>5
<1> QED  BY <1>1, <1>2

\* The invariant holds of a context that is not open.
LEMMA SunFirst ==
  Fresh /\ backend = "sun" => SunInv
<1> SUFFICES ASSUME Fresh, backend = "sun"
              PROVE  SunInv
  OBVIOUS
<1> USE DEF Fresh, Streams, AtRest, Sun!Streams, Sun!Closed, Sun!Files, Asks, Holds, Absent, Bare, Running,
            Exists
<1>1. SunFields
  BY DEF SunFields
<1>2. SunRuns
  BY DEF SunRuns
<1> QED  BY <1>1, <1>2 DEF SunInv

\* Every step keeps the invariant, and to the contract but for the liberties.
LEMMA SunSteps ==
  ASSUME ClientInv, SunInv, backend = "sun", Sun!Calls \/ Sun!Client \/ Sun!Thread \/ Sun!Device \/
         UNCHANGED vars
  PROVE  ClientInv' /\ SunInv' /\ Moves /\ Played
<1> USE DEF ClientInv, SunInv, SunFields, SunRuns, Asks, Holds, Absent, Bare, Running, Exists, Phases,
            Sun!Goto, Sun!Become, Sun!user, Sun!Idle
<1>1. CASE Sun!sun_init
  <2> USE <1>1 DEF Sun!sun_init, Sun!Opens, Sun!MayOpen, Sun!Acquire, Sun!Fails
  <2>1. ClientInv' /\ Moves
    BY SunSets, ClientMoves, DataMoves, ReportMoves, LibertiesTaken
  <2>2. SunFields'
    BY SunSets
  <2>3. SunRuns'
    BY SunSets
  <2>4. Played
    BY LibertiesTaken DEF Played
  <2> QED  BY <2>1, <2>2, <2>3, <2>4
<1>2. CASE Sun!sun_destroy
  <2> USE <1>2 DEF Sun!sun_destroy, Sun!Closes, Sun!MayClose, Sun!Release
  <2>1. ClientInv' /\ Moves
    BY SunSets, ClientMoves, DataMoves, ReportMoves, LibertiesTaken
  <2>2. SunFields'
    BY SunSets
  <2>3. SunRuns'
    BY SunSets
  <2>4. Played
    BY LibertiesTaken DEF Played
  <2> QED  BY <2>1, <2>2, <2>3, <2>4
<1>3. CASE Sun!sun_stream_init
  <2> USE <1>3 DEF Sun!sun_stream_init, Sun!MayInit, Sun!Acquire, Sun!Fails
  <2>1. ClientInv' /\ Moves
    BY SunSets, ClientMoves, DataMoves, ReportMoves, LibertiesTaken
  <2>2. SunFields'
    BY SunSets
  <2>3. SunRuns'
    BY SunSets
  <2>4. Played
    BY LibertiesTaken DEF Played
  <2> QED  BY <2>1, <2>2, <2>3, <2>4
<1>4. CASE Sun!sun_stream_start
  <2> USE <1>4 DEF Sun!sun_stream_start, Sun!MayStart, Sun!Begins
  <2>1. ClientInv' /\ Moves
    BY ClientMoves, DataMoves, ReportMoves, LibertiesTaken
  <2>2. SunFields'
    OBVIOUS
  <2>3. SunRuns'
    OBVIOUS
  <2>4. Played
    BY LibertiesTaken DEF Played
  <2> QED  BY <2>1, <2>2, <2>3, <2>4
<1>5. CASE Sun!sun_stream_stop
  <2> USE <1>5 DEF Sun!sun_stream_stop, Sun!MayStop, Sun!Joins
  <2>1. ClientInv' /\ Moves
    BY ClientMoves, DataMoves, ReportMoves, LibertiesTaken
  <2>2. SunFields'
    OBVIOUS
  <2>3. SunRuns'
    OBVIOUS
  <2>4. Played
    BY LibertiesTaken DEF Played
  <2> QED  BY <2>1, <2>2, <2>3, <2>4
<1>6. CASE Sun!sun_stream_destroy
  <2> USE <1>6 DEF Sun!sun_stream_destroy, Sun!MayDestroy, Sun!Joins, Sun!Owned
  <2>1. ClientInv' /\ Moves
    BY ClientMoves, DataMoves, ReportMoves, LibertiesTaken
  <2>2. SunFields'
    OBVIOUS
  <2>3. SunRuns'
    OBVIOUS
  <2>4. Played
    BY LibertiesTaken DEF Played
  <2> QED  BY <2>1, <2>2, <2>3, <2>4
<1>7. CASE Sun!Join
  <2> USE <1>7 DEF Sun!Join, Sun!AtRest
  <2>1. ClientInv' /\ Moves
    BY ClientMoves, DataMoves, ReportMoves, LibertiesTaken
  <2>2. SunFields'
    OBVIOUS
  <2>3. SunRuns'
    OBVIOUS
  <2>4. Played
    BY LibertiesTaken DEF Played
  <2> QED  BY <2>1, <2>2, <2>3, <2>4
<1>8. CASE Sun!Begin
  <2> USE <1>8 DEF Sun!Begin
  <2>1. ClientInv' /\ Moves
    BY ClientMoves, DataMoves, ReportMoves, LibertiesTaken
  <2>2. SunFields'
    OBVIOUS
  <2>3. SunRuns'
    OBVIOUS
  <2>4. Played
    BY LibertiesTaken DEF Played
  <2> QED  BY <2>1, <2>2, <2>3, <2>4
<1>9. CASE Sun!Loop
  <2> USE <1>9 DEF Sun!Loop, Sun!CallData, Sun!Tells
  <2>1. pc'.thread = "data" => calling' = 1
    OBVIOUS
  <2>2. ClientInv' /\ Moves
    BY <2>1, ClientMoves, DataMoves, ReportMoves, LibertiesTaken
  <2>3. SunFields'
    BY <2>1
  <2>4. SunRuns'
    BY <2>1
  <2>5. Played
    BY <2>1, LibertiesTaken DEF Played
  <2> QED  BY <2>2, <2>3, <2>4, <2>5
<1>10. CASE Sun!Data
  <2> USE <1>10 DEF Sun!Data, Sun!Answer, Sun!Results, Sun!Tells, Sun!Short, Sun!Block
  <2>1. calling' = 0
    OBVIOUS
  <2>2. ClientInv' /\ Moves
    BY <2>1, ClientMoves, DataMoves, ReportMoves, LibertiesTaken
  <2>3. SunFields'
    BY <2>1
  <2>4. SunRuns'
    BY <2>1
  <2>5. Played
    BY <2>1, LibertiesTaken DEF Played
  <2> QED  BY <2>2, <2>3, <2>4, <2>5
<1>11. CASE Sun!Transfer
  <2> USE <1>11 DEF Sun!Transfer, Sun!Transferred, Sun!Tells, Sun!Buf
  <2>1. ClientInv' /\ Moves
    BY SunTransfers, ClientMoves, DataMoves, ReportMoves, LibertiesTaken
  <2>2. SunFields'
    BY SunTransfers
  <2>3. SunRuns'
    BY SunTransfers
  <2>4. Played
    BY LibertiesTaken DEF Played
  <2> QED  BY <2>1, <2>2, <2>3, <2>4
<1>12. CASE Sun!Round
  <2> USE <1>12 DEF Sun!Round, Sun!Transferred, Sun!Tells
  <2>1. ClientInv' /\ Moves
    BY ClientMoves, DataMoves, ReportMoves, LibertiesTaken
  <2>2. SunFields'
    OBVIOUS
  <2>3. SunRuns'
    OBVIOUS
  <2>4. Played
    BY LibertiesTaken DEF Played
  <2> QED  BY <2>1, <2>2, <2>3, <2>4
<1>13. CASE Sun!Tell
  <2> USE <1>13 DEF Sun!Tell, Sun!Told
  <2>1. ClientInv' /\ Moves
    BY ClientMoves, DataMoves, ReportMoves, LibertiesTaken
  <2>2. SunFields'
    OBVIOUS
  <2>3. SunRuns'
    OBVIOUS
  <2>4. Played
    BY LibertiesTaken DEF Played
  <2> QED  BY <2>1, <2>2, <2>3, <2>4
<1>14. CASE Sun!Device
  <2> USE <1>14 DEF Sun!Device
  <2>1. stm.queued - 1 \in {0, 1, 2, 3}
    OBVIOUS
  <2>2. ClientInv' /\ Moves
    BY <2>1, ClientMoves, DataMoves, ReportMoves, LibertiesTaken
  <2>3. SunFields'
    BY <2>1
  <2>4. SunRuns'
    BY <2>1
  <2>5. Played
    BY <2>1, LibertiesTaken DEF Played
  <2> QED  BY <2>2, <2>3, <2>4, <2>5
<1>15. CASE UNCHANGED vars
  <2> USE <1>15 DEF vars
  <2>1. ClientInv' /\ Moves /\ Played
    BY ClientMoves DEF Played
  <2>2. SunFields'
    OBVIOUS
  <2>3. SunRuns'
    OBVIOUS
  <2> QED  BY <2>1, <2>2, <2>3
<1> QED  BY <1>1, <1>2, <1>3, <1>4, <1>5, <1>6, <1>7, <1>8, <1>9, <1>10, <1>11, <1>12, <1>13, <1>14, <1>15
            DEF Sun!Calls, Sun!Client, Sun!Thread

\* The invariant implies what is promised of the state.
LEMMA SunPromises ==
  ASSUME ClientInv, SunInv, backend = "sun"
  PROVE  Sun!TypeOK /\ NothingLeaks /\ NothingUndefined
<1> USE DEF SunInv, SunFields, SunRuns, Asks, Holds, Absent, Bare, Running, Exists
<1>1. Sun!TypeOK
  BY DEF Sun!TypeOK, Sun!Files, Sun!Buf, Sun!Block, Sun!Owned
<1>2. NothingLeaks
  BY LibertiesTaken DEF NothingLeaks
<1>3. NothingUndefined
  BY LibertiesTaken DEF NothingUndefined, ClientInv
<1> QED  BY <1>1, <1>2, <1>3

-----------------------------------------------------------------------------
(* JACK: the process callback finds the stream in its slot, under a mutex that the
   init of a stream holds too. *)

JackFields ==
  /\ stm = [devs |-> stm.devs, in_use |-> stm.in_use, ports_ready |-> stm.ports_ready,
            pause |-> stm.pause, mutex |-> stm.mutex, told |-> stm.told, queued |-> stm.queued,
            held |-> stm.held]
  /\ stm.devs \in {"OUT_ONLY", "IN_ONLY", "DUPLEX"} /\ stm.queued = 0
  /\ stm.mutex \in {"free", "client", "thread"}
  /\ stm.told \in {"STARTED", "DRAINED", "ERROR"}

\* Who holds the mutex, and what a stream in its slot has.
JackRuns ==
  /\ pc.client \in {"idle", "failed", "init"} /\ Asks
  /\ pc.thread \in {"none", "pause", "lock", "data", "tell", "stop", "unlock", "undefined"}
  /\ stm.mutex = "client" <=> pc.client = "init"
  /\ pc.client = "init" => phase = "none"
  /\ stm.mutex = "thread" <=> pc.thread \in {"data", "tell", "stop", "unlock"}
  /\ stm.mutex = "thread" => phase \in Exists
  /\ stm.in_use => phase \in Exists \/ pc.client = "init"
  /\ pc.thread # "none" => phase # "gone"
  /\ stm.held = IF phase \in Absent THEN {}
                ELSE {"context", "libjack", "jack_client"}
                       \cup (IF phase \in Exists \/ pc.client = "init" THEN {"slot", "resampler",
                         "ports"} ELSE {})

JackInv == JackFields /\ JackRuns

\* What the inits acquire, and what is left of it when they fail.
LEMMA JackSets ==
  /\ Jack!All(Jack!Opened) = {"context", "libjack", "jack_client"}
  /\ Jack!All(Jack!Owned) = {"slot", "resampler", "ports"}
  /\ \A left \in Jack!Left(Jack!Opened, {"context", "libjack", "jack_client"}) : left = {}
  /\ \A left \in Jack!Left(Jack!Owned, {"slot", "resampler", "ports"}) : left = {}
BY DEF Jack!All, Jack!Left, Jack!Opened, Jack!Owned

\* The invariant holds of a context that is not open.
LEMMA JackFirst ==
  Fresh /\ backend = "jack" => JackInv
<1> SUFFICES ASSUME Fresh, backend = "jack"
              PROVE  JackInv
  OBVIOUS
<1> USE DEF Fresh, Streams, AtRest, Jack!Streams, Jack!Closed, Jack!Devs, Asks, Absent, Bare, Running, Exists
<1>1. JackFields
  BY DEF JackFields
<1>2. JackRuns
  BY DEF JackRuns
<1> QED  BY <1>1, <1>2 DEF JackInv

\* Every step keeps the invariant, and to the contract but for the liberties.
LEMMA JackSteps ==
  ASSUME ClientInv, JackInv, backend = "jack", Jack!Calls \/ Jack!Client \/ Jack!Thread \/ UNCHANGED vars
  PROVE  ClientInv' /\ JackInv' /\ Moves /\ Played
<1> USE DEF ClientInv, JackInv, JackFields, JackRuns, Asks, Absent, Bare, Running, Exists, Phases, Jack!Goto,
            Jack!Become, Jack!user, Jack!Idle
<1>1. CASE Jack!jack_init
  <2> USE <1>1 DEF Jack!jack_init, Jack!Opens, Jack!MayOpen, Jack!Acquire, Jack!Fails
  <2>1. ClientInv' /\ Moves
    BY JackSets, ClientMoves, DataMoves, ReportMoves, LibertiesTaken
  <2>2. JackFields'
    BY JackSets
  <2>3. JackRuns'
    BY JackSets
  <2>4. Played
    BY LibertiesTaken DEF Played
  <2> QED  BY <2>1, <2>2, <2>3, <2>4
<1>2. CASE Jack!cbjack_destroy
  <2> USE <1>2 DEF Jack!cbjack_destroy, Jack!Closes, Jack!MayClose, Jack!Release
  <2>1. ClientInv' /\ Moves
    BY JackSets, ClientMoves, DataMoves, ReportMoves, LibertiesTaken
  <2>2. JackFields'
    BY JackSets
  <2>3. JackRuns'
    BY JackSets
  <2>4. Played
    BY LibertiesTaken DEF Played
  <2> QED  BY <2>1, <2>2, <2>3, <2>4
<1>3. CASE Jack!cbjack_stream_init
  <2> USE <1>3 DEF Jack!cbjack_stream_init, Jack!MayInit, Jack!Acquire, Jack!Fails
  <2>1. ClientInv' /\ Moves
    BY JackSets, ClientMoves, DataMoves, ReportMoves, LibertiesTaken
  <2>2. JackFields'
    BY JackSets
  <2>3. JackRuns'
    BY JackSets
  <2>4. Played
    BY LibertiesTaken DEF Played
  <2> QED  BY <2>1, <2>2, <2>3, <2>4
<1>4. CASE Jack!cbjack_stream_destroy
  <2> USE <1>4 DEF Jack!cbjack_stream_destroy, Jack!MayDestroy
  <2>1. ClientInv' /\ Moves
    BY JackSets, ClientMoves, DataMoves, ReportMoves, LibertiesTaken
  <2>2. JackFields'
    BY JackSets
  <2>3. JackRuns'
    BY JackSets
  <2>4. Played
    BY LibertiesTaken DEF Played
  <2> QED  BY <2>1, <2>2, <2>3, <2>4
<1>5. CASE Jack!cbjack_stream_start
  <2> USE <1>5 DEF Jack!cbjack_stream_start, Jack!MayStart, Jack!Begins
  <2>1. ClientInv' /\ Moves
    BY ClientMoves, DataMoves, ReportMoves, LibertiesTaken
  <2>2. JackFields'
    OBVIOUS
  <2>3. JackRuns'
    OBVIOUS
  <2>4. Played
    BY LibertiesTaken DEF Played
  <2> QED  BY <2>1, <2>2, <2>3, <2>4
<1>6. CASE Jack!cbjack_stream_stop
  <2> USE <1>6 DEF Jack!cbjack_stream_stop, Jack!MayStop
  <2>1. ClientInv' /\ Moves
    BY ClientMoves, DataMoves, ReportMoves, LibertiesTaken
  <2>2. JackFields'
    OBVIOUS
  <2>3. JackRuns'
    OBVIOUS
  <2>4. Played
    BY LibertiesTaken DEF Played
  <2> QED  BY <2>1, <2>2, <2>3, <2>4
<1>7. CASE Jack!Paused
  <2> USE <1>7 DEF Jack!Paused
  <2>1. ClientInv' /\ Moves
    BY ClientMoves, DataMoves, ReportMoves, LibertiesTaken
  <2>2. JackFields'
    OBVIOUS
  <2>3. JackRuns'
    OBVIOUS
  <2>4. Played
    BY LibertiesTaken DEF Played
  <2> QED  BY <2>1, <2>2, <2>3, <2>4
<1>8. CASE Jack!cbjack_process
  <2> USE <1>8 DEF Jack!cbjack_process
  <2>1. ClientInv' /\ Moves
    BY ClientMoves, DataMoves, ReportMoves, LibertiesTaken
  <2>2. JackFields'
    OBVIOUS
  <2>3. JackRuns'
    OBVIOUS
  <2>4. Played
    BY LibertiesTaken DEF Played
  <2> QED  BY <2>1, <2>2, <2>3, <2>4
<1>9. CASE Jack!Unpaused
  <2> USE <1>9 DEF Jack!Unpaused
  <2>1. ClientInv' /\ Moves
    BY ClientMoves, DataMoves, ReportMoves, LibertiesTaken
  <2>2. JackFields'
    OBVIOUS
  <2>3. JackRuns'
    OBVIOUS
  <2>4. Played
    BY LibertiesTaken DEF Played
  <2> QED  BY <2>1, <2>2, <2>3, <2>4
<1>10. CASE Jack!Trylock
  <2> USE <1>10 DEF Jack!Trylock, Jack!CallData
  <2>1. pc'.thread = "data" => calling' = 1 /\ phase \in Exists
    OBVIOUS
  <2>2. ClientInv' /\ Moves
    BY <2>1, ClientMoves, DataMoves, ReportMoves, LibertiesTaken
  <2>3. JackFields'
    BY <2>1
  <2>4. JackRuns'
    BY <2>1
  <2>5. Played
    BY <2>1, LibertiesTaken DEF Played
  <2> QED  BY <2>2, <2>3, <2>4, <2>5
<1>11. CASE Jack!Refill
  <2> USE <1>11 DEF Jack!Refill, Jack!Answer, Jack!Results, Jack!Outcome, Jack!Short
  <2>1. calling' = 0
    OBVIOUS
  <2>2. ClientInv' /\ Moves
    BY <2>1, ClientMoves, DataMoves, ReportMoves, LibertiesTaken
  <2>3. JackFields'
    BY <2>1
  <2>4. JackRuns'
    BY <2>1
  <2>5. Played
    BY <2>1, LibertiesTaken DEF Played
  <2> QED  BY <2>2, <2>3, <2>4, <2>5
<1>12. CASE Jack!Tell
  <2> USE <1>12 DEF Jack!Tell, Jack!Told
  <2>1. ClientInv' /\ Moves
    BY ClientMoves, DataMoves, ReportMoves, LibertiesTaken
  <2>2. JackFields'
    OBVIOUS
  <2>3. JackRuns'
    OBVIOUS
  <2>4. Played
    BY LibertiesTaken DEF Played
  <2> QED  BY <2>1, <2>2, <2>3, <2>4
<1>13. CASE Jack!StopsItself
  <2> USE <1>13 DEF Jack!StopsItself
  <2>1. ClientInv' /\ Moves
    BY ClientMoves, DataMoves, ReportMoves, LibertiesTaken
  <2>2. JackFields'
    OBVIOUS
  <2>3. JackRuns'
    OBVIOUS
  <2>4. Played
    BY LibertiesTaken DEF Played
  <2> QED  BY <2>1, <2>2, <2>3, <2>4
<1>14. CASE Jack!Unlock
  <2> USE <1>14 DEF Jack!Unlock
  <2>1. ClientInv' /\ Moves
    BY ClientMoves, DataMoves, ReportMoves, LibertiesTaken
  <2>2. JackFields'
    OBVIOUS
  <2>3. JackRuns'
    OBVIOUS
  <2>4. Played
    BY LibertiesTaken DEF Played
  <2> QED  BY <2>1, <2>2, <2>3, <2>4
<1>15. CASE UNCHANGED vars
  <2> USE <1>15 DEF vars
  <2>1. ClientInv' /\ Moves /\ Played
    BY ClientMoves DEF Played
  <2>2. JackFields'
    OBVIOUS
  <2>3. JackRuns'
    OBVIOUS
  <2> QED  BY <2>1, <2>2, <2>3
<1> QED  BY <1>1, <1>2, <1>3, <1>4, <1>5, <1>6, <1>7, <1>8, <1>9, <1>10, <1>11, <1>12, <1>13, <1>14, <1>15
            DEF Jack!Calls, Jack!Client, Jack!Thread

\* The invariant implies what is promised of the state.
LEMMA JackPromises ==
  ASSUME ClientInv, JackInv, backend = "jack"
  PROVE  Jack!TypeOK /\ NothingLeaks /\ NothingUndefined
<1> USE DEF JackInv, JackFields, JackRuns, Asks, Absent, Bare, Running, Exists
<1>1. Jack!TypeOK
  BY JackSets DEF Jack!TypeOK, Jack!Devs
<1>2. NothingLeaks
  BY LibertiesTaken DEF NothingLeaks
<1>3. NothingUndefined
  BY LibertiesTaken DEF NothingUndefined, ClientInv
<1> QED  BY <1>1, <1>2, <1>3

-----------------------------------------------------------------------------
(* OSS: one thread for the life of a stream, which the stop waits for. *)

OssFields ==
  /\ stm = [files |-> stm.files, running |-> stm.running, doorbell |-> stm.doorbell,
            destroying |-> stm.destroying, state |-> stm.state, got |-> stm.got, told |-> stm.told,
            queued |-> stm.queued, held |-> stm.held]
  /\ stm.files \subseteq {"play", "record"} /\ stm.queued \in {0, 1, 2} /\ stm.got \in {0, 1, 2}
  /\ stm.state \in {"STARTED", "STOPPED", "DRAINED", "ERROR"}
  /\ stm.told \in {"STOPPED", "DRAINED", "ERROR"}

\* The thread is there while the client or the stream is in a run.
OssRuns ==
  /\ pc.client \in {"idle", "failed", "wait", "woken", "join"} /\ pc.worker = "none" /\ Asks
  /\ pc.thread \in {"none", "top", "loop", "space", "round", "data", "put", "tell", "stopped", "wait", "done"}
  /\ pc.thread # "none" => phase \in Exists
  /\ phase \in Running \/ stm.running => pc.thread # "none"
  /\ stm.running => phase \in Running
  /\ pc.client \in {"wait", "woken"} => phase \in Running
  /\ pc.client = "join" => phase \in {"stopped", "drained", "error"}
  /\ pc.client \in {"wait", "woken", "join"} => ~stm.running

\* Each file that was opened is held until the destroy.
OssHolds == Holds({"context", "devid_strs", "mutex"},
                  {"mtx", "doorbell_cv", "stopped_cv", "buf"} \cup stm.files
                    \cup IF pc.thread # "none" THEN {"thread"} ELSE {})

OssInv == OssFields /\ OssRuns /\ OssHolds

\* What the inits acquire, and what is left of it when they fail.
LEMMA OssSets ==
  /\ Oss!All(<<"context", "devid_strs", "mutex">>) = {"context", "devid_strs", "mutex"}
  /\ \A left \in Oss!Left(<<"context", "devid_strs", "mutex">>, {"context", "devid_strs"}) : left = {}
  /\ stm.files \subseteq {"play", "record"} =>
       /\ Oss!All(Oss!Wants(stm.files)) = {"mtx", "doorbell_cv", "stopped_cv", "buf"} \cup stm.files
       /\ \A left \in Oss!Left(Oss!Wants(stm.files), Oss!Owned) : left = {}
<1>1. /\ Oss!All(<<"context", "devid_strs", "mutex">>) = {"context", "devid_strs", "mutex"}
      /\ \A left \in Oss!Left(<<"context", "devid_strs", "mutex">>, {"context", "devid_strs"}) : left = {}
  BY DEF Oss!All, Oss!Left
<1>2. ASSUME stm.files \subseteq {"play", "record"}
      PROVE  /\ Oss!All(Oss!Wants(stm.files)) = {"mtx", "doorbell_cv", "stopped_cv", "buf"} \cup stm.files
             /\ \A left \in Oss!Left(Oss!Wants(stm.files), Oss!Owned) : left = {}
  <2> DEFINE m == <<"mtx", "doorbell_cv", "stopped_cv">>
             r == Oss!Of("record", stm.files)
             p == Oss!Of("play", stm.files)
             b == <<"buf">>
  <2>1. r \in Seq(Names) /\ All(r) = {"record"} \cap stm.files
    BY AllOfOne DEF Oss!Of, Names
  <2>2. p \in Seq(Names) /\ All(p) = {"play"} \cap stm.files
    BY AllOfOne DEF Oss!Of, Names
  <2>3. m \in Seq(Names) /\ All(m) = {"mtx", "doorbell_cv", "stopped_cv"}
    BY DEF Names, All
  <2>4. b \in Seq(Names) /\ All(b) = {"buf"}
    BY DEF Names, All
  <2>5. Oss!Wants(stm.files) = ((m \o r) \o p) \o b
    BY DEF Oss!Wants
  <2> HIDE DEF m, r, p, b
  <2>6. /\ Oss!Wants(stm.files) \in Seq(Names)
        /\ All(Oss!Wants(stm.files)) = ((All(m) \cup All(r)) \cup All(p)) \cup All(b)
    <3>1. m \o r \in Seq(Names) /\ All(m \o r) = All(m) \cup All(r)
      BY <2>1, <2>3, AllJoins, Zenon
    <3>2. (m \o r) \o p \in Seq(Names) /\ All((m \o r) \o p) = (All(m) \cup All(r)) \cup All(p)
      BY <2>2, <3>1, AllJoins, Zenon
    <3> QED  BY <2>4, <2>5, <3>2, AllJoins, Zenon
  <2>7. All(Oss!Wants(stm.files)) = {"mtx", "doorbell_cv", "stopped_cv", "buf"} \cup stm.files
    BY <1>2, <2>1, <2>2, <2>3, <2>4, <2>6
  <2>8. \A left \in Left(Oss!Wants(stm.files), Oss!Owned) : left = {}
    BY <1>2, <2>6, <2>7, LeftOfAll DEF Oss!Owned
  <2> QED  BY <2>7, <2>8 DEF All, Left, Oss!All, Oss!Left
<1> QED  BY <1>1, <1>2

\* The invariant holds of a context that is not open.
LEMMA OssFirst ==
  Fresh /\ backend = "oss" => OssInv
<1> SUFFICES ASSUME Fresh, backend = "oss"
              PROVE  OssInv
  OBVIOUS
<1> USE DEF Fresh, Streams, AtRest, Oss!Streams, Oss!Closed, Oss!Files, Asks, Holds, Absent, Bare, Running,
            Exists
<1>1. OssFields
  BY DEF OssFields
<1>2. OssRuns
  BY DEF OssRuns
<1>3. OssHolds
  BY DEF OssHolds
<1> QED  BY <1>1, <1>2, <1>3 DEF OssInv

\* Every step keeps the invariant, and to the contract but for the liberties.
LEMMA OssSteps ==
  ASSUME ClientInv, OssInv, backend = "oss", Oss!Calls \/ Oss!Client \/ Oss!Thread \/ Oss!Device \/
         Oss!SpuriousWakeup \/ UNCHANGED vars
  PROVE  ClientInv' /\ OssInv' /\ Moves /\ Played
<1> USE DEF ClientInv, OssInv, OssFields, OssRuns, OssHolds, Asks, Holds, Absent, Bare, Running, Exists,
            Phases, Oss!Goto, Oss!Become, Oss!user, Oss!Idle, Oss!thread_created
<1>1. CASE Oss!oss_init
  <2> USE <1>1 DEF Oss!oss_init, Oss!Opens, Oss!MayOpen, Oss!Acquire, Oss!Fails
  <2>1. ClientInv' /\ Moves
    BY OssSets, ClientMoves, DataMoves, ReportMoves, LibertiesTaken
  <2>2. OssFields'
    BY OssSets
  <2>3. OssRuns'
    BY OssSets
  <2>4. OssHolds'
    BY OssSets
  <2>5. Played
    BY LibertiesTaken DEF Played
  <2> QED  BY <2>1, <2>2, <2>3, <2>4, <2>5
<1>2. CASE Oss!oss_destroy
  <2> USE <1>2 DEF Oss!oss_destroy, Oss!Closes, Oss!MayClose, Oss!Release
  <2>1. ClientInv' /\ Moves
    BY OssSets, ClientMoves, DataMoves, ReportMoves, LibertiesTaken
  <2>2. OssFields'
    BY OssSets
  <2>3. OssRuns'
    BY OssSets
  <2>4. OssHolds'
    BY OssSets
  <2>5. Played
    BY LibertiesTaken DEF Played
  <2> QED  BY <2>1, <2>2, <2>3, <2>4, <2>5
<1>3. CASE Oss!oss_stream_init
  <2> USE <1>3 DEF Oss!oss_stream_init, Oss!MayInit, Oss!Acquire, Oss!Fails
  <2>1. ClientInv' /\ Moves
    BY OssSets, ClientMoves, DataMoves, ReportMoves, LibertiesTaken
  <2>2. OssFields'
    BY OssSets
  <2>3. OssRuns'
    BY OssSets
  <2>4. OssHolds'
    BY OssSets
  <2>5. Played
    BY LibertiesTaken DEF Played
  <2> QED  BY <2>1, <2>2, <2>3, <2>4, <2>5
<1>4. CASE Oss!oss_stream_start
  <2> USE <1>4 DEF Oss!oss_stream_start, Oss!MayStart, Oss!Begins, Oss!oss_stream_thr_create
  <2>1. ClientInv' /\ Moves
    BY ClientMoves, DataMoves, ReportMoves, LibertiesTaken
  <2>2. OssFields'
    OBVIOUS
  <2>3. OssRuns'
    OBVIOUS
  <2>4. OssHolds'
    OBVIOUS
  <2>5. Played
    BY LibertiesTaken DEF Played
  <2> QED  BY <2>1, <2>2, <2>3, <2>4, <2>5
<1>5. CASE Oss!oss_stream_stop
  <2> USE <1>5 DEF Oss!oss_stream_stop, Oss!MayStop
  <2>1. ClientInv' /\ Moves
    BY ClientMoves, DataMoves, ReportMoves, LibertiesTaken
  <2>2. OssFields'
    OBVIOUS
  <2>3. OssRuns'
    OBVIOUS
  <2>4. OssHolds'
    OBVIOUS
  <2>5. Played
    BY LibertiesTaken DEF Played
  <2> QED  BY <2>1, <2>2, <2>3, <2>4, <2>5
<1>6. CASE Oss!oss_stream_destroy
  <2> USE <1>6 DEF Oss!oss_stream_destroy, Oss!MayDestroy, Oss!Release, Oss!Owned
  <2>1. "thread" \notin stm.held => pc.thread = "none" /\ stm.held \ Oss!Owned = {"context", "devid_strs",
        "mutex"}
    <3>1. stm.files \subseteq {"play", "record"}
      OBVIOUS
    <3>2. stm.held = {"context", "devid_strs", "mutex"} \cup ({"mtx", "doorbell_cv", "stopped_cv",
          "buf"} \cup stm.files
            \cup IF pc.thread # "none" THEN {"thread"} ELSE {})
      OBVIOUS
    <3> QED  BY <3>1, <3>2
  <2>2. ClientInv' /\ Moves
    BY <2>1, ClientMoves, DataMoves, ReportMoves, LibertiesTaken
  <2>3. OssFields'
    <3>1. CASE "thread" \in stm.held
      BY <2>1, <3>1
    <3>2. CASE "thread" \notin stm.held
      BY <2>1, <3>2
    <3> QED  BY <3>1, <3>2
  <2>4. OssRuns'
    BY <2>1
  <2>5. OssHolds'
    BY <2>1
  <2>6. Played
    BY <2>1, LibertiesTaken DEF Played
  <2> QED  BY <2>2, <2>3, <2>4, <2>5, <2>6
<1>7. CASE Oss!Woken
  <2> USE <1>7 DEF Oss!Woken
  <2>1. ClientInv' /\ Moves
    BY ClientMoves, DataMoves, ReportMoves, LibertiesTaken
  <2>2. OssFields'
    OBVIOUS
  <2>3. OssRuns'
    OBVIOUS
  <2>4. OssHolds'
    OBVIOUS
  <2>5. Played
    BY LibertiesTaken DEF Played
  <2> QED  BY <2>1, <2>2, <2>3, <2>4, <2>5
<1>8. CASE Oss!SpuriousWakeup
  <2> USE <1>8 DEF Oss!SpuriousWakeup
  <2>1. ClientInv' /\ Moves
    BY ClientMoves, DataMoves, ReportMoves, LibertiesTaken
  <2>2. OssFields'
    OBVIOUS
  <2>3. OssRuns'
    OBVIOUS
  <2>4. OssHolds'
    OBVIOUS
  <2>5. Played
    BY LibertiesTaken DEF Played
  <2> QED  BY <2>1, <2>2, <2>3, <2>4, <2>5
<1>9. CASE Oss!Join
  <2> USE <1>9 DEF Oss!Join, Oss!AtRest, Oss!Release, Oss!Owned
  <2>1. ClientInv' /\ Moves
    BY ClientMoves, DataMoves, ReportMoves, LibertiesTaken
  <2>2. OssFields'
    OBVIOUS
  <2>3. OssRuns'
    OBVIOUS
  <2>4. OssHolds'
    OBVIOUS
  <2>5. Played
    BY LibertiesTaken DEF Played
  <2> QED  BY <2>1, <2>2, <2>3, <2>4, <2>5
<1>10. CASE Oss!Top
  <2> USE <1>10 DEF Oss!Top
  <2>1. ClientInv' /\ Moves
    BY ClientMoves, DataMoves, ReportMoves, LibertiesTaken
  <2>2. OssFields'
    OBVIOUS
  <2>3. OssRuns'
    OBVIOUS
  <2>4. OssHolds'
    OBVIOUS
  <2>5. Played
    BY LibertiesTaken DEF Played
  <2> QED  BY <2>1, <2>2, <2>3, <2>4, <2>5
<1>11. CASE Oss!Loop
  <2> USE <1>11 DEF Oss!Loop
  <2>1. ClientInv' /\ Moves
    BY ClientMoves, DataMoves, ReportMoves, LibertiesTaken
  <2>2. OssFields'
    OBVIOUS
  <2>3. OssRuns'
    OBVIOUS
  <2>4. OssHolds'
    OBVIOUS
  <2>5. Played
    BY LibertiesTaken DEF Played
  <2> QED  BY <2>1, <2>2, <2>3, <2>4, <2>5
<1>12. CASE Oss!Space
  <2> USE <1>12 DEF Oss!Space, Oss!Breakdown, Oss!Buf
  <2>1. ClientInv' /\ Moves
    BY ClientMoves, DataMoves, ReportMoves, LibertiesTaken
  <2>2. OssFields'
    OBVIOUS
  <2>3. OssRuns'
    OBVIOUS
  <2>4. OssHolds'
    OBVIOUS
  <2>5. Played
    BY LibertiesTaken DEF Played
  <2> QED  BY <2>1, <2>2, <2>3, <2>4, <2>5
<1>13. CASE Oss!Round
  <2> USE <1>13 DEF Oss!Round, Oss!CallData, Oss!Breakdown
  <2>1. pc'.thread = "data" => calling' = 1
    OBVIOUS
  <2>2. ClientInv' /\ Moves
    BY <2>1, ClientMoves, DataMoves, ReportMoves, LibertiesTaken
  <2>3. OssFields'
    BY <2>1
  <2>4. OssRuns'
    BY <2>1
  <2>5. OssHolds'
    BY <2>1
  <2>6. Played
    BY <2>1, LibertiesTaken DEF Played
  <2> QED  BY <2>2, <2>3, <2>4, <2>5, <2>6
<1>14. CASE Oss!Data
  <2> USE <1>14 DEF Oss!Data, Oss!Answer, Oss!Results, Oss!Breakdown, Oss!Short
  <2>1. calling' = 0
    OBVIOUS
  <2>2. ClientInv' /\ Moves
    BY <2>1, ClientMoves, DataMoves, ReportMoves, LibertiesTaken
  <2>3. OssFields'
    BY <2>1
  <2>4. OssRuns'
    BY <2>1
  <2>5. OssHolds'
    BY <2>1
  <2>6. Played
    BY <2>1, LibertiesTaken DEF Played
  <2> QED  BY <2>2, <2>3, <2>4, <2>5, <2>6
<1>15. CASE Oss!oss_put_play_frames
  <2> USE <1>15 DEF Oss!oss_put_play_frames, Oss!Breakdown, Oss!Buf
  <2>1. stm.queued < 2 => stm.queued + 1 \in {0, 1, 2}
    OBVIOUS
  <2>2. ClientInv' /\ Moves
    BY <2>1, ClientMoves, DataMoves, ReportMoves, LibertiesTaken
  <2>3. OssFields'
    BY <2>1
  <2>4. OssRuns'
    BY <2>1
  <2>5. OssHolds'
    BY <2>1
  <2>6. Played
    BY <2>1, LibertiesTaken DEF Played
  <2> QED  BY <2>2, <2>3, <2>4, <2>5, <2>6
<1>16. CASE Oss!Tell
  <2> USE <1>16 DEF Oss!Tell, Oss!Told
  <2>1. ClientInv' /\ Moves
    BY ClientMoves, DataMoves, ReportMoves, LibertiesTaken
  <2>2. OssFields'
    OBVIOUS
  <2>3. OssRuns'
    OBVIOUS
  <2>4. OssHolds'
    OBVIOUS
  <2>5. Played
    BY LibertiesTaken DEF Played
  <2> QED  BY <2>1, <2>2, <2>3, <2>4, <2>5
<1>17. CASE Oss!Stopped
  <2> USE <1>17 DEF Oss!Stopped
  <2>1. ClientInv' /\ Moves
    BY ClientMoves, DataMoves, ReportMoves, LibertiesTaken
  <2>2. OssFields'
    OBVIOUS
  <2>3. OssRuns'
    OBVIOUS
  <2>4. OssHolds'
    OBVIOUS
  <2>5. Played
    BY LibertiesTaken DEF Played
  <2> QED  BY <2>1, <2>2, <2>3, <2>4, <2>5
<1>18. CASE Oss!Doorbell
  <2> USE <1>18 DEF Oss!Doorbell
  <2>1. ClientInv' /\ Moves
    BY ClientMoves, DataMoves, ReportMoves, LibertiesTaken
  <2>2. OssFields'
    OBVIOUS
  <2>3. OssRuns'
    OBVIOUS
  <2>4. OssHolds'
    OBVIOUS
  <2>5. Played
    BY LibertiesTaken DEF Played
  <2> QED  BY <2>1, <2>2, <2>3, <2>4, <2>5
<1>19. CASE Oss!Device
  <2> USE <1>19 DEF Oss!Device
  <2>1. stm.queued - 1 \in {0, 1, 2}
    OBVIOUS
  <2>2. ClientInv' /\ Moves
    BY <2>1, ClientMoves, DataMoves, ReportMoves, LibertiesTaken
  <2>3. OssFields'
    BY <2>1
  <2>4. OssRuns'
    BY <2>1
  <2>5. OssHolds'
    BY <2>1
  <2>6. Played
    BY <2>1, LibertiesTaken DEF Played
  <2> QED  BY <2>2, <2>3, <2>4, <2>5, <2>6
<1>20. CASE UNCHANGED vars
  <2> USE <1>20 DEF vars
  <2>1. ClientInv' /\ Moves /\ Played
    BY ClientMoves DEF Played
  <2>2. OssFields'
    OBVIOUS
  <2>3. OssRuns'
    OBVIOUS
  <2>4. OssHolds'
    OBVIOUS
  <2> QED  BY <2>1, <2>2, <2>3, <2>4
<1> QED  BY <1>1, <1>2, <1>3, <1>4, <1>5, <1>6, <1>7, <1>8, <1>9, <1>10, <1>11, <1>12, <1>13, <1>14, <1>15,
            <1>16, <1>17, <1>18, <1>19, <1>20 DEF Oss!Calls, Oss!Client, Oss!Thread

\* The invariant implies what is promised of the state.
LEMMA OssPromises ==
  ASSUME ClientInv, OssInv, backend = "oss"
  PROVE  Oss!TypeOK /\ NothingLeaks /\ NothingUndefined
<1> USE DEF OssInv, OssFields, OssRuns, OssHolds, Asks, Holds, Absent, Bare, Running, Exists
<1>1. Oss!TypeOK
  BY DEF Oss!TypeOK, Oss!Files, Oss!Buf, Oss!Owned
<1>2. NothingLeaks
  BY LibertiesTaken DEF NothingLeaks
<1>3. NothingUndefined
  BY LibertiesTaken DEF NothingUndefined, ClientInv
<1> QED  BY <1>1, <1>2, <1>3

-----------------------------------------------------------------------------
(* WinMM: no more is with the device, free or on its way to the context's thread than
   there are buffers. *)

WinmmContext    == {"ctx", "work", "event", "thread"}
WinmmStreamHeld == {"active_streams", "stm", "stm_event", "waveout", "buffers"}
InDestroy       == {"check", "wait", "close"}

\* The work items whose buffer is not free yet.
InFlight == stm.pending_work_items - IF pc.thread \in {"release", "DRAINED", "ERROR"} THEN 1 ELSE 0

WinmmFields ==
  /\ stm = [queued |-> stm.queued, free_buffers |-> stm.free_buffers, shutdown |-> stm.shutdown,
            draining |-> stm.draining, error |-> stm.error, paused |-> stm.paused,
            device_valid |-> stm.device_valid, pending_work_items |-> stm.pending_work_items,
            event |-> stm.event, work |-> stm.work, batch |-> stm.batch, ctx_event |-> stm.ctx_event,
            ctx_shutdown |-> stm.ctx_shutdown, held |-> stm.held]
  /\ stm.queued \in Nat /\ stm.free_buffers \in Nat /\ stm.pending_work_items \in Nat
  /\ stm.work \in Nat /\ stm.batch \in Nat

\* A buffer is with the device, free, or on its way, as are the work items.
WinmmCounts ==
  /\ stm.queued + stm.free_buffers + InFlight <= 2
  /\ stm.pending_work_items = stm.work + stm.batch + IF pc.worker = "push" THEN 1 ELSE 0
  /\ pc.thread \in {"none", "wait", "done"} => stm.batch = 0
  /\ pc.thread \in {"data", "release", "DRAINED", "ERROR"} => stm.batch > 0
  /\ pc.client = "close" => stm.pending_work_items = 0 /\ (stm.queued = 0 \/ ~stm.device_valid)
  /\ phase \notin Exists /\ pc.client \notin InDestroy
       => stm.queued = 0 /\ stm.free_buffers = 0 /\ stm.pending_work_items = 0
  /\ pc.thread = "DRAINED" => stm.free_buffers = 2

\* The destroy of a stream shuts it down, and what ends a run marks it.
WinmmRuns ==
  /\ pc.client \in {"idle", "failed", "join"} \cup InDestroy /\ Asks
  /\ pc.thread \in {"none", "wait", "items", "data", "release", "DRAINED", "ERROR", "done"}
  /\ pc.worker \in {"none", "push", "set"}
  /\ phase \in Absent => pc.thread = "none" /\ pc.worker = "none"
  /\ pc.client \in InDestroy => phase \in {"none", "stopped", "drained", "error"}
  /\ pc.client \in InDestroy <=> stm.shutdown
  /\ pc.client = "join" => phase \in Bare
  /\ phase \notin Exists => ~stm.draining /\ ~stm.error
  /\ phase \in {"draining", "drained", "error"} => stm.error \/ stm.draining
  /\ pc.thread = "DRAINED" => stm.draining
  /\ pc.thread = "ERROR" => stm.error

\* What a stream acquires is held until it is closed.
WinmmHolds ==
  stm.held = IF phase \in Absent THEN {}
             ELSE WinmmContext \cup IF phase \in Exists \/ pc.client \in InDestroy THEN WinmmStreamHeld ELSE {}

WinmmInv == WinmmFields /\ WinmmCounts /\ WinmmRuns /\ WinmmHolds

\* What the inits acquire, and what is left of it when they fail.
LEMMA WinmmSets ==
  /\ Winmm!All(Winmm!Opened) = WinmmContext
  /\ Winmm!All(Winmm!Wants) = WinmmStreamHeld
  /\ WinmmContext \cap WinmmStreamHeld = {}
  /\ \A left \in Winmm!Left(Winmm!Opened, WinmmContext) : left = {}
BY DEF Winmm!All, Winmm!Left, Winmm!Opened, Winmm!Wants, WinmmContext, WinmmStreamHeld

\* However many buffers were written by the time it fails.
LEMMA WinmmInits ==
  ASSUME WinmmFields, Winmm!winmm_stream_init, stm.queued = 0, stm.free_buffers = 0
  PROVE  /\ WinmmFields'
         /\ stm'.queued + stm'.free_buffers <= 2 /\ stm'.pending_work_items = stm.pending_work_items
         /\ stm'.work = stm.work /\ stm'.batch = stm.batch
<1> DEFINE held == stm.held \cup Winmm!All(Winmm!Wants)
<1>1. CASE stm' = [stm EXCEPT !.queued = 2, !.held = held]
  <2>1. 2 \in Nat /\ 2 + 0 <= 2
    OBVIOUS
  <2> QED  BY <1>1, <2>1 DEF WinmmFields
<1>2. CASE UNCHANGED stm
  BY <1>2 DEF WinmmFields
<1>3. ASSUME NEW n \in {0, 1},
             stm' = [stm EXCEPT !.queued = n, !.free_buffers = 2 - n, !.error = TRUE, !.held = held]
      PROVE  /\ WinmmFields'
             /\ stm'.queued + stm'.free_buffers <= 2 /\ stm'.pending_work_items = stm.pending_work_items
             /\ stm'.work = stm.work /\ stm'.batch = stm.batch
  <2>1. n \in Nat /\ 2 - n \in Nat /\ n + (2 - n) <= 2
    OBVIOUS
  <2> QED  BY <1>3, <2>1 DEF WinmmFields
<1>4. ASSUME NEW n \in {0, 1}, stm' = [stm EXCEPT !.queued = n, !.shutdown = TRUE, !.held = held]
      PROVE  /\ WinmmFields'
             /\ stm'.queued + stm'.free_buffers <= 2 /\ stm'.pending_work_items = stm.pending_work_items
             /\ stm'.work = stm.work /\ stm'.batch = stm.batch
  <2>1. n \in Nat /\ n + 0 <= 2
    OBVIOUS
  <2> QED  BY <1>4, <2>1 DEF WinmmFields
<1>5. 0..(2 - 1) = {0, 1}
  OBVIOUS
<1>6. \/ stm' = [stm EXCEPT !.queued = 2, !.held = held]
      \/ UNCHANGED stm
      \/ \E n \in {0, 1} : stm' = [stm EXCEPT !.queued = n, !.free_buffers = 2 - n, !.error = TRUE,
         !.held = held]
      \/ \E n \in {0, 1} : stm' = [stm EXCEPT !.queued = n, !.shutdown = TRUE, !.held = held]
  BY <1>5 DEF Winmm!winmm_stream_init, Winmm!NBUFS
<1> QED  BY <1>1, <1>2, <1>3, <1>4, <1>6

\* The buffer that the data callback was called for is free, or with the device again.
LEMMA WinmmReturns ==
  ASSUME ClientInv, WinmmInv, Winmm!Returned
  PROVE  WinmmCounts' /\ WinmmRuns'
<1> DEFINE Counts == /\ stm'.queued + stm'.free_buffers = stm.queued + stm.free_buffers + 1
                     /\ stm'.queued \in Nat /\ stm'.free_buffers \in Nat
                     /\ stm'.pending_work_items = stm.pending_work_items
                     /\ stm'.work = stm.work /\ stm'.batch = stm.batch
                     /\ stm'.device_valid = stm.device_valid
<1>1. PICK r \in Winmm!Results :
        /\ Winmm!Answer(r)
        /\ \/ /\ stm.shutdown /\ Winmm!Goto("thread", "release")
              /\ stm' = [stm EXCEPT !.free_buffers = @ + 1]
           \/ /\ ~stm.shutdown /\ Winmm!Goto("thread", "ERROR")
              /\ stm' = [stm EXCEPT !.free_buffers = @ + 1, !.error = TRUE,
                                    !.draining = @ \/ r \in Winmm!Short]
           \/ /\ ~stm.shutdown /\ r # "error" /\ Winmm!Goto("thread", "release")
              /\ stm' = [stm EXCEPT !.queued = @ + 1, !.draining = @ \/ r \in Winmm!Short]
  BY DEF Winmm!Returned
<1>2. pc.thread = "data" /\ calling = 1 /\ calling' = 0
  <2>1. pc.thread = "data" /\ calling = 1
    BY DEF Winmm!Returned, WinmmInv, WinmmRuns, Asks
  <2> QED  BY <1>1, <2>1 DEF Winmm!Answer
<1>3. Counts
  <2>1. stm.queued + 1 \in Nat /\ stm.free_buffers + 1 \in Nat
    BY DEF WinmmInv, WinmmFields
  <2>2. \/ stm'.queued = stm.queued /\ stm'.free_buffers = stm.free_buffers + 1
        \/ stm'.queued = stm.queued + 1 /\ stm'.free_buffers = stm.free_buffers
    <3>1. CASE stm' = [stm EXCEPT !.free_buffers = @ + 1]
      BY <3>1 DEF WinmmInv, WinmmFields
    <3>2. CASE stm' = [stm EXCEPT !.free_buffers = @ + 1, !.error = TRUE, !.draining = @ \/ r \in Winmm!Short]
      BY <3>2 DEF WinmmInv, WinmmFields
    <3>3. CASE stm' = [stm EXCEPT !.queued = @ + 1, !.draining = @ \/ r \in Winmm!Short]
      BY <3>3 DEF WinmmInv, WinmmFields
    <3> QED  BY <1>1, <3>1, <3>2, <3>3
  <2>3. stm'.queued + stm'.free_buffers = stm.queued + stm.free_buffers + 1
    BY <2>2 DEF WinmmInv, WinmmFields
  <2>4. /\ stm'.pending_work_items = stm.pending_work_items
        /\ stm'.work = stm.work /\ stm'.batch = stm.batch
        /\ stm'.device_valid = stm.device_valid
    BY <1>1 DEF WinmmInv, WinmmFields
  <2> QED  BY <2>1, <2>2, <2>3, <2>4 DEF WinmmInv, WinmmFields
<1>4. pc' = [pc EXCEPT !.thread = pc'.thread] /\ pc'.thread \in {"release", "ERROR"}
  BY <1>1 DEF Winmm!Goto, ClientInv
<1>5. phase' = phase \/ (phase = "started" /\ phase' \in {"draining", "error"})
  BY <1>1 DEF Winmm!Answer
<1>a. /\ stm.queued + stm.free_buffers + stm.pending_work_items <= 2
      /\ stm.batch > 0 /\ stm.pending_work_items > 0
      /\ phase \in Exists \/ pc.client \in InDestroy
      /\ pc.client # "close"
  <2>1. stm.queued + stm.free_buffers + stm.pending_work_items <= 2
    BY <1>2 DEF WinmmInv, WinmmFields, WinmmCounts, InFlight
  <2>2. stm.batch > 0 /\ stm.pending_work_items > 0
    BY <1>2 DEF WinmmInv, WinmmFields, WinmmCounts
  <2>3. stm.pending_work_items # 0
    BY <2>2 DEF WinmmInv, WinmmFields
  <2> QED  BY <2>1, <2>2, <2>3 DEF WinmmInv, WinmmCounts
<1>b. /\ pc'.client = pc.client /\ pc'.worker = pc.worker
      /\ phase \in Exists => phase' \in Exists
  BY <1>4, <1>5 DEF ClientInv, Exists, Running
<1>6. WinmmCounts'
  <2> HIDE DEF Exists, InDestroy
  <2>1. /\ stm.queued \in Nat /\ stm.free_buffers \in Nat /\ stm.pending_work_items \in Nat
        /\ stm.pending_work_items = stm.work + stm.batch + IF pc.worker = "push" THEN 1 ELSE 0
    BY DEF WinmmInv, WinmmFields, WinmmCounts
  <2>2. stm'.queued + stm'.free_buffers + InFlight' <= 2
    BY <1>3, <1>4, <1>a, <2>1 DEF InFlight
  <2> QED  BY <1>3, <1>4, <1>a, <1>b, <2>1, <2>2 DEF WinmmCounts
<1>7. /\ stm'.shutdown = stm.shutdown /\ (stm.draining => stm'.draining) /\ (stm.error => stm'.error)
      /\ pc'.thread = "ERROR" => stm'.error
      /\ phase' # phase => stm'.draining \/ stm'.error
      /\ stm.shutdown => stm'.draining = stm.draining /\ stm'.error = stm.error
  <2>1. phase' # phase => ~stm.shutdown
    BY <1>5 DEF WinmmInv, WinmmRuns, InDestroy
  <2> QED  BY <1>1, <2>1 DEF WinmmInv, WinmmFields, Winmm!Answer, Winmm!Goto, Winmm!Results, Winmm!Short,
              ClientInv
<1>8. WinmmRuns'
  BY <1>2, <1>4, <1>5, <1>7, <1>a, <1>b DEF ClientInv, WinmmInv, WinmmRuns, Asks, InDestroy, Exists, Running,
     Absent, Bare
<1> QED  BY <1>6, <1>8

\* The invariant holds of a context that is not open.
LEMMA WinmmFirst ==
  Fresh /\ backend = "winmm" => WinmmInv
<1> SUFFICES ASSUME Fresh, backend = "winmm"
              PROVE  WinmmInv
  OBVIOUS
<1> USE DEF Fresh, Streams, AtRest, Winmm!Streams, Winmm!Closed, Asks, Absent, Bare, Running, Exists, InDestroy
<1>1. WinmmFields
  BY DEF WinmmFields
<1>2. WinmmCounts
  BY DEF WinmmCounts, InFlight
<1>3. WinmmRuns
  BY DEF WinmmRuns
<1>4. WinmmHolds
  BY DEF WinmmHolds, WinmmStreamHeld, WinmmContext
<1> QED  BY <1>1, <1>2, <1>3, <1>4 DEF WinmmInv

\* Every step keeps the invariant, and to the contract but for the liberties.
LEMMA WinmmSteps ==
  ASSUME ClientInv, WinmmInv, backend = "winmm", Winmm!Calls \/ Winmm!Client \/ Winmm!Thread \/ Winmm!Device \/
         UNCHANGED vars
  PROVE  ClientInv' /\ WinmmInv' /\ Moves /\ Played
<1> USE DEF ClientInv, WinmmInv, Asks, Absent, Bare, Running, Exists, Phases, InDestroy, Winmm!Goto,
            Winmm!Become, Winmm!user, Winmm!Idle, Winmm!NBUFS
<1>1. CASE Winmm!winmm_init
  <2> USE <1>1 DEF Winmm!winmm_init, Winmm!Opens, Winmm!MayOpen, Winmm!Acquire, Winmm!Fails
  <2>1. ClientInv' /\ Moves
    BY WinmmSets, ClientMoves, DataMoves, ReportMoves, LibertiesTaken DEF WinmmFields, WinmmRuns
  <2>2. WinmmFields'
    BY WinmmSets DEF WinmmFields
  <2>3. WinmmCounts'
    BY WinmmSets DEF WinmmFields, WinmmCounts, WinmmRuns, InFlight
  <2>4. WinmmRuns'
    BY WinmmSets DEF WinmmFields, WinmmRuns
  <2>5. WinmmHolds'
    BY WinmmSets DEF WinmmFields, WinmmRuns, WinmmHolds
  <2>6. Played
    BY LibertiesTaken DEF Played
  <2> QED  BY <2>1, <2>2, <2>3, <2>4, <2>5, <2>6
<1>2. CASE Winmm!winmm_destroy
  <2> USE <1>2 DEF Winmm!winmm_destroy, Winmm!MayClose
  <2>1. stm.work = 0
    BY DEF WinmmFields, WinmmCounts, WinmmRuns
  <2>2. ClientInv' /\ Moves
    BY <2>1, WinmmSets, ClientMoves, DataMoves, ReportMoves, LibertiesTaken DEF WinmmFields, WinmmRuns
  <2>3. WinmmFields'
    BY <2>1, WinmmSets DEF WinmmFields
  <2>4. WinmmCounts'
    BY <2>1, WinmmSets DEF WinmmFields, WinmmCounts, WinmmRuns, InFlight
  <2>5. WinmmRuns'
    BY <2>1, WinmmSets DEF WinmmFields, WinmmRuns
  <2>6. WinmmHolds'
    BY <2>1, WinmmSets DEF WinmmFields, WinmmRuns, WinmmHolds
  <2>7. Played
    BY <2>1, LibertiesTaken DEF Played
  <2> QED  BY <2>2, <2>3, <2>4, <2>5, <2>6, <2>7
<1>3. CASE Winmm!Join
  <2> USE <1>3 DEF Winmm!Join, Winmm!Release, Winmm!AtRest
  <2>1. ClientInv' /\ Moves
    BY WinmmSets, ClientMoves, DataMoves, ReportMoves, LibertiesTaken DEF WinmmFields, WinmmRuns
  <2>2. WinmmFields'
    BY WinmmSets DEF WinmmFields
  <2>3. WinmmCounts'
    BY WinmmSets DEF WinmmFields, WinmmCounts, WinmmRuns, InFlight
  <2>4. WinmmRuns'
    BY WinmmSets DEF WinmmFields, WinmmRuns
  <2>5. WinmmHolds'
    BY WinmmSets DEF WinmmFields, WinmmRuns, WinmmHolds
  <2>6. Played
    BY LibertiesTaken DEF Played
  <2> QED  BY <2>1, <2>2, <2>3, <2>4, <2>5, <2>6
<1>4. CASE Winmm!winmm_stream_init
  <2>1. phase = "none" /\ pc.client = "idle" /\ stm.queued = 0 /\ stm.free_buffers = 0 /\
        stm.pending_work_items = 0
    BY <1>4 DEF Winmm!winmm_stream_init, Winmm!MayInit, ClientInv, WinmmInv, WinmmCounts, Winmm!Idle, Exists,
       Running, InDestroy
  <2>2. WinmmFields'
    BY <1>4, <2>1, WinmmInits DEF WinmmInv
  <2>3. /\ stm'.queued + stm'.free_buffers <= 2 /\ stm'.pending_work_items = 0
        /\ stm'.work = stm.work /\ stm'.batch = stm.batch
    BY <1>4, <2>1, WinmmInits DEF WinmmInv
  <2>4. \/ UNCHANGED pc /\ phase' = "stopped"
        \/ UNCHANGED <<pc, phase, stm>>
        \/ UNCHANGED phase /\ pc' = [pc EXCEPT !.client = "check"]
    BY <1>4 DEF Winmm!winmm_stream_init, Winmm!MayInit, Winmm!Become, Winmm!Goto, Winmm!user
  <2>5. WinmmCounts'
    BY <2>1, <2>2, <2>3, <2>4 DEF ClientInv, WinmmInv, WinmmFields, WinmmCounts, InFlight, InDestroy, Exists,
       Running
  <2> USE <1>4 DEF Winmm!winmm_stream_init, Winmm!MayInit
  <2>6. ClientInv' /\ Moves
    BY <2>1, <2>3, <2>4, WinmmSets, ClientMoves, DataMoves, ReportMoves, LibertiesTaken
       DEF WinmmFields, WinmmRuns
  <2>7. WinmmRuns'
    BY <2>1, <2>3, <2>4, WinmmSets DEF WinmmFields, WinmmRuns
  <2>8. WinmmHolds'
    BY <2>1, <2>3, <2>4, WinmmSets DEF WinmmFields, WinmmRuns, WinmmHolds
  <2>9. Played
    BY <2>1, <2>3, <2>4, LibertiesTaken DEF Played
  <2> QED  BY <2>6, <2>2, <2>5, <2>7, <2>8, <2>9
<1>5. CASE Winmm!winmm_stream_start
  <2> USE <1>5 DEF Winmm!winmm_stream_start, Winmm!MayStart, Winmm!Begins
  <2>1. ClientInv' /\ Moves
    BY ClientMoves, DataMoves, ReportMoves, LibertiesTaken DEF WinmmFields, WinmmRuns
  <2>2. WinmmFields'
    BY DEF WinmmFields
  <2>3. WinmmCounts'
    BY DEF WinmmFields, WinmmCounts, WinmmRuns, InFlight
  <2>4. WinmmRuns'
    BY DEF WinmmFields, WinmmRuns
  <2>5. WinmmHolds'
    BY DEF WinmmFields, WinmmRuns, WinmmHolds
  <2>6. Played
    BY LibertiesTaken DEF Played
  <2> QED  BY <2>1, <2>2, <2>3, <2>4, <2>5, <2>6
<1>6. CASE Winmm!winmm_stream_stop
  <2> USE <1>6 DEF Winmm!winmm_stream_stop, Winmm!MayStop
  <2>1. ClientInv' /\ Moves
    BY ClientMoves, DataMoves, ReportMoves, LibertiesTaken DEF WinmmFields, WinmmRuns
  <2>2. WinmmFields'
    BY DEF WinmmFields
  <2>3. WinmmCounts'
    BY DEF WinmmFields, WinmmCounts, WinmmRuns, InFlight
  <2>4. WinmmRuns'
    BY DEF WinmmFields, WinmmRuns
  <2>5. WinmmHolds'
    BY DEF WinmmFields, WinmmRuns, WinmmHolds
  <2>6. Played
    BY LibertiesTaken DEF Played
  <2> QED  BY <2>1, <2>2, <2>3, <2>4, <2>5, <2>6
<1>7. CASE Winmm!winmm_stream_destroy
  <2> USE <1>7 DEF Winmm!winmm_stream_destroy, Winmm!MayDestroy
  <2>1. ClientInv' /\ Moves
    BY ClientMoves, DataMoves, ReportMoves, LibertiesTaken DEF WinmmFields, WinmmRuns
  <2>2. WinmmFields'
    BY DEF WinmmFields
  <2>3. WinmmCounts'
    BY DEF WinmmFields, WinmmCounts, WinmmRuns, InFlight
  <2>4. WinmmRuns'
    BY DEF WinmmFields, WinmmRuns
  <2>5. WinmmHolds'
    BY DEF WinmmFields, WinmmRuns, WinmmHolds
  <2>6. Played
    BY LibertiesTaken DEF Played
  <2> QED  BY <2>1, <2>2, <2>3, <2>4, <2>5, <2>6
<1>8. CASE Winmm!Check
  <2> USE <1>8 DEF Winmm!Check
  <2>1. stm.free_buffers = 2 /\ stm.pending_work_items = 0 => stm.queued = 0
    BY DEF WinmmFields, WinmmCounts, WinmmRuns, InFlight
  <2>2. ClientInv' /\ Moves
    BY <2>1, ClientMoves, DataMoves, ReportMoves, LibertiesTaken DEF WinmmFields, WinmmRuns
  <2>3. WinmmFields'
    BY <2>1 DEF WinmmFields
  <2>4. WinmmCounts'
    BY <2>1 DEF WinmmFields, WinmmCounts, WinmmRuns, InFlight
  <2>5. WinmmRuns'
    BY <2>1 DEF WinmmFields, WinmmRuns
  <2>6. WinmmHolds'
    BY <2>1 DEF WinmmFields, WinmmRuns, WinmmHolds
  <2>7. Played
    BY <2>1, LibertiesTaken DEF Played
  <2> QED  BY <2>2, <2>3, <2>4, <2>5, <2>6, <2>7
<1>9. CASE Winmm!Wait
  <2> USE <1>9 DEF Winmm!Wait
  <2>1. ClientInv' /\ Moves
    BY ClientMoves, DataMoves, ReportMoves, LibertiesTaken DEF WinmmFields, WinmmRuns
  <2>2. WinmmFields'
    BY DEF WinmmFields
  <2>3. WinmmCounts'
    BY DEF WinmmFields, WinmmCounts, WinmmRuns, InFlight
  <2>4. WinmmRuns'
    BY DEF WinmmFields, WinmmRuns
  <2>5. WinmmHolds'
    BY DEF WinmmFields, WinmmRuns, WinmmHolds
  <2>6. Played
    BY LibertiesTaken DEF Played
  <2> QED  BY <2>1, <2>2, <2>3, <2>4, <2>5, <2>6
<1>10. CASE Winmm!Close
  <2> USE <1>10 DEF Winmm!Close, Winmm!Closed
  <2>1. calling = 0 /\ pc.thread \notin {"data", "release", "DRAINED", "ERROR"}
    BY DEF WinmmFields, WinmmCounts, WinmmRuns
  <2>2. ClientInv' /\ Moves
    BY <2>1, WinmmSets, ClientMoves, DataMoves, ReportMoves, LibertiesTaken DEF WinmmFields, WinmmRuns
  <2>3. WinmmFields'
    BY <2>1, WinmmSets DEF WinmmFields
  <2>4. WinmmCounts'
    BY <2>1, WinmmSets DEF WinmmFields, WinmmCounts, WinmmRuns, InFlight
  <2>5. WinmmRuns'
    BY <2>1, WinmmSets DEF WinmmFields, WinmmRuns
  <2>6. WinmmHolds'
    BY <2>1, WinmmSets DEF WinmmFields, WinmmRuns, WinmmHolds
  <2>7. Played
    BY <2>1, LibertiesTaken DEF Played
  <2> QED  BY <2>2, <2>3, <2>4, <2>5, <2>6, <2>7
<1>11. CASE Winmm!winmm_buffer_callback
  <2> USE <1>11 DEF Winmm!winmm_buffer_callback
  <2>1. stm.queued - 1 \in Nat /\ stm.pending_work_items + 1 \in Nat
    BY DEF WinmmFields
  <2>2. phase \in Exists \/ pc.client \in InDestroy
    BY DEF WinmmFields, WinmmCounts
  <2>3. ClientInv' /\ Moves
    BY <2>1, <2>2, ClientMoves, DataMoves, ReportMoves, LibertiesTaken DEF WinmmFields, WinmmRuns
  <2>4. WinmmFields'
    BY <2>1, <2>2 DEF WinmmFields
  <2>5. WinmmCounts'
    BY <2>1, <2>2 DEF WinmmFields, WinmmCounts, WinmmRuns, InFlight
  <2>6. WinmmRuns'
    BY <2>1, <2>2 DEF WinmmFields, WinmmRuns
  <2>7. WinmmHolds'
    BY <2>1, <2>2 DEF WinmmFields, WinmmRuns, WinmmHolds
  <2>8. Played
    BY <2>1, <2>2, LibertiesTaken DEF Played
  <2> QED  BY <2>3, <2>4, <2>5, <2>6, <2>7, <2>8
<1>12. CASE Winmm!Push
  <2>1. /\ stm'.work = stm.work + 1 /\ stm'.pending_work_items = stm.pending_work_items
        /\ stm'.batch = stm.batch /\ stm'.queued = stm.queued /\ stm'.free_buffers = stm.free_buffers
        /\ pc.worker = "push" /\ pc' = [pc EXCEPT !.worker = "set"]
    BY <1>12 DEF Winmm!Push, ClientInv, WinmmInv, WinmmFields, Winmm!Goto, Winmm!Become, Winmm!user, Winmm!NBUFS
  <2> USE <1>12 DEF Winmm!Push
  <2>2. ClientInv' /\ Moves
    BY <2>1, ClientMoves, DataMoves, ReportMoves, LibertiesTaken DEF WinmmFields, WinmmRuns
  <2>3. WinmmFields'
    BY <2>1 DEF WinmmFields
  <2>4. WinmmCounts'
    BY <2>1 DEF WinmmFields, WinmmCounts, WinmmRuns, InFlight
  <2>5. WinmmRuns'
    BY <2>1 DEF WinmmFields, WinmmRuns
  <2>6. WinmmHolds'
    BY <2>1 DEF WinmmFields, WinmmRuns, WinmmHolds
  <2>7. Played
    BY <2>1, LibertiesTaken DEF Played
  <2> QED  BY <2>2, <2>3, <2>4, <2>5, <2>6, <2>7
<1>13. CASE Winmm!SetsEvent
  <2> USE <1>13 DEF Winmm!SetsEvent
  <2>1. "event" \in stm.held
    BY DEF WinmmRuns, WinmmHolds, WinmmContext
  <2>2. ClientInv' /\ Moves
    BY <2>1, ClientMoves, DataMoves, ReportMoves, LibertiesTaken DEF WinmmFields, WinmmRuns
  <2>3. WinmmFields'
    BY <2>1 DEF WinmmFields
  <2>4. WinmmCounts'
    BY <2>1 DEF WinmmFields, WinmmCounts, WinmmRuns, InFlight
  <2>5. WinmmRuns'
    BY <2>1 DEF WinmmFields, WinmmRuns
  <2>6. WinmmHolds'
    BY <2>1 DEF WinmmFields, WinmmRuns, WinmmHolds
  <2>7. Played
    BY <2>1, LibertiesTaken DEF Played
  <2> QED  BY <2>2, <2>3, <2>4, <2>5, <2>6, <2>7
<1>14. CASE Winmm!Batch
  <2> USE <1>14 DEF Winmm!Batch
  <2>1. ClientInv' /\ Moves
    BY ClientMoves, DataMoves, ReportMoves, LibertiesTaken DEF WinmmFields, WinmmRuns
  <2>2. WinmmFields'
    BY DEF WinmmFields
  <2>3. WinmmCounts'
    BY DEF WinmmFields, WinmmCounts, WinmmRuns, InFlight
  <2>4. WinmmRuns'
    BY DEF WinmmFields, WinmmRuns
  <2>5. WinmmHolds'
    BY DEF WinmmFields, WinmmRuns, WinmmHolds
  <2>6. Played
    BY LibertiesTaken DEF Played
  <2> QED  BY <2>1, <2>2, <2>3, <2>4, <2>5, <2>6
<1>15. CASE Winmm!Ended
  <2> USE <1>15 DEF Winmm!Ended
  <2>1. ClientInv' /\ Moves
    BY ClientMoves, DataMoves, ReportMoves, LibertiesTaken DEF WinmmFields, WinmmRuns
  <2>2. WinmmFields'
    BY DEF WinmmFields
  <2>3. WinmmCounts'
    BY DEF WinmmFields, WinmmCounts, WinmmRuns, InFlight
  <2>4. WinmmRuns'
    BY DEF WinmmFields, WinmmRuns
  <2>5. WinmmHolds'
    BY DEF WinmmFields, WinmmRuns, WinmmHolds
  <2>6. Played
    BY LibertiesTaken DEF Played
  <2> QED  BY <2>1, <2>2, <2>3, <2>4, <2>5, <2>6
<1>16. CASE Winmm!winmm_refill_stream
  <2> USE <1>16 DEF Winmm!winmm_refill_stream, Winmm!CallData
  <2>1. pc'.thread = "data" => calling' = 1
    BY DEF WinmmRuns
  <2>2. pc'.thread = "data" => phase \in {"stopped", "started"}
    BY DEF WinmmFields, WinmmCounts, WinmmRuns
  <2>3. ClientInv' /\ Moves
    BY <2>1, <2>2, ClientMoves, DataMoves, ReportMoves, LibertiesTaken DEF WinmmFields, WinmmRuns
  <2>4. WinmmFields'
    BY <2>1, <2>2 DEF WinmmFields
  <2>5. WinmmCounts'
    BY <2>1, <2>2 DEF WinmmFields, WinmmCounts, WinmmRuns, InFlight
  <2>6. WinmmRuns'
    BY <2>1, <2>2 DEF WinmmFields, WinmmRuns
  <2>7. WinmmHolds'
    BY <2>1, <2>2 DEF WinmmFields, WinmmRuns, WinmmHolds
  <2>8. Played
    BY <2>1, <2>2, LibertiesTaken DEF Played
  <2> QED  BY <2>3, <2>4, <2>5, <2>6, <2>7, <2>8
<1>17. CASE Winmm!Returned
  <2>1. WinmmCounts'
    BY <1>17, WinmmReturns
  <2>2. WinmmRuns'
    BY <1>17, WinmmReturns
  <2> USE <1>17 DEF Winmm!Returned, Winmm!Answer, Winmm!Results, Winmm!Short
  <2>3. calling' = 0
    BY DEF WinmmRuns
  <2>4. stm.queued + 1 \in Nat /\ stm.free_buffers + 1 \in Nat
    BY DEF WinmmFields
  <2>5. ClientInv' /\ Moves
    BY <2>3, <2>4, ClientMoves, DataMoves, ReportMoves, LibertiesTaken DEF WinmmFields, WinmmRuns
  <2>6. WinmmFields'
    BY <2>3, <2>4 DEF WinmmFields
  <2>7. WinmmHolds'
    BY <2>3, <2>4 DEF WinmmFields, WinmmRuns, WinmmHolds
  <2>8. Played
    BY <2>3, <2>4, LibertiesTaken DEF Played
  <2> QED  BY <2>5, <2>6, <2>1, <2>2, <2>7, <2>8
<1>18. CASE Winmm!Tell
  <2> USE <1>18 DEF Winmm!Tell, Winmm!Told
  <2>1. phase' = "drained" /\ phase # "drained" => pc.thread = "DRAINED"
    OBVIOUS
  <2>2. pc.thread = "DRAINED" => stm.queued = 0
    BY DEF WinmmFields, WinmmCounts, InFlight
  <2>3. ClientInv' /\ Moves
    BY <2>1, <2>2, ClientMoves, DataMoves, ReportMoves, LibertiesTaken DEF WinmmFields, WinmmRuns
  <2>4. WinmmFields'
    BY <2>1, <2>2 DEF WinmmFields
  <2>5. WinmmCounts'
    BY <2>1, <2>2 DEF WinmmFields, WinmmCounts, WinmmRuns, InFlight
  <2>6. WinmmRuns'
    BY <2>1, <2>2 DEF WinmmFields, WinmmRuns
  <2>7. WinmmHolds'
    BY <2>1, <2>2 DEF WinmmFields, WinmmRuns, WinmmHolds
  <2>8. Played
    BY <2>1, <2>2, LibertiesTaken DEF Played
  <2> QED  BY <2>3, <2>4, <2>5, <2>6, <2>7, <2>8
<1>19. CASE Winmm!ReleaseItem
  <2> USE <1>19 DEF Winmm!ReleaseItem
  <2>1. stm.batch - 1 \in Nat /\ stm.pending_work_items - 1 \in Nat
    BY DEF WinmmFields, WinmmCounts
  <2>2. ClientInv' /\ Moves
    BY <2>1, ClientMoves, DataMoves, ReportMoves, LibertiesTaken DEF WinmmFields, WinmmRuns
  <2>3. WinmmFields'
    BY <2>1 DEF WinmmFields
  <2>4. WinmmCounts'
    BY <2>1 DEF WinmmFields, WinmmCounts, WinmmRuns, InFlight
  <2>5. WinmmRuns'
    BY <2>1 DEF WinmmFields, WinmmRuns
  <2>6. WinmmHolds'
    BY <2>1 DEF WinmmFields, WinmmRuns, WinmmHolds
  <2>7. Played
    BY <2>1, LibertiesTaken DEF Played
  <2> QED  BY <2>2, <2>3, <2>4, <2>5, <2>6, <2>7
<1>20. CASE UNCHANGED vars
  <2> USE <1>20 DEF vars
  <2>1. ClientInv' /\ Moves /\ Played
    BY ClientMoves DEF Played
  <2>2. WinmmFields'
    BY DEF WinmmFields
  <2>3. WinmmCounts'
    BY DEF WinmmCounts, InFlight
  <2>4. WinmmRuns'
    BY DEF WinmmRuns
  <2>5. WinmmHolds'
    BY DEF WinmmHolds
  <2> QED  BY <2>1, <2>2, <2>3, <2>4, <2>5
<1> QED  BY <1>1, <1>2, <1>3, <1>4, <1>5, <1>6, <1>7, <1>8, <1>9, <1>10, <1>11, <1>12, <1>13, <1>14, <1>15,
            <1>16, <1>17, <1>18, <1>19, <1>20 DEF Winmm!Calls, Winmm!Client, Winmm!Thread, Winmm!Device

\* The invariant implies what is promised of the state.
LEMMA WinmmPromises ==
  ASSUME ClientInv, WinmmInv, backend = "winmm"
  PROVE  Winmm!TypeOK /\ NothingLeaks /\ NothingUndefined
<1> USE DEF WinmmInv, WinmmFields, WinmmCounts, WinmmRuns, WinmmHolds, Asks, Absent, Bare, Running, Exists,
            InDestroy
<1>1. Winmm!TypeOK
  <2>1. stm.held \subseteq Winmm!All(Winmm!Opened) \cup Winmm!All(Winmm!Wants)
    BY WinmmSets
  <2>2. /\ stm.queued \in 0..2 /\ stm.free_buffers \in 0..2 /\ stm.pending_work_items \in 0..3
        /\ stm.work + stm.batch <= stm.pending_work_items
    <3>1. /\ stm.queued \in Nat /\ stm.free_buffers \in Nat /\ stm.pending_work_items \in Nat
          /\ stm.work \in Nat /\ stm.batch \in Nat
      OBVIOUS
    <3>2. stm.batch > 0 \/ pc.thread \notin {"release", "DRAINED", "ERROR"}
      OBVIOUS
    <3>3. stm.queued + stm.free_buffers + stm.pending_work_items <= 3
      BY <3>1 DEF InFlight
    <3>4. stm.work + stm.batch <= stm.pending_work_items
      BY <3>1
    <3>5. stm.queued + stm.free_buffers <= 2
      <4>1. CASE pc.thread \in {"release", "DRAINED", "ERROR"}
        <5>1. stm.pending_work_items >= 1
          BY <3>1, <3>2, <3>4, <4>1
        <5> QED  BY <3>1, <4>1, <5>1 DEF InFlight
      <4>2. CASE pc.thread \notin {"release", "DRAINED", "ERROR"}
        BY <3>1, <4>2 DEF InFlight
      <4> QED  BY <4>1, <4>2
    <3> QED  BY ONLY <3>1, <3>3, <3>4, <3>5
  <2> QED  BY ONLY <2>1, <2>2 DEF Winmm!TypeOK, Winmm!NBUFS
<1>2. NothingLeaks
  BY LibertiesTaken DEF NothingLeaks
<1>3. NothingUndefined
  BY LibertiesTaken DEF NothingUndefined, ClientInv
<1> QED  BY <1>1, <1>2, <1>3
================================================================================
