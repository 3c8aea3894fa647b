--------------------------------- MODULE Cubeb ---------------------------------
(* cubeb.c: cubeb_init tries the backends that were compiled in, in a fixed     *)
(* order, and keeps the first that initialises; every other call goes through    *)
(* the ops table of that backend.  The client does with one context and one      *)
(* stream whatever cubeb.h allows.  The modules of the backends say what the      *)
(* calls and the threads do; here they are held against the promises of cubeb.h. *)
EXTENDS Backend

CONSTANT Compiled        \* the backends compiled in, by their names

VARIABLES backend,       \* context->ops
          nth            \* how far cubeb_init is in its table, and 0 for a named one

Pulse      == INSTANCE PulseStream
Sndio      == INSTANCE SndioStream
Oss        == INSTANCE OssStream
Sun        == INSTANCE SunStream
Jack       == INSTANCE JackStream
Winmm      == INSTANCE WinmmStream
OpenSL     == INSTANCE OpenSLStream
Wasapi     == INSTANCE WasapiStream
AudioUnit  == INSTANCE AudioUnitStream
Kai        == INSTANCE KaiStream
AudioTrack == INSTANCE AudioTrackStream
AAudio     == INSTANCE AAudioContext

all == <<stm, pc, phase, calling, starts, backend, nth>>

\* default_init, without the backends that no module here models, as it is compiled:
\* its entries are places in the full table, and After(n) is the next one after n.
Known        == <<"pulse", "jack", "sndio", "oss", "audiounit", "wasapi", "winmm", "sun", "aaudio", "opensl",
                  "audiotrack", "kai">>
default_init == { n \in DOMAIN Known : Known[n] \in Compiled }
After(n)     == { m \in default_init : m > n /\ \A k \in default_init : k <= n \/ m <= k }

ASSUME CompiledAssumption == Compiled \subseteq { Known[n] : n \in DOMAIN Known }

Streams(b) == CASE b = "pulse"      -> Pulse!Streams
                [] b = "jack"       -> Jack!Streams
                [] b = "sndio"      -> Sndio!Streams
                [] b = "oss"        -> Oss!Streams
                [] b = "sun"        -> Sun!Streams
                [] b = "audiotrack" -> AudioTrack!Streams
                [] b = "winmm"      -> Winmm!Streams
                [] b = "opensl"     -> OpenSL!Streams
                [] b = "wasapi"     -> Wasapi!Streams
                [] b = "audiounit"  -> AudioUnit!Streams
                [] b = "aaudio"     -> AAudio!Streams
                [] b = "kai"        -> Kai!Streams

\* The backend the client names, if it names one, comes first.
Init == /\ \/ nth = 0 /\ backend \in Compiled
           \/ nth \in After(0) /\ backend = Known[nth]
        /\ stm \in Streams(backend) /\ pc = AtRest
        /\ phase = "closed" /\ calling = 0 /\ starts = 0

\* cubeb_init goes on to the next backend, or fails after the last.
cubeb_init ==
    /\ pc.client = "failed"
    /\ nth' \in After(nth) /\ backend' = Known[nth']
    /\ stm' \in Streams(backend') /\ pc' = AtRest /\ UNCHANGED user

Calls == \/ backend = "pulse"      /\ Pulse!Calls
         \/ backend = "jack"       /\ Jack!Calls
         \/ backend = "sndio"      /\ Sndio!Calls
         \/ backend = "oss"        /\ Oss!Calls
         \/ backend = "sun"        /\ Sun!Calls
         \/ backend = "audiotrack" /\ AudioTrack!Calls
         \/ backend = "kai"        /\ Kai!Calls
         \/ backend = "winmm"      /\ Winmm!Calls
         \/ backend = "opensl"     /\ OpenSL!Calls
         \/ backend = "wasapi"     /\ Wasapi!Calls
         \/ backend = "audiounit"  /\ AudioUnit!Calls
         \/ backend = "aaudio"     /\ AAudio!Calls

\* The call in progress goes on.
Client == \/ backend = "pulse"      /\ Pulse!Client
          \/ backend = "jack"       /\ Jack!Client
          \/ backend = "sndio"      /\ Sndio!Client
          \/ backend = "oss"        /\ Oss!Client
          \/ backend = "sun"        /\ Sun!Client
          \/ backend = "winmm"      /\ Winmm!Client
          \/ backend = "opensl"     /\ OpenSL!Client
          \/ backend = "wasapi"     /\ Wasapi!Client
          \/ backend = "audiounit"  /\ AudioUnit!Client
          \/ backend = "aaudio"     /\ AAudio!Client

Thread == \/ backend = "pulse"      /\ Pulse!Thread
          \/ backend = "jack"       /\ Jack!Thread
          \/ backend = "sndio"      /\ Sndio!Thread
          \/ backend = "oss"        /\ Oss!Thread
          \/ backend = "sun"        /\ Sun!Thread
          \/ backend = "audiotrack" /\ AudioTrack!Thread
          \/ backend = "kai"        /\ Kai!Thread
          \/ backend = "winmm"      /\ Winmm!Thread
          \/ backend = "opensl"     /\ OpenSL!Thread
          \/ backend = "wasapi"     /\ Wasapi!Thread
          \/ backend = "audiounit"  /\ AudioUnit!Thread
          \/ backend = "aaudio"     /\ AAudio!Thread

Device == \/ backend = "pulse"      /\ Pulse!Device
          \/ backend = "oss"        /\ Oss!Device
          \/ backend = "sun"        /\ Sun!Device
          \/ backend = "audiotrack" /\ AudioTrack!Device
          \/ backend = "kai"        /\ Kai!Device
          \/ backend = "winmm"      /\ Winmm!Device
          \/ backend = "opensl"     /\ OpenSL!Device
          \/ backend = "wasapi"     /\ Wasapi!Device
          \/ backend = "audiounit"  /\ AudioUnit!Device
          \/ backend = "aaudio"     /\ AAudio!Device

Spurious == \/ backend = "pulse"  /\ Pulse!stream_state_callback
            \/ backend = "oss"    /\ Oss!SpuriousWakeup
            \/ backend = "wasapi" /\ Wasapi!OnDefaultDeviceChanged
            \/ backend = "audiounit" /\ AudioUnit!Events
            \/ backend = "aaudio" /\ AAudio!SpuriousWakeup

\* AAudio has three threads, and its state thread polls.
Notifier == backend = "aaudio" /\ AAudio!notifier_thread
Callback == backend = "aaudio" /\ AAudio!Callback
Awaiting == backend = "aaudio" /\ (AAudio!Lock \/ AAudio!Decide)

Next == \/ cubeb_init
        \/ /\ Calls \/ Client \/ Thread \/ Notifier \/ Callback \/ Device \/ Spurious
           /\ nth' = IF phase = "closed" THEN nth ELSE 0
           /\ UNCHANGED backend

Step(A) == A /\ UNCHANGED <<backend, nth>>

\* The threads run, the data callback returns, the devices play, and who wants a
\* lock that is released again and again gets it some time.
Spec == /\ Init /\ [][Next]_all
        /\ SF_all(Step(Client)) /\ WF_all(Step(Thread)) /\ WF_all(Step(Device))
        /\ WF_all(Step(Notifier)) /\ WF_all(Step(Callback)) /\ SF_all(Step(Awaiting))

TypeOK == /\ backend \in Compiled /\ nth \in {0} \cup default_init
          /\ \/ backend = "pulse"      /\ Pulse!TypeOK
             \/ backend = "jack"       /\ Jack!TypeOK
             \/ backend = "sndio"      /\ Sndio!TypeOK
             \/ backend = "oss"        /\ Oss!TypeOK
             \/ backend = "sun"        /\ Sun!TypeOK
             \/ backend = "audiotrack" /\ AudioTrack!TypeOK
             \/ backend = "winmm"      /\ Winmm!TypeOK
             \/ backend = "opensl"     /\ OpenSL!TypeOK
             \/ backend = "wasapi"     /\ Wasapi!TypeOK
             \/ backend = "audiounit"  /\ AudioUnit!TypeOK
             \/ backend = "aaudio"     /\ AAudio!TypeOK
             \/ backend = "kai"        /\ Kai!TypeOK

-----------------------------------------------------------------------------
\* What cubeb.h promises, and what each backend takes the liberty of.
Contract == INSTANCE StreamContract

Liberties(b) ==
    CASE b = "pulse"      -> {"late report", "error drains", "early DRAINED", "silent end", "deaf", "undefined"}
      [] b = "jack"       -> {"late data", "late report", "stale report", "goes on", "silent end", "deaf", "undefined"}
      [] b = "oss"        -> {"late report", "stale report", "goes on", "early DRAINED", "silent end", "may hang"}
      [] b = "sun"        -> {"early DRAINED", "undefined"}
      [] b = "kai"        -> {"early DRAINED", "error drains", "goes on"}
      [] b = "audiotrack" -> {"stale report", "deaf"}
      [] b = "sndio"      -> {"leaks", "deaf"}
      [] b = "winmm"      -> {"late data", "late report", "stale report", "may hang", "deaf"}
      [] b = "opensl"     -> {"late data", "late report", "stale report", "goes on", "early DRAINED", "silent end", "deaf", "undefined", "leaks"}
      [] b = "wasapi"     -> {"late data", "late report", "stale report", "early DRAINED", "silent end", "deaf", "undefined", "leaks"}
      [] b = "audiounit"  -> {"late data", "late report", "stale report", "goes on", "early DRAINED", "silent end", "deaf", "undefined", "leaks"}
      [] b = "aaudio"     -> {"late data", "late report", "goes on", "early DRAINED"} \cup (IF stm.lost THEN {"silent end"} ELSE {})
      [] OTHER            -> {}
Takes(liberty) == liberty \in Liberties(backend)

\* The stream reports its end when its client has stopped it already.
LateReport  == /\ \/ phase = "stopped" /\ phase' \in {"drained", "error"}
                  \/ phase \in {"drained", "error"} /\ phase' = "destroyed"  \* within the call
               /\ UNCHANGED calling
\* A report on an earlier run, which was stopped, comes after the next start.
StaleReport == /\ phase \in {"started", "drained", "error"} /\ phase' \in {"drained", "error"}
               /\ UNCHANGED calling
\* The data callback is called when the stream is stopped or not started yet.
LateData    == phase \in {"none", "stopped"} /\ calling = 0 /\ calling' = 1 /\ UNCHANGED phase
\* The data callback is called again after the end of the stream.
GoesOn      == phase \in {"error", "draining", "drained"} /\ calling = 0 /\ calling' = 1 /\ UNCHANGED phase
\* DRAINED follows an ERROR.
ErrorDrains == phase = "error" /\ phase' = "drained" /\ UNCHANGED calling

ContractStep == \/ Contract!Next
                \/ Takes("late report")  /\ LateReport
                \/ Takes("stale report") /\ StaleReport
                \/ Takes("late data")    /\ LateData
                \/ Takes("goes on")      /\ GoesOn
                \/ Takes("error drains") /\ ErrorDrains

\* Every backend keeps the contract of cubeb.h for the data and state callbacks,
\* but for its liberties.
ImplementsContract == Contract!Init /\ [][ContractStep]_<<phase, calling>>

\* When DRAINED is told, everything the client provided has been played.
DrainedIsPlayed == [][phase' = "drained" /\ phase # "drained"
                        => stm.queued = 0 \/ Takes("early DRAINED")]_all

\* Whatever fails, and in whatever order things end, everything is released.
NothingLeaks == phase \in {"closed", "gone"} /\ pc.client \in {"idle", "failed"}
                  => stm.held = {} \/ Takes("leaks")

\* Nothing is used before it is created or after it is released.
NothingUndefined == \A t \in DOMAIN pc : pc[t] = "undefined" => Takes("undefined")

\* Every call of the client returns.
CallsReturn == pc.client \notin {"idle", "failed"} /\ ~Takes("may hang")
                 ~> pc.client \in {"idle", "failed"} \/ \E t \in DOMAIN pc : pc[t] = "undefined"

\* A short count is answered by DRAINED, ERROR or the client's stop.
EndIsTold == phase = "draining" /\ ~Takes("silent end") ~> phase # "draining" \/ Takes("silent end")

\* A stream that is started is asked for data, or told why not.
StartedIsServed == phase = "started" /\ pc.client = "idle" /\ ~Takes("deaf")
                     ~> calling > 0 \/ phase # "started" \/ pc.client # "idle"

\* A stream of the default device moves to a device that becomes the default, or
\* its render thread ends.
FollowsDefault == backend = "wasapi" /\ phase = "started" /\ ~stm.follows
                    ~> phase # "started" \/ stm.follows \/ pc.thread \in {"leave", "ended"}
================================================================================
