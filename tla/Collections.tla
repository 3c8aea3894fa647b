------------------------------ MODULE Collections ------------------------------
(* cubeb_enumerate_devices and cubeb_register_device_collection_changed, of every *)
(* backend that has them: what a client sees of the devices of the system.         *)
EXTENDS DeviceClient

CONSTANT Compiled        \* the backends that are looked at, by their names

VARIABLE backend

Pulse     == INSTANCE PulseDevices
Wasapi    == INSTANCE WasapiDevices
AudioUnit == INSTANCE AudioUnitDevices
Lists     == INSTANCE DeviceLists

all == <<vars, backend>>

Init == /\ backend \in Compiled /\ ClientInit
        /\ st = CASE backend = "pulse"     -> Pulse!Context
                  [] backend = "wasapi"    -> Wasapi!Context
                  [] backend = "audiounit" -> AudioUnit!Context
                  [] OTHER                 -> Lists!Context

Change == CASE backend = "pulse"     -> Pulse!Change
            [] backend = "wasapi"    -> Wasapi!Change
            [] backend = "audiounit" -> AudioUnit!Change
            [] OTHER                 -> Lists!Change

Calls  == CASE backend = "pulse"     -> Pulse!Calls
            [] backend = "wasapi"    -> Wasapi!Calls
            [] backend = "audiounit" -> AudioUnit!Calls
            [] OTHER                 -> FALSE

\* Enumerations with nothing else to them.
Enumerations == \/ backend = "winmm"       /\ Lists!winmm_enumerate_devices
                \/ backend = "oss"         /\ Lists!oss_enumerate_devices
                \/ backend = "oss_sndstat" /\ Lists!oss_enumerate_sndstat
                \/ backend = "sun"         /\ Lists!sun_enumerate_devices
                \/ backend = "alsa"        /\ Lists!alsa_enumerate_devices
                \/ backend = "sndio"       /\ Lists!sndio_enumerate_devices
                \/ backend = "jack"        /\ Lists!cbjack_enumerate_devices

\* The call in progress goes on.
Client == \/ backend = "pulse"     /\ Pulse!Client
          \/ backend = "wasapi"    /\ Wasapi!Client
          \/ backend = "audiounit" /\ AudioUnit!Client
          \/ call.op # "none" /\ Enumerations
          \/ Done

Thread == \/ backend = "pulse"     /\ Pulse!Thread
          \/ backend = "wasapi"    /\ Wasapi!Thread
          \/ backend = "audiounit" /\ AudioUnit!Thread

Next == /\ thread # "undefined" /\ UNCHANGED backend
        /\ \/ Change \/ Calls \/ Client \/ Enumerations \/ Thread
           \/ backend = "pulse" /\ Pulse!ContextFails

Step(A) == thread # "undefined" /\ A /\ UNCHANGED backend
Answer  == \/ backend = "pulse"     /\ Pulse!pulse_enumerate_devices
           \/ backend = "wasapi"    /\ Wasapi!wasapi_enumerate_devices
           \/ backend = "audiounit" /\ AudioUnit!audiounit_enumerate_devices

\* Calls go on, what the system sent is handled, and the client enumerates, some
\* time, what it was told of.
Spec == /\ Init /\ [][Next]_all
        /\ SF_all(Step(Client)) /\ WF_all(Step(Thread)) /\ SF_all(Step(Answer))

-----------------------------------------------------------------------------
\* What the backends take the liberty of.
\*   untold default   the client is not told of another default
\*   tells others     a side may be told of whose registration was answered by an error
\*   undefined        a callback or context that has gone is used
\*   asserts          what a registration that failed left meets an assertion
\*   static           the default device is listed, whatever there is
\*   one way          a device of one way only is not listed with those of the other
\*   any type         a device is given the type the client asked for
\*   moves            the index of a device may change between its lookups
\*   empty            when the system fails, nothing is listed and the call succeeds
Liberties == CASE backend = "pulse"       -> {"untold default", "tells others", "undefined", "empty"}
               [] backend = "wasapi"      -> {"tells others", "asserts"}
               [] backend = "audiounit"   -> {"untold default", "undefined", "empty"}
               [] backend = "winmm"       -> {"moves"}
               [] backend = "oss"         -> {"moves", "one way"}
               [] backend = "oss_sndstat" -> {"one way"}
               [] backend = "sun"         -> {"any type"}
               [] backend \in {"alsa", "sndio", "jack"} -> {"static"}
               [] OTHER                   -> {}
Takes(liberty) == liberty \in Liberties

Seen(list) == IF Takes("untold default") THEN list.devs ELSE list
Stale(d)   == d \in registered /\ Seen(seen[d]) # Seen(List(d))
\* The thread could not be created, and the client waits for its end.
Hangs      == call.at = "join" /\ thread = "failed"

\* A client that is registered sees every change in the end: it is told after the
\* last one, however its calls and the events before are interleaved.  A side in
\* st.missed is excused: the backend's module says when, and no event is pending.
KeepsUp == \A d \in Dirs :
             Stale(d) ~> ~Stale(d) \/ d \in st.missed \/ Hangs \/ thread = "undefined"

\* Nothing is told of a side that is neither registered nor being so, and no
\* callback is used that was taken away, nor a context that was destroyed.
TellsRegistered ==
    [][/\ \/ due' \ due \subseteq registered' \cup call.dirs
          \/ Takes("tells others") /\ failures > 0
       /\ \/ thread' # "undefined"
          \/ Takes("undefined")
          \/ Takes("asserts") /\ failures > 0]_all

\* A list has the devices that were there all along, and none that never were.
ListsPresent ==
    call.op = "enumerate" /\ call.at = "done" /\ ~Takes("static") =>
      \A d \in call.dirs :
        LET listed == Shown(d).devs
            both   == call.dirs = Dirs
        IN  /\ \/ Now(d) \ call.touched \subseteq listed
               \/ Takes("moves") /\ call.touched # {}
               \/ Takes("one way") /\ both
               \/ Takes("empty") /\ failures > 0
            /\ \/ listed \subseteq Now(d) \cup On(d, call.touched)
               \/ Takes("any type") /\ both

\* Every call returns.
CallsReturn == call.op # "none" ~> call.op = "none" \/ Hangs \/ thread = "undefined"
================================================================================
