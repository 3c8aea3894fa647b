----------------------------- MODULE PulseDevices -----------------------------
(* cubeb_pulse.c: a registration sets the callbacks, without the mainloop's lock, *)
(* and then subscribes to the server's events.  The mainloop calls the callback    *)
(* of an event's side, and the server answers a subscription after the events it    *)
(* sent before.  A context that failed is set up again by the next stream_init.      *)
(* Which device is preferred is left out: the client is told of no change of it.    *)
EXTENDS DeviceClient

Context == [open |-> TRUE, callbacks |-> {}, mask |-> {}, events |-> {}, failed |-> FALSE,
            missed |-> {}]

\* Events of one side are alike.  An event of the server, as when the default
\* changes, does not concern the client.
Missed(dirs) == (dirs \cap registered) \ st.mask
Change == \E x \in Devices :
            /\ PlugOrUnplug(x) /\ UNCHANGED failures
            /\ st' = [st EXCEPT !.events = @ \cup (Sides[x] \cap st.mask),
                                !.missed = @ \cup Missed(Sides[x])]

ContextFails == /\ ~st.failed /\ st.open /\ Breaks /\ UNCHANGED <<known, call, thread>>
                /\ st' = [st EXCEPT !.failed = TRUE, !.mask = {}, !.events = {},
                                    !.missed = @ \cup st.events]

\* The context is new, and not subscribed.
pulse_context_init == /\ Idle /\ st.failed /\ st' = [st EXCEPT !.failed = FALSE]
                      /\ Works /\ UNCHANGED <<known, call, thread>>

pulse_register_device_collection_changed(dirs) ==
    /\ \/ MayRegister(dirs) /\ Enter("register", dirs, "subscribe")
            /\ st' = [st EXCEPT !.callbacks = @ \cup dirs]
       \/ MayUnregister(dirs) /\ Enter("unregister", dirs, "subscribe")
            /\ st' = [st EXCEPT !.callbacks = @ \ dirs]
    /\ Works /\ UNCHANGED thread

\* A context that fails later leaves the call with OK, and nothing subscribed.
pulse_subscribe_notifications ==
    /\ Works /\ UNCHANGED thread
    /\ \/ call.at = "subscribe" /\ st.failed /\ Refuse /\ UNCHANGED st
       \/ call.at = "subscribe" /\ ~st.failed /\ Goto("wait")
            /\ st' = [st EXCEPT !.mask = st.callbacks]
       \/ call.at = "wait" /\ st.events = {} /\ Accept(call.op, call.dirs) /\ UNCHANGED st

\* The callback is not tested.
pulse_subscribe_callback ==
    \E d \in st.events :
      /\ thread # "undefined" /\ Works /\ UNCHANGED call
      /\ st' = [st EXCEPT !.events = @ \ {d}]
      /\ IF d \in st.callbacks THEN Tell(d) /\ UNCHANGED thread
         ELSE thread' = "undefined" /\ UNCHANGED known

\* The sinks and the sources, one after the other.
pulse_enumerate_devices ==
    Begin(due, "sinks") /\ Works /\ UNCHANGED thread /\ st' = [st EXCEPT !.missed = @ \ due]

Entries(d) == IF d \in call.dirs /\ ~st.failed THEN { Entry(x, {d}, FALSE) : x \in Now(d) } ELSE {}

\* When the context has failed nothing is listed, and the call succeeds.
SinksAndSources ==
    /\ call.at \in {"sinks", "sources"} /\ UNCHANGED <<known, thread>> /\ Works
    /\ LET sinks == call.at = "sinks"
       IN  call' = [call EXCEPT !.at    = IF sinks THEN "sources" ELSE "done",
                                !.found = @ \cup Entries(IF sinks THEN "output" ELSE "input")]
    /\ st' = [st EXCEPT !.missed = IF st.failed THEN @ \cup call.dirs ELSE @]

pulse_destroy == /\ MayDestroy /\ st' = [Context EXCEPT !.open = FALSE]
                 /\ Works /\ UNCHANGED <<known, call, thread>>

Calls  == \/ \E dirs \in SUBSET Dirs : pulse_register_device_collection_changed(dirs)
          \/ pulse_enumerate_devices \/ pulse_context_init \/ pulse_destroy
Client == pulse_subscribe_notifications \/ SinksAndSources
Thread == pulse_subscribe_callback
=============================================================================
