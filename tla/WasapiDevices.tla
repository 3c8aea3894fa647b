----------------------------- MODULE WasapiDevices -----------------------------
(* cubeb_wasapi.cpp: the notification client of the context sets an event for     *)
(* each side that changes, and its monitor thread calls the callbacks.  To        *)
(* register or unregister, that client is taken away, which waits for the thread,  *)
(* and another is made for the callbacks there are then.                            *)
EXTENDS DeviceClient

\* client: a notification client is registered.  shutdown: its thread is to end.
Context == [open |-> TRUE, callbacks |-> {}, client |-> FALSE, events |-> {},
            shutdown |-> FALSE, missed |-> {}]

\* notify, from OnDeviceStateChanged and OnDefaultDeviceChanged.
Hears      == st.client /\ thread # "failed"
\* Mutant of notify: an event is set when no other is.
notifyOnce(dirs) ==
    st' = [st EXCEPT !.events = IF Hears /\ @ = {} THEN dirs \cap st.callbacks ELSE @,
                     !.missed = IF Hears THEN @ ELSE @ \cup (dirs \cap registered)]
notify(dirs) ==
    st' = [st EXCEPT !.events = IF Hears THEN @ \cup (dirs \cap st.callbacks) ELSE @,
                     !.missed = IF Hears THEN @ ELSE @ \cup (dirs \cap registered)]

Change == \/ \E x \in Devices :
               /\ PlugOrUnplug(x)
               /\ \/ notify(Sides[x]) /\ UNCHANGED failures
                  \/ /\ failures < MaxFailures /\ failures' = failures + 1    \* GetDataFlow fails
                     /\ st' = [st EXCEPT !.missed = @ \cup (Sides[x] \cap registered)]
          \/ SetDefault /\ notify({"input"}) /\ UNCHANGED failures

\* The lock of the context is held to the end of the call.  Callbacks that are
\* still set after a registration that failed make the next one fail.
wasapi_register_device_collection_changed(dirs) ==
    /\ Works /\ UNCHANGED <<thread, st>>
    /\ \/ /\ MayRegister(dirs) /\ dirs \cap st.callbacks = {}
          /\ Enter("register", dirs, IF st.client THEN "unregister_client" ELSE "set")
       \/ /\ MayRegister(dirs) /\ dirs \cap st.callbacks # {} /\ Refuse
       \/ /\ MayUnregister(dirs) /\ st.client /\ Enter("unregister", dirs, "unregister_client")
       \/ /\ MayUnregister(dirs) /\ ~st.client /\ Accept("unregister", dirs)

unregister_collection_notification_client ==
    /\ call.at = "unregister_client" /\ UNCHANGED thread
    /\ \/ Works /\ Goto("join") /\ st' = [st EXCEPT !.client = FALSE, !.shutdown = TRUE]
       \/ Breaks /\ Refuse /\ UNCHANGED st

\* ~monitor_device_notifications
Join == /\ call.at = "join" /\ thread = "ended" /\ thread' = "none"
        /\ Goto("set") /\ st' = [st EXCEPT !.shutdown = FALSE] /\ Works

SetCallbacks ==
    /\ call.at = "set" /\ Works /\ UNCHANGED thread
    /\ LET set == IF call.op = "register" THEN st.callbacks \cup call.dirs ELSE st.callbacks \ call.dirs
       IN  /\ st' = [st EXCEPT !.callbacks = set]
           /\ IF set = {} THEN Accept(call.op, call.dirs) ELSE Goto("register_client")

\* When the thread cannot be created nobody is told so.
register_collection_notification_client ==
    /\ call.at = "register_client"
    /\ \/ /\ Works /\ thread' = "wait" /\ st' = [st EXCEPT !.client = TRUE]
          /\ Accept(call.op, call.dirs)
       \/ /\ Breaks /\ thread' = "failed" /\ st' = [st EXCEPT !.client = TRUE]
          /\ Accept(call.op, call.dirs)
       \/ Breaks /\ Refuse /\ UNCHANGED <<thread, st>>

\* Mutant of notification_thread_loop: the shutdown is seen with another event only.
LoopEndsOnEvent ==
    /\ thread = "wait" /\ st.events # {} /\ Works /\ UNCHANGED call
    /\ \/ \E d \in st.events : st' = [st EXCEPT !.events = @ \ {d}] /\ Tell(d) /\ UNCHANGED thread
       \/ st.shutdown /\ thread' = "ended" /\ UNCHANGED <<known, st>>

\* The first event that is set counts, and the shutdown is the last of them.
notification_thread_loop ==
    /\ thread = "wait" /\ Works /\ UNCHANGED call
    /\ \/ \E d \in st.events :
            /\ d = "output" => "input" \notin st.events
            /\ st' = [st EXCEPT !.events = @ \ {d}]
            /\ IF d \in st.callbacks THEN Tell(d) /\ UNCHANGED thread
               ELSE thread' = "undefined" /\ UNCHANGED known
       \/ st.events = {} /\ st.shutdown /\ thread' = "ended" /\ UNCHANGED <<known, st>>

wasapi_destroy ==
    /\ MayDestroy /\ Works /\ UNCHANGED <<known, call>>
    /\ IF st.client THEN thread' = "undefined" /\ UNCHANGED st
       ELSE st' = [Context EXCEPT !.open = FALSE] /\ UNCHANGED thread

wasapi_enumerate_devices ==
    /\ Begin(due, "defaults") /\ Works /\ UNCHANGED thread
    /\ st' = [st EXCEPT !.missed = @ \ due]

Defaults == /\ call.at = "defaults" /\ Works /\ UNCHANGED <<known, thread, st>>
            /\ call' = [call EXCEPT !.preferred = default, !.at = "endpoints"]

EnumAudioEndpoints ==
    /\ call.at = "endpoints" /\ UNCHANGED <<thread, st>>
    /\ \/ /\ Works /\ UNCHANGED known
          /\ call' = [call EXCEPT !.at = "create", !.todo = present]
       \/ Breaks /\ Failed

\* Mutant of wasapi_create_device: a device that has gone ends the list.
CreateStops ==
    /\ call.at = "create" /\ Works /\ UNCHANGED <<known, thread, st>>
    /\ IF call.todo = <<>> \/ Head(call.todo) \notin ToSet(present)
       THEN call' = [call EXCEPT !.at = "done"]
       ELSE LET x == Head(call.todo)
            IN  call' = [call EXCEPT !.todo = Tail(@),
                           !.found = @ \cup { Entry(x, {d}, x = call.preferred) : d \in Sides[x] \cap call.dirs }]

\* A device that has gone is left out.
wasapi_create_device ==
    /\ call.at = "create" /\ Works /\ UNCHANGED <<known, thread, st>>
    /\ IF call.todo = <<>> THEN call' = [call EXCEPT !.at = "done"] ELSE
       LET x    == Head(call.todo)
           ends == IF x \in ToSet(present) THEN Sides[x] \cap call.dirs ELSE {}
       IN  call' = [call EXCEPT !.todo = Tail(@), !.found = @ \cup { Entry(x, {d}, x = call.preferred) : d \in ends }]

Calls  == \/ \E dirs \in SUBSET Dirs : wasapi_register_device_collection_changed(dirs)
          \/ wasapi_enumerate_devices \/ wasapi_destroy
Client == \/ unregister_collection_notification_client \/ Join \/ SetCallbacks
          \/ register_collection_notification_client
          \/ Defaults \/ EnumAudioEndpoints \/ wasapi_create_device
Thread == notification_thread_loop
=============================================================================
