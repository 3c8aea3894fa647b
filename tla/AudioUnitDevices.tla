--------------------------- MODULE AudioUnitDevices ---------------------------
(* cubeb_audiounit.cpp: one listener for the list of devices, which dispatches a  *)
(* block to the serial queue.  The block holds the context's mutex, compares the  *)
(* devices of each registered side with those it knew, and tells of a difference.   *)
(* Which device is preferred is left out: the client is told of no change of it.   *)
EXTENDS DeviceClient

Context == [open |-> TRUE, callbacks |-> {}, listening |-> FALSE, blocks |-> 0,
            device_array |-> [d \in Dirs |-> {}], missed |-> {}]

Change == \E x \in Devices :
            /\ PlugOrUnplug(x) /\ UNCHANGED failures
            /\ st' = [st EXCEPT !.blocks = IF st.listening THEN @ + 1 ELSE @,
                                !.missed = @ \cup ((Sides[x] \cap registered) \ st.callbacks)]

Unlocked == thread = "none"

\* audiounit_get_devices_of_type: the empty list when the system fails.
Got(d, devs) == \/ Works  /\ devs = Now(d)
                \/ Breaks /\ devs = {}

audiounit_add_device_listener(dirs) ==
    /\ MayRegister(dirs) /\ Unlocked /\ UNCHANGED thread
    /\ LET known_as(devs) ==
             st' = [st EXCEPT !.listening = TRUE, !.callbacks = @ \cup dirs,
                              !.device_array = [d \in Dirs |-> IF d \in dirs THEN devs[d] ELSE @[d]]]
       IN  \/ Works /\ known_as([d \in Dirs |-> Now(d)]) /\ Accept("register", dirs)
           \/ \E d \in dirs : Breaks /\ known_as([[e \in Dirs |-> Now(e)] EXCEPT ![d] = {}])
                              /\ Accept("register", dirs)
           \/ Breaks /\ st.callbacks = {} /\ Refuse /\ UNCHANGED st

\* Mutant of audiounit_remove_device_listener: the callbacks are kept while the
\* other side listens.
RemoveKeepsCallback(dirs) ==
    /\ MayUnregister(dirs) /\ Unlocked /\ UNCHANGED thread
    /\ Works /\ Accept("unregister", dirs)
    /\ st' = IF registered = dirs THEN [st EXCEPT !.callbacks = {}, !.listening = FALSE] ELSE st

audiounit_remove_device_listener(dirs) ==
    /\ MayUnregister(dirs) /\ Unlocked /\ UNCHANGED thread
    /\ LET left    == st.callbacks \ dirs
           removed == [st EXCEPT !.callbacks = left,
                                 !.device_array = [d \in Dirs |-> IF d \in dirs THEN {} ELSE @[d]]]
       IN  \/ Works /\ Accept("unregister", dirs)
                /\ st' = [removed EXCEPT !.listening = left # {}]
           \/ Breaks /\ left = {} /\ Refuse
                /\ st' = [removed EXCEPT !.missed = @ \cup registered]

\* One side of the block: what is not told here may have been seen by the client.
Compare(d, s) ==
    IF d \notin s.callbacks THEN st' = s /\ UNCHANGED known /\ Works
    ELSE \E devs \in {Now(d), {}} :
           /\ Got(d, devs)
           /\ IF devs = s.device_array[d] THEN UNCHANGED known /\ st' = [s EXCEPT !.missed = @ \cup {d}]
              ELSE Tell(d) /\ st' = [s EXCEPT !.device_array[d] = devs]

audiounit_collection_changed_callback ==
    /\ st.blocks > 0 /\ Unlocked /\ UNCHANGED call
    /\ LET taken == [st EXCEPT !.blocks = @ - 1]
       IN  IF ~st.open THEN thread' = "undefined" /\ Works /\ UNCHANGED <<known, st>>
           ELSE IF st.callbacks = {} THEN st' = taken /\ Works /\ UNCHANGED <<known, thread>>
           ELSE thread' = "output" /\ Compare("input", taken)
Output == /\ thread = "output" /\ thread' = "none" /\ UNCHANGED call
          /\ Compare("output", st)

audiounit_destroy ==
    /\ MayDestroy /\ Unlocked /\ Works /\ UNCHANGED <<known, call, thread>>
    /\ st' = [st EXCEPT !.open = FALSE]

audiounit_enumerate_devices ==
    /\ Begin(due, "outputs") /\ Works /\ UNCHANGED thread
    /\ st' = [st EXCEPT !.missed = @ \ due]

\* The devices of either side are looked up, then described, without those that have gone.
Lookup ==
    /\ call.at \in {"outputs", "inputs"} /\ UNCHANGED <<known, thread>>
    /\ LET d == IF call.at = "outputs" THEN "output" ELSE "input"
       IN  \E devs \in {Now(d), {}} :
             /\ IF d \in call.dirs THEN Got(d, devs) ELSE Works /\ devs = {}
             /\ st' = [st EXCEPT !.missed = IF d \in call.dirs /\ devs # Now(d) THEN @ \cup {d} ELSE @]
             /\ call' = [call EXCEPT !.at = IF d = "output" THEN "inputs" ELSE "create",
                                     !.todo = @ \o SetToSeq(devs \X {d})]

audiounit_create_device_from_hwdev ==
    /\ call.at = "create" /\ Works /\ UNCHANGED <<known, thread, st>>
    /\ IF call.todo = <<>> THEN call' = [call EXCEPT !.at = "done"] ELSE
       LET x == Head(call.todo)[1]
           d == Head(call.todo)[2]
       IN  call' = [call EXCEPT !.todo = Tail(@),
                                !.found = IF x \notin Now(d) THEN @
                                          ELSE @ \cup {Entry(x, {d}, FALSE)}]

Calls  == \/ \E dirs \in SUBSET Dirs : \/ audiounit_add_device_listener(dirs)
                                       \/ audiounit_remove_device_listener(dirs)
          \/ audiounit_enumerate_devices \/ audiounit_destroy
Client == Lookup \/ audiounit_create_device_from_hwdev
Thread == audiounit_collection_changed_callback \/ Output
=============================================================================
