------------------------------ MODULE DeviceLists ------------------------------
(* The backends that list devices and tell of no change.  WinMM and OSS on Linux   *)
(* go by the index of a device, which may have moved when it is looked up; OSS on   *)
(* FreeBSD reads a list first; Sun tries every name there may be.  ALSA, sndio and   *)
(* JACK list the default device, whatever there is.                                  *)
EXTENDS DeviceClient

Context == [open |-> TRUE, missed |-> {}]

Change == UNCHANGED <<failures, st>> /\ \E x \in Devices : PlugOrUnplug(x)

\* An enumeration begins with at, and goes through what is to be looked at.
Enumerates(at) == /\ Idle /\ Works /\ UNCHANGED <<thread, st>>
                  /\ \E dirs \in SUBSET Dirs : Begin(dirs, at)
Looks(at, Todo(_)) == /\ call.at = at /\ Works /\ UNCHANGED <<known, thread, st>>
                      /\ call' = [call EXCEPT !.at = "look", !.todo = Todo(call.dirs)]
Look(Entries(_)) ==
    /\ call.at = "look" /\ call.todo # <<>> /\ UNCHANGED <<known, thread, st>> /\ Works
    /\ call' = [call EXCEPT !.todo = Tail(@), !.found = @ \cup Entries(Head(call.todo))]
Looked == /\ call.at = "look" /\ call.todo = <<>> /\ UNCHANGED <<thread, st>>
          /\ Works /\ Goto("done")

\* An enumeration that cannot begin, or go on, returns an error.
Gives(ats) == call.at \in ats /\ Breaks /\ Failed /\ UNCHANGED <<thread, st>>

\* A device of one way only is left out when it is asked for the other; OSS leaves
\* it out too when it is asked for both.
Skips(x, dirs)   == Sides[x] \cap dirs = {}
SkipsOne(x, dirs) == \E d \in dirs : d \notin Sides[x]

Indices(s, d)  == [i \in DOMAIN s |-> <<d, i>>]
Sided(d)       == InOrder(Now(d))

winmm_todo(dirs) ==
    (IF "output" \in dirs THEN Indices(Sided("output"), "output") ELSE <<>>)
      \o (IF "input" \in dirs THEN Indices(Sided("input"), "input") ELSE <<>>)
winmm_create_device(t) ==
    IF t[2] \in DOMAIN Sided(t[1]) THEN {Entry(Sided(t[1])[t[2]], {t[1]}, FALSE)} ELSE {}
winmm_enumerate_devices == \/ Enumerates("count") \/ Looks("count", winmm_todo)
                           \/ Look(winmm_create_device) \/ Looked

\* The strings of what was listed are lost when a later index fails.
oss_todo(dirs)    == Indices(present, "any")
oss_entries(t)    == LET x == present[t[2]]
                     IN  IF SkipsOne(x, call.dirs) THEN {} ELSE {Entry(x, call.dirs, FALSE)}
Gone              == call.at = "look" /\ call.todo # <<>> /\ Head(call.todo)[2] > Len(present)
oss_enumerate_devices ==
    \/ Enumerates("mixer") \/ Looks("mixer", oss_todo) \/ Gives({"mixer"})
    \/ ~Gone /\ Look(oss_entries)
    \/ Gone /\ Works /\ Failed /\ UNCHANGED <<thread, st>>
    \/ Looked

sndstat_todo(dirs) == present
oss_probe_open(x)  == IF SkipsOne(x, call.dirs) \/ x \notin ToSet(present) THEN {}
                      ELSE {Entry(x, call.dirs, FALSE)}
oss_enumerate_sndstat == \/ Enumerates("sndstat") \/ Looks("sndstat", sndstat_todo)
                         \/ Gives({"sndstat", "look"}) \/ Look(oss_probe_open) \/ Looked

\* A device is given the type that was asked for.
sun_todo(dirs)     == SetToSeq(Devices)
sun_get_hwinfo(x)  == IF Skips(x, call.dirs) \/ x \notin ToSet(present) THEN {}
                      ELSE {Entry(x, call.dirs, FALSE)}
sun_enumerate_devices == \/ Enumerates("calloc") \/ Looks("calloc", sun_todo) \/ Gives({"calloc"})
                         \/ Look(sun_get_hwinfo) \/ Looked

DefaultOf(types) == { [dev |-> "default", type |-> t, preferred |-> TRUE] : t \in types }
Lists(types)     == /\ call.at = "default" /\ Works /\ UNCHANGED <<known, thread, st>>
                    /\ call' = [call EXCEPT !.at = "done", !.found = DefaultOf(types)]

\* The probes of ALSA, for its rate and its channels, fail when there is no device.
alsa_enumerate_devices   == Enumerates("default") \/ Gives({"default"}) \/ Lists({call.dirs})
sndio_enumerate_devices  == Enumerates("default") \/ Gives({"default"}) \/ Lists({call.dirs})
cbjack_enumerate_devices == Enumerates("default") \/ Lists({ {d} : d \in call.dirs })
=============================================================================
