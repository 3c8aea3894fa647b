----------------------------- MODULE DeviceClient -----------------------------
(* What the models of the device lists share: the devices of the system, which  *)
(* come and go, and a client that registers for changes of the inputs, the       *)
(* outputs or both, and enumerates those it has registered for or is told of.    *)
EXTENDS Naturals, FiniteSets, Sequences, SequencesExt

CONSTANTS MaxChanges,    \* the devices change at most so often
          MaxFailures    \* calls into the system fail at most so often

ASSUME DeviceClientAssumption == MaxChanges \in Nat /\ MaxFailures \in Nat

VARIABLES present,       \* the devices, in the order of the system
          default,       \* the default input
          changes, failures,
          registered,    \* the sides whose registration was answered with OK
          due,           \* the sides the client has yet to enumerate
          seen,          \* what it saw of each side when it last did
          call,          \* the call it is in
          thread,        \* where the thread is that tells it of changes
          st             \* the context of the backend

system == <<present, default, changes, failures>>
known  == <<registered, due, seen>>
vars   == <<system, known, call, thread, st>>

Dirs    == {"input", "output"}
Sides   == [mic |-> {"input"}, headset |-> Dirs]
Devices == DOMAIN Sides

\* The order of the system.
InOrder(devs) == (IF "mic" \in devs THEN <<"mic">> ELSE <<>>)
                   \o (IF "headset" \in devs THEN <<"headset">> ELSE <<>>)

On(d, devs) == { x \in devs : d \in Sides[x] }
Now(d)      == On(d, ToSet(present))
List(d)     == [devs |-> Now(d), preferred |-> IF d = "input" THEN default ELSE "none"]
Unseen      == [devs |-> {}, preferred |-> "unseen"]

NoCall == [op |-> "none", at |-> "idle", dirs |-> {}, todo |-> <<>>, found |-> {},
           preferred |-> "none", touched |-> {}]

ClientInit == /\ present \in {<<"headset">>, <<"mic", "headset">>}
              /\ default = Last(present)
              /\ changes = 0 /\ failures = 0
              /\ registered = {} /\ due = {} /\ seen = [d \in Dirs |-> Unseen]
              /\ call = NoCall /\ thread = "none"

-----------------------------------------------------------------------------
\* The system: a device comes, at its place in the list, or goes; the default is
\* the last one, until another is chosen.
\* An enumeration in progress may or may not list what comes or goes meanwhile.
Noted(x) == call' = IF call.op = "enumerate" THEN [call EXCEPT !.touched = @ \cup {x}] ELSE call

Changed == changes < MaxChanges /\ changes' = changes + 1 /\ UNCHANGED <<known, thread>>

PlugOrUnplug(x) ==
    /\ Changed
    /\ present' = InOrder(IF x \in ToSet(present) THEN ToSet(present) \ {x} ELSE ToSet(present) \cup {x})
    /\ default' = IF present' = <<>> THEN "none" ELSE Last(present')
    /\ Noted(x)

SetDefault == /\ Changed /\ default' \in Now("input") \ {default}
              /\ UNCHANGED <<present, failures, call>>

Works  == UNCHANGED system
Breaks == failures < MaxFailures /\ failures' = failures + 1 /\ UNCHANGED <<present, default, changes>>

-----------------------------------------------------------------------------
\* The client makes one call at a time, registers what it has not registered yet,
\* unregisters what it has, and destroys its context when nothing is registered.
Idle == call.op = "none" /\ st.open
MayRegister(dirs)   == Idle /\ dirs # {} /\ dirs \cap registered = {}
MayUnregister(dirs) == Idle /\ dirs # {} /\ dirs \subseteq registered
MayDestroy          == Idle /\ registered = {}

In(op, dirs, at)    == [NoCall EXCEPT !.op = op, !.dirs = dirs, !.at = at]
Enter(op, dirs, at) == call' = In(op, dirs, at) /\ UNCHANGED known
Goto(at)            == call' = [call EXCEPT !.at = at] /\ UNCHANGED known

Forget(dirs) == seen' = [d \in Dirs |-> IF d \in dirs THEN Unseen ELSE seen[d]]

\* A call returns OK, and the client enumerates what it has registered; or it
\* returns an error, and the client goes by what it knew before.
Accept(op, dirs) ==
    /\ call' = NoCall
    /\ registered' = IF op = "register" THEN registered \cup dirs ELSE registered \ dirs
    /\ due' = IF op = "register" THEN due \cup dirs ELSE due \ dirs
    /\ Forget(dirs)
Refuse == call' = NoCall /\ UNCHANGED known

Tell(d) == due' = due \cup {d} /\ UNCHANGED <<registered, seen>>

\* What was told before an enumeration begins is answered by it.
Begin(dirs, at) ==
    /\ Idle /\ dirs # {}
    /\ call' = In("enumerate", dirs, at)
    /\ due' = due \ dirs /\ Forget(dirs) /\ UNCHANGED registered

Entry(x, type, preferred) == [dev |-> x, type |-> type, preferred |-> preferred]

Listed(d) == { e \in call.found : d \in e.type }
Shown(d)  == [devs |-> { e.dev : e \in Listed(d) },
              preferred |-> IF \E e \in Listed(d) : e.preferred /\ d = "input"
                            THEN (CHOOSE e \in Listed(d) : e.preferred).dev ELSE "none"]

\* Only what was registered is remembered.
Done == /\ call.op = "enumerate" /\ call.at = "done" /\ call' = NoCall
        /\ seen' = [d \in Dirs |-> IF d \in call.dirs \cap registered THEN Shown(d) ELSE seen[d]]
        /\ UNCHANGED <<system, registered, due, thread, st>>

\* An enumeration that returned an error is tried again.
Failed == call' = NoCall /\ due' = due \cup (call.dirs \cap registered) /\ UNCHANGED <<registered, seen>>
=============================================================================
