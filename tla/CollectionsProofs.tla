--------------------------- MODULE CollectionsProofs ---------------------------
(* What a client is told and shown of the devices, whatever the backend, and        *)
(* however often the devices change and the system fails.                           *)
(*                                                                                  *)
(* The argument.  An enumeration that is under way has, of each side it has looked  *)
(* at, all that was there all along, but for what it still has to look up; and it   *)
(* has nothing that never was.  A device that comes or goes meanwhile is noted, so   *)
(* that it weakens both sides at once.  What is told of is what the callbacks are    *)
(* set for, and unless a call has failed these are the sides that are registered,    *)
(* or are being so.                                                                 *)
(*                                                                                  *)
(* And no change is forgotten: of a side that is registered the client saw what is   *)
(* there, or it is owed an answer.  What is owed moves from the system's event to    *)
(* what is due and on to an enumeration, and none of these steps loses it: a change  *)
(* that overtakes an enumeration has its own event, and what has none is missed.     *)
EXTENDS Collections, FiniteSetTheorems, SequenceTheorems, TLAPS

Enumerating == call.op = "enumerate"

\* The devices a list has for one side, and those that are still to be looked up.
Devs(found, d) == { e.dev : e \in { f \in found : d \in f.type } }

\* What was there all along is listed, or among the rest; what is listed was there.
Covered(d, rest) == Now(d) \ call.touched \subseteq Devs(call.found, d) \cup rest
Sound(d)         == Devs(call.found, d) \subseteq Now(d) \cup On(d, call.touched)

Orders == { InOrder(devs) : devs \in SUBSET Devices }

SystemTypes == present \in Orders /\ failures \in Nat
KnownTypes  == registered \subseteq Dirs /\ due \subseteq Dirs

\* The shape of a call.  Its todo and its found depend on the backend.
CallType ==
  /\ call = [op |-> call.op, at |-> call.at, dirs |-> call.dirs, todo |-> call.todo,
             found |-> call.found, preferred |-> call.preferred, touched |-> call.touched]
  /\ call.op \in {"none", "register", "unregister", "enumerate"}
  /\ call.dirs \subseteq Dirs /\ call.touched \subseteq Devices

Types == SystemTypes /\ KnownTypes /\ CallType

-----------------------------------------------------------------------------
\* PulseAudio.  A context that works calls back what is registered, or being so.
PulseTells ==
  /\ st = [open |-> st.open, callbacks |-> st.callbacks, mask |-> st.mask, events |-> st.events,
           failed |-> st.failed, missed |-> st.missed]
  /\ st.callbacks \subseteq Dirs /\ st.failed \in BOOLEAN
  /\ st.failed => failures > 0
  /\ \/ st.callbacks \subseteq registered \cup (IF call.op = "register" THEN call.dirs ELSE {})
     \/ failures > 0
  /\ call.at \in {"subscribe", "wait"} => call.op \in {"register", "unregister"}
  /\ call.op = "unregister" => st.callbacks \cap call.dirs = {}

\* The sinks are looked at first, then the sources.
PulseLooked(d) == d \in call.dirs => (Covered(d, {}) \/ failures > 0) /\ Sound(d)
PulseLists ==
  Enumerating =>
    /\ call.at \in {"sinks", "sources", "done"}
    /\ call.at = "sinks"   => call.found = {}
    /\ call.at = "sources" => PulseLooked("output") /\ Devs(call.found, "input") = {}
    /\ call.at = "done"    => PulseLooked("output") /\ PulseLooked("input")

-----------------------------------------------------------------------------
\* WASAPI.  While no call has failed, a notification client is there when a callback
\* is, with a thread that waits; it is taken away, and its thread has ended, before
\* the callbacks are changed.
WasapiTells ==
  /\ st = [open |-> st.open, callbacks |-> st.callbacks, client |-> st.client, events |-> st.events,
           shutdown |-> st.shutdown, missed |-> st.missed]
  /\ st.callbacks \subseteq Dirs /\ st.client \in BOOLEAN /\ st.shutdown \in BOOLEAN
  /\ st.events \subseteq Dirs
  /\ call.op \in {"register", "unregister"} =>
       call.at \in {"unregister_client", "join", "set", "register_client"}
  /\ Enumerating => call.at \in {"defaults", "endpoints", "create", "done"}
  /\ call.op = "none" => call.at = "idle"

WasapiRegistration ==
  /\ thread \in {"none", "wait", "ended"}
  /\ st.client => thread = "wait" /\ st.callbacks # {}
  /\ st.shutdown <=> call.at = "join"
  /\ thread = "ended" => call.at = "join"
  /\ thread # "wait" => st.events = {}
  /\ st.events \subseteq st.callbacks
  /\ call.op \in {"register", "unregister"} => call.dirs # {}
  /\ call.op = "register" => call.dirs \cap registered = {}
  /\ call.op = "unregister" => call.dirs \subseteq registered
  /\ call.op \in {"none", "enumerate"} => (st.client <=> st.callbacks # {}) /\ (st.client <=> thread = "wait")
  /\ call.at = "unregister_client" => st.client
  /\ call.at \in {"join", "set", "register_client"} => ~st.client
  /\ call.at \in {"set", "register_client"} => thread = "none"
  /\ call.at = "register_client" =>
       /\ st.callbacks # {}
       /\ st.callbacks = IF call.op = "register" THEN registered \cup call.dirs ELSE registered \ call.dirs
  /\ call.at # "register_client" => st.callbacks = registered
WasapiRegisters == failures = 0 => WasapiRegistration

WasapiLists ==
  Enumerating =>
    /\ call.at \in {"defaults", "endpoints"} => call.found = {}
    /\ call.at \in {"create", "done"} =>
         /\ call.todo \in Seq(Devices)
         /\ \A d \in call.dirs :
              /\ Covered(d, IF call.at = "create" THEN On(d, ToSet(call.todo)) ELSE {})
              /\ Sound(d)

-----------------------------------------------------------------------------
\* AudioUnit.  The callbacks are never more than what is registered.
AudioUnitTells ==
  /\ st = [open |-> st.open, callbacks |-> st.callbacks, listening |-> st.listening,
           blocks |-> st.blocks, device_array |-> st.device_array, missed |-> st.missed]
  /\ st.callbacks \subseteq registered

\* What is still to be described, of one side.
Paired(d) == { x \in Devices : <<x, d>> \in ToSet(call.todo) }
AudioUnitLooked(d, rest) == d \in call.dirs => (Covered(d, rest) \/ failures > 0)
AudioUnitLists ==
  Enumerating =>
    /\ call.at \in {"outputs", "inputs", "create", "done"}
    /\ call.todo \in Seq(Devices \X Dirs)
    /\ call.at = "outputs" => call.todo = <<>>
    /\ call.at \in {"outputs", "inputs"} => call.found = {}
    /\ call.at \in {"inputs", "create"} => AudioUnitLooked("output", Paired("output"))
    /\ call.at = "create" => AudioUnitLooked("input", Paired("input"))
    /\ call.at = "done" => \A d \in Dirs : AudioUnitLooked(d, {})
    /\ \A d \in Dirs : Sound(d)

-----------------------------------------------------------------------------
\* The backends that tell of no change.
ListTells == st = Lists!Context /\ thread = "none" /\ call.op \in {"none", "enumerate"}

\* What the indices that are left point to.
Pointed(d) ==
  { x \in Devices : \E t \in ToSet(call.todo) :
      t[1] = d /\ t[2] \in DOMAIN Lists!Sided(d) /\ x = Lists!Sided(d)[t[2]] }
WinmmLists ==
  Enumerating =>
    /\ call.at \in {"count", "look", "done"}
    /\ call.at = "count" => call.found = {}
    /\ call.at = "look" => call.todo \in Seq(Dirs \X (Nat \ {0}))
    /\ \A d \in call.dirs :
         /\ call.touched = {} /\ call.at = "look" => Covered(d, Pointed(d))
         /\ call.touched = {} /\ call.at = "done" => Covered(d, {})
         /\ Sound(d)

OssPointed == { x \in Devices : \E t \in ToSet(call.todo) : t[2] \in DOMAIN present /\ x = present[t[2]] }
OssLists ==
  Enumerating =>
    /\ call.at \in {"mixer", "look", "done"}
    /\ call.at = "mixer" => call.found = {}
    /\ call.at = "look" => call.todo \in Seq({"any"} \X (Nat \ {0}))
    /\ \A d \in call.dirs :
         /\ call.touched = {} /\ call.dirs # Dirs /\ call.at = "look" => Covered(d, On(d, OssPointed))
         /\ call.touched = {} /\ call.dirs # Dirs /\ call.at = "done" => Covered(d, {})
         /\ Sound(d)

SndstatLists ==
  Enumerating =>
    /\ call.at \in {"sndstat", "look", "done"}
    /\ call.at = "sndstat" => call.found = {}
    /\ call.at = "look" => call.todo \in Seq(Devices)
    /\ \A d \in call.dirs :
         /\ call.dirs # Dirs /\ call.at = "look" => Covered(d, On(d, ToSet(call.todo)))
         /\ call.dirs # Dirs /\ call.at = "done" => Covered(d, {})
         /\ Sound(d)

SunLists ==
  Enumerating =>
    /\ call.at \in {"calloc", "look", "done"}
    /\ call.at = "calloc" => call.found = {}
    /\ call.at = "look" => call.todo \in Seq(Devices)
    /\ \A d \in call.dirs :
         /\ call.at = "look" => Covered(d, On(d, ToSet(call.todo)))
         /\ call.at = "done" => Covered(d, {})
         /\ call.dirs # Dirs => Sound(d)

-----------------------------------------------------------------------------
IInv ==
  /\ Types
  /\ CASE backend = "pulse"     -> PulseTells /\ PulseLists
       [] backend = "wasapi"    -> WasapiTells /\ WasapiRegisters /\ WasapiLists
       [] backend = "audiounit" -> AudioUnitTells /\ AudioUnitLists
       [] OTHER                 ->
            /\ ListTells
            /\ backend = "winmm"       => WinmmLists
            /\ backend = "oss"         => OssLists
            /\ backend = "oss_sndstat" => SndstatLists
            /\ backend = "sun"         => SunLists
            /\ backend \notin {"winmm", "oss", "oss_sndstat", "sun", "alsa", "sndio", "jack"} => call = NoCall

-----------------------------------------------------------------------------
\* What the operators do that the steps use.

\* A side is one of two, and a device too.
LEMMA Names ==
  /\ Dirs = {"input", "output"} /\ Devices = {"mic", "headset"}
  /\ Sides["mic"] = {"input"} /\ Sides["headset"] = Dirs
BY DEF Dirs, Devices, Sides

\* What a list has for one side, entry by entry.
LEMMA DevsFacts ==
  ASSUME NEW d
  PROVE  /\ Devs({}, d) = {}
         /\ \A A, B : Devs(A \cup B, d) = Devs(A, d) \cup Devs(B, d)
         /\ \A x, type, p : Devs({Entry(x, type, p)}, d) = IF d \in type THEN {x} ELSE {}
<1>1. Devs({}, d) = {}
  BY DEF Devs
<1>2. \A A, B : Devs(A \cup B, d) = Devs(A, d) \cup Devs(B, d)
  BY DEF Devs
<1>3. \A x, type, p : Devs({Entry(x, type, p)}, d) = IF d \in type THEN {x} ELSE {}
  <2> SUFFICES ASSUME NEW x, NEW type, NEW p
               PROVE  Devs({Entry(x, type, p)}, d) = IF d \in type THEN {x} ELSE {}
    OBVIOUS
  <2> DEFINE e == Entry(x, type, p)
  <2>1. e.dev = x /\ e.type = type
    BY DEF Entry
  <2> HIDE DEF e
  <2>2. CASE d \in type
    <3>1. { f \in {e} : d \in f.type } = {e}
      BY <2>1, <2>2
    <3>2. Devs({e}, d) = {x}
      BY <3>1, <2>1 DEF Devs
    <3> QED BY <3>2, <2>2 DEF e
  <2>3. CASE d \notin type
    <3>1. { f \in {e} : d \in f.type } = {}
      BY <2>1, <2>3
    <3>2. Devs({e}, d) = {}
      BY <3>1 DEF Devs
    <3> QED BY <3>2, <2>3 DEF e
  <2> QED BY <2>2, <2>3
<1> QED BY <1>1, <1>2, <1>3

\* A list that is gone through holds its head and its tail.
LEMMA TodoFacts ==
  ASSUME NEW S, NEW s \in Seq(S)
  PROVE  /\ ToSet(s) \subseteq S
         /\ s # <<>> => Head(s) \in S /\ Tail(s) \in Seq(S)
                        /\ ToSet(s) = {Head(s)} \cup ToSet(Tail(s))
         /\ s = <<>> => ToSet(s) = {}
<1>1. ToSet(s) \subseteq S
  BY DEF ToSet
<1>2. ASSUME s # <<>>
      PROVE  Head(s) \in S /\ Tail(s) \in Seq(S) /\ ToSet(s) = {Head(s)} \cup ToSet(Tail(s))
  <2>1. /\ Head(s) \in S /\ Tail(s) \in Seq(S) /\ Head(s) = s[1] /\ Len(s) \in Nat /\ Len(s) >= 1
        /\ Len(Tail(s)) = Len(s) - 1 /\ DOMAIN s = 1..Len(s) /\ DOMAIN Tail(s) = 1..(Len(s) - 1)
        /\ \A i \in 1..(Len(s) - 1) : Tail(s)[i] = s[i + 1]
    BY <1>2
  <2>2. \A x \in ToSet(s) : x \in {Head(s)} \cup ToSet(Tail(s))
    <3> SUFFICES ASSUME NEW i \in 1..Len(s) PROVE s[i] \in {Head(s)} \cup ToSet(Tail(s))
      BY <2>1 DEF ToSet
    <3>1. CASE i = 1
      BY <3>1, <2>1
    <3>2. CASE i # 1
      <4>1. i - 1 \in 1..(Len(s) - 1) /\ (i - 1) + 1 = i
        BY <3>2, <2>1
      <4>2. Tail(s)[i - 1] = s[i]
        BY <4>1, <2>1
      <4> QED BY <4>1, <4>2, <2>1 DEF ToSet
    <3> QED BY <3>1, <3>2
  <2>3. \A x \in ToSet(Tail(s)) : x \in ToSet(s)
    <3> SUFFICES ASSUME NEW i \in 1..(Len(s) - 1) PROVE Tail(s)[i] \in ToSet(s)
      BY <2>1 DEF ToSet
    <3>1. i + 1 \in DOMAIN s /\ Tail(s)[i] = s[i + 1]
      BY <2>1
    <3> QED BY <3>1 DEF ToSet
  <2>4. Head(s) \in ToSet(s)
    BY <2>1 DEF ToSet
  <2> QED BY <2>1, <2>2, <2>3, <2>4
<1>3. s = <<>> => ToSet(s) = {}
  BY DEF ToSet
<1> QED BY <1>1, <1>2, <1>3

\* Two lists, one after the other.
LEMMA JoinFacts ==
  ASSUME NEW S, NEW s \in Seq(S), NEW t \in Seq(S)
  PROVE  s \o t \in Seq(S) /\ ToSet(s \o t) = ToSet(s) \cup ToSet(t)
<1>1. /\ s \o t \in Seq(S) /\ Len(s) \in Nat /\ Len(t) \in Nat
      /\ DOMAIN (s \o t) = 1..(Len(s) + Len(t)) /\ DOMAIN s = 1..Len(s) /\ DOMAIN t = 1..Len(t)
      /\ \A i \in 1..(Len(s) + Len(t)) : (s \o t)[i] = IF i <= Len(s) THEN s[i] ELSE t[i - Len(s)]
  OBVIOUS
<1>2. \A x \in ToSet(s \o t) : x \in ToSet(s) \cup ToSet(t)
  <2> SUFFICES ASSUME NEW i \in 1..(Len(s) + Len(t)) PROVE (s \o t)[i] \in ToSet(s) \cup ToSet(t)
    BY <1>1 DEF ToSet
  <2>1. CASE i <= Len(s)
    BY <2>1, <1>1 DEF ToSet
  <2>2. CASE ~(i <= Len(s))
    <3>1. i - Len(s) \in DOMAIN t /\ (s \o t)[i] = t[i - Len(s)]
      BY <2>2, <1>1
    <3> QED BY <3>1 DEF ToSet
  <2> QED BY <2>1, <2>2
<1>3. \A x \in ToSet(s) : x \in ToSet(s \o t)
  <2> SUFFICES ASSUME NEW i \in 1..Len(s) PROVE s[i] \in ToSet(s \o t)
    BY <1>1 DEF ToSet
  <2>1. i \in DOMAIN (s \o t) /\ (s \o t)[i] = s[i]
    BY <1>1
  <2> QED BY <2>1 DEF ToSet
<1>4. \A x \in ToSet(t) : x \in ToSet(s \o t)
  <2> SUFFICES ASSUME NEW i \in 1..Len(t) PROVE t[i] \in ToSet(s \o t)
    BY <1>1 DEF ToSet
  <2>1. i + Len(s) \in DOMAIN (s \o t) /\ ~(i + Len(s) <= Len(s)) /\ (i + Len(s)) - Len(s) = i
    BY <1>1
  <2>2. (s \o t)[i + Len(s)] = t[i]
    BY <2>1, <1>1
  <2> QED BY <2>1, <2>2 DEF ToSet
<1> QED BY <1>1, <1>2, <1>3, <1>4

\* The order of the system has the devices there are.
LEMMA OrderFacts ==
  ASSUME NEW devs, devs \subseteq Devices
  PROVE  InOrder(devs) \in Seq(Devices) /\ ToSet(InOrder(devs)) = devs
<1> DEFINE s == IF "mic" \in devs THEN <<"mic">> ELSE <<>>
           t == IF "headset" \in devs THEN <<"headset">> ELSE <<>>
<1>1. s \in Seq(Devices) /\ ToSet(s) = devs \cap {"mic"}
  <2>1. CASE "mic" \in devs
    <3>1. <<"mic">> \in Seq(Devices) /\ ToSet(<<"mic">>) = {"mic"}
      BY Names DEF ToSet
    <3> QED BY <3>1, <2>1
  <2>2. CASE "mic" \notin devs
    BY <2>2 DEF ToSet
  <2> QED BY <2>1, <2>2
<1>2. t \in Seq(Devices) /\ ToSet(t) = devs \cap {"headset"}
  <2>1. CASE "headset" \in devs
    <3>1. <<"headset">> \in Seq(Devices) /\ ToSet(<<"headset">>) = {"headset"}
      BY Names DEF ToSet
    <3> QED BY <3>1, <2>1
  <2>2. CASE "headset" \notin devs
    BY <2>2 DEF ToSet
  <2> QED BY <2>1, <2>2
<1> HIDE DEF s, t
<1>3. s \o t \in Seq(Devices) /\ ToSet(s \o t) = ToSet(s) \cup ToSet(t)
  BY <1>1, <1>2, JoinFacts
<1>4. ToSet(s \o t) = devs
  BY <1>1, <1>2, <1>3, Names
<1> QED BY <1>3, <1>4 DEF InOrder, s, t

\* The list of the system has devices only.
LEMMA PresentFacts ==
  ASSUME present \in Orders
  PROVE  present \in Seq(Devices) /\ ToSet(present) \subseteq Devices
BY OrderFacts DEF Orders

\* A finite set, one after the other: as many places as members, none of them twice.
LEMMA SetToSeqFacts ==
  ASSUME NEW S, IsFiniteSet(S)
  PROVE  SetToSeq(S) \in Seq(S) /\ ToSet(SetToSeq(S)) = S
<1> DEFINE n == Cardinality(S)
           F == [1..n -> S]
<1>1. n \in Nat /\ \E f \in F : (\A a, b \in 1..n : f[a] = f[b] => a = b)
  BY FS_CardinalityType DEF ExistsBijection, Bijection, Injection, IsInjective
<1>2. \E f \in F : IsInjective(f)
  BY <1>1 DEF IsInjective
<1> DEFINE s == SetToSeq(S)
<1>3. s \in F /\ IsInjective(s)
  BY <1>2 DEF SetToSeq
<1> HIDE DEF s
<1>4. s \in Injection(1..n, S)
  BY <1>3 DEF Injection, IsInjective
<1>5. IsFiniteSet(1..n) /\ Cardinality(1..n) = n
  BY <1>1, FS_Interval
<1>6. s \in Surjection(1..n, S)
  BY <1>4, <1>5, FS_Injection
<1>7. ToSet(s) = S
  BY <1>3, <1>6 DEF ToSet, Surjection
<1>8. s \in Seq(S)
  BY <1>1, <1>3
<1> QED BY <1>7, <1>8 DEF s

-----------------------------------------------------------------------------
\* What the system and the client do, whatever the backend.

\* The system does not change its devices when a call into it works or fails.
LEMMA SystemSteps ==
  ASSUME SystemTypes
  PROVE  /\ Works => present' = present /\ failures' = failures /\ default' = default /\ SystemTypes'
         /\ Breaks => present' = present /\ failures' > 0 /\ default' = default /\ SystemTypes'
BY DEF SystemTypes, Works, system, Breaks

\* A device that comes or goes is noted by the enumeration in progress: there is no
\* more to be covered than before, and no less that may be listed.
LEMMA Plugged ==
  ASSUME Types, NEW x \in Devices, PlugOrUnplug(x)
  PROVE  /\ present' \in Orders /\ registered' = registered /\ due' = due /\ thread' = thread
         /\ call' = [op |-> call.op, at |-> call.at, dirs |-> call.dirs, todo |-> call.todo,
                     found |-> call.found, preferred |-> call.preferred, touched |-> call'.touched]
         /\ Enumerating => call'.touched = call.touched \cup {x}
         /\ ~Enumerating => call' = call
         /\ CallType'
         /\ Enumerating => \A d :
              /\ Now(d)' \ call'.touched \subseteq Now(d) \ call.touched
              /\ Now(d) \cup On(d, call.touched) \subseteq Now(d)' \cup On(d, call'.touched)
<1> DEFINE devs == IF x \in ToSet(present) THEN ToSet(present) \ {x} ELSE ToSet(present) \cup {x}
<1>1. ToSet(present) \subseteq Devices
  BY PresentFacts DEF Types, SystemTypes
<1>2. devs \subseteq Devices
  BY <1>1
<1>3. present' = InOrder(devs)
  BY DEF PlugOrUnplug
<1>4. present' \in Orders
  BY <1>2, <1>3 DEF Orders
<1>5. ToSet(present') = devs
  BY <1>2, <1>3, OrderFacts
<1>6. registered' = registered /\ due' = due /\ thread' = thread
  BY DEF PlugOrUnplug, Changed, known
<1>7. CASE Enumerating
  <2>1. call' = [call EXCEPT !.touched = @ \cup {x}]
    BY <1>7 DEF PlugOrUnplug, Noted, Enumerating
  <2>2. /\ call' = [op |-> call.op, at |-> call.at, dirs |-> call.dirs, todo |-> call.todo,
                     found |-> call.found, preferred |-> call.preferred, touched |-> call.touched \cup {x}]
    BY <2>1 DEF Types, CallType
  <2>3. call'.touched = call.touched \cup {x} /\ CallType'
    BY <2>2 DEF Types, CallType
  <2>4. ASSUME NEW d
        PROVE  /\ Now(d)' \ call'.touched \subseteq Now(d) \ call.touched
               /\ Now(d) \cup On(d, call.touched) \subseteq Now(d)' \cup On(d, call'.touched)
    BY <1>5, <2>3 DEF Now, On
  <2> QED BY <1>4, <1>6, <1>7, <2>2, <2>3, <2>4
<1>8. CASE ~Enumerating
  <2>1. call' = call
    BY <1>8 DEF PlugOrUnplug, Noted, Enumerating
  <2> QED BY <1>4, <1>6, <1>8, <2>1 DEF Types, CallType
<1> QED BY <1>7, <1>8

\* What the client's part of a call does to what it knows.  Of all this only a
\* registration tells it of a side, and an enumeration that failed asks again.
LEMMA ClientSteps ==
  ASSUME Types
  PROVE  /\ \A op, dirs : Accept(op, dirs) /\ dirs \subseteq Dirs =>
              call' = NoCall /\ CallType' /\ KnownTypes' /\ due' \ due \subseteq registered'
         /\ Refuse => call' = NoCall /\ CallType' /\ KnownTypes' /\ due' = due /\ registered' = registered
         /\ Failed => call' = NoCall /\ CallType' /\ KnownTypes' /\ due' \ due \subseteq registered
                      /\ registered' = registered
         /\ \A dirs, at : Begin(dirs, at) /\ dirs \subseteq Dirs =>
              /\ call' = [op |-> "enumerate", at |-> at, dirs |-> dirs, todo |-> <<>>, found |-> {},
                          preferred |-> "none", touched |-> {}]
              /\ CallType' /\ KnownTypes' /\ due' \subseteq due /\ registered' = registered
         /\ \A op \in {"register", "unregister"} : \A at, dirs : Enter(op, dirs, at) /\ dirs \subseteq Dirs =>
              /\ call' = [op |-> op, at |-> at, dirs |-> dirs, todo |-> <<>>, found |-> {},
                          preferred |-> "none", touched |-> {}]
              /\ CallType' /\ KnownTypes' /\ due' = due /\ registered' = registered
         /\ \A at : Goto(at) =>
              /\ call' = [op |-> call.op, at |-> at, dirs |-> call.dirs, todo |-> call.todo,
                     found |-> call.found, preferred |-> call.preferred, touched |-> call.touched]
              /\ CallType' /\ KnownTypes' /\ due' = due /\ registered' = registered
         /\ UNCHANGED known => KnownTypes' /\ due' = due /\ registered' = registered
         /\ UNCHANGED call => CallType'
<1>1. call' = NoCall => CallType'
  BY DEF CallType, NoCall
<1>2. \A op, dirs : Accept(op, dirs) /\ dirs \subseteq Dirs =>
        call' = NoCall /\ KnownTypes' /\ due' \ due \subseteq registered'
  BY DEF Accept, Types, KnownTypes
<1>3. Refuse => call' = NoCall /\ KnownTypes' /\ due' = due /\ registered' = registered
  BY DEF Refuse, Types, KnownTypes, known
<1>4. Failed => /\ call' = NoCall /\ KnownTypes' /\ due' \ due \subseteq registered /\ registered' = registered
  BY DEF Failed, Types, KnownTypes
<1>5. ASSUME NEW dirs, NEW at, Begin(dirs, at), dirs \subseteq Dirs
      PROVE  /\ call' = [op |-> "enumerate", at |-> at, dirs |-> dirs, todo |-> <<>>, found |-> {},
                          preferred |-> "none", touched |-> {}]
             /\ CallType' /\ KnownTypes' /\ due' \subseteq due /\ registered' = registered
  <2>1. call' = [op |-> "enumerate", at |-> at, dirs |-> dirs, todo |-> <<>>, found |-> {},
                          preferred |-> "none", touched |-> {}]
    BY <1>5 DEF Begin, In, NoCall
  <2>2. CallType'
    BY <2>1, <1>5 DEF CallType
  <2>3. KnownTypes' /\ due' \subseteq due /\ registered' = registered
    BY <1>5 DEF Begin, Types, KnownTypes
  <2> QED BY <2>1, <2>2, <2>3
<1>6. ASSUME NEW op \in {"register", "unregister"}, NEW at, NEW dirs, Enter(op, dirs, at), dirs \subseteq Dirs
      PROVE  /\ call' = [op |-> op, at |-> at, dirs |-> dirs, todo |-> <<>>, found |-> {},
                          preferred |-> "none", touched |-> {}]
             /\ CallType' /\ KnownTypes' /\ due' = due /\ registered' = registered
  <2>1. call' = [op |-> op, at |-> at, dirs |-> dirs, todo |-> <<>>, found |-> {},
                          preferred |-> "none", touched |-> {}]
    BY <1>6 DEF Enter, In, NoCall
  <2>2. CallType'
    BY <2>1, <1>6 DEF CallType
  <2>3. KnownTypes' /\ due' = due /\ registered' = registered
    BY <1>6 DEF Enter, Types, KnownTypes, known
  <2> QED BY <2>1, <2>2, <2>3
<1>7. ASSUME NEW at, Goto(at)
      PROVE  /\ call' = [op |-> call.op, at |-> at, dirs |-> call.dirs, todo |-> call.todo,
                     found |-> call.found, preferred |-> call.preferred, touched |-> call.touched]
             /\ CallType' /\ KnownTypes' /\ due' = due /\ registered' = registered
  <2>1. call' = [op |-> call.op, at |-> at, dirs |-> call.dirs, todo |-> call.todo,
                     found |-> call.found, preferred |-> call.preferred, touched |-> call.touched]
    BY <1>7 DEF Goto, Types, CallType
  <2>2. CallType'
    BY <2>1 DEF Types, CallType
  <2>3. KnownTypes' /\ due' = due /\ registered' = registered
    BY <1>7 DEF Goto, Types, KnownTypes, known
  <2> QED BY <2>1, <2>2, <2>3
<1>8. UNCHANGED known => KnownTypes' /\ due' = due /\ registered' = registered
  BY DEF Types, KnownTypes, known
<1>9. UNCHANGED call => CallType'
  BY DEF Types, CallType
<1> QED BY <1>1, <1>2, <1>3, <1>4, <1>5, <1>6, <1>7, <1>8, <1>9

\* A list is handed over.
LEMMA DoneStep ==
  ASSUME Types, Done
  PROVE  /\ Types' /\ call' = NoCall /\ present' = present /\ failures' = failures
         /\ registered' = registered /\ due' = due /\ thread' = thread /\ st' = st
<1>1. /\ call' = NoCall /\ present' = present /\ failures' = failures
      /\ registered' = registered /\ due' = due /\ thread' = thread /\ st' = st
  BY DEF Done, system
<1>2. CallType'
  BY <1>1 DEF CallType, NoCall
<1>3. SystemTypes' /\ KnownTypes'
  BY <1>1 DEF Types, SystemTypes, KnownTypes
<1> QED BY <1>1, <1>2, <1>3 DEF Types

\* Whoever is told of a side has registered, or is doing so.
Told == due' \ due \subseteq registered' \cup call.dirs \/ failures > 0

-----------------------------------------------------------------------------
\* PulseAudio.

\* PulseDevices has the client and the system of DeviceClient, as it stands here.
LEMMA PulseSame ==
  /\ Pulse!Dirs = Dirs /\ Pulse!Devices = Devices /\ Pulse!Sides = Sides
  /\ \A s : Pulse!ToSet(s) = ToSet(s)
  /\ \A d, devs : Pulse!On(d, devs) = On(d, devs)
  /\ \A d : Pulse!Now(d) = Now(d)
  /\ \A x, type, p : Pulse!Entry(x, type, p) = Entry(x, type, p)
  /\ \A devs : Pulse!InOrder(devs) = InOrder(devs)
  /\ (Pulse!Works <=> Works) /\ (Pulse!Breaks <=> Breaks)
  /\ \A x : Pulse!PlugOrUnplug(x) <=> PlugOrUnplug(x)
  /\ (UNCHANGED Pulse!known) <=> (UNCHANGED known)
  /\ Pulse!Idle <=> Idle
  /\ \A dirs : Pulse!MayRegister(dirs) <=> MayRegister(dirs)
  /\ \A dirs : Pulse!MayUnregister(dirs) <=> MayUnregister(dirs)
  /\ Pulse!MayDestroy <=> MayDestroy
  /\ \A op, dirs, at : Pulse!Enter(op, dirs, at) <=> Enter(op, dirs, at)
  /\ \A at : Pulse!Goto(at) <=> Goto(at)
  /\ \A op, dirs : Pulse!Accept(op, dirs) <=> Accept(op, dirs)
  /\ Pulse!Refuse <=> Refuse
  /\ Pulse!Failed <=> Failed
  /\ \A d : Pulse!Tell(d) <=> Tell(d)
  /\ \A dirs, at : Pulse!Begin(dirs, at) <=> Begin(dirs, at)
<1>1. Pulse!Dirs = Dirs /\ Pulse!Devices = Devices /\ Pulse!Sides = Sides
  BY DEF Dirs, Devices, Sides, Pulse!Dirs, Pulse!Devices, Pulse!Sides
<1>2. \A s : Pulse!ToSet(s) = ToSet(s)
  BY DEF ToSet, Pulse!ToSet
<1>3. \A d, devs : Pulse!On(d, devs) = On(d, devs)
  BY <1>1 DEF On, Pulse!On
<1>4. \A d : Pulse!Now(d) = Now(d)
  BY <1>2, <1>3 DEF Now, Pulse!Now
<1>5. \A x, type, p : Pulse!Entry(x, type, p) = Entry(x, type, p)
  BY DEF Entry, Pulse!Entry
<1>6. \A devs : Pulse!InOrder(devs) = InOrder(devs)
  BY DEF InOrder, Pulse!InOrder
<1>7. (Pulse!Works <=> Works) /\ (Pulse!Breaks <=> Breaks)
  BY DEF Works, Breaks, system, Pulse!Works, Pulse!Breaks, Pulse!system
<1>8. \A x : Pulse!PlugOrUnplug(x) <=> PlugOrUnplug(x)
  BY DEF PlugOrUnplug, Changed, Noted, known, InOrder, ToSet, Last, Pulse!PlugOrUnplug,
       Pulse!Changed, Pulse!Noted, Pulse!known, Pulse!InOrder, Pulse!ToSet, Pulse!Last
<1>9. (UNCHANGED Pulse!known) <=> (UNCHANGED known)
  BY DEF known, Pulse!known
<1>10. Pulse!Idle <=> Idle
  BY DEF Idle, Pulse!Idle
<1>11. \A dirs : Pulse!MayRegister(dirs) <=> MayRegister(dirs)
  BY DEF MayRegister, Idle, Pulse!MayRegister, Pulse!Idle
<1>12. \A dirs : Pulse!MayUnregister(dirs) <=> MayUnregister(dirs)
  BY DEF MayUnregister, Idle, Pulse!MayUnregister, Pulse!Idle
<1>13. Pulse!MayDestroy <=> MayDestroy
  BY DEF MayDestroy, Idle, Pulse!MayDestroy, Pulse!Idle
<1>14. \A op, dirs, at : Pulse!Enter(op, dirs, at) <=> Enter(op, dirs, at)
  BY DEF Enter, In, NoCall, known, Pulse!Enter, Pulse!In, Pulse!NoCall, Pulse!known
<1>15. \A at : Pulse!Goto(at) <=> Goto(at)
  BY DEF Goto, known, Pulse!Goto, Pulse!known
<1>16. \A op, dirs : Pulse!Accept(op, dirs) <=> Accept(op, dirs)
  BY DEF Accept, NoCall, Forget, Dirs, Unseen, Pulse!Accept, Pulse!NoCall, Pulse!Forget,
       Pulse!Dirs, Pulse!Unseen
<1>17. Pulse!Refuse <=> Refuse
  BY DEF Refuse, NoCall, known, Pulse!Refuse, Pulse!NoCall, Pulse!known
<1>18. Pulse!Failed <=> Failed
  BY DEF Failed, NoCall, Pulse!Failed, Pulse!NoCall
<1>19. \A d : Pulse!Tell(d) <=> Tell(d)
  BY DEF Tell, Pulse!Tell
<1>20. \A dirs, at : Pulse!Begin(dirs, at) <=> Begin(dirs, at)
  BY DEF Begin, Idle, In, NoCall, Forget, Dirs, Unseen, Pulse!Begin, Pulse!Idle, Pulse!In,
       Pulse!NoCall, Pulse!Forget, Pulse!Dirs, Pulse!Unseen
<1> QED BY <1>1, <1>2, <1>3, <1>4, <1>5, <1>6, <1>7, <1>8, <1>9, <1>10, <1>11, <1>12, <1>13, <1>14, <1>15, <1>16, <1>17, <1>18, <1>19, <1>20

\* A call that is not an enumeration has nothing to list.
LEMMA PulseIdle == ~Enumerating' => PulseLists'
BY DEF PulseLists

\* What an enumeration has stays right when neither it nor the devices move.
LEMMA PulseStays ==
  ASSUME PulseLists, present' = present, call' = call, failures' \in Nat, failures \in Nat,
         failures' = failures \/ failures' > 0
  PROVE  PulseLists'
BY DEF PulseLists, PulseLooked, Covered, Sound, Enumerating, Now

\* A device comes or goes: an enumeration notes it, and the callbacks stay.
LEMMA PulseChange ==
  ASSUME Types, PulseTells, PulseLists, Pulse!Change
  PROVE  Types' /\ PulseTells' /\ PulseLists' /\ Told
<1> PICK x \in Devices : PlugOrUnplug(x) /\ UNCHANGED failures
                         /\ st' = [st EXCEPT !.events = @ \cup (Sides[x] \cap st.mask),
                                             !.missed = @ \cup Pulse!Missed(Sides[x])]
  BY PulseSame DEF Pulse!Change
<1> DEFINE P == /\ present' \in Orders /\ registered' = registered /\ due' = due
                /\ call' = [op |-> call.op, at |-> call.at, dirs |-> call.dirs, todo |-> call.todo,
                     found |-> call.found, preferred |-> call.preferred, touched |-> call'.touched]
                /\ CallType'
<1>1. P
  BY Plugged
<1>2. Types'
  BY <1>1 DEF Types, SystemTypes, KnownTypes
<1>3. PulseTells'
  <2>1. /\ call'.op = call.op /\ call'.at = call.at /\ call'.dirs = call.dirs /\ failures' = failures
        /\ registered' = registered
    BY <1>1
  <2>2. st' = [open |-> st.open, callbacks |-> st.callbacks, mask |-> st.mask,
               events |-> st.events \cup (Sides[x] \cap st.mask), failed |-> st.failed,
               missed |-> st.missed \cup Pulse!Missed(Sides[x])]
    BY DEF PulseTells
  <2> QED BY <2>1, <2>2 DEF PulseTells
<1>4. PulseLists'
  <2>1. CASE ~Enumerating
    BY <2>1, <1>1 DEF PulseLists, Enumerating
  <2>2. CASE Enumerating
    <3>1. \A d : /\ Now(d)' \ call'.touched \subseteq Now(d) \ call.touched
                 /\ Now(d) \cup On(d, call.touched) \subseteq Now(d)' \cup On(d, call'.touched)
      BY <2>2, Plugged
    <3>2. \A d : (Covered(d, {}) => Covered(d, {})') /\ (Sound(d) => Sound(d)')
      BY <3>1, <1>1 DEF Covered, Sound
    <3>3. \A d : PulseLooked(d) => PulseLooked(d)'
      BY <3>2, <1>1 DEF PulseLooked
    <3> QED BY <3>3, <1>1, <2>2 DEF PulseLists, Enumerating
  <2> QED BY <2>1, <2>2
<1>5. Told
  BY <1>1 DEF Told
<1> QED BY <1>2, <1>3, <1>4, <1>5

\* The context fails: from then on lists may be empty and the client be told too much.
LEMMA PulseFails ==
  ASSUME Types, PulseTells, PulseLists, Pulse!ContextFails
  PROVE  Types' /\ PulseTells' /\ PulseLists' /\ Told
<1>1. /\ SystemTypes' /\ KnownTypes' /\ CallType' /\ present' = present /\ failures' > 0 /\ due' = due
      /\ registered' = registered /\ call' = call
  BY SystemSteps, ClientSteps, PulseSame DEF Pulse!ContextFails, Types
<1>2. st' = [st EXCEPT !.failed = TRUE, !.mask = {}, !.events = {}, !.missed = @ \cup st.events]
  BY PulseSame DEF Pulse!ContextFails
<1>3. PulseTells'
  BY <1>1, <1>2 DEF PulseTells
<1>4. PulseLists'
  BY <1>1, PulseStays DEF Types, SystemTypes
<1> QED BY <1>1, <1>3, <1>4 DEF Types, Told

\* A call begins.  A registration sets the callbacks of the sides it is for.
LEMMA PulseCalls ==
  ASSUME Types, PulseTells, PulseLists, Pulse!Calls
  PROVE  Types' /\ PulseTells' /\ PulseLists' /\ Told
<1>1. CASE \E dirs \in SUBSET Dirs : Pulse!pulse_register_device_collection_changed(dirs)
  <2> PICK dirs \in SUBSET Dirs : Pulse!pulse_register_device_collection_changed(dirs)
    BY <1>1
  <2>1. /\ SystemTypes' /\ failures' = failures
    BY SystemSteps, PulseSame DEF Pulse!pulse_register_device_collection_changed, Types
  <2>2. CASE /\ MayRegister(dirs) /\ Enter("register", dirs, "subscribe")
             /\ st' = [st EXCEPT !.callbacks = @ \cup dirs]
    <3>1. /\ call'.op = "register" /\ call'.at = "subscribe" /\ call'.dirs = dirs
          /\ CallType' /\ KnownTypes' /\ due' = due /\ registered' = registered
      BY <2>2, ClientSteps
    <3>2. call.op = "none"
      BY <2>2 DEF MayRegister, Idle
    <3>3. PulseTells'
      BY <2>1, <2>2, <3>1, <3>2 DEF PulseTells
    <3> QED BY <2>1, <3>1, <3>3, PulseIdle DEF Types, Told, Enumerating
  <2>3. CASE /\ MayUnregister(dirs) /\ Enter("unregister", dirs, "subscribe")
             /\ st' = [st EXCEPT !.callbacks = @ \ dirs]
    <3>1. /\ call'.op = "unregister" /\ call'.at = "subscribe" /\ call'.dirs = dirs
          /\ CallType' /\ KnownTypes' /\ due' = due /\ registered' = registered
      BY <2>3, ClientSteps
    <3>2. call.op = "none"
      BY <2>3 DEF MayUnregister, Idle
    <3>3. PulseTells'
      BY <2>1, <2>3, <3>1, <3>2 DEF PulseTells
    <3> QED BY <2>1, <3>1, <3>3, PulseIdle DEF Types, Told, Enumerating
  <2> QED BY <2>2, <2>3, PulseSame DEF Pulse!pulse_register_device_collection_changed
<1>2. CASE Pulse!pulse_enumerate_devices
  <2>1. /\ SystemTypes' /\ failures' = failures /\ st' = [st EXCEPT !.missed = @ \ due]
        /\ Begin(due, "sinks") /\ due \subseteq Dirs
    BY <1>2, SystemSteps, PulseSame DEF Pulse!pulse_enumerate_devices, Types, KnownTypes
  <2>2. /\ call'.op = "enumerate" /\ call'.at = "sinks" /\ call'.found = {}
        /\ CallType' /\ KnownTypes' /\ due' \subseteq due /\ registered' = registered
    BY <2>1, ClientSteps
  <2>3. call.op = "none"
    BY <2>1 DEF Begin, Idle
  <2>4. PulseTells' /\ PulseLists'
    BY <2>1, <2>2, <2>3 DEF PulseTells, PulseLists
  <2> QED BY <2>1, <2>2, <2>4 DEF Types, Told
<1>3. CASE Pulse!pulse_context_init
  <2>1. /\ SystemTypes' /\ KnownTypes' /\ CallType' /\ present' = present /\ failures' = failures /\ due' = due
        /\ registered' = registered /\ call' = call /\ st' = [st EXCEPT !.failed = FALSE]
    BY <1>3, SystemSteps, ClientSteps, PulseSame DEF Pulse!pulse_context_init, Types
  <2>2. PulseTells'
    BY <2>1 DEF PulseTells
  <2>3. PulseLists'
    BY <2>1, PulseStays DEF Types, SystemTypes
  <2> QED BY <2>1, <2>2, <2>3 DEF Types, Told
<1>4. CASE Pulse!pulse_destroy
  <2>1. /\ SystemTypes' /\ KnownTypes' /\ CallType' /\ present' = present /\ failures' = failures /\ due' = due
        /\ registered' = registered /\ call' = call /\ st' = [Pulse!Context EXCEPT !.open = FALSE]
        /\ call.op = "none"
    BY <1>4, SystemSteps, ClientSteps, PulseSame DEF Pulse!pulse_destroy, Types, MayDestroy, Idle
  <2>2. PulseTells'
    BY <2>1 DEF PulseTells, Pulse!Context
  <2>3. PulseLists'
    BY <2>1, PulseStays DEF Types, SystemTypes
  <2> QED BY <2>1, <2>2, <2>3 DEF Types, Told
<1> QED BY <1>1, <1>2, <1>3, <1>4, PulseSame DEF Pulse!Calls

\* The entries of one side, for that side and for the other.
LEMMA PulseEntries ==
  ASSUME NEW d, NEW e, e \in call.dirs
  PROVE  /\ st.failed => Pulse!Entries(e) = {}
         /\ ~st.failed => Devs(Pulse!Entries(e), d) = IF d = e THEN Now(e) ELSE {}
         /\ d # e => Devs(Pulse!Entries(e), d) = {}
<1>1. st.failed => Pulse!Entries(e) = {}
  BY PulseSame DEF Pulse!Entries
<1>2. ASSUME ~st.failed PROVE Devs(Pulse!Entries(e), d) = IF d = e THEN Now(e) ELSE {}
  <2>1. \A f \in Pulse!Entries(e) : \E x \in Now(e) : f = Entry(x, {e}, FALSE)
    BY <1>2, PulseSame DEF Pulse!Entries
  <2>2. \A x \in Now(e) : Entry(x, {e}, FALSE) \in Pulse!Entries(e)
    BY <1>2, PulseSame DEF Pulse!Entries
  <2>3. \A x : Entry(x, {e}, FALSE).dev = x /\ Entry(x, {e}, FALSE).type = {e}
    BY DEF Entry
  <2> QED BY <2>1, <2>2, <2>3 DEF Devs
<1> QED BY <1>1, <1>2, DevsFacts

\* Nothing is listed for a side that was not asked for, or when the context failed.
LEMMA PulseNoEntries ==
  ASSUME NEW e, e \notin call.dirs
  PROVE  Pulse!Entries(e) = {}
BY PulseSame DEF Pulse!Entries

\* A call goes on: the server subscribes, or the sinks and then the sources are listed.
LEMMA PulseClient ==
  ASSUME Types, PulseTells, PulseLists, Pulse!Client
  PROVE  Types' /\ PulseTells' /\ PulseLists' /\ Told
<1>1. CASE Pulse!pulse_subscribe_notifications
  <2>1. SystemTypes' /\ failures' = failures /\ present' = present
    BY <1>1, SystemSteps, PulseSame DEF Pulse!pulse_subscribe_notifications, Types
  <2>2. CASE call.at = "subscribe" /\ st.failed /\ Refuse /\ UNCHANGED st
    <3>1. /\ call' = NoCall /\ CallType' /\ KnownTypes' /\ due' = due /\ registered' = registered /\ st' = st
      BY <2>2, ClientSteps
    <3>2. call'.op = "none" /\ call'.at = "idle"
      BY <3>1 DEF NoCall
    <3>3. PulseTells'
      BY <2>1, <2>2, <3>1, <3>2 DEF PulseTells
    <3> QED BY <2>1, <3>1, <3>2, <3>3, PulseIdle DEF Types, Told, Enumerating
  <2>3. CASE /\ call.at = "subscribe" /\ ~st.failed /\ Goto("wait")
             /\ st' = [st EXCEPT !.mask = st.callbacks]
    <3>1. /\ call'.op = call.op /\ call'.at = "wait" /\ call'.dirs = call.dirs
          /\ CallType' /\ KnownTypes' /\ due' = due /\ registered' = registered
      BY <2>3, ClientSteps
    <3>2. PulseTells' /\ ~Enumerating'
      BY <2>1, <2>3, <3>1 DEF PulseTells, Enumerating
    <3> QED BY <2>1, <3>1, <3>2, PulseIdle DEF Types, Told
  <2>4. CASE call.at = "wait" /\ st.events = {} /\ Accept(call.op, call.dirs) /\ UNCHANGED st
    <3>1. /\ call' = NoCall /\ CallType' /\ KnownTypes' /\ due' \ due \subseteq registered' /\ st' = st
      BY <2>4, ClientSteps DEF Types, CallType
    <3>2. call'.op = "none" /\ call'.at = "idle"
      BY <3>1 DEF NoCall
    <3>3. registered' = IF call.op = "register" THEN registered \cup call.dirs ELSE registered \ call.dirs
      BY <2>4 DEF Accept
    <3>4. \/ st.callbacks \subseteq registered'
          \/ failures > 0
      <4>1. CASE call.op = "register"
        BY <4>1, <3>3 DEF PulseTells
      <4>2. CASE call.op # "register"
        BY <4>2, <2>4, <3>3 DEF PulseTells
      <4> QED BY <4>1, <4>2
    <3>5. PulseTells'
      BY <2>1, <3>1, <3>2, <3>4 DEF PulseTells
    <3> QED BY <2>1, <3>1, <3>2, <3>5, PulseIdle DEF Types, Told, Enumerating
  <2> QED BY <1>1, <2>2, <2>3, <2>4, PulseSame DEF Pulse!pulse_subscribe_notifications
<1>2. CASE Pulse!SinksAndSources
  <2>1. /\ SystemTypes' /\ failures' = failures /\ present' = present /\ KnownTypes' /\ due' = due
        /\ registered' = registered /\ call.at \in {"sinks", "sources"}
        /\ st' = [st EXCEPT !.missed = IF st.failed THEN @ \cup call.dirs ELSE @]
    BY <1>2, SystemSteps, ClientSteps, PulseSame DEF Pulse!SinksAndSources, Types
  <2> DEFINE e == IF call.at = "sinks" THEN "output" ELSE "input"
  <2>2. call' = [op |-> call.op, at |-> IF call.at = "sinks" THEN "sources" ELSE "done", dirs |-> call.dirs,
                 todo |-> call.todo, found |-> call.found \cup Pulse!Entries(e),
                 preferred |-> call.preferred, touched |-> call.touched]
    BY <1>2, PulseSame DEF Pulse!SinksAndSources, Types, CallType
  <2>3. CallType'
    BY <2>2 DEF CallType, Types
  <2>4. PulseTells'
    BY <2>1, <2>2 DEF PulseTells
  <2>5. \A d : Devs(call'.found, d) = Devs(call.found, d) \cup Devs(Pulse!Entries(e), d)
    BY <2>2, DevsFacts
  <2>6. Now("input")' = Now("input") /\ Now("output")' = Now("output")
    BY <2>1 DEF Now
  <2>7. \A d : e \in call.dirs =>
          /\ st.failed => Devs(Pulse!Entries(e), d) = {}
          /\ ~st.failed => Devs(Pulse!Entries(e), d) = IF d = e THEN Now(e) ELSE {}
          /\ d # e => Devs(Pulse!Entries(e), d) = {}
    <3> HIDE DEF e
    <3> QED BY PulseEntries, DevsFacts
  <2>8. \A d : e \notin call.dirs => Devs(Pulse!Entries(e), d) = {}
    <3> HIDE DEF e
    <3> QED BY PulseNoEntries, DevsFacts
  <2>9. st.failed => failures > 0
    BY DEF PulseTells
  <2>10. PulseLists'
    <3>1. CASE ~Enumerating
      BY <3>1, <2>2 DEF PulseLists, Enumerating
    <3>2. CASE Enumerating /\ call.at = "sinks"
      <4>1. e = "output" /\ call.found = {} /\ call'.at = "sources" /\ call'.dirs = call.dirs
            /\ call'.touched = call.touched
        BY <3>2, <2>2 DEF PulseLists
      <4>2. \A d : Devs(call.found, d) = {}
        BY <4>1, DevsFacts
      <4>3. Devs(call'.found, "input") = {}
        BY <4>1, <4>2, <2>5, <2>7, <2>8
      <4>4. PulseLooked("output")'
        BY <4>1, <4>2, <2>1, <2>5, <2>6, <2>7, <2>9 DEF PulseLooked, Covered, Sound
      <4> QED BY <4>1, <4>3, <4>4 DEF PulseLists
    <3>3. CASE Enumerating /\ call.at = "sources"
      <4>1. /\ e = "input" /\ call'.at = "done" /\ call'.dirs = call.dirs /\ call'.touched = call.touched
            /\ PulseLooked("output") /\ Devs(call.found, "input") = {}
        BY <3>3, <2>2 DEF PulseLists
      <4>2. Devs(call'.found, "output") = Devs(call.found, "output")
        BY <4>1, <2>5, <2>7, <2>8
      <4>3. PulseLooked("output")'
        BY <4>1, <4>2, <2>1, <2>6 DEF PulseLooked, Covered, Sound
      <4>4. PulseLooked("input")'
        BY <4>1, <2>1, <2>5, <2>6, <2>7, <2>9 DEF PulseLooked, Covered, Sound
      <4> QED BY <4>1, <4>3, <4>4 DEF PulseLists
    <3> QED BY <3>1, <3>2, <3>3, <2>1
  <2> QED BY <2>1, <2>3, <2>4, <2>10 DEF Types, Told
<1> QED BY <1>1, <1>2, PulseSame DEF Pulse!Client

\* An event is handled: a side is told of whose callback is set.
LEMMA PulseThread ==
  ASSUME Types, PulseTells, PulseLists, Pulse!Thread
  PROVE  Types' /\ PulseTells' /\ PulseLists' /\ Told
<1> PICK d \in st.events :
      /\ thread # "undefined" /\ Works /\ UNCHANGED call
      /\ st' = [st EXCEPT !.events = @ \ {d}]
      /\ IF d \in st.callbacks THEN Tell(d) /\ UNCHANGED thread
         ELSE thread' = "undefined" /\ UNCHANGED known
  BY PulseSame DEF Pulse!Thread, Pulse!pulse_subscribe_callback
<1>1. SystemTypes' /\ failures' = failures /\ present' = present /\ call' = call /\ CallType'
  BY SystemSteps, ClientSteps DEF Types
<1>2. PulseLists'
  BY <1>1, PulseStays DEF Types, SystemTypes
<1>3. CASE d \in st.callbacks
  <2>1. due' = due \cup {d} /\ registered' = registered
    BY <1>3 DEF Tell
  <2> QED BY <1>1, <1>2, <1>3, <2>1 DEF PulseTells, Types, KnownTypes, Told
<1>4. CASE d \notin st.callbacks
  <2>1. due' = due /\ registered' = registered /\ KnownTypes'
    BY <1>4, ClientSteps
  <2> QED BY <1>1, <1>2, <1>4, <2>1 DEF PulseTells, Types, Told
<1> QED BY <1>3, <1>4

\* The list is handed over.
LEMMA PulseDone ==
  ASSUME Types, PulseTells, Done
  PROVE  Types' /\ PulseTells' /\ PulseLists' /\ Told
<1>1. call'.op = "none" /\ call'.at = "idle" /\ call.op = "enumerate"
  BY DoneStep DEF NoCall, Done
<1> QED BY <1>1, DoneStep, PulseIdle DEF PulseTells, Told, Enumerating

-----------------------------------------------------------------------------
\* WASAPI.

\* WasapiDevices has the client and the system of DeviceClient, as it stands here.
LEMMA WasapiSame ==
  /\ Wasapi!Dirs = Dirs /\ Wasapi!Devices = Devices /\ Wasapi!Sides = Sides
  /\ \A s : Wasapi!ToSet(s) = ToSet(s)
  /\ \A d, devs : Wasapi!On(d, devs) = On(d, devs)
  /\ \A d : Wasapi!Now(d) = Now(d)
  /\ \A x, type, p : Wasapi!Entry(x, type, p) = Entry(x, type, p)
  /\ \A devs : Wasapi!InOrder(devs) = InOrder(devs)
  /\ (Wasapi!Works <=> Works) /\ (Wasapi!Breaks <=> Breaks)
  /\ \A x : Wasapi!PlugOrUnplug(x) <=> PlugOrUnplug(x)
  /\ (UNCHANGED Wasapi!known) <=> (UNCHANGED known)
  /\ Wasapi!Idle <=> Idle
  /\ \A dirs : Wasapi!MayRegister(dirs) <=> MayRegister(dirs)
  /\ \A dirs : Wasapi!MayUnregister(dirs) <=> MayUnregister(dirs)
  /\ Wasapi!MayDestroy <=> MayDestroy
  /\ \A op, dirs, at : Wasapi!Enter(op, dirs, at) <=> Enter(op, dirs, at)
  /\ \A at : Wasapi!Goto(at) <=> Goto(at)
  /\ \A op, dirs : Wasapi!Accept(op, dirs) <=> Accept(op, dirs)
  /\ Wasapi!Refuse <=> Refuse
  /\ Wasapi!Failed <=> Failed
  /\ \A d : Wasapi!Tell(d) <=> Tell(d)
  /\ \A dirs, at : Wasapi!Begin(dirs, at) <=> Begin(dirs, at)
  /\ Wasapi!SetDefault <=> SetDefault
<1>1. Wasapi!Dirs = Dirs /\ Wasapi!Devices = Devices /\ Wasapi!Sides = Sides
  BY DEF Dirs, Devices, Sides, Wasapi!Dirs, Wasapi!Devices, Wasapi!Sides
<1>2. \A s : Wasapi!ToSet(s) = ToSet(s)
  BY DEF ToSet, Wasapi!ToSet
<1>3. \A d, devs : Wasapi!On(d, devs) = On(d, devs)
  BY <1>1 DEF On, Wasapi!On
<1>4. \A d : Wasapi!Now(d) = Now(d)
  BY <1>2, <1>3 DEF Now, Wasapi!Now
<1>5. \A x, type, p : Wasapi!Entry(x, type, p) = Entry(x, type, p)
  BY DEF Entry, Wasapi!Entry
<1>6. \A devs : Wasapi!InOrder(devs) = InOrder(devs)
  BY DEF InOrder, Wasapi!InOrder
<1>7. (Wasapi!Works <=> Works) /\ (Wasapi!Breaks <=> Breaks)
  BY DEF Works, Breaks, system, Wasapi!Works, Wasapi!Breaks, Wasapi!system
<1>8. \A x : Wasapi!PlugOrUnplug(x) <=> PlugOrUnplug(x)
  BY DEF PlugOrUnplug, Changed, Noted, known, InOrder, ToSet, Last, Wasapi!PlugOrUnplug,
       Wasapi!Changed, Wasapi!Noted, Wasapi!known, Wasapi!InOrder, Wasapi!ToSet, Wasapi!Last
<1>9. (UNCHANGED Wasapi!known) <=> (UNCHANGED known)
  BY DEF known, Wasapi!known
<1>10. Wasapi!Idle <=> Idle
  BY DEF Idle, Wasapi!Idle
<1>11. \A dirs : Wasapi!MayRegister(dirs) <=> MayRegister(dirs)
  BY DEF MayRegister, Idle, Wasapi!MayRegister, Wasapi!Idle
<1>12. \A dirs : Wasapi!MayUnregister(dirs) <=> MayUnregister(dirs)
  BY DEF MayUnregister, Idle, Wasapi!MayUnregister, Wasapi!Idle
<1>13. Wasapi!MayDestroy <=> MayDestroy
  BY DEF MayDestroy, Idle, Wasapi!MayDestroy, Wasapi!Idle
<1>14. \A op, dirs, at : Wasapi!Enter(op, dirs, at) <=> Enter(op, dirs, at)
  BY DEF Enter, In, NoCall, known, Wasapi!Enter, Wasapi!In, Wasapi!NoCall, Wasapi!known
<1>15. \A at : Wasapi!Goto(at) <=> Goto(at)
  BY DEF Goto, known, Wasapi!Goto, Wasapi!known
<1>16. \A op, dirs : Wasapi!Accept(op, dirs) <=> Accept(op, dirs)
  BY DEF Accept, NoCall, Forget, Dirs, Unseen, Wasapi!Accept, Wasapi!NoCall, Wasapi!Forget,
       Wasapi!Dirs, Wasapi!Unseen
<1>17. Wasapi!Refuse <=> Refuse
  BY DEF Refuse, NoCall, known, Wasapi!Refuse, Wasapi!NoCall, Wasapi!known
<1>18. Wasapi!Failed <=> Failed
  BY DEF Failed, NoCall, Wasapi!Failed, Wasapi!NoCall
<1>19. \A d : Wasapi!Tell(d) <=> Tell(d)
  BY DEF Tell, Wasapi!Tell
<1>20. \A dirs, at : Wasapi!Begin(dirs, at) <=> Begin(dirs, at)
  BY DEF Begin, Idle, In, NoCall, Forget, Dirs, Unseen, Wasapi!Begin, Wasapi!Idle, Wasapi!In,
       Wasapi!NoCall, Wasapi!Forget, Wasapi!Dirs, Wasapi!Unseen
<1>21. Wasapi!SetDefault <=> SetDefault
  BY <1>4 DEF SetDefault, Changed, known, Wasapi!SetDefault, Wasapi!Changed, Wasapi!known
<1> QED BY <1>1, <1>2, <1>3, <1>4, <1>5, <1>6, <1>7, <1>8, <1>9, <1>10, <1>11, <1>12, <1>13, <1>14, <1>15, <1>16, <1>17, <1>18, <1>19, <1>20, <1>21

\* Nor is a callback used that was taken away.
ToldOrSafe == \/ due' \ due \subseteq registered' \cup call.dirs /\ thread' # "undefined"
              \/ failures > 0

\* Nothing is said of lists while there is no enumeration,
LEMMA WasapiIdle == ~Enumerating' => WasapiLists'
BY DEF WasapiLists

\* nor is anything changed when the devices and the call stay.
LEMMA WasapiStays ==
  ASSUME WasapiLists, present' = present, call' = call
  PROVE  WasapiLists'
BY DEF WasapiLists, Covered, Sound, Enumerating, Now

\* What a change of the devices, or of the default, does to a call and to the context.
LEMMA WasapiChange ==
  ASSUME Types, WasapiTells, WasapiRegisters, WasapiLists, thread # "undefined", Wasapi!Change
  PROVE  Types' /\ WasapiTells' /\ WasapiRegisters' /\ WasapiLists' /\ ToldOrSafe
<1> DEFINE C == /\ present' \in Orders /\ registered' = registered /\ due' = due /\ thread' = thread
                /\ call' = [op |-> call.op, at |-> call.at, dirs |-> call.dirs, todo |-> call.todo,
                     found |-> call.found, preferred |-> call.preferred, touched |-> call'.touched]
                /\ CallType'
                /\ Enumerating => \A d :
                     /\ Now(d)' \ call'.touched \subseteq Now(d) \ call.touched
                     /\ Now(d) \cup On(d, call.touched) \subseteq Now(d)' \cup On(d, call'.touched)
           S == /\ failures' \in Nat
                /\ \/ \E dirs : Wasapi!notify(dirs) /\ failures' = failures
                   \/ \E m : failures' > 0 /\ st' = [st EXCEPT !.missed = m]
<1>1. C /\ S
  <2>1. CASE \E x \in Devices :
               /\ PlugOrUnplug(x)
               /\ \/ Wasapi!notify(Sides[x]) /\ UNCHANGED failures
                  \/ /\ failures < MaxFailures /\ failures' = failures + 1
                     /\ st' = [st EXCEPT !.missed = @ \cup (Sides[x] \cap registered)]
    <3> PICK x \in Devices :
               /\ PlugOrUnplug(x)
               /\ \/ Wasapi!notify(Sides[x]) /\ UNCHANGED failures
                  \/ /\ failures < MaxFailures /\ failures' = failures + 1
                     /\ st' = [st EXCEPT !.missed = @ \cup (Sides[x] \cap registered)]
      BY <2>1
    <3>1. C
      BY Plugged
    <3>2. S
      BY DEF Types, SystemTypes
    <3> QED BY <3>1, <3>2
  <2>2. CASE SetDefault /\ Wasapi!notify({"input"}) /\ UNCHANGED failures
    <3>1. present' = present /\ call' = call /\ registered' = registered /\ due' = due /\ thread' = thread
      BY <2>2 DEF SetDefault, Changed, known
    <3>2. CallType' /\ present \in Orders /\ failures \in Nat
      BY <3>1, ClientSteps DEF Types, SystemTypes
    <3>3. call = [op |-> call.op, at |-> call.at, dirs |-> call.dirs, todo |-> call.todo,
                     found |-> call.found, preferred |-> call.preferred, touched |-> call.touched]
      BY DEF Types, CallType
    <3>4. \A d : Now(d)' = Now(d)
      BY <3>1 DEF Now
    <3> QED BY <3>1, <3>2, <3>3, <3>4, <2>2
  <2> QED BY <2>1, <2>2, WasapiSame DEF Wasapi!Change
<1>2. Types'
  BY <1>1 DEF Types, SystemTypes, KnownTypes
<1>3. /\ st' = [open |-> st.open, callbacks |-> st.callbacks, client |-> st.client,
                events |-> st'.events, shutdown |-> st.shutdown, missed |-> st'.missed]
      /\ \/ st'.events = st.events
         \/ st.client /\ \E dirs : st'.events = st.events \cup (dirs \cap st.callbacks)
  <2>1. CASE \E dirs : Wasapi!notify(dirs)
    BY <2>1 DEF Wasapi!notify, Wasapi!Hears, WasapiTells
  <2>2. CASE \E m : st' = [st EXCEPT !.missed = m]
    BY <2>2 DEF WasapiTells
  <2> QED BY <2>1, <2>2, <1>1
<1>4. /\ call'.op = call.op /\ call'.at = call.at /\ call'.dirs = call.dirs /\ registered' = registered
      /\ thread' = thread /\ (Enumerating' <=> Enumerating)
  BY <1>1 DEF Enumerating
<1>5. WasapiTells'
  BY <1>3, <1>4 DEF WasapiTells
<1>6. WasapiRegisters'
  <2> SUFFICES ASSUME failures' = 0 PROVE WasapiRegistration'
    BY DEF WasapiRegisters
  <2>1. failures = 0
    BY <1>1
  <2>2. st'.events \subseteq st.callbacks /\ (thread # "wait" => st'.events = {})
    BY <1>3, <2>1 DEF WasapiRegisters, WasapiRegistration
  <2> QED BY <1>3, <1>4, <2>1, <2>2 DEF WasapiRegisters, WasapiRegistration
<1>7. WasapiLists'
  <2>1. CASE ~Enumerating
    BY <2>1, <1>4, WasapiIdle
  <2>2. CASE Enumerating
    <3>1. \A d : /\ Now(d)' \ call'.touched \subseteq Now(d) \ call.touched
                 /\ Now(d) \cup On(d, call.touched) \subseteq Now(d)' \cup On(d, call'.touched)
      BY <2>2, <1>1
    <3>2. call'.found = call.found /\ call'.todo = call.todo
      BY <1>1
    <3>3. \A d, rest : Covered(d, rest) =>
            Now(d)' \ call'.touched \subseteq Devs(call'.found, d) \cup rest
      BY <3>1, <3>2 DEF Covered
    <3>4. \A d : Sound(d) => Sound(d)'
      BY <3>1, <3>2 DEF Sound
    <3>5. CASE call.at \in {"create", "done"}
      <4>1. \A d \in call.dirs : Covered(d, IF call.at = "create" THEN On(d, ToSet(call.todo)) ELSE {})'
        BY <3>2, <3>3, <3>5, <2>2, <1>4 DEF WasapiLists, Covered
      <4> QED BY <4>1, <3>2, <3>4, <3>5, <2>2, <1>4 DEF WasapiLists
    <3>6. CASE call.at \in {"defaults", "endpoints"}
      BY <3>2, <3>6, <2>2, <1>4 DEF WasapiLists
    <3> QED BY <3>5, <3>6, <2>2 DEF WasapiTells
  <2> QED BY <2>1, <2>2
<1>8. ToldOrSafe
  BY <1>1 DEF ToldOrSafe
<1> QED BY <1>2, <1>5, <1>6, <1>7, <1>8

\* A registration begins: the client of the notifications is taken away first.
LEMMA WasapiRegister ==
  ASSUME Types, WasapiTells, WasapiRegisters, WasapiLists, thread # "undefined", NEW dirs \in SUBSET Dirs,
         Wasapi!wasapi_register_device_collection_changed(dirs)
  PROVE  Types' /\ WasapiTells' /\ WasapiRegisters' /\ WasapiLists' /\ ToldOrSafe
<1>1. SystemTypes' /\ failures' = failures /\ thread' = thread /\ st' = st
  BY SystemSteps, WasapiSame DEF Wasapi!wasapi_register_device_collection_changed, Types
<1>2. CASE /\ MayRegister(dirs) /\ dirs \cap st.callbacks = {}
           /\ Enter("register", dirs, IF st.client THEN "unregister_client" ELSE "set")
  <2>1. /\ call'.op = "register" /\ call'.at = (IF st.client THEN "unregister_client" ELSE "set")
        /\ call'.dirs = dirs /\ CallType' /\ KnownTypes' /\ due' = due /\ registered' = registered
    BY <1>2, ClientSteps
  <2>2. call.op = "none" /\ dirs # {} /\ dirs \cap registered = {}
    BY <1>2 DEF MayRegister, Idle
  <2>3. WasapiTells' /\ ~Enumerating' /\ call.at = "idle"
    BY <1>1, <2>1, <2>2 DEF WasapiTells, Enumerating
  <2>4. WasapiRegisters'
    BY <1>1, <2>1, <2>2, <2>3 DEF WasapiRegisters, WasapiRegistration, WasapiTells
  <2> QED BY <1>1, <2>1, <2>3, <2>4, WasapiIdle DEF Types, ToldOrSafe
<1>3. CASE MayRegister(dirs) /\ dirs \cap st.callbacks # {} /\ Refuse
  <2>1. /\ call' = NoCall /\ CallType' /\ KnownTypes' /\ due' = due /\ registered' = registered
    BY <1>3, ClientSteps
  <2>2. call'.op = "none" /\ call'.at = "idle" /\ call'.dirs = {}
    BY <2>1 DEF NoCall
  <2>3. call.op = "none" /\ dirs \cap registered = {}
    BY <1>3 DEF MayRegister, Idle
  <2>4. WasapiTells' /\ ~Enumerating'
    BY <1>1, <2>1, <2>2 DEF WasapiTells, Enumerating
  <2>5. WasapiRegisters'
    BY <1>1, <1>3, <2>1, <2>2, <2>3 DEF WasapiRegisters, WasapiRegistration, WasapiTells
  <2> QED BY <1>1, <2>1, <2>4, <2>5, WasapiIdle DEF Types, ToldOrSafe
<1>4. CASE MayUnregister(dirs) /\ st.client /\ Enter("unregister", dirs, "unregister_client")
  <2>1. /\ call'.op = "unregister" /\ call'.at = "unregister_client"
        /\ call'.dirs = dirs /\ CallType' /\ KnownTypes' /\ due' = due /\ registered' = registered
    BY <1>4, ClientSteps
  <2>2. call.op = "none" /\ dirs # {} /\ dirs \subseteq registered
    BY <1>4 DEF MayUnregister, Idle
  <2>3. WasapiTells' /\ ~Enumerating' /\ call.at = "idle"
    BY <1>1, <2>1, <2>2 DEF WasapiTells, Enumerating
  <2>4. WasapiRegisters'
    BY <1>1, <1>4, <2>1, <2>2, <2>3 DEF WasapiRegisters, WasapiRegistration, WasapiTells
  <2> QED BY <1>1, <2>1, <2>3, <2>4, WasapiIdle DEF Types, ToldOrSafe
<1>5. CASE MayUnregister(dirs) /\ ~st.client /\ Accept("unregister", dirs)
  <2>1. /\ call' = NoCall /\ CallType' /\ KnownTypes' /\ due' \ due \subseteq registered'
    BY <1>5, ClientSteps
  <2>2. call'.op = "none" /\ call'.at = "idle" /\ call'.dirs = {}
    BY <2>1 DEF NoCall
  <2>3. call.op = "none" /\ dirs # {} /\ dirs \subseteq registered
    BY <1>5 DEF MayUnregister, Idle
  <2>4. WasapiTells' /\ ~Enumerating' /\ call.at = "idle"
    BY <1>1, <2>1, <2>2, <2>3 DEF WasapiTells, Enumerating
  <2>5. WasapiRegisters'
    <3>1. failures # 0
      BY <1>5, <2>3, <2>4 DEF WasapiRegisters, WasapiRegistration
    <3> QED BY <3>1, <1>1 DEF WasapiRegisters
  <2> QED BY <1>1, <2>1, <2>4, <2>5, WasapiIdle DEF Types, ToldOrSafe
<1> QED BY <1>2, <1>3, <1>4, <1>5, WasapiSame DEF Wasapi!wasapi_register_device_collection_changed

\* An enumeration begins, or the context goes with no notification client left.
LEMMA WasapiOtherCalls ==
  ASSUME Types, WasapiTells, WasapiRegisters, WasapiLists, thread # "undefined",
         Wasapi!wasapi_enumerate_devices \/ Wasapi!wasapi_destroy
  PROVE  Types' /\ WasapiTells' /\ WasapiRegisters' /\ WasapiLists' /\ ToldOrSafe
<1>1. CASE Wasapi!wasapi_enumerate_devices
  <2>1. /\ SystemTypes' /\ failures' = failures /\ st' = [st EXCEPT !.missed = @ \ due] /\ thread' = thread
        /\ Begin(due, "defaults") /\ due \subseteq Dirs
    BY <1>1, SystemSteps, WasapiSame DEF Wasapi!wasapi_enumerate_devices, Types, KnownTypes
  <2>2. /\ call'.op = "enumerate" /\ call'.at = "defaults" /\ call'.found = {}
        /\ CallType' /\ KnownTypes' /\ due' \subseteq due /\ registered' = registered
    BY <2>1, ClientSteps
  <2>3. call.op = "none"
    BY <2>1 DEF Begin, Idle
  <2>4. st' = [open |-> st.open, callbacks |-> st.callbacks, client |-> st.client,
                events |-> st.events, shutdown |-> st.shutdown, missed |-> st'.missed]
    BY <2>1 DEF WasapiTells
  <2>5. WasapiTells' /\ call.at = "idle"
    BY <2>1, <2>2, <2>3, <2>4 DEF WasapiTells, Enumerating
  <2>6. WasapiLists'
    BY <2>1, <2>2 DEF WasapiLists
  <2>7. WasapiRegisters'
    BY <2>1, <2>2, <2>3, <2>4, <2>5 DEF WasapiRegisters, WasapiRegistration
  <2> QED BY <2>1, <2>2, <2>5, <2>6, <2>7 DEF Types, ToldOrSafe
<1>2. CASE Wasapi!wasapi_destroy
  <2>1. /\ SystemTypes' /\ KnownTypes' /\ CallType' /\ present' = present /\ failures' = failures /\ due' = due
        /\ registered' = registered /\ call' = call /\ call.op = "none" /\ registered = {}
        /\ IF st.client THEN thread' = "undefined" /\ st' = st
           ELSE st' = [Wasapi!Context EXCEPT !.open = FALSE] /\ thread' = thread
    BY <1>2, SystemSteps, ClientSteps, WasapiSame DEF Wasapi!wasapi_destroy, Types, MayDestroy, Idle
  <2>2. call.at = "idle"
    BY <2>1 DEF WasapiTells
  <2>3. WasapiTells'
    <3>1. CASE st.client
      BY <2>1, <3>1 DEF WasapiTells, Enumerating
    <3>2. CASE ~st.client
      BY <2>1, <2>2, <3>2 DEF WasapiTells, Enumerating, Wasapi!Context
    <3> QED BY <3>1, <3>2
  <2>4. failures = 0 => ~st.client /\ thread = "none" /\ registered = {}
    BY <2>1, <2>2 DEF WasapiRegisters, WasapiRegistration
  <2>5. WasapiRegisters'
    <3> SUFFICES ASSUME failures = 0 PROVE WasapiRegistration'
      BY <2>1 DEF WasapiRegisters
    <3>1. /\ st'.callbacks = {} /\ st'.events = {} /\ ~st'.client /\ ~st'.shutdown /\ thread' = "none"
          /\ call'.op = "none" /\ call'.at = "idle" /\ registered' = {}
      BY <2>1, <2>2, <2>4 DEF Wasapi!Context
    <3> QED BY <3>1 DEF WasapiRegistration
  <2>6. WasapiLists'
    BY <2>1, WasapiStays
  <2>7. ToldOrSafe
    BY <2>1, <2>4 DEF ToldOrSafe, Types, SystemTypes
  <2> QED BY <2>1, <2>3, <2>5, <2>6, <2>7 DEF Types
<1> QED BY <1>1, <1>2

\* The steps of a registration, with the context's lock held throughout.
LEMMA WasapiClient ==
  ASSUME Types, WasapiTells, WasapiRegisters, WasapiLists, thread # "undefined",
         \/ Wasapi!unregister_collection_notification_client \/ Wasapi!Join \/ Wasapi!SetCallbacks
         \/ Wasapi!register_collection_notification_client
  PROVE  Types' /\ WasapiTells' /\ WasapiRegisters' /\ WasapiLists' /\ ToldOrSafe
<1>0. /\ failures \in Nat /\ call.dirs \subseteq Dirs
      /\ call.at \in {"unregister_client", "join", "set", "register_client"} =>
           ~Enumerating /\ call.op \in {"register", "unregister"}
  BY DEF Types, SystemTypes, CallType, WasapiTells, Enumerating
<1>1. CASE Wasapi!unregister_collection_notification_client
  <2>1. SystemTypes' /\ thread' = thread /\ call.at = "unregister_client"
    BY <1>1, SystemSteps, WasapiSame DEF Wasapi!unregister_collection_notification_client, Types
  <2>2. CASE Works /\ Goto("join") /\ st' = [st EXCEPT !.client = FALSE, !.shutdown = TRUE]
    <3>1. /\ call'.op = call.op /\ call'.at = "join" /\ call'.dirs = call.dirs
          /\ CallType' /\ KnownTypes' /\ due' = due /\ registered' = registered
      BY <2>2, ClientSteps
    <3>2. failures' = failures
      BY <2>2, SystemSteps DEF Types
    <3>3. st' = [open |-> st.open, callbacks |-> st.callbacks, client |-> FALSE,
                events |-> st.events, shutdown |-> TRUE, missed |-> st.missed]
      BY <2>2 DEF WasapiTells
    <3>4. WasapiTells' /\ ~Enumerating'
      BY <1>0, <2>1, <3>1, <3>3 DEF WasapiTells, Enumerating
    <3>5. WasapiRegisters'
      BY <1>0, <2>1, <3>1, <3>2, <3>3 DEF WasapiRegisters, WasapiRegistration
    <3> QED BY <2>1, <3>1, <3>4, <3>5, WasapiIdle DEF Types, ToldOrSafe
  <2>3. CASE Breaks /\ Refuse /\ st' = st
    <3>1. /\ call' = NoCall /\ CallType' /\ KnownTypes' /\ due' = due
      BY <2>3, ClientSteps
    <3>2. failures' > 0 /\ call'.op = "none" /\ call'.at = "idle"
      BY <2>3, <3>1, SystemSteps DEF Types, NoCall
    <3>3. WasapiTells' /\ ~Enumerating'
      BY <2>3, <3>2 DEF WasapiTells, Enumerating
    <3>4. WasapiRegisters'
      BY <3>2 DEF WasapiRegisters
    <3> QED BY <2>1, <3>1, <3>3, <3>4, WasapiIdle DEF Types, ToldOrSafe
  <2> QED BY <1>1, <2>2, <2>3, WasapiSame DEF Wasapi!unregister_collection_notification_client
<1>2. CASE Wasapi!Join
  <2>1. /\ SystemTypes' /\ failures' = failures /\ call.at = "join" /\ thread = "ended" /\ thread' = "none"
        /\ Goto("set") /\ st' = [st EXCEPT !.shutdown = FALSE]
    BY <1>2, SystemSteps, WasapiSame DEF Wasapi!Join, Types
  <2>2. /\ call'.op = call.op /\ call'.at = "set" /\ call'.dirs = call.dirs
        /\ CallType' /\ KnownTypes' /\ due' = due /\ registered' = registered
    BY <2>1, ClientSteps
  <2>3. st' = [open |-> st.open, callbacks |-> st.callbacks, client |-> st.client,
              events |-> st.events, shutdown |-> FALSE, missed |-> st.missed]
    BY <2>1 DEF WasapiTells
  <2>4. WasapiTells' /\ ~Enumerating'
    BY <1>0, <2>1, <2>2, <2>3 DEF WasapiTells, Enumerating
  <2>5. WasapiRegisters'
    BY <1>0, <2>1, <2>2, <2>3 DEF WasapiRegisters, WasapiRegistration
  <2> QED BY <2>1, <2>2, <2>4, <2>5, WasapiIdle DEF Types, ToldOrSafe
<1>3. CASE Wasapi!SetCallbacks
  <2> DEFINE set == IF call.op = "register" THEN st.callbacks \cup call.dirs ELSE st.callbacks \ call.dirs
  <2>1. /\ SystemTypes' /\ failures' = failures /\ call.at = "set" /\ thread' = thread
        /\ st' = [st EXCEPT !.callbacks = set]
        /\ IF set = {} THEN Accept(call.op, call.dirs) ELSE Goto("register_client")
    BY <1>3, SystemSteps, WasapiSame DEF Wasapi!SetCallbacks, Types
  <2>2. set \subseteq Dirs
    BY <1>0 DEF WasapiTells
  <2>3. st' = [open |-> st.open, callbacks |-> set, client |-> st.client,
              events |-> st.events, shutdown |-> st.shutdown, missed |-> st.missed]
    BY <2>1 DEF WasapiTells
  <2>4. CASE set = {}
    <3>1. /\ call' = NoCall /\ CallType' /\ KnownTypes' /\ due' \ due \subseteq registered'
          /\ registered' = IF call.op = "register" THEN registered \cup call.dirs ELSE registered \ call.dirs
      BY <1>0, <2>1, <2>4, ClientSteps DEF Accept
    <3>2. call'.op = "none" /\ call'.at = "idle"
      BY <3>1 DEF NoCall
    <3>3. WasapiTells' /\ ~Enumerating'
      BY <2>2, <2>3, <3>2 DEF WasapiTells, Enumerating
    <3>4. WasapiRegisters'
      <4> SUFFICES ASSUME failures = 0 PROVE WasapiRegistration'
        BY <2>1 DEF WasapiRegisters
      <4>1. WasapiRegistration /\ registered = st.callbacks
        BY <2>1 DEF WasapiRegisters, WasapiRegistration
      <4>2. registered' = {}
        BY <2>4, <3>1, <4>1
      <4> QED BY <1>0, <2>1, <2>3, <2>4, <3>2, <4>1, <4>2 DEF WasapiRegistration
    <3> QED BY <2>1, <3>1, <3>3, <3>4, WasapiIdle DEF Types, ToldOrSafe
  <2>5. CASE set # {}
    <3>1. /\ call'.op = call.op /\ call'.at = "register_client" /\ call'.dirs = call.dirs
          /\ CallType' /\ KnownTypes' /\ due' = due /\ registered' = registered
      BY <2>1, <2>5, ClientSteps
    <3>2. WasapiTells' /\ ~Enumerating'
      BY <1>0, <2>1, <2>2, <2>3, <3>1 DEF WasapiTells, Enumerating
    <3>3. WasapiRegisters'
      <4> SUFFICES ASSUME failures = 0 PROVE WasapiRegistration'
        BY <2>1 DEF WasapiRegisters
      <4>1. WasapiRegistration /\ registered = st.callbacks
        BY <2>1 DEF WasapiRegisters, WasapiRegistration
      <4>2. st.events = {} /\ ~st.client /\ thread = "none"
        BY <2>1, <4>1 DEF WasapiRegistration
      <4> QED BY <1>0, <2>1, <2>3, <2>5, <3>1, <4>1, <4>2 DEF WasapiRegistration
    <3> QED BY <2>1, <3>1, <3>2, <3>3, WasapiIdle DEF Types, ToldOrSafe
  <2> QED BY <2>4, <2>5
<1>4. CASE Wasapi!register_collection_notification_client
  <2>1. SystemTypes' /\ call.at = "register_client" /\ ~Enumerating /\ call.op \in {"register", "unregister"}
    BY <1>0, <1>4, SystemSteps, WasapiSame DEF Wasapi!register_collection_notification_client, Types
  <2>2. CASE Works /\ thread' = "wait" /\ st' = [st EXCEPT !.client = TRUE] /\ Accept(call.op, call.dirs)
    <3>1. /\ call' = NoCall /\ CallType' /\ KnownTypes' /\ due' \ due \subseteq registered'
          /\ registered' = IF call.op = "register" THEN registered \cup call.dirs ELSE registered \ call.dirs
      BY <1>0, <2>2, ClientSteps DEF Accept
    <3>2. call'.op = "none" /\ call'.at = "idle" /\ failures' = failures
      BY <2>2, <3>1, SystemSteps DEF NoCall, Types
    <3>3. st' = [open |-> st.open, callbacks |-> st.callbacks, client |-> TRUE,
                events |-> st.events, shutdown |-> st.shutdown, missed |-> st.missed]
      BY <2>2 DEF WasapiTells
    <3>4. WasapiTells' /\ ~Enumerating'
      BY <3>2, <3>3 DEF WasapiTells, Enumerating
    <3>5. WasapiRegisters'
      <4> SUFFICES ASSUME failures = 0 PROVE WasapiRegistration'
        BY <3>2 DEF WasapiRegisters
      <4>1. /\ WasapiRegistration /\ st.callbacks # {} /\ registered' = st.callbacks
        BY <2>1, <3>1 DEF WasapiRegisters, WasapiRegistration
      <4> QED BY <2>1, <2>2, <3>2, <3>3, <4>1 DEF WasapiRegistration
    <3> QED BY <2>1, <2>2, <3>1, <3>4, <3>5, WasapiIdle DEF Types, ToldOrSafe
  <2>3. CASE Breaks /\ thread' = "failed" /\ st' = [st EXCEPT !.client = TRUE] /\ Accept(call.op, call.dirs)
    <3>1. /\ call' = NoCall /\ CallType' /\ KnownTypes' /\ due' \ due \subseteq registered'
      BY <1>0, <2>3, ClientSteps
    <3>2. call'.op = "none" /\ call'.at = "idle" /\ failures' > 0
      BY <2>3, <3>1, SystemSteps DEF NoCall, Types
    <3>3. WasapiTells' /\ ~Enumerating'
      BY <2>3, <3>2 DEF WasapiTells, Enumerating
    <3>4. WasapiRegisters'
      BY <3>2 DEF WasapiRegisters
    <3> QED BY <2>1, <2>3, <3>1, <3>3, <3>4, WasapiIdle DEF Types, ToldOrSafe
  <2>4. CASE Breaks /\ Refuse /\ thread' = thread /\ st' = st
    <3>1. /\ call' = NoCall /\ CallType' /\ KnownTypes' /\ due' = due
      BY <2>4, ClientSteps
    <3>2. failures' > 0 /\ call'.op = "none" /\ call'.at = "idle"
      BY <2>4, <3>1, SystemSteps DEF Types, NoCall
    <3>3. WasapiTells' /\ ~Enumerating'
      BY <2>4, <3>2 DEF WasapiTells, Enumerating
    <3>4. WasapiRegisters'
      BY <3>2 DEF WasapiRegisters
    <3> QED BY <2>1, <2>4, <3>1, <3>3, <3>4, WasapiIdle DEF Types, ToldOrSafe
  <2> QED BY <1>4, <2>2, <2>3, <2>4, WasapiSame DEF Wasapi!register_collection_notification_client
<1> QED BY <1>1, <1>2, <1>3, <1>4

\* The entries of one device, for the sides it has.
OfOne(x, ends, p) == { Wasapi!Entry(x, {e}, p) : e \in ends }
\* What is described of one endpoint has its device, for the sides it was asked for.
LEMMA WasapiEntries ==
  ASSUME NEW x, NEW ends, NEW p, NEW d
  PROVE  Devs(OfOne(x, ends, p), d) = IF d \in ends THEN {x} ELSE {}
<1>1. \A e : Wasapi!Entry(x, {e}, p).dev = x /\ Wasapi!Entry(x, {e}, p).type = {e}
  BY DEF Wasapi!Entry
<1>2. \A f \in OfOne(x, ends, p) : \E e \in ends : f.dev = x /\ f.type = {e}
  BY <1>1 DEF OfOne
<1>3. d \in ends => \E f \in OfOne(x, ends, p) : f.dev = x /\ d \in f.type
  BY <1>1 DEF OfOne
<1> QED BY <1>2, <1>3 DEF Devs

\* The steps of an enumeration.
LEMMA WasapiEnumerates ==
  ASSUME Types, WasapiTells, WasapiRegisters, WasapiLists, thread # "undefined",
         Wasapi!Defaults \/ Wasapi!EnumAudioEndpoints \/ Wasapi!wasapi_create_device
  PROVE  Types' /\ WasapiTells' /\ WasapiRegisters' /\ WasapiLists' /\ ToldOrSafe
<1> DEFINE C(at) == /\ call' = [op |-> call.op, at |-> at, dirs |-> call.dirs, todo |-> call'.todo,
                     found |-> call'.found, preferred |-> call'.preferred, touched |-> call.touched]
                    /\ present' = present /\ failures' = failures /\ thread' = thread /\ st' = st
                    /\ registered' = registered /\ due' = due
<1>0. call.at \in {"defaults", "endpoints", "create"} => Enumerating
  BY DEF WasapiTells, Types, CallType, Enumerating
<1>1. ASSUME NEW at \in {"endpoints", "create", "done"}, call.at \in {"defaults", "endpoints", "create"}, C(at)
      PROVE  Types' /\ WasapiTells' /\ WasapiRegisters' /\ ToldOrSafe
  <2>1. Enumerating /\ call.op = "enumerate"
    BY <1>0, <1>1 DEF Enumerating
  <2>2. call'.op = "enumerate" /\ call'.at = at /\ call'.dirs = call.dirs
    BY <1>1, <2>1
  <2>3. CallType'
    BY <1>1, <2>1 DEF Types, CallType
  <2>4. Types'
    BY <1>1, <2>3 DEF Types, SystemTypes, KnownTypes
  <2>5. WasapiTells'
    BY <1>1, <2>1, <2>2 DEF WasapiTells, Enumerating
  <2>6. WasapiRegisters'
    BY <1>1, <2>1, <2>2 DEF WasapiRegisters, WasapiRegistration
  <2> QED BY <1>1, <2>4, <2>5, <2>6 DEF ToldOrSafe
<1>2. CASE Wasapi!Defaults
  <2>1. call.at = "defaults" /\ C("endpoints") /\ call'.found = call.found
    BY <1>2, SystemSteps, ClientSteps, WasapiSame DEF Wasapi!Defaults, Types, CallType
  <2>2. WasapiLists'
    BY <1>0, <2>1 DEF WasapiLists, Enumerating
  <2> QED BY <1>1, <2>1, <2>2
<1>3. CASE Wasapi!EnumAudioEndpoints
  <2>1. call.at = "endpoints" /\ thread' = thread /\ st' = st
    BY <1>3 DEF Wasapi!EnumAudioEndpoints
  <2>2. CASE Works /\ UNCHANGED known /\ call' = [call EXCEPT !.at = "create", !.todo = present]
    <3>1. C("create") /\ call'.found = call.found /\ call'.todo = present
      BY <2>1, <2>2, SystemSteps, ClientSteps DEF Types, CallType
    <3>2. call.found = {} /\ present \in Seq(Devices) /\ Enumerating
      BY <1>0, <2>1, PresentFacts DEF WasapiLists, Types, SystemTypes
    <3>3. \A d : Now(d)' = On(d, ToSet(present)) /\ Devs(call'.found, d) = {}
      BY <3>1, <3>2, DevsFacts DEF Now
    <3>4. \A d : Covered(d, On(d, ToSet(present)))' /\ Sound(d)'
      BY <3>1, <3>3 DEF Covered, Sound
    <3>5. WasapiLists'
      BY <3>1, <3>2, <3>4 DEF WasapiLists
    <3> QED BY <1>1, <2>1, <3>1, <3>5
  <2>3. CASE Breaks /\ Failed
    <3>1. /\ call' = NoCall /\ CallType' /\ KnownTypes' /\ due' \ due \subseteq registered
          /\ registered' = registered
      BY <2>3, ClientSteps
    <3>2. failures' > 0 /\ call'.op = "none" /\ call'.at = "idle" /\ SystemTypes'
      BY <2>3, <3>1, SystemSteps DEF Types, NoCall
    <3>3. WasapiTells' /\ ~Enumerating'
      BY <2>1, <3>2 DEF WasapiTells, Enumerating
    <3>4. WasapiRegisters'
      BY <3>2 DEF WasapiRegisters
    <3> QED BY <2>1, <3>1, <3>2, <3>3, <3>4, WasapiIdle DEF Types, ToldOrSafe
  <2> QED BY <1>3, <2>2, <2>3, WasapiSame DEF Wasapi!EnumAudioEndpoints
<1>4. CASE Wasapi!wasapi_create_device
  <2>0. call.at = "create" /\ Enumerating /\ call.todo \in Seq(Devices)
    BY <1>0, <1>4 DEF Wasapi!wasapi_create_device, WasapiLists
  <2>1. CASE call.todo = <<>>
    <3>1. C("done") /\ call'.found = call.found /\ call'.todo = call.todo
      BY <1>4, <2>1, SystemSteps, ClientSteps, WasapiSame DEF Wasapi!wasapi_create_device, Types, CallType
    <3>2. \A d : On(d, ToSet(call.todo)) = {}
      BY <2>0, <2>1, TodoFacts DEF On
    <3>3. \A d \in call.dirs : Covered(d, {}) /\ Sound(d)
      BY <2>0, <3>2 DEF WasapiLists
    <3>4. \A d \in call.dirs : Covered(d, {})' /\ Sound(d)'
      BY <3>1, <3>3 DEF Covered, Sound, Now
    <3>5. WasapiLists'
      BY <2>0, <3>1, <3>4 DEF WasapiLists
    <3> QED BY <1>1, <2>0, <3>1, <3>5
  <2>2. CASE call.todo # <<>>
    <3> DEFINE x == Head(call.todo)
               ends == IF x \in ToSet(present) THEN Sides[x] \cap call.dirs ELSE {}
               found == call.found \cup { Wasapi!Entry(x, {d}, x = call.preferred) : d \in
                          IF x \in Wasapi!ToSet(present) THEN Wasapi!Sides[x] \cap call.dirs ELSE {} }
    <3>0. call' = [call EXCEPT !.todo = Tail(@), !.found = found]
      BY <1>4, <2>2 DEF Wasapi!wasapi_create_device
    <3>1. C("create") /\ call'.todo = Tail(call.todo) /\ call'.found = found
      <4> HIDE DEF found
      <4>1. /\ call' = [op |-> call.op, at |-> call.at, dirs |-> call.dirs, todo |-> Tail(call.todo),
                        found |-> found, preferred |-> call.preferred, touched |-> call.touched]
        BY <3>0 DEF Types, CallType
      <4>2. /\ present' = present /\ failures' = failures /\ thread' = thread /\ st' = st
            /\ registered' = registered /\ due' = due
        BY <1>4, SystemSteps, ClientSteps, WasapiSame DEF Wasapi!wasapi_create_device, Types
      <4> QED BY <4>1, <4>2, <2>0
    <3>2. call'.todo \in Seq(Devices) /\ ToSet(call.todo) = {x} \cup ToSet(call'.todo)
      BY <2>0, <2>2, <3>1, TodoFacts
    <3>3. \A d : Devs(call'.found, d) = Devs(call.found, d) \cup (IF d \in ends THEN {x} ELSE {})
      <4>1. (IF x \in Wasapi!ToSet(present) THEN Wasapi!Sides[x] \cap call.dirs ELSE {}) = ends
        BY WasapiSame
      <4>2. call'.found = call.found \cup { Wasapi!Entry(x, {d}, x = call.preferred) : d \in ends }
        BY <3>1, <4>1
      <4> DEFINE p   == x = call.preferred
                 new == OfOne(x, ends, p)
      <4>3. call'.found = call.found \cup new
        BY <4>2 DEF OfOne
      <4> HIDE DEF ends, x, p
      <4>4. ASSUME NEW d PROVE Devs(new, d) = IF d \in ends THEN {x} ELSE {}
        BY WasapiEntries
      <4> HIDE DEF new
      <4>5. ASSUME NEW d PROVE Devs(call'.found, d) = Devs(call.found, d) \cup Devs(new, d)
        BY <4>3, DevsFacts
      <4> QED BY <4>4, <4>5
    <3>4. \A d \in call.dirs : Covered(d, On(d, ToSet(call.todo))) /\ Sound(d)
      BY <2>0 DEF WasapiLists
    <3>5. \A d : Now(d)' = Now(d) /\ (x \in Now(d) <=> x \in ToSet(present) /\ d \in Sides[x])
      BY <3>1 DEF Now, On
    <3>6. \A d \in call.dirs : Covered(d, On(d, ToSet(call.todo)))' /\ Sound(d)'
      <4> SUFFICES ASSUME NEW d \in call.dirs PROVE Covered(d, On(d, ToSet(call.todo)))' /\ Sound(d)'
        BY <3>1
      <4>1. On(d, ToSet(call.todo)) = On(d, {x}) \cup On(d, ToSet(call'.todo))
        BY <3>2 DEF On
      <4>2. Now(d) \cap On(d, {x}) \subseteq Devs(call'.found, d)
        BY <3>3, <3>5 DEF On
      <4>3. Covered(d, On(d, ToSet(call.todo)))'
        <5>1. call'.touched = call.touched
          BY <3>1
        <5>2. \A y \in Now(d) \ call.touched : y \in Devs(call.found, d) \/ y \in On(d, ToSet(call.todo))
          BY <3>4 DEF Covered
        <5>3. \A y \in Now(d) \ call.touched : y \in Devs(call'.found, d) \/ y \in On(d, ToSet(call'.todo))
          BY <3>3, <4>1, <4>2, <5>2
        <5> QED BY <5>1, <5>3, <3>5 DEF Covered
      <4>4. Sound(d)'
        <5>1. call'.touched = call.touched /\ (d \in ends => x \in Now(d))
          BY <3>1, <3>5
        <5> HIDE DEF ends, x
        <5> QED BY <5>1, <3>3, <3>4, <3>5 DEF Sound
      <4> QED BY <4>3, <4>4
    <3>7. WasapiLists'
      BY <2>0, <3>1, <3>2, <3>6 DEF WasapiLists
    <3> QED BY <1>1, <2>0, <3>1, <3>7
  <2> QED BY <2>1, <2>2
<1> QED BY <1>2, <1>3, <1>4

\* The thread tells of a side whose event is set, and ends when it is to.
LEMMA WasapiThread ==
  ASSUME Types, WasapiTells, WasapiRegisters, WasapiLists, thread # "undefined", Wasapi!Thread
  PROVE  Types' /\ WasapiTells' /\ WasapiRegisters' /\ WasapiLists' /\ ToldOrSafe
<1>1. /\ SystemTypes' /\ failures' = failures /\ present' = present /\ call' = call /\ CallType'
      /\ failures \in Nat /\ thread = "wait"
  BY SystemSteps, ClientSteps, WasapiSame DEF Types, SystemTypes, Wasapi!Thread, Wasapi!notification_thread_loop
<1>2. WasapiLists'
  BY <1>1, WasapiStays
<1>3. CASE \E d \in st.events :
             /\ d = "output" => "input" \notin st.events
             /\ st' = [st EXCEPT !.events = @ \ {d}]
             /\ IF d \in st.callbacks THEN Tell(d) /\ UNCHANGED thread
                ELSE thread' = "undefined" /\ UNCHANGED known
  <2> PICK d \in st.events :
             /\ st' = [st EXCEPT !.events = @ \ {d}]
             /\ IF d \in st.callbacks THEN Tell(d) /\ UNCHANGED thread
                ELSE thread' = "undefined" /\ UNCHANGED known
    BY <1>3
  <2>1. st' = [open |-> st.open, callbacks |-> st.callbacks, client |-> st.client,
              events |-> st.events \ {d}, shutdown |-> st.shutdown, missed |-> st.missed]
    BY DEF WasapiTells
  <2>2. WasapiTells' /\ d \in Dirs
    BY <1>1, <2>1 DEF WasapiTells, Enumerating
  <2>3. CASE d \in st.callbacks
    <3>1. due' = due \cup {d} /\ registered' = registered /\ thread' = thread
      BY <2>3 DEF Tell
    <3>2. KnownTypes'
      BY <2>2, <3>1 DEF Types, KnownTypes
    <3>3. WasapiRegisters'
      BY <1>1, <2>1, <3>1 DEF WasapiRegisters, WasapiRegistration
    <3>4. failures = 0 => d \in registered
      BY <1>1, <2>3 DEF WasapiRegisters, WasapiRegistration
    <3> QED BY <1>1, <1>2, <2>2, <3>1, <3>2, <3>3, <3>4 DEF Types, ToldOrSafe
  <2>4. CASE d \notin st.callbacks
    <3>1. due' = due /\ registered' = registered /\ KnownTypes'
      BY <2>4, ClientSteps
    <3>2. failures # 0
      BY <2>4 DEF WasapiRegisters, WasapiRegistration
    <3> QED BY <1>1, <1>2, <2>2, <3>1, <3>2 DEF Types, WasapiRegisters, ToldOrSafe
  <2> QED BY <2>3, <2>4
<1>4. CASE st.events = {} /\ st.shutdown /\ thread' = "ended" /\ UNCHANGED known /\ st' = st
  <2>1. due' = due /\ registered' = registered /\ KnownTypes'
    BY <1>4, ClientSteps
  <2>2. WasapiTells'
    BY <1>1, <1>4 DEF WasapiTells, Enumerating
  <2>3. WasapiRegisters'
    BY <1>1, <1>4, <2>1 DEF WasapiRegisters, WasapiRegistration, WasapiTells, Types, CallType
  <2> QED BY <1>1, <1>2, <1>4, <2>1, <2>2, <2>3 DEF Types, ToldOrSafe
<1> QED BY <1>3, <1>4, WasapiSame DEF Wasapi!Thread, Wasapi!notification_thread_loop

\* The list is handed over.
LEMMA WasapiDone ==
  ASSUME Types, WasapiTells, WasapiRegisters, WasapiLists, thread # "undefined", Done
  PROVE  Types' /\ WasapiTells' /\ WasapiRegisters' /\ WasapiLists' /\ ToldOrSafe
<1>1. call'.op = "none" /\ call'.at = "idle" /\ call.op = "enumerate" /\ call.at = "done"
  BY DoneStep DEF NoCall, Done
<1>2. WasapiTells' /\ WasapiLists'
  BY <1>1, DoneStep, WasapiIdle DEF WasapiTells, Enumerating
<1>3. WasapiRegisters'
  BY <1>1, DoneStep DEF WasapiRegisters, WasapiRegistration
<1> QED BY <1>2, <1>3, DoneStep DEF ToldOrSafe

-----------------------------------------------------------------------------
\* AudioUnit.

\* AudioUnitDevices has the client and the system of DeviceClient, as it stands here.
LEMMA AudioUnitSame ==
  /\ AudioUnit!Dirs = Dirs /\ AudioUnit!Devices = Devices /\ AudioUnit!Sides = Sides
  /\ \A s : AudioUnit!ToSet(s) = ToSet(s)
  /\ \A d, devs : AudioUnit!On(d, devs) = On(d, devs)
  /\ \A d : AudioUnit!Now(d) = Now(d)
  /\ \A x, type, p : AudioUnit!Entry(x, type, p) = Entry(x, type, p)
  /\ \A devs : AudioUnit!InOrder(devs) = InOrder(devs)
  /\ (AudioUnit!Works <=> Works) /\ (AudioUnit!Breaks <=> Breaks)
  /\ \A x : AudioUnit!PlugOrUnplug(x) <=> PlugOrUnplug(x)
  /\ (UNCHANGED AudioUnit!known) <=> (UNCHANGED known)
  /\ AudioUnit!Idle <=> Idle
  /\ \A dirs : AudioUnit!MayRegister(dirs) <=> MayRegister(dirs)
  /\ \A dirs : AudioUnit!MayUnregister(dirs) <=> MayUnregister(dirs)
  /\ AudioUnit!MayDestroy <=> MayDestroy
  /\ \A op, dirs, at : AudioUnit!Enter(op, dirs, at) <=> Enter(op, dirs, at)
  /\ \A at : AudioUnit!Goto(at) <=> Goto(at)
  /\ \A op, dirs : AudioUnit!Accept(op, dirs) <=> Accept(op, dirs)
  /\ AudioUnit!Refuse <=> Refuse
  /\ AudioUnit!Failed <=> Failed
  /\ \A d : AudioUnit!Tell(d) <=> Tell(d)
  /\ \A dirs, at : AudioUnit!Begin(dirs, at) <=> Begin(dirs, at)
  /\ \A S : AudioUnit!SetToSeq(S) = SetToSeq(S)
<1>1. AudioUnit!Dirs = Dirs /\ AudioUnit!Devices = Devices /\ AudioUnit!Sides = Sides
  BY DEF Dirs, Devices, Sides, AudioUnit!Dirs, AudioUnit!Devices, AudioUnit!Sides
<1>2. \A s : AudioUnit!ToSet(s) = ToSet(s)
  BY DEF ToSet, AudioUnit!ToSet
<1>3. \A d, devs : AudioUnit!On(d, devs) = On(d, devs)
  BY <1>1 DEF On, AudioUnit!On
<1>4. \A d : AudioUnit!Now(d) = Now(d)
  BY <1>2, <1>3 DEF Now, AudioUnit!Now
<1>5. \A x, type, p : AudioUnit!Entry(x, type, p) = Entry(x, type, p)
  BY DEF Entry, AudioUnit!Entry
<1>6. \A devs : AudioUnit!InOrder(devs) = InOrder(devs)
  BY DEF InOrder, AudioUnit!InOrder
<1>7. (AudioUnit!Works <=> Works) /\ (AudioUnit!Breaks <=> Breaks)
  BY DEF Works, Breaks, system, AudioUnit!Works, AudioUnit!Breaks, AudioUnit!system
<1>8. \A x : AudioUnit!PlugOrUnplug(x) <=> PlugOrUnplug(x)
  BY DEF PlugOrUnplug, Changed, Noted, known, InOrder, ToSet, Last, AudioUnit!PlugOrUnplug,
       AudioUnit!Changed, AudioUnit!Noted, AudioUnit!known, AudioUnit!InOrder, AudioUnit!ToSet,
       AudioUnit!Last
<1>9. (UNCHANGED AudioUnit!known) <=> (UNCHANGED known)
  BY DEF known, AudioUnit!known
<1>10. AudioUnit!Idle <=> Idle
  BY DEF Idle, AudioUnit!Idle
<1>11. \A dirs : AudioUnit!MayRegister(dirs) <=> MayRegister(dirs)
  BY DEF MayRegister, Idle, AudioUnit!MayRegister, AudioUnit!Idle
<1>12. \A dirs : AudioUnit!MayUnregister(dirs) <=> MayUnregister(dirs)
  BY DEF MayUnregister, Idle, AudioUnit!MayUnregister, AudioUnit!Idle
<1>13. AudioUnit!MayDestroy <=> MayDestroy
  BY DEF MayDestroy, Idle, AudioUnit!MayDestroy, AudioUnit!Idle
<1>14. \A op, dirs, at : AudioUnit!Enter(op, dirs, at) <=> Enter(op, dirs, at)
  BY DEF Enter, In, NoCall, known, AudioUnit!Enter, AudioUnit!In, AudioUnit!NoCall, AudioUnit!known
<1>15. \A at : AudioUnit!Goto(at) <=> Goto(at)
  BY DEF Goto, known, AudioUnit!Goto, AudioUnit!known
<1>16. \A op, dirs : AudioUnit!Accept(op, dirs) <=> Accept(op, dirs)
  BY DEF Accept, NoCall, Forget, Dirs, Unseen, AudioUnit!Accept, AudioUnit!NoCall,
       AudioUnit!Forget, AudioUnit!Dirs, AudioUnit!Unseen
<1>17. AudioUnit!Refuse <=> Refuse
  BY DEF Refuse, NoCall, known, AudioUnit!Refuse, AudioUnit!NoCall, AudioUnit!known
<1>18. AudioUnit!Failed <=> Failed
  BY DEF Failed, NoCall, AudioUnit!Failed, AudioUnit!NoCall
<1>19. \A d : AudioUnit!Tell(d) <=> Tell(d)
  BY DEF Tell, AudioUnit!Tell
<1>20. \A dirs, at : AudioUnit!Begin(dirs, at) <=> Begin(dirs, at)
  BY DEF Begin, Idle, In, NoCall, Forget, Dirs, Unseen, AudioUnit!Begin, AudioUnit!Idle,
       AudioUnit!In, AudioUnit!NoCall, AudioUnit!Forget, AudioUnit!Dirs, AudioUnit!Unseen
<1>21. \A S : AudioUnit!SetToSeq(S) = SetToSeq(S)
  BY DEF SetToSeq, IsInjective, Cardinality, AudioUnit!SetToSeq, AudioUnit!IsInjective,
       AudioUnit!Cardinality
<1> QED BY <1>1, <1>2, <1>3, <1>4, <1>5, <1>6, <1>7, <1>8, <1>9, <1>10, <1>11, <1>12, <1>13, <1>14, <1>15, <1>16, <1>17, <1>18, <1>19, <1>20, <1>21

\* Only who registers is told, whatever fails.
ToldOnly == due' \ due \subseteq registered' \cup call.dirs

\* Nothing is said of lists while there is no enumeration.
LEMMA AudioUnitIdle == ~Enumerating' => AudioUnitLists'
BY DEF AudioUnitLists

\* What an enumeration has stays right when neither it nor the devices move.
LEMMA AudioUnitStays ==
  ASSUME AudioUnitLists, present' = present, call' = call, failures' = failures \/ failures' > 0
  PROVE  AudioUnitLists'
<1>1. \A d : /\ AudioUnitLooked(d, {}) => AudioUnitLooked(d, {})'
             /\ AudioUnitLooked(d, Paired(d)) => AudioUnitLooked(d, Paired(d))'
             /\ Sound(d) => Sound(d)'
  BY DEF AudioUnitLooked, Covered, Sound, Now, Paired
<1> QED BY <1>1 DEF AudioUnitLists, Enumerating

\* A device comes or goes: the listener dispatches a block, and an enumeration notes it.
LEMMA AudioUnitChange ==
  ASSUME Types, AudioUnitTells, AudioUnitLists, AudioUnit!Change
  PROVE  Types' /\ AudioUnitTells' /\ AudioUnitLists' /\ ToldOnly
<1> PICK x \in Devices :
      /\ PlugOrUnplug(x) /\ UNCHANGED failures
      /\ \E b, m : st' = [st EXCEPT !.blocks = b, !.missed = m]
  BY AudioUnitSame DEF AudioUnit!Change
<1>1. /\ present' \in Orders /\ registered' = registered /\ due' = due
      /\ call' = [op |-> call.op, at |-> call.at, dirs |-> call.dirs, todo |-> call.todo,
                     found |-> call.found, preferred |-> call.preferred, touched |-> call'.touched]
      /\ CallType'
  BY Plugged
<1>2. Types'
  BY <1>1 DEF Types, SystemTypes, KnownTypes
<1>3. AudioUnitTells'
  <2> PICK b, m : st' = [st EXCEPT !.blocks = b, !.missed = m]
    OBVIOUS
  <2>1. st' = [open |-> st.open, callbacks |-> st.callbacks, listening |-> st.listening, blocks |-> b,
              device_array |-> st.device_array, missed |-> m]
    BY DEF AudioUnitTells
  <2> QED BY <2>1, <1>1 DEF AudioUnitTells
<1>4. AudioUnitLists'
  <2>1. CASE ~Enumerating
    BY <2>1, <1>1, AudioUnitIdle DEF Enumerating
  <2>2. CASE Enumerating
    <3>1. \A d : /\ Now(d)' \ call'.touched \subseteq Now(d) \ call.touched
                 /\ Now(d) \cup On(d, call.touched) \subseteq Now(d)' \cup On(d, call'.touched)
      BY <2>2, Plugged
    <3>2. call'.found = call.found /\ call'.todo = call.todo /\ call'.at = call.at /\ call'.dirs = call.dirs
      BY <1>1
    <3>3. \A d : /\ Covered(d, {}) => Covered(d, {})'
                 /\ Covered(d, Paired(d)) => Covered(d, Paired(d))'
                 /\ Sound(d) => Sound(d)'
      BY <3>1, <3>2 DEF Covered, Sound, Paired
    <3>4. \A d : /\ AudioUnitLooked(d, {}) => AudioUnitLooked(d, {})'
                 /\ AudioUnitLooked(d, Paired(d)) => AudioUnitLooked(d, Paired(d))'
      BY <3>2, <3>3 DEF AudioUnitLooked
    <3> QED BY <3>2, <3>3, <3>4, <2>2 DEF AudioUnitLists, Enumerating
  <2> QED BY <2>1, <2>2
<1> QED BY <1>1, <1>2, <1>3, <1>4 DEF ToldOnly

\* A call begins, and but for an enumeration ends: callbacks come with the registration.
LEMMA AudioUnitCalls ==
  ASSUME Types, AudioUnitTells, AudioUnitLists, AudioUnit!Calls
  PROVE  Types' /\ AudioUnitTells' /\ AudioUnitLists' /\ ToldOnly
<1>1. ASSUME NEW dirs \in SUBSET Dirs, AudioUnit!audiounit_add_device_listener(dirs)
      PROVE  Types' /\ AudioUnitTells' /\ AudioUnitLists' /\ ToldOnly
  <2>1. CASE /\ Accept("register", dirs) /\ SystemTypes'
             /\ \E array : st' = [st EXCEPT !.listening = TRUE, !.callbacks = @ \cup dirs, !.device_array = array]
    <3> PICK array : st' = [st EXCEPT !.listening = TRUE, !.callbacks = @ \cup dirs, !.device_array = array]
      BY <2>1
    <3>1. /\ call' = NoCall /\ CallType' /\ KnownTypes' /\ due' \ due \subseteq registered'
          /\ registered' = registered \cup dirs
      BY <2>1, ClientSteps DEF Accept
    <3>2. st' = [open |-> st.open, callbacks |-> st.callbacks \cup dirs, listening |-> TRUE,
                blocks |-> st.blocks, device_array |-> array, missed |-> st.missed]
      BY DEF AudioUnitTells
    <3>3. AudioUnitTells' /\ ~Enumerating'
      BY <3>1, <3>2 DEF AudioUnitTells, Enumerating, NoCall
    <3> QED BY <2>1, <3>1, <3>3, AudioUnitIdle DEF Types, ToldOnly
  <2>2. CASE Breaks /\ Refuse /\ UNCHANGED st
    <3>1. /\ call' = NoCall /\ CallType' /\ KnownTypes' /\ due' = due /\ registered' = registered
      BY <2>2, ClientSteps
    <3>2. SystemTypes' /\ AudioUnitTells' /\ ~Enumerating'
      BY <2>2, <3>1, SystemSteps DEF Types, AudioUnitTells, Enumerating, NoCall
    <3> QED BY <3>1, <3>2, AudioUnitIdle DEF Types, ToldOnly
  <2>3. \/ /\ Works \/ Breaks
           /\ Accept("register", dirs)
           /\ \E array : st' = [st EXCEPT !.listening = TRUE, !.callbacks = @ \cup dirs, !.device_array = array]
        \/ Breaks /\ Refuse /\ UNCHANGED st
    BY <1>1, AudioUnitSame DEF AudioUnit!audiounit_add_device_listener
  <2> QED BY <2>1, <2>2, <2>3, SystemSteps DEF Types
<1>2. ASSUME NEW dirs \in SUBSET Dirs, AudioUnit!audiounit_remove_device_listener(dirs)
      PROVE  Types' /\ AudioUnitTells' /\ AudioUnitLists' /\ ToldOnly
  <2> DEFINE left == st.callbacks \ dirs
  <2>1. CASE /\ Works /\ Accept("unregister", dirs)
             /\ \E array, l : st' = [st EXCEPT !.callbacks = left, !.device_array = array, !.listening = l]
    <3> PICK array, l : st' = [st EXCEPT !.callbacks = left, !.device_array = array, !.listening = l]
      BY <2>1
    <3>1. /\ call' = NoCall /\ CallType' /\ KnownTypes' /\ due' \ due \subseteq registered'
          /\ registered' = registered \ dirs /\ SystemTypes'
      BY <2>1, ClientSteps, SystemSteps DEF Accept, Types
    <3>2. st' = [open |-> st.open, callbacks |-> left, listening |-> l,
                blocks |-> st.blocks, device_array |-> array, missed |-> st.missed]
      BY DEF AudioUnitTells
    <3>3. AudioUnitTells' /\ ~Enumerating'
      BY <3>1, <3>2 DEF AudioUnitTells, Enumerating, NoCall
    <3> QED BY <3>1, <3>3, AudioUnitIdle DEF Types, ToldOnly
  <2>2. CASE /\ Breaks /\ Refuse
             /\ \E array, m : st' = [st EXCEPT !.callbacks = left, !.device_array = array, !.missed = m]
    <3> PICK array, m : st' = [st EXCEPT !.callbacks = left, !.device_array = array, !.missed = m]
      BY <2>2
    <3>1. /\ call' = NoCall /\ CallType' /\ KnownTypes' /\ due' = due /\ registered' = registered /\ SystemTypes'
      BY <2>2, ClientSteps, SystemSteps DEF Types
    <3>2. st' = [open |-> st.open, callbacks |-> left, listening |-> st.listening,
                blocks |-> st.blocks, device_array |-> array, missed |-> m]
      BY DEF AudioUnitTells
    <3>3. AudioUnitTells' /\ ~Enumerating'
      BY <3>1, <3>2 DEF AudioUnitTells, Enumerating, NoCall
    <3> QED BY <3>1, <3>3, AudioUnitIdle DEF Types, ToldOnly
  <2>3. \/ /\ Works /\ Accept("unregister", dirs)
           /\ \E array, l : st' = [st EXCEPT !.callbacks = left, !.device_array = array, !.listening = l]
        \/ /\ Breaks /\ Refuse
           /\ \E array, m : st' = [st EXCEPT !.callbacks = left, !.device_array = array, !.missed = m]
    BY <1>2, AudioUnitSame DEF AudioUnit!audiounit_remove_device_listener
  <2> QED BY <2>1, <2>2, <2>3
<1>3. CASE AudioUnit!audiounit_enumerate_devices
  <2>1. /\ SystemTypes' /\ failures' = failures /\ st' = [st EXCEPT !.missed = @ \ due]
        /\ Begin(due, "outputs") /\ due \subseteq Dirs
    BY <1>3, SystemSteps, AudioUnitSame DEF AudioUnit!audiounit_enumerate_devices, Types, KnownTypes
  <2>2. /\ call'.op = "enumerate" /\ call'.at = "outputs" /\ call'.found = {} /\ call'.todo = <<>>
        /\ CallType' /\ KnownTypes' /\ due' \subseteq due /\ registered' = registered
    BY <2>1, ClientSteps
  <2>3. st' = [open |-> st.open, callbacks |-> st.callbacks, listening |-> st.listening,
              blocks |-> st.blocks, device_array |-> st.device_array, missed |-> st.missed \ due]
    BY <2>1 DEF AudioUnitTells
  <2>4. AudioUnitTells'
    BY <2>2, <2>3 DEF AudioUnitTells
  <2>5. \A d : Sound(d)'
    BY <2>2, DevsFacts DEF Sound
  <2>6. AudioUnitLists'
    BY <2>2, <2>5 DEF AudioUnitLists
  <2> QED BY <2>1, <2>2, <2>4, <2>6 DEF Types, ToldOnly
<1>4. CASE AudioUnit!audiounit_destroy
  <2>1. /\ SystemTypes' /\ KnownTypes' /\ CallType' /\ present' = present /\ failures' = failures /\ due' = due
        /\ registered' = registered /\ call' = call /\ st' = [st EXCEPT !.open = FALSE]
    BY <1>4, SystemSteps, ClientSteps, AudioUnitSame DEF AudioUnit!audiounit_destroy, Types
  <2>2. st' = [open |-> FALSE, callbacks |-> st.callbacks, listening |-> st.listening,
              blocks |-> st.blocks, device_array |-> st.device_array, missed |-> st.missed]
    BY <2>1 DEF AudioUnitTells
  <2>3. AudioUnitTells' /\ AudioUnitLists'
    BY <2>1, <2>2, AudioUnitStays DEF AudioUnitTells
  <2> QED BY <2>1, <2>3 DEF Types, ToldOnly
<1> QED BY <1>1, <1>2, <1>3, <1>4, AudioUnitSame DEF AudioUnit!Calls

\* One side of the block.
LEMMA AudioUnitCompares ==
  ASSUME Types, AudioUnitTells, AudioUnitLists, UNCHANGED call, NEW d \in Dirs, NEW s,
         s = [open |-> st.open, callbacks |-> st.callbacks, listening |-> st.listening,
              blocks |-> s.blocks, device_array |-> s.device_array, missed |-> s.missed],
         AudioUnit!Compare(d, s)
  PROVE  Types' /\ AudioUnitTells' /\ AudioUnitLists' /\ ToldOnly
<1>1. Works \/ Breaks
  BY AudioUnitSame DEF AudioUnit!Compare, AudioUnit!Got
<1>2. /\ SystemTypes' /\ present' = present /\ (failures' = failures \/ failures' > 0)
      /\ CallType' /\ call' = call
  BY <1>1, SystemSteps, ClientSteps DEF Types
<1>3. AudioUnitLists'
  BY <1>2, AudioUnitStays
<1>4. CASE (st' = s \/ \E m : st' = [s EXCEPT !.missed = m]) /\ UNCHANGED known
  <2>1. KnownTypes' /\ due' = due /\ registered' = registered
    BY <1>4, ClientSteps
  <2>2. st' = [open |-> st.open, callbacks |-> st.callbacks, listening |-> st.listening,
              blocks |-> st'.blocks, device_array |-> st'.device_array, missed |-> st'.missed]
    BY <1>4
  <2>3. AudioUnitTells'
    BY <2>1, <2>2 DEF AudioUnitTells
  <2> QED BY <1>2, <1>3, <2>1, <2>3 DEF Types, ToldOnly
<1>5. CASE d \in s.callbacks /\ Tell(d) /\ \E devs : st' = [s EXCEPT !.device_array[d] = devs]
  <2>1. due' = due \cup {d} /\ registered' = registered
    BY <1>5 DEF Tell
  <2>2. KnownTypes' /\ d \in registered
    BY <1>5, <2>1 DEF Types, KnownTypes, AudioUnitTells
  <2>3. st' = [open |-> st.open, callbacks |-> st.callbacks, listening |-> st.listening,
              blocks |-> st'.blocks, device_array |-> st'.device_array, missed |-> st'.missed]
    BY <1>5
  <2>4. AudioUnitTells'
    BY <2>1, <2>3 DEF AudioUnitTells
  <2> QED BY <1>2, <1>3, <2>1, <2>2, <2>4 DEF Types, ToldOnly
<1> QED BY <1>4, <1>5, AudioUnitSame DEF AudioUnit!Compare

\* The block tells of those sides whose devices it sees changed.
LEMMA AudioUnitThread ==
  ASSUME Types, AudioUnitTells, AudioUnitLists, AudioUnit!Thread
  PROVE  Types' /\ AudioUnitTells' /\ AudioUnitLists' /\ ToldOnly
<1>0. call' = call /\ "input" \in Dirs /\ "output" \in Dirs
  BY Names DEF AudioUnit!Thread, AudioUnit!audiounit_collection_changed_callback, AudioUnit!Output
<1>1. CASE AudioUnit!audiounit_collection_changed_callback
  <2> DEFINE taken == [st EXCEPT !.blocks = @ - 1]
  <2>0. taken = [open |-> st.open, callbacks |-> st.callbacks, listening |-> st.listening,
              blocks |-> taken.blocks, device_array |-> taken.device_array, missed |-> taken.missed]
    BY DEF AudioUnitTells
  <2>1. CASE Works /\ UNCHANGED known /\ (st' = st \/ st' = taken)
    <3> HIDE DEF taken
    <3>1. /\ SystemTypes' /\ KnownTypes' /\ CallType' /\ present' = present /\ failures' = failures /\ due' = due
          /\ registered' = registered
      BY <1>0, <2>1, SystemSteps, ClientSteps DEF Types
    <3>2. AudioUnitLists'
      BY <1>0, <3>1, AudioUnitStays
    <3>3. AudioUnitTells'
      BY <2>0, <2>1, <3>1 DEF AudioUnitTells
    <3> QED BY <3>1, <3>2, <3>3 DEF Types, ToldOnly
  <2>2. CASE AudioUnit!Compare("input", taken)
    <3> HIDE DEF taken
    <3> QED BY <1>0, <2>0, <2>2, AudioUnitCompares
  <2> QED BY <1>1, <2>1, <2>2, AudioUnitSame DEF AudioUnit!audiounit_collection_changed_callback
<1>2. CASE AudioUnit!Output
  <2>1. AudioUnit!Compare("output", st)
    BY <1>2 DEF AudioUnit!Output
  <2>2. st = [open |-> st.open, callbacks |-> st.callbacks, listening |-> st.listening,
              blocks |-> st.blocks, device_array |-> st.device_array, missed |-> st.missed]
    BY DEF AudioUnitTells
  <2> QED BY <1>0, <2>1, <2>2, AudioUnitCompares
<1> QED BY <1>1, <1>2 DEF AudioUnit!Thread

\* The list is handed over.
LEMMA AudioUnitDone ==
  ASSUME Types, AudioUnitTells, Done
  PROVE  Types' /\ AudioUnitTells' /\ AudioUnitLists' /\ ToldOnly
<1>1. ~Enumerating'
  BY DoneStep DEF NoCall, Enumerating
<1> QED BY <1>1, DoneStep, AudioUnitIdle DEF AudioUnitTells, ToldOnly

\* The devices of one side, one after the other, are those still to be described.
Queue(devs, d) == SetToSeq(devs \X {d})
Adds(t, s, devs, d) == t \in Seq(Devices \X Dirs) /\ \A x, e :
                         <<x, e>> \in ToSet(t) <=> <<x, e>> \in ToSet(s) \/ (x \in devs /\ e = d)
\* What was found of one side is queued for its description.
LEMMA Queued ==
  ASSUME NEW devs, devs \subseteq Devices, NEW d \in Dirs, NEW s \in Seq(Devices \X Dirs)
  PROVE  Adds(s \o Queue(devs, d), s, devs, d)
<1> DEFINE S == devs \X {d}
<1>1. IsFiniteSet(S)
  <2>1. IsFiniteSet(Devices)
    <3>1. IsFiniteSet({"mic"}) /\ {"mic"} \cup {"headset"} = Devices
      BY Names, FS_Singleton
    <3>2. IsFiniteSet({"mic"} \cup {"headset"})
      BY <3>1, FS_AddElement
    <3> QED BY <3>1, <3>2
  <2>2. IsFiniteSet(devs)
    BY <2>1, FS_Subset
  <2>3. IsFiniteSet({d})
    BY FS_Singleton
  <2> QED BY <2>2, <2>3, FS_Product
<1>2. SetToSeq(S) \in Seq(S) /\ ToSet(SetToSeq(S)) = S
  BY <1>1, SetToSeqFacts
<1>3. S \subseteq Devices \X Dirs
  OBVIOUS
<1> DEFINE t == Queue(devs, d)
<1>9. t = SetToSeq(S)
  BY DEF Queue
<1> HIDE DEF t, S
<1>4. t \in Seq(Devices \X Dirs) /\ ToSet(t) = S
  BY <1>2, <1>3, <1>9
<1>5. s \o t \in Seq(Devices \X Dirs) /\ ToSet(s \o t) = ToSet(s) \cup S
  BY <1>4, JoinFacts
<1> QED BY <1>5 DEF t, S, Adds

\* The outputs are looked up, then the inputs; what was found is described one by one.
LEMMA AudioUnitClient ==
  ASSUME Types, AudioUnitTells, AudioUnitLists, AudioUnit!Client
  PROVE  Types' /\ AudioUnitTells' /\ AudioUnitLists' /\ ToldOnly
<1>0. "input" \in Dirs /\ "output" \in Dirs /\ Dirs = {"input", "output"}
  BY Names
<1>1. CASE AudioUnit!Lookup
  <2> DEFINE side == IF call.at = "outputs" THEN "output" ELSE "input"
             after == IF side = "output" THEN "inputs" ELSE "create"
             missed(devs) == IF side \in call.dirs /\ devs # AudioUnit!Now(side)
                             THEN st.missed \cup {side} ELSE st.missed
  <2>1. PICK devs \in {AudioUnit!Now(side), {}} :
          /\ IF side \in call.dirs THEN AudioUnit!Got(side, devs) ELSE AudioUnit!Works /\ devs = {}
          /\ st' = [st EXCEPT !.missed = missed(devs)]
          /\ call' = [call EXCEPT !.at = after, !.todo = @ \o AudioUnit!SetToSeq(devs \X {side})]
    BY <1>1 DEF AudioUnit!Lookup
  <2>2. call.at \in {"outputs", "inputs"} /\ thread' = thread /\ UNCHANGED known
    BY <1>1, AudioUnitSame DEF AudioUnit!Lookup
  <2>10. PICK d \in Dirs : d = side
    BY <1>0
  <2>11. PICK at : at = after
    OBVIOUS
  <2> HIDE DEF missed
  <2>12. \/ call.at = "outputs" /\ d = "output" /\ at = "inputs"
         \/ call.at = "inputs" /\ d = "input" /\ at = "create"
    <3>1. CASE call.at = "outputs"
      <4>1. side = "output"
        BY <3>1
      <4>2. after = "inputs"
        BY <4>1
      <4>3. d = "output" /\ at = "inputs"
        BY <4>1, <4>2, <2>10, <2>11
      <4> QED BY <3>1, <4>3
    <3>2. CASE call.at = "inputs"
      <4>1. side = "input"
        BY <3>2
      <4>2. after = "create"
        BY <4>1
      <4> HIDE DEF side, after
      <4> QED BY <3>2, <4>1, <4>2, <2>10, <2>11
    <3> QED BY <3>1, <3>2, <2>2
  <2>13. /\ devs \subseteq Now(d)
         /\ \/ Works /\ (d \in call.dirs => devs = Now(d))
            \/ Breaks
    BY <2>1, <2>10, AudioUnitSame DEF AudioUnit!Got
  <2>14. call' = [call EXCEPT !.at = at, !.todo = @ \o Queue(devs, d)]
    BY <2>1, <2>10, <2>11, AudioUnitSame DEF Queue
  <2> HIDE DEF side, after
  <2>3. call' = [op |-> call.op, at |-> at, dirs |-> call.dirs, todo |-> call.todo \o Queue(devs, d),
                 found |-> call.found, preferred |-> call.preferred, touched |-> call.touched]
    BY <2>14 DEF Types, CallType
  <2>4. CallType' /\ call'.at = at /\ call'.dirs = call.dirs /\ call'.found = call.found /\ call'.op = call.op
        /\ call'.touched = call.touched /\ call'.todo = call.todo \o Queue(devs, d)
    BY <2>3 DEF Types, CallType
  <2>5. /\ SystemTypes' /\ present' = present /\ (failures' = failures \/ failures' > 0)
        /\ KnownTypes' /\ due' = due /\ registered' = registered
    BY <2>2, <2>13, SystemSteps, ClientSteps DEF Types
  <2>6. AudioUnitTells'
    <3> PICK m : st' = [st EXCEPT !.missed = m]
      BY <2>1
    <3>1. st' = [open |-> st.open, callbacks |-> st.callbacks, listening |-> st.listening, blocks |-> st.blocks,
                device_array |-> st.device_array, missed |-> m]
      BY DEF AudioUnitTells
    <3> QED BY <3>1, <2>5 DEF AudioUnitTells
  <2>7. AudioUnitLists'
    <3>1. CASE ~Enumerating
      BY <3>1, <2>4, AudioUnitIdle DEF Enumerating
    <3>2. CASE Enumerating
      <4>1. call.found = {} /\ call.todo \in Seq(Devices \X Dirs) /\ (call.at = "outputs" => call.todo = <<>>)
        BY <2>2, <3>2 DEF AudioUnitLists
      <4>2. devs \subseteq Devices
        BY <2>13, PresentFacts DEF Now, On, Types, SystemTypes
      <4>4. /\ call'.todo \in Seq(Devices \X Dirs)
            /\ \A x, e : <<x, e>> \in ToSet(call'.todo) <=> <<x, e>> \in ToSet(call.todo) \/ (x \in devs /\ e = d)
        <5>1. Adds(call.todo \o Queue(devs, d), call.todo, devs, d)
          BY <4>1, <4>2, Queued
        <5> QED BY <5>1, <2>4 DEF Adds
      <4>5. \A e : Paired(e)' = IF e = d THEN Paired(e) \cup devs ELSE Paired(e)
        BY <4>2, <4>4 DEF Paired
      <4>6. \A e : Now(e)' = Now(e) /\ Devs(call'.found, e) = {}
        BY <2>4, <2>5, <4>1, DevsFacts DEF Now
      <4>7. \A e : Sound(e)'
        BY <4>6 DEF Sound
      <4>8. AudioUnitLooked(d, Paired(d))'
        <5>1. CASE failures' > 0
          BY <5>1 DEF AudioUnitLooked
        <5>2. CASE d \notin call.dirs
          BY <5>2, <2>4 DEF AudioUnitLooked
        <5>3. CASE d \in call.dirs /\ devs = Now(d)
          BY <5>3, <4>5, <4>6 DEF AudioUnitLooked, Covered
        <5> QED BY <5>1, <5>2, <5>3, <2>13, SystemSteps DEF Types
      <4>9. CASE call.at = "outputs"
        <5>1. AudioUnitLooked("output", Paired("output"))'
          BY <4>8, <4>9, <2>12
        <5>2. call'.at = "inputs"
          BY <4>9, <2>4, <2>12
        <5> QED BY <2>4, <3>2, <4>1, <4>4, <4>7, <5>1, <5>2 DEF AudioUnitLists, Enumerating
      <4>10. CASE call.at = "inputs"
        <5>1. AudioUnitLooked("output", Paired("output"))
          BY <3>2, <4>10 DEF AudioUnitLists
        <5>2. AudioUnitLooked("output", Paired("output"))'
          <6>1. Paired("output")' = Paired("output")
            BY <4>5, <4>10, <2>12
          <6>2. Now("output")' = Now("output") /\ Devs(call.found, "output")' = Devs(call.found, "output")
            BY <4>6, <2>4
          <6> QED BY <5>1, <6>1, <6>2, <2>4, <2>5 DEF AudioUnitLooked, Covered
        <5>3. AudioUnitLooked("input", Paired("input"))'
          BY <4>8, <4>10, <2>12
        <5>4. call'.at = "create"
          BY <4>10, <2>4, <2>12
        <5> QED BY <2>4, <3>2, <4>1, <4>4, <4>7, <5>2, <5>3, <5>4 DEF AudioUnitLists, Enumerating
      <4> QED BY <2>2, <4>9, <4>10
    <3> QED BY <3>1, <3>2
  <2> QED BY <2>4, <2>5, <2>6, <2>7 DEF Types, ToldOnly
<1>2. CASE AudioUnit!audiounit_create_device_from_hwdev
  <2>1. /\ SystemTypes' /\ present' = present /\ failures' = failures /\ call.at = "create" /\ st' = st
        /\ KnownTypes' /\ due' = due /\ registered' = registered
    BY <1>2, SystemSteps, ClientSteps, AudioUnitSame DEF AudioUnit!audiounit_create_device_from_hwdev, Types
  <2>2. AudioUnitTells'
    BY <2>1 DEF AudioUnitTells
  <2>3. \A e : Now(e)' = Now(e)
    BY <2>1 DEF Now
  <2>4. CASE call.todo = <<>>
    <3>1. call' = [call EXCEPT !.at = "done"]
      BY <1>2, <2>4 DEF AudioUnit!audiounit_create_device_from_hwdev
    <3>2. CallType' /\ call'.at = "done" /\ call'.dirs = call.dirs /\ call'.found = call.found
          /\ call'.touched = call.touched /\ call'.todo = call.todo /\ call'.op = call.op
      BY <3>1 DEF Types, CallType
    <3>3. ToSet(call.todo) = {}
      BY <2>4 DEF ToSet
    <3>4. \A e : Paired(e) = {}
      BY <3>3 DEF Paired
    <3>5. \A e : /\ AudioUnitLooked(e, Paired(e)) => AudioUnitLooked(e, {})'
                 /\ Sound(e) => Sound(e)'
      BY <2>1, <2>3, <3>2, <3>4 DEF AudioUnitLooked, Covered, Sound
    <3>6. AudioUnitLists'
      BY <1>0, <2>1, <3>2, <3>5 DEF AudioUnitLists, Enumerating
    <3> QED BY <2>1, <2>2, <3>2, <3>6 DEF Types, ToldOnly
  <2>5. CASE call.todo # <<>>
    <3> DEFINE x == Head(call.todo)[1]
               d == Head(call.todo)[2]
               new == IF x \notin Now(d) THEN {} ELSE {Entry(x, {d}, FALSE)}
    <3>1. call' = [call EXCEPT !.todo = Tail(@), !.found = @ \cup new]
      BY <1>2, <2>5, AudioUnitSame DEF AudioUnit!audiounit_create_device_from_hwdev, Types, CallType
    <3>2. CallType' /\ call'.at = call.at /\ call'.dirs = call.dirs /\ call'.found = call.found \cup new
          /\ call'.touched = call.touched /\ call'.todo = Tail(call.todo) /\ call'.op = call.op
      BY <3>1 DEF Types, CallType
    <3>3. \A e : Devs(new, e) = IF x \in Now(d) /\ e = d THEN {x} ELSE {}
      <4> HIDE DEF x, d
      <4>1. CASE x \in Now(d)
        <5>1. new = {Entry(x, {d}, FALSE)}
          BY <4>1
        <5> HIDE DEF new
        <5>2. ASSUME NEW e PROVE Devs({Entry(x, {d}, FALSE)}, e) = IF e \in {d} THEN {x} ELSE {}
          BY DevsFacts
        <5> QED BY <5>1, <5>2, <4>1
      <4>2. CASE x \notin Now(d)
        <5>1. new = {}
          BY <4>2
        <5> HIDE DEF new
        <5> QED BY <5>1, <4>2, DevsFacts
      <4> QED BY <4>1, <4>2
    <3>4. \A e : Devs(call'.found, e) = Devs(call.found, e) \cup (IF x \in Now(d) /\ e = d THEN {x} ELSE {})
      <4>1. \A e : Devs(call'.found, e) = Devs(call.found, e) \cup Devs(new, e)
        <5> HIDE DEF new
        <5> QED BY <3>2, DevsFacts
      <4> QED BY <3>3, <4>1
    <3>5. CASE ~Enumerating
      <4>1. AudioUnitLists'
        BY <3>5, <3>2, AudioUnitIdle DEF Enumerating
      <4> QED BY <2>1, <2>2, <3>2, <4>1 DEF Types, ToldOnly
    <3>6. CASE Enumerating
      <4>1. call.todo \in Seq(Devices \X Dirs)
        BY <3>6 DEF AudioUnitLists
      <4>2. /\ Head(call.todo) = <<x, d>> /\ x \in Devices /\ d \in Dirs /\ call'.todo \in Seq(Devices \X Dirs)
            /\ ToSet(call.todo) = {<<x, d>>} \cup ToSet(call'.todo)
        BY <2>5, <3>2, <4>1, TodoFacts
      <4> HIDE DEF x, d, new
      <4>3. \A e : Paired(e) = Paired(e)' \cup (IF e = d THEN {x} ELSE {})
        BY <4>2 DEF Paired
      <4>4. \A e : Covered(e, Paired(e)) => Covered(e, Paired(e))'
        <5> SUFFICES ASSUME NEW e, Covered(e, Paired(e)) PROVE Covered(e, Paired(e))'
          OBVIOUS
        <5>1. \A y \in Now(e) \ call.touched : y \in Devs(call.found, e) \/ y \in Paired(e)
          BY DEF Covered
        <5>2. \A y \in Now(e) \ call.touched : y \in Devs(call'.found, e) \/ y \in Paired(e)'
          BY <5>1, <3>4, <4>3
        <5> QED BY <5>2, <2>3, <3>2 DEF Covered
      <4>5. \A e : Sound(e) => Sound(e)'
        BY <2>3, <3>2, <3>4 DEF Sound
      <4>6. \A e : AudioUnitLooked(e, Paired(e)) => AudioUnitLooked(e, Paired(e))'
        BY <2>1, <3>2, <4>4 DEF AudioUnitLooked
      <4>7. AudioUnitLists'
        BY <2>1, <3>2, <4>2, <4>5, <4>6 DEF AudioUnitLists, Enumerating
      <4> QED BY <2>1, <2>2, <3>2, <4>7 DEF Types, ToldOnly
    <3> QED BY <3>5, <3>6
  <2> QED BY <2>4, <2>5
<1> QED BY <1>1, <1>2 DEF AudioUnit!Client

-----------------------------------------------------------------------------
\* The backends that tell of no change.

\* DeviceLists has the client and the system of DeviceClient, as it stands here.
LEMMA ListsSame ==
  /\ Lists!Dirs = Dirs /\ Lists!Devices = Devices /\ Lists!Sides = Sides
  /\ \A s : Lists!ToSet(s) = ToSet(s)
  /\ \A d, devs : Lists!On(d, devs) = On(d, devs)
  /\ \A d : Lists!Now(d) = Now(d)
  /\ \A x, type, p : Lists!Entry(x, type, p) = Entry(x, type, p)
  /\ \A devs : Lists!InOrder(devs) = InOrder(devs)
  /\ (Lists!Works <=> Works) /\ (Lists!Breaks <=> Breaks)
  /\ \A x : Lists!PlugOrUnplug(x) <=> PlugOrUnplug(x)
  /\ (UNCHANGED Lists!known) <=> (UNCHANGED known)
  /\ Lists!Idle <=> Idle
  /\ \A dirs : Lists!MayRegister(dirs) <=> MayRegister(dirs)
  /\ \A dirs : Lists!MayUnregister(dirs) <=> MayUnregister(dirs)
  /\ Lists!MayDestroy <=> MayDestroy
  /\ \A op, dirs, at : Lists!Enter(op, dirs, at) <=> Enter(op, dirs, at)
  /\ \A at : Lists!Goto(at) <=> Goto(at)
  /\ \A op, dirs : Lists!Accept(op, dirs) <=> Accept(op, dirs)
  /\ Lists!Refuse <=> Refuse
  /\ Lists!Failed <=> Failed
  /\ \A d : Lists!Tell(d) <=> Tell(d)
  /\ \A dirs, at : Lists!Begin(dirs, at) <=> Begin(dirs, at)
  /\ \A S : Lists!SetToSeq(S) = SetToSeq(S)
<1>1. Lists!Dirs = Dirs /\ Lists!Devices = Devices /\ Lists!Sides = Sides
  BY DEF Dirs, Devices, Sides, Lists!Dirs, Lists!Devices, Lists!Sides
<1>2. \A s : Lists!ToSet(s) = ToSet(s)
  BY DEF ToSet, Lists!ToSet
<1>3. \A d, devs : Lists!On(d, devs) = On(d, devs)
  BY <1>1 DEF On, Lists!On
<1>4. \A d : Lists!Now(d) = Now(d)
  BY <1>2, <1>3 DEF Now, Lists!Now
<1>5. \A x, type, p : Lists!Entry(x, type, p) = Entry(x, type, p)
  BY DEF Entry, Lists!Entry
<1>6. \A devs : Lists!InOrder(devs) = InOrder(devs)
  BY DEF InOrder, Lists!InOrder
<1>7. (Lists!Works <=> Works) /\ (Lists!Breaks <=> Breaks)
  BY DEF Works, Breaks, system, Lists!Works, Lists!Breaks, Lists!system
<1>8. \A x : Lists!PlugOrUnplug(x) <=> PlugOrUnplug(x)
  BY DEF PlugOrUnplug, Changed, Noted, known, InOrder, ToSet, Last, Lists!PlugOrUnplug,
       Lists!Changed, Lists!Noted, Lists!known, Lists!InOrder, Lists!ToSet, Lists!Last
<1>9. (UNCHANGED Lists!known) <=> (UNCHANGED known)
  BY DEF known, Lists!known
<1>10. Lists!Idle <=> Idle
  BY DEF Idle, Lists!Idle
<1>11. \A dirs : Lists!MayRegister(dirs) <=> MayRegister(dirs)
  BY DEF MayRegister, Idle, Lists!MayRegister, Lists!Idle
<1>12. \A dirs : Lists!MayUnregister(dirs) <=> MayUnregister(dirs)
  BY DEF MayUnregister, Idle, Lists!MayUnregister, Lists!Idle
<1>13. Lists!MayDestroy <=> MayDestroy
  BY DEF MayDestroy, Idle, Lists!MayDestroy, Lists!Idle
<1>14. \A op, dirs, at : Lists!Enter(op, dirs, at) <=> Enter(op, dirs, at)
  BY DEF Enter, In, NoCall, known, Lists!Enter, Lists!In, Lists!NoCall, Lists!known
<1>15. \A at : Lists!Goto(at) <=> Goto(at)
  BY DEF Goto, known, Lists!Goto, Lists!known
<1>16. \A op, dirs : Lists!Accept(op, dirs) <=> Accept(op, dirs)
  BY DEF Accept, NoCall, Forget, Dirs, Unseen, Lists!Accept, Lists!NoCall, Lists!Forget,
       Lists!Dirs, Lists!Unseen
<1>17. Lists!Refuse <=> Refuse
  BY DEF Refuse, NoCall, known, Lists!Refuse, Lists!NoCall, Lists!known
<1>18. Lists!Failed <=> Failed
  BY DEF Failed, NoCall, Lists!Failed, Lists!NoCall
<1>19. \A d : Lists!Tell(d) <=> Tell(d)
  BY DEF Tell, Lists!Tell
<1>20. \A dirs, at : Lists!Begin(dirs, at) <=> Begin(dirs, at)
  BY DEF Begin, Idle, In, NoCall, Forget, Dirs, Unseen, Lists!Begin, Lists!Idle, Lists!In,
       Lists!NoCall, Lists!Forget, Lists!Dirs, Lists!Unseen
<1>21. \A S : Lists!SetToSeq(S) = SetToSeq(S)
  BY DEF SetToSeq, IsInjective, Cardinality, Lists!SetToSeq, Lists!IsInjective, Lists!Cardinality
<1> QED BY <1>1, <1>2, <1>3, <1>4, <1>5, <1>6, <1>7, <1>8, <1>9, <1>10, <1>11, <1>12, <1>13, <1>14, <1>15, <1>16, <1>17, <1>18, <1>19, <1>20, <1>21

\* The record of a call, but for what an enumeration changes of it.
Continues == call' = [op |-> call.op, at |-> call'.at, dirs |-> call.dirs, todo |-> call'.todo,
                      found |-> call'.found, preferred |-> call.preferred, touched |-> call.touched]
Quiet == UNCHANGED <<present, failures, thread, st, registered, due>>

\* What every enumeration goes through: it begins, looks, has looked, or gives up.
LEMMA ListChange ==
  ASSUME Types, ListTells, Lists!Change
  PROVE  /\ Types' /\ ListTells' /\ ToldOnly /\ (call.op = "none" => call' = call)
         /\ call'.op = call.op /\ call'.at = call.at /\ call'.dirs = call.dirs
         /\ call'.todo = call.todo /\ call'.found = call.found
         /\ Enumerating => call'.touched # {}
         /\ Enumerating => \A d : /\ Now(d)' \ call'.touched \subseteq Now(d) \ call.touched
                                 /\ Now(d) \cup On(d, call.touched) \subseteq Now(d)' \cup On(d, call'.touched)
<1> PICK x \in Devices : PlugOrUnplug(x) /\ failures' = failures /\ st' = st
  BY ListsSame DEF Lists!Change
<1>1. /\ present' \in Orders /\ registered' = registered /\ due' = due /\ thread' = thread /\ CallType'
      /\ call' = [op |-> call.op, at |-> call.at, dirs |-> call.dirs, todo |-> call.todo,
                 found |-> call.found, preferred |-> call.preferred, touched |-> call'.touched]
      /\ Enumerating => call'.touched # {}
      /\ ~Enumerating => call' = call
  BY Plugged
<1>2. Enumerating => \A d : /\ Now(d)' \ call'.touched \subseteq Now(d) \ call.touched
                            /\ Now(d) \cup On(d, call.touched) \subseteq Now(d)' \cup On(d, call'.touched)
  BY Plugged
<1>3. /\ call'.op = call.op /\ call'.at = call.at /\ call'.dirs = call.dirs
      /\ call'.todo = call.todo /\ call'.found = call.found
  BY <1>1
<1>4. Types' /\ ListTells' /\ ToldOnly
  BY <1>1, <1>3 DEF Types, SystemTypes, KnownTypes, ListTells, ToldOnly
<1> QED BY <1>1, <1>2, <1>3, <1>4 DEF Enumerating

\* An enumeration begins, with nothing found yet.
LEMMA ListBegins ==
  ASSUME Types, ListTells, NEW at, Lists!Enumerates(at)
  PROVE  /\ Types' /\ ListTells' /\ ToldOnly /\ call.op = "none"
         /\ call'.op = "enumerate" /\ call'.at = at /\ call'.found = {} /\ call'.touched = {}
         /\ \A d : Sound(d)'
<1> PICK dirs \in SUBSET Dirs : Begin(dirs, at)
  BY ListsSame DEF Lists!Enumerates
<1>1. /\ call'.op = "enumerate" /\ call'.at = at /\ call'.found = {} /\ call'.touched = {}
      /\ CallType' /\ KnownTypes' /\ due' \subseteq due /\ registered' = registered
  BY ClientSteps
<1>2. SystemTypes' /\ thread' = thread /\ st' = st /\ call.op = "none"
  BY SystemSteps, ListsSame DEF Types, Lists!Enumerates, Begin, Idle
<1>3. \A d : Sound(d)'
  BY <1>1, DevsFacts DEF Sound
<1> QED BY <1>1, <1>2, <1>3 DEF Types, ListTells, ToldOnly

\* An enumeration goes on, and neither the system nor the registrations change.
LEMMA ListContinues ==
  ASSUME Types, ListTells, Continues, Quiet
  PROVE  /\ Types' /\ ListTells' /\ ToldOnly /\ (Enumerating' <=> Enumerating) /\ call'.op = call.op
         /\ call'.dirs = call.dirs /\ call'.touched = call.touched /\ \A d : Now(d)' = Now(d)
<1>1. CallType' /\ call'.op = call.op /\ call'.dirs = call.dirs /\ call'.touched = call.touched
  BY DEF Continues, Types, CallType
<1>2. SystemTypes' /\ KnownTypes' /\ ToldOnly
  BY DEF Quiet, Types, SystemTypes, KnownTypes, ToldOnly
<1>3. \A d : Now(d)' = Now(d)
  BY DEF Quiet, Now
<1> QED BY <1>1, <1>2, <1>3 DEF Types, Quiet, ListTells, Enumerating

\* An enumeration ends with an error.
LEMMA ListEnds ==
  ASSUME Types, ListTells, Failed, Works \/ Breaks, UNCHANGED <<thread, st>>
  PROVE  Types' /\ ListTells' /\ ToldOnly /\ call' = NoCall /\ ~Enumerating'
<1>1. /\ call' = NoCall /\ CallType' /\ KnownTypes' /\ due' \ due \subseteq registered /\ registered' = registered
      /\ SystemTypes'
  BY ClientSteps, SystemSteps DEF Types
<1> QED BY <1>1 DEF Types, ListTells, ToldOnly, NoCall, Enumerating

\* It does so too when it gives up.
LEMMA ListGives ==
  ASSUME Types, ListTells, NEW ats, Lists!Gives(ats)
  PROVE  Types' /\ ListTells' /\ ToldOnly /\ call' = NoCall /\ ~Enumerating'
BY ListEnds, ListsSame DEF Lists!Gives

\* The list is handed over.
LEMMA ListDone ==
  ASSUME Types, ListTells, Done
  PROVE  Types' /\ ListTells' /\ ToldOnly /\ call' = NoCall /\ ~Enumerating' /\ Enumerating
<1>1. call'.op = "none" /\ ~Enumerating' /\ Enumerating
  BY DoneStep DEF NoCall, Enumerating, Done
<1> QED BY <1>1, DoneStep DEF ListTells, ToldOnly

\* The first of what is to be looked up is.
LEMMA ListLooks ==
  ASSUME Types, ListTells, NEW E, Works, UNCHANGED <<known, thread, st>>,
         call' = [call EXCEPT !.todo = Tail(@), !.found = @ \cup E]
  PROVE  /\ Continues /\ Quiet /\ call'.todo = Tail(call.todo) /\ call'.at = call.at
         /\ \A d : Devs(call'.found, d) = Devs(call.found, d) \cup Devs(E, d)
<1>1. call' = [op |-> call.op, at |-> call.at, dirs |-> call.dirs, todo |-> Tail(call.todo),
               found |-> call.found \cup E, preferred |-> call.preferred, touched |-> call.touched]
  BY DEF Types, CallType
<1>2. Quiet
  BY SystemSteps, ClientSteps DEF Quiet, Types
<1>3. \A d : Devs(call'.found, d) = Devs(call.found, d) \cup Devs(E, d)
  BY <1>1, DevsFacts
<1> QED BY <1>1, <1>2, <1>3 DEF Continues

\* The rest is empty.
LEMMA ListLooked ==
  ASSUME Types, ListTells, Lists!Looked
  PROVE  /\ Continues /\ Quiet /\ call.at = "look" /\ call'.at = "done" /\ call.todo = <<>>
         /\ call'.found = call.found
<1>1. Works /\ Goto("done") /\ UNCHANGED <<thread, st>> /\ call.at = "look" /\ call.todo = <<>>
  BY ListsSame DEF Lists!Looked
<1>2. /\ call' = [op |-> call.op, at |-> "done", dirs |-> call.dirs, todo |-> call.todo,
                 found |-> call.found, preferred |-> call.preferred, touched |-> call.touched]
      /\ due' = due /\ registered' = registered
  BY <1>1, ClientSteps
<1>3. Quiet
  BY <1>1, <1>2, SystemSteps DEF Quiet, Types
<1> QED BY <1>1, <1>2, <1>3 DEF Continues

\* The indices of a list are those of its places.
LEMMA IndicesFacts ==
  ASSUME NEW S, NEW s \in Seq(S), NEW d
  PROVE  /\ Lists!Indices(s, d) \in Seq({d} \X (Nat \ {0}))
         /\ \A i \in DOMAIN s : <<d, i>> \in ToSet(Lists!Indices(s, d))
<1>1. Len(s) \in Nat /\ DOMAIN s = 1..Len(s)
  OBVIOUS
<1> DEFINE t == Lists!Indices(s, d)
           T == {d} \X (Nat \ {0})
           n == Len(s)
<1>2. t \in [1..n -> T] /\ n \in Nat
  BY <1>1 DEF Lists!Indices
<1>3. \A i \in DOMAIN s : Lists!Indices(s, d)[i] = <<d, i>> /\ i \in DOMAIN Lists!Indices(s, d)
  BY DEF Lists!Indices
<1>4. \A i \in DOMAIN s : <<d, i>> \in ToSet(Lists!Indices(s, d))
  BY <1>3 DEF ToSet
<1>5. t \in Seq(T)
  <2> HIDE DEF t, T, n
  <2> QED BY <1>2
<1> QED BY <1>4, <1>5

\* What is described of one device, with the sides it is given.
LEMMA Described ==
  ASSUME NEW E, NEW x, NEW type, NEW d, E = {} \/ E = {Entry(x, type, FALSE)}
  PROVE  Devs(E, d) = IF E # {} /\ d \in type THEN {x} ELSE {}
<1>1. Devs({}, d) = {} /\ Devs({Entry(x, type, FALSE)}, d) = IF d \in type THEN {x} ELSE {}
  BY DevsFacts
<1> QED BY <1>1

\* WinMM.
LEMMA SidedFacts ==
  ASSUME SystemTypes, NEW d
  PROVE  Lists!Sided(d) \in Seq(Devices) /\ ToSet(Lists!Sided(d)) = Now(d)
<1>1. Now(d) \subseteq Devices
  BY PresentFacts DEF SystemTypes, Now, On
<1>2. Lists!Sided(d) = InOrder(Now(d))
  BY ListsSame DEF Lists!Sided
<1> QED BY <1>1, <1>2, OrderFacts

\* The indices mean what they meant, unless the devices change.
LEMMA SidedStays ==
  ASSUME Quiet, NEW d
  PROVE  Lists!Sided(d)' = Lists!Sided(d)
<1>1. present' = present
  BY DEF Quiet
<1>2. Lists!Now(d)' = Lists!Now(d)
  BY <1>1 DEF Lists!Now
<1> QED BY <1>2 DEF Lists!Sided

\* What WinMM found, with what its indices still point to, covers what was there.
LEMMA WinmmStep ==
  ASSUME Types, ListTells, WinmmLists, Lists!Change \/ Lists!winmm_enumerate_devices \/ Done
  PROVE  Types' /\ ListTells' /\ WinmmLists' /\ ToldOnly
<1>1. CASE Lists!Change
  <2>1. CASE ~Enumerating
    BY <1>1, <2>1, ListChange DEF WinmmLists, Enumerating
  <2>2. CASE Enumerating
    <3>1. /\ call'.at = call.at /\ call'.dirs = call.dirs /\ call'.todo = call.todo /\ call'.found = call.found
          /\ call'.touched # {}
          /\ \A d : Sound(d) => Sound(d)'
      BY <1>1, <2>2, ListChange DEF Sound
    <3>2. WinmmLists'
      BY <2>2, <3>1 DEF WinmmLists
    <3> QED BY <1>1, <3>2, ListChange
  <2> QED BY <2>1, <2>2
<1>2. CASE Done
  BY <1>2, ListDone DEF WinmmLists
<1>3. CASE Lists!Enumerates("count")
  <2>1. WinmmLists'
    BY <1>3, ListBegins DEF WinmmLists
  <2> QED BY <1>3, <2>1, ListBegins
<1>4. CASE Lists!Looks("count", Lists!winmm_todo)
  <2>1. call.at = "count" /\ Works /\ UNCHANGED <<known, thread, st>>
        /\ call' = [call EXCEPT !.at = "look", !.todo = Lists!winmm_todo(call.dirs)]
    BY <1>4, ListsSame DEF Lists!Looks
  <2>2. /\ Continues /\ Quiet /\ call'.at = "look" /\ call'.todo = Lists!winmm_todo(call.dirs)
        /\ call'.found = call.found
    BY <2>1, SystemSteps, ClientSteps DEF Types, CallType, Continues, Quiet
  <2>3. Types' /\ ListTells' /\ ToldOnly /\ (Enumerating' <=> Enumerating) /\ call'.dirs = call.dirs
        /\ call'.touched = call.touched /\ \A d : Now(d)' = Now(d)
    BY <2>2, ListContinues
  <2>4. WinmmLists'
    <3> SUFFICES ASSUME Enumerating PROVE WinmmLists'
      BY <2>3 DEF WinmmLists
    <3>1. call.found = {} /\ \A d : Devs(call.found, d) = {}
      BY <2>1, DevsFacts DEF WinmmLists
    <3> DEFINE I(d) == IF d \in call.dirs THEN Lists!Indices(Lists!Sided(d), d) ELSE <<>>
    <3>2. ASSUME NEW d \in Dirs
          PROVE  /\ I(d) \in Seq(Dirs \X (Nat \ {0}))
                 /\ d \in call.dirs => \A i \in DOMAIN Lists!Sided(d) : <<d, i>> \in ToSet(I(d))
      <4>1. Lists!Sided(d) \in Seq(Devices)
        BY SidedFacts DEF Types
      <4>2. /\ Lists!Indices(Lists!Sided(d), d) \in Seq({d} \X (Nat \ {0}))
            /\ \A i \in DOMAIN Lists!Sided(d) : <<d, i>> \in ToSet(Lists!Indices(Lists!Sided(d), d))
        BY <4>1, IndicesFacts
      <4>3. Lists!Indices(Lists!Sided(d), d) \in Seq(Dirs \X (Nat \ {0}))
        BY <4>2, SeqMonotonic
      <4> QED BY <4>2, <4>3
    <3>3. Lists!winmm_todo(call.dirs) = I("output") \o I("input")
      BY DEF Lists!winmm_todo
    <3> HIDE DEF I
    <3>4. "output" \in Dirs /\ "input" \in Dirs /\ Dirs = {"input", "output"}
      BY Names
    <3>5. /\ call'.todo \in Seq(Dirs \X (Nat \ {0}))
          /\ ToSet(call'.todo) = ToSet(I("output")) \cup ToSet(I("input"))
      BY <2>2, <3>2, <3>3, <3>4, JoinFacts
    <3>6. ASSUME NEW d \in call.dirs PROVE Covered(d, Pointed(d))'
      <4>0. d \in Dirs
        BY DEF Types, CallType
      <4>1. \A i \in DOMAIN Lists!Sided(d) : <<d, i>> \in ToSet(call'.todo)
        BY <4>0, <3>2, <3>4, <3>5
      <4>2. Lists!Sided(d) \in Seq(Devices) /\ ToSet(Lists!Sided(d)) = Now(d)
        BY SidedFacts DEF Types
      <4>3. Lists!Sided(d)' = Lists!Sided(d)
        BY <2>2, SidedStays
      <4>4. \A x \in Now(d) : x \in Pointed(d)'
        <5> SUFFICES ASSUME NEW x \in Now(d) PROVE x \in Pointed(d)'
          OBVIOUS
        <5>1. PICK i \in DOMAIN Lists!Sided(d) : x = Lists!Sided(d)[i]
          BY <4>2 DEF ToSet
        <5>2. x \in Devices
          BY <4>2, TodoFacts
        <5>3. <<d, i>> \in ToSet(call'.todo) /\ <<d, i>>[1] = d /\ <<d, i>>[2] = i
          BY <4>1, <5>1
        <5> QED BY <5>1, <5>2, <5>3, <4>3 DEF Pointed
      <4> QED BY <2>3, <4>4 DEF Covered
    <3>7. \A d : Sound(d)'
      BY <2>2, <3>1 DEF Sound
    <3> QED BY <2>2, <2>3, <3>5, <3>6, <3>7 DEF WinmmLists
  <2> QED BY <2>3, <2>4
<1>5. CASE Lists!Look(Lists!winmm_create_device)
  <2> DEFINE t == Head(call.todo)
             E == Lists!winmm_create_device(t)
  <2>1. call.at = "look" /\ call.todo # <<>> /\ Works /\ UNCHANGED <<known, thread, st>>
        /\ call' = [call EXCEPT !.todo = Tail(@), !.found = @ \cup E]
    BY <1>5, ListsSame DEF Lists!Look
  <2> HIDE DEF E
  <2>2. /\ Continues /\ Quiet /\ call'.todo = Tail(call.todo) /\ call'.at = call.at
        /\ \A d : Devs(call'.found, d) = Devs(call.found, d) \cup Devs(E, d)
    BY <2>1, ListLooks
  <2>3. Types' /\ ListTells' /\ ToldOnly /\ (Enumerating' <=> Enumerating) /\ call'.dirs = call.dirs
        /\ call'.touched = call.touched /\ \A d : Now(d)' = Now(d)
    BY <2>2, ListContinues
  <2>4. WinmmLists'
    <3> SUFFICES ASSUME Enumerating PROVE WinmmLists'
      BY <2>3 DEF WinmmLists
    <3>1. call.todo \in Seq(Dirs \X (Nat \ {0}))
      BY <2>1 DEF WinmmLists
    <3>2. /\ t \in Dirs \X (Nat \ {0}) /\ call'.todo \in Seq(Dirs \X (Nat \ {0}))
          /\ ToSet(call.todo) = {t} \cup ToSet(call'.todo)
      BY <2>1, <2>2, <3>1, TodoFacts
    <3> HIDE DEF t
    <3> DEFINE x == Lists!Sided(t[1])[t[2]]
               in == t[2] \in DOMAIN Lists!Sided(t[1])
    <3>3. E = IF in THEN {Entry(x, {t[1]}, FALSE)} ELSE {}
      BY ListsSame DEF E, Lists!winmm_create_device
    <3>4. in => x \in Now(t[1])
      BY SidedFacts DEF ToSet, Types
    <3>5. \A d : Lists!Sided(d)' = Lists!Sided(d)
      BY <2>2, SidedStays
    <3>6. \A d : Pointed(d) = Pointed(d)' \cup (IF in /\ d = t[1] THEN {x} ELSE {})
      <4> SUFFICES ASSUME NEW d PROVE Pointed(d) = Pointed(d)' \cup (IF in /\ d = t[1] THEN {x} ELSE {})
        OBVIOUS
      <4>1. in => x \in Devices
        BY <3>4, PresentFacts DEF Now, On, Types, SystemTypes
      <4> QED BY <3>2, <3>5, <4>1 DEF Pointed
    <3> HIDE DEF x, in
    <3>7. \A d : Devs(E, d) = IF in /\ d = t[1] THEN {x} ELSE {}
      <4> SUFFICES ASSUME NEW d PROVE Devs(E, d) = IF in /\ d = t[1] THEN {x} ELSE {}
        OBVIOUS
      <4>1. CASE in
        <5>1. E = {Entry(x, {t[1]}, FALSE)}
          BY <3>3, <4>1
        <5>2. Devs({Entry(x, {t[1]}, FALSE)}, d) = IF d \in {t[1]} THEN {x} ELSE {}
          BY DevsFacts
        <5> QED BY <4>1, <5>1, <5>2
      <4>2. CASE ~in
        BY <3>3, <4>2, DevsFacts
      <4> QED BY <4>1, <4>2
    <3>8. \A d : /\ Covered(d, Pointed(d)) => Covered(d, Pointed(d))'
                 /\ Sound(d) => Sound(d)'
      BY <2>2, <2>3, <3>4, <3>6, <3>7 DEF Covered, Sound
    <3> QED BY <2>1, <2>2, <2>3, <3>2, <3>8 DEF WinmmLists
  <2> QED BY <2>3, <2>4
<1>6. CASE Lists!Looked
  <2>1. /\ Continues /\ Quiet /\ call.at = "look" /\ call'.at = "done" /\ call.todo = <<>>
        /\ call'.found = call.found
    BY <1>6, ListLooked
  <2>2. Types' /\ ListTells' /\ ToldOnly /\ (Enumerating' <=> Enumerating) /\ call'.dirs = call.dirs
        /\ call'.touched = call.touched /\ \A d : Now(d)' = Now(d)
    BY <2>1, ListContinues
  <2>3. \A d : Pointed(d) = {}
    <3>1. ToSet(call.todo) = {}
      BY <2>1 DEF ToSet
    <3> QED BY <3>1 DEF Pointed
  <2>4. \A d : /\ Covered(d, Pointed(d)) => Covered(d, {})'
               /\ Sound(d) => Sound(d)'
    BY <2>1, <2>2, <2>3 DEF Covered, Sound
  <2>5. WinmmLists'
    BY <2>1, <2>2, <2>4 DEF WinmmLists
  <2> QED BY <2>2, <2>5
<1> QED BY <1>1, <1>2, <1>3, <1>4, <1>5, <1>6 DEF Lists!winmm_enumerate_devices

\* OSS on Linux.  A device of one way only is left out when both are asked for.
LEMMA SkipsFacts ==
  ASSUME NEW x \in Devices, NEW d \in call.dirs, call.dirs \subseteq Dirs
  PROVE  /\ Lists!SkipsOne(x, call.dirs) <=> \E e \in call.dirs : e \notin Sides[x]
         /\ Lists!Skips(x, call.dirs) <=> Sides[x] \cap call.dirs = {}
         /\ ~Lists!SkipsOne(x, call.dirs) => d \in Sides[x]
         /\ call.dirs # Dirs /\ d \in Sides[x] => ~Lists!SkipsOne(x, call.dirs)
         /\ d \in Sides[x] => ~Lists!Skips(x, call.dirs)
         /\ call.dirs # Dirs /\ ~Lists!Skips(x, call.dirs) => d \in Sides[x]
<1>1. /\ Lists!SkipsOne(x, call.dirs) <=> \E e \in call.dirs : e \notin Sides[x]
      /\ Lists!Skips(x, call.dirs) <=> Sides[x] \cap call.dirs = {}
  BY ListsSame DEF Lists!SkipsOne, Lists!Skips
<1>2. call.dirs # Dirs => call.dirs = {d}
  BY Names
<1> QED BY <1>1, <1>2

\* As for WinMM, but that a device of one way only is left out when both are asked for.
LEMMA OssStep ==
  ASSUME Types, ListTells, OssLists, Lists!Change \/ Lists!oss_enumerate_devices \/ Done
  PROVE  Types' /\ ListTells' /\ OssLists' /\ ToldOnly
<1>1. CASE Lists!Change
  <2>1. CASE ~Enumerating
    BY <1>1, <2>1, ListChange DEF OssLists, Enumerating
  <2>2. CASE Enumerating
    <3>1. /\ call'.at = call.at /\ call'.dirs = call.dirs /\ call'.todo = call.todo /\ call'.found = call.found
          /\ call'.touched # {}
          /\ \A d : Sound(d) => Sound(d)'
      BY <1>1, <2>2, ListChange DEF Sound
    <3>2. OssLists'
      BY <2>2, <3>1 DEF OssLists
    <3> QED BY <1>1, <3>2, ListChange
  <2> QED BY <2>1, <2>2
<1>2. CASE Done
  BY <1>2, ListDone DEF OssLists
<1>3. CASE Lists!Enumerates("mixer")
  <2>1. OssLists'
    BY <1>3, ListBegins DEF OssLists
  <2> QED BY <1>3, <2>1, ListBegins
<1>4. CASE Lists!Looks("mixer", Lists!oss_todo)
  <2>1. call.at = "mixer" /\ Works /\ UNCHANGED <<known, thread, st>>
        /\ call' = [call EXCEPT !.at = "look", !.todo = Lists!oss_todo(call.dirs)]
    BY <1>4, ListsSame DEF Lists!Looks
  <2>2. /\ Continues /\ Quiet /\ call'.at = "look" /\ call'.todo = Lists!oss_todo(call.dirs)
        /\ call'.found = call.found
    BY <2>1, SystemSteps, ClientSteps DEF Types, CallType, Continues, Quiet
  <2>3. Types' /\ ListTells' /\ ToldOnly /\ (Enumerating' <=> Enumerating) /\ call'.dirs = call.dirs
        /\ call'.touched = call.touched /\ \A d : Now(d)' = Now(d)
    BY <2>2, ListContinues
  <2>4. OssLists'
    <3> SUFFICES ASSUME Enumerating PROVE OssLists'
      BY <2>3 DEF OssLists
    <3>1. call.found = {} /\ \A d : Devs(call.found, d) = {}
      BY <2>1, DevsFacts DEF OssLists
    <3>2. present \in Seq(Devices) /\ ToSet(present) \subseteq Devices
      BY PresentFacts DEF Types, SystemTypes
    <3>3. call'.todo = Lists!Indices(present, "any")
      BY <2>2 DEF Lists!oss_todo
    <3>4. /\ call'.todo \in Seq({"any"} \X (Nat \ {0}))
          /\ \A i \in DOMAIN present : <<"any", i>> \in ToSet(call'.todo)
      BY <3>2, <3>3, IndicesFacts
    <3>5. present' = present
      BY <2>2 DEF Quiet
    <3>6. \A x \in ToSet(present) : x \in OssPointed'
      <4> SUFFICES ASSUME NEW i \in DOMAIN present PROVE present[i] \in OssPointed'
        BY DEF ToSet
      <4>1. present[i] \in Devices /\ <<"any", i>> \in ToSet(call'.todo) /\ <<"any", i>>[2] = i
        BY <3>2, <3>4 DEF ToSet
      <4> QED BY <3>5, <4>1 DEF OssPointed
    <3>7. ASSUME NEW d PROVE Covered(d, On(d, OssPointed))'
      <4>1. \A x \in Now(d)' : x \in On(d, OssPointed)'
        BY <2>3, <3>6 DEF Now, On
      <4> QED BY <4>1 DEF Covered
    <3>8. \A d : Sound(d)'
      BY <2>2, <3>1 DEF Sound
    <3> QED BY <2>2, <3>4, <3>7, <3>8 DEF OssLists
  <2> QED BY <2>3, <2>4
<1>5. CASE Lists!Gives({"mixer"})
  BY <1>5, ListGives DEF OssLists
<1>6. CASE ~Lists!Gone /\ Lists!Look(Lists!oss_entries)
  <2> DEFINE t == Head(call.todo)
             E == Lists!oss_entries(t)
             x == present[t[2]]
  <2>1. call.at = "look" /\ call.todo # <<>> /\ Works /\ UNCHANGED <<known, thread, st>>
        /\ call' = [call EXCEPT !.todo = Tail(@), !.found = @ \cup E]
    BY <1>6, ListsSame DEF Lists!Look
  <2>0. ~(t[2] > Len(present)) /\ E = IF Lists!SkipsOne(x, call.dirs) THEN {} ELSE {Entry(x, call.dirs, FALSE)}
    BY <1>6, <2>1, ListsSame DEF Lists!Gone, Lists!oss_entries
  <2> HIDE DEF E
  <2>2. /\ Continues /\ Quiet /\ call'.todo = Tail(call.todo) /\ call'.at = call.at
        /\ \A d : Devs(call'.found, d) = Devs(call.found, d) \cup Devs(E, d)
    BY <2>1, ListLooks
  <2>3. Types' /\ ListTells' /\ ToldOnly /\ (Enumerating' <=> Enumerating) /\ call'.dirs = call.dirs
        /\ call'.touched = call.touched /\ \A d : Now(d)' = Now(d)
    BY <2>2, ListContinues
  <2>4. OssLists'
    <3> SUFFICES ASSUME Enumerating PROVE OssLists'
      BY <2>3 DEF OssLists
    <3>1. call.todo \in Seq({"any"} \X (Nat \ {0}))
      BY <2>1 DEF OssLists
    <3>2. /\ t \in {"any"} \X (Nat \ {0}) /\ call'.todo \in Seq({"any"} \X (Nat \ {0}))
          /\ ToSet(call.todo) = {t} \cup ToSet(call'.todo)
      BY <2>1, <2>2, <3>1, TodoFacts
    <3>3. present \in Seq(Devices) /\ t[2] \in Nat \ {0} /\ DOMAIN present = 1..Len(present) /\ Len(present) \in Nat
      BY <3>2, PresentFacts DEF Types, SystemTypes
    <3>4. t[2] \in DOMAIN present
      BY <3>3, <2>0
    <3>5. x \in ToSet(present) /\ x \in Devices
      BY <3>3, <3>4 DEF ToSet
    <3> HIDE DEF t
    <3>6. present' = present
      BY <2>2 DEF Quiet
    <3>7. OssPointed = OssPointed' \cup {x}
      BY <3>2, <3>4, <3>5, <3>6 DEF OssPointed
    <3> HIDE DEF x
    <3>8. ASSUME NEW d \in call.dirs
          PROVE  /\ call.dirs # Dirs /\ Covered(d, On(d, OssPointed)) => Covered(d, On(d, OssPointed))'
                 /\ Sound(d) => Sound(d)'
      <4>1. call.dirs \subseteq Dirs
        BY DEF Types, CallType
      <4>0. E = {} \/ E = {Entry(x, call.dirs, FALSE)}
        BY <2>0
      <4>2. Devs(E, d) = IF E # {} /\ d \in call.dirs THEN {x} ELSE {}
        BY <4>0, Described
      <4>3. E = {} <=> Lists!SkipsOne(x, call.dirs)
        BY <2>0
      <4>4. Devs(E, d) \subseteq On(d, {x}) /\ (call.dirs # Dirs => Devs(E, d) = On(d, {x}))
        BY <3>5, <4>1, <4>2, <4>3, SkipsFacts DEF On
      <4>5. On(d, {x}) \subseteq Now(d) /\ On(d, OssPointed) = On(d, OssPointed') \cup On(d, {x})
        BY <3>5, <3>7 DEF On, Now
      <4>6. On(d, OssPointed)' = On(d, OssPointed')
        BY DEF On
      <4> QED BY <2>2, <2>3, <4>4, <4>5, <4>6 DEF Covered, Sound
    <3> QED BY <2>1, <2>2, <2>3, <3>2, <3>8 DEF OssLists
  <2> QED BY <2>3, <2>4
<1>7. CASE Lists!Gone /\ Lists!Works /\ Lists!Failed /\ UNCHANGED <<thread, st>>
  BY <1>7, ListEnds, ListsSame DEF OssLists
<1>8. CASE Lists!Looked
  <2>1. /\ Continues /\ Quiet /\ call.at = "look" /\ call'.at = "done" /\ call.todo = <<>>
        /\ call'.found = call.found
    BY <1>8, ListLooked
  <2>2. Types' /\ ListTells' /\ ToldOnly /\ (Enumerating' <=> Enumerating) /\ call'.dirs = call.dirs
        /\ call'.touched = call.touched /\ \A d : Now(d)' = Now(d)
    BY <2>1, ListContinues
  <2>3. OssPointed = {} /\ \A d : On(d, OssPointed) = {}
    <3>1. ToSet(call.todo) = {}
      BY <2>1 DEF ToSet
    <3> QED BY <3>1 DEF OssPointed, On
  <2>4. \A d : /\ Covered(d, On(d, OssPointed)) => Covered(d, {})'
               /\ Sound(d) => Sound(d)'
    BY <2>1, <2>2, <2>3 DEF Covered, Sound
  <2>5. OssLists'
    BY <2>1, <2>2, <2>4 DEF OssLists
  <2> QED BY <2>2, <2>5
<1> QED BY <1>1, <1>2, <1>3, <1>4, <1>5, <1>6, <1>7, <1>8 DEF Lists!oss_enumerate_devices

\* OSS on FreeBSD: the list that was read is of devices that may have gone.
LEMMA SndstatStep ==
  ASSUME Types, ListTells, SndstatLists, Lists!Change \/ Lists!oss_enumerate_sndstat \/ Done
  PROVE  Types' /\ ListTells' /\ SndstatLists' /\ ToldOnly
<1>1. CASE Lists!Change
  <2>1. CASE ~Enumerating
    BY <1>1, <2>1, ListChange DEF SndstatLists, Enumerating
  <2>2. CASE Enumerating
    <3>1. /\ call'.at = call.at /\ call'.dirs = call.dirs /\ call'.todo = call.todo /\ call'.found = call.found
          /\ \A d : Sound(d) => Sound(d)'
          /\ \A d : Covered(d, {}) => Covered(d, {})'
          /\ \A d : Covered(d, On(d, ToSet(call.todo))) => Covered(d, On(d, ToSet(call.todo)))'
      BY <1>1, <2>2, ListChange DEF Sound, Covered, On, ToSet
    <3>2. SndstatLists'
      BY <2>2, <3>1 DEF SndstatLists
    <3> QED BY <1>1, <3>2, ListChange
  <2> QED BY <2>1, <2>2
<1>2. CASE Done
  BY <1>2, ListDone DEF SndstatLists
<1>3. CASE Lists!Enumerates("sndstat")
  <2>1. SndstatLists'
    BY <1>3, ListBegins DEF SndstatLists
  <2> QED BY <1>3, <2>1, ListBegins
<1>4. CASE Lists!Looks("sndstat", Lists!sndstat_todo)
  <2>1. call.at = "sndstat" /\ Works /\ UNCHANGED <<known, thread, st>>
        /\ call' = [call EXCEPT !.at = "look", !.todo = Lists!sndstat_todo(call.dirs)]
    BY <1>4, ListsSame DEF Lists!Looks
  <2>2. /\ Continues /\ Quiet /\ call'.at = "look" /\ call'.todo = Lists!sndstat_todo(call.dirs)
        /\ call'.found = call.found
    BY <2>1, SystemSteps, ClientSteps DEF Types, CallType, Continues, Quiet
  <2>3. Types' /\ ListTells' /\ ToldOnly /\ (Enumerating' <=> Enumerating) /\ call'.dirs = call.dirs
        /\ call'.touched = call.touched /\ \A d : Now(d)' = Now(d)
    BY <2>2, ListContinues
  <2>4. SndstatLists'
    <3> SUFFICES ASSUME Enumerating PROVE SndstatLists'
      BY <2>3 DEF SndstatLists
    <3>1. call.found = {} /\ \A d : Devs(call.found, d) = {}
      BY <2>1, DevsFacts DEF SndstatLists
    <3>2. ToSet(present) \subseteq Devices
      BY PresentFacts DEF Types, SystemTypes
    <3>3. call'.todo \in Seq(Devices) /\ ToSet(present) \subseteq ToSet(call'.todo)
      BY <2>2, PresentFacts DEF Types, SystemTypes, Lists!sndstat_todo
    <3>4. ASSUME NEW d PROVE Covered(d, On(d, ToSet(call.todo)))'
      <4>1. \A x \in Now(d)' : x \in On(d, ToSet(call.todo))'
        BY <2>3, <3>3 DEF Now, On, ToSet
      <4> QED BY <4>1 DEF Covered
    <3>5. \A d : Sound(d)'
      BY <2>2, <3>1 DEF Sound
    <3> QED BY <2>2, <3>3, <3>4, <3>5 DEF SndstatLists
  <2> QED BY <2>3, <2>4
<1>5. CASE Lists!Gives({"sndstat", "look"})
  BY <1>5, ListGives DEF SndstatLists
<1>6. CASE Lists!Look(Lists!oss_probe_open)
  <2> DEFINE x == Head(call.todo)
             E == Lists!oss_probe_open(x)
  <2>1. call.at = "look" /\ call.todo # <<>> /\ Works /\ UNCHANGED <<known, thread, st>>
        /\ call' = [call EXCEPT !.todo = Tail(@), !.found = @ \cup E]
    BY <1>6, ListsSame DEF Lists!Look
  <2>2. E = IF Lists!SkipsOne(x, call.dirs) \/ x \notin ToSet(present) THEN {} ELSE {Entry(x, call.dirs, FALSE)}
    BY ListsSame DEF Lists!oss_probe_open
  <2> HIDE DEF E
  <2>3. /\ Continues /\ Quiet /\ call'.todo = Tail(call.todo) /\ call'.at = call.at
        /\ \A d : Devs(call'.found, d) = Devs(call.found, d) \cup Devs(E, d)
    BY <2>1, ListLooks
  <2>4. Types' /\ ListTells' /\ ToldOnly /\ (Enumerating' <=> Enumerating) /\ call'.dirs = call.dirs
        /\ call'.touched = call.touched /\ \A d : Now(d)' = Now(d)
    BY <2>3, ListContinues
  <2>5. SndstatLists'
    <3> SUFFICES ASSUME Enumerating PROVE SndstatLists'
      BY <2>4 DEF SndstatLists
    <3>1. call.todo \in Seq(Devices)
      BY <2>1 DEF SndstatLists
    <3>2. /\ x \in Devices /\ call'.todo \in Seq(Devices)
          /\ ToSet(call.todo) = {x} \cup ToSet(call'.todo)
      BY <2>1, <2>3, <3>1, TodoFacts
    <3> HIDE DEF x
    <3>3. ASSUME NEW d \in call.dirs
          PROVE  /\ call.dirs # Dirs => (Covered(d, On(d, ToSet(call.todo))) => Covered(d, On(d, ToSet(call.todo)))')
                 /\ Sound(d) => Sound(d)'
      <4>1. call.dirs \subseteq Dirs
        BY DEF Types, CallType
      <4>2. E = {} \/ E = {Entry(x, call.dirs, FALSE)}
        BY <2>2
      <4>3. Devs(E, d) = IF E # {} /\ d \in call.dirs THEN {x} ELSE {}
        BY <4>2, Described
      <4>4. E = {} <=> Lists!SkipsOne(x, call.dirs) \/ x \notin ToSet(present)
        BY <2>2
      <4>5. /\ call.dirs # Dirs => (On(d, {x}) \cap Now(d) \subseteq Devs(E, d))
            /\ Devs(E, d) \subseteq Now(d)
        BY <3>2, <4>1, <4>3, <4>4, SkipsFacts DEF On, Now
      <4>6. On(d, ToSet(call.todo)) = On(d, ToSet(call.todo))' \cup On(d, {x})
        BY <3>2 DEF On, ToSet
      <4> QED BY <2>3, <2>4, <4>5, <4>6 DEF Covered, Sound
    <3> QED BY <2>1, <2>3, <2>4, <3>2, <3>3 DEF SndstatLists
  <2> QED BY <2>4, <2>5
<1>7. CASE Lists!Looked
  <2>1. /\ Continues /\ Quiet /\ call.at = "look" /\ call'.at = "done" /\ call.todo = <<>>
        /\ call'.found = call.found
    BY <1>7, ListLooked
  <2>2. Types' /\ ListTells' /\ ToldOnly /\ (Enumerating' <=> Enumerating) /\ call'.dirs = call.dirs
        /\ call'.touched = call.touched /\ \A d : Now(d)' = Now(d)
    BY <2>1, ListContinues
  <2>3. \A d : On(d, ToSet(call.todo)) = {}
    BY <2>1 DEF ToSet, On
  <2>4. \A d : /\ Covered(d, On(d, ToSet(call.todo))) => Covered(d, {})'
               /\ Sound(d) => Sound(d)'
    BY <2>1, <2>2, <2>3 DEF Covered, Sound
  <2>5. SndstatLists'
    BY <2>1, <2>2, <2>4 DEF SndstatLists
  <2> QED BY <2>2, <2>5
<1> QED BY <1>1, <1>2, <1>3, <1>4, <1>5, <1>6, <1>7 DEF Lists!oss_enumerate_sndstat

\* Sun: every device there may be is tried.
LEMMA SunStep ==
  ASSUME Types, ListTells, SunLists, Lists!Change \/ Lists!sun_enumerate_devices \/ Done
  PROVE  Types' /\ ListTells' /\ SunLists' /\ ToldOnly
<1>1. CASE Lists!Change
  <2>1. CASE ~Enumerating
    BY <1>1, <2>1, ListChange DEF SunLists, Enumerating
  <2>2. CASE Enumerating
    <3>1. /\ call'.at = call.at /\ call'.dirs = call.dirs /\ call'.todo = call.todo /\ call'.found = call.found
          /\ \A d : Sound(d) => Sound(d)'
          /\ \A d : Covered(d, {}) => Covered(d, {})'
          /\ \A d : Covered(d, On(d, ToSet(call.todo))) => Covered(d, On(d, ToSet(call.todo)))'
      BY <1>1, <2>2, ListChange DEF Sound, Covered, On, ToSet
    <3>2. SunLists'
      BY <2>2, <3>1 DEF SunLists
    <3> QED BY <1>1, <3>2, ListChange
  <2> QED BY <2>1, <2>2
<1>2. CASE Done
  BY <1>2, ListDone DEF SunLists
<1>3. CASE Lists!Enumerates("calloc")
  <2>1. SunLists'
    BY <1>3, ListBegins DEF SunLists
  <2> QED BY <1>3, <2>1, ListBegins
<1>4. CASE Lists!Looks("calloc", Lists!sun_todo)
  <2>1. call.at = "calloc" /\ Works /\ UNCHANGED <<known, thread, st>>
        /\ call' = [call EXCEPT !.at = "look", !.todo = Lists!sun_todo(call.dirs)]
    BY <1>4, ListsSame DEF Lists!Looks
  <2>2. /\ Continues /\ Quiet /\ call'.at = "look" /\ call'.todo = Lists!sun_todo(call.dirs)
        /\ call'.found = call.found
    BY <2>1, SystemSteps, ClientSteps DEF Types, CallType, Continues, Quiet
  <2>3. Types' /\ ListTells' /\ ToldOnly /\ (Enumerating' <=> Enumerating) /\ call'.dirs = call.dirs
        /\ call'.touched = call.touched /\ \A d : Now(d)' = Now(d)
    BY <2>2, ListContinues
  <2>4. SunLists'
    <3> SUFFICES ASSUME Enumerating PROVE SunLists'
      BY <2>3 DEF SunLists
    <3>1. call.found = {} /\ \A d : Devs(call.found, d) = {}
      BY <2>1, DevsFacts DEF SunLists
    <3>2. ToSet(present) \subseteq Devices
      BY PresentFacts DEF Types, SystemTypes
    <3>3. call'.todo \in Seq(Devices) /\ ToSet(present) \subseteq ToSet(call'.todo)
      <4>1. IsFiniteSet(Devices)
        <5>1. IsFiniteSet({"mic"}) /\ IsFiniteSet({"headset"})
          BY FS_Singleton
        <5>2. Devices = {"mic"} \cup {"headset"}
          BY Names
        <5> QED BY <5>1, <5>2, FS_Union
      <4>2. call'.todo = SetToSeq(Devices)
        BY <2>2, ListsSame DEF Lists!sun_todo
      <4> QED BY <3>2, <4>1, <4>2, SetToSeqFacts
    <3>4. ASSUME NEW d PROVE Covered(d, On(d, ToSet(call.todo)))'
      <4>1. \A x \in Now(d)' : x \in On(d, ToSet(call.todo))'
        BY <2>3, <3>3 DEF Now, On, ToSet
      <4> QED BY <4>1 DEF Covered
    <3>5. \A d : Sound(d)'
      BY <2>2, <3>1 DEF Sound
    <3> QED BY <2>2, <3>3, <3>4, <3>5 DEF SunLists
  <2> QED BY <2>3, <2>4
<1>5. CASE Lists!Gives({"calloc"})
  BY <1>5, ListGives DEF SunLists
<1>6. CASE Lists!Look(Lists!sun_get_hwinfo)
  <2> DEFINE x == Head(call.todo)
             E == Lists!sun_get_hwinfo(x)
  <2>1. call.at = "look" /\ call.todo # <<>> /\ Works /\ UNCHANGED <<known, thread, st>>
        /\ call' = [call EXCEPT !.todo = Tail(@), !.found = @ \cup E]
    BY <1>6, ListsSame DEF Lists!Look
  <2>2. E = IF Lists!Skips(x, call.dirs) \/ x \notin ToSet(present) THEN {} ELSE {Entry(x, call.dirs, FALSE)}
    BY ListsSame DEF Lists!sun_get_hwinfo
  <2> HIDE DEF E
  <2>3. /\ Continues /\ Quiet /\ call'.todo = Tail(call.todo) /\ call'.at = call.at
        /\ \A d : Devs(call'.found, d) = Devs(call.found, d) \cup Devs(E, d)
    BY <2>1, ListLooks
  <2>4. Types' /\ ListTells' /\ ToldOnly /\ (Enumerating' <=> Enumerating) /\ call'.dirs = call.dirs
        /\ call'.touched = call.touched /\ \A d : Now(d)' = Now(d)
    BY <2>3, ListContinues
  <2>5. SunLists'
    <3> SUFFICES ASSUME Enumerating PROVE SunLists'
      BY <2>4 DEF SunLists
    <3>1. call.todo \in Seq(Devices)
      BY <2>1 DEF SunLists
    <3>2. /\ x \in Devices /\ call'.todo \in Seq(Devices)
          /\ ToSet(call.todo) = {x} \cup ToSet(call'.todo)
      BY <2>1, <2>3, <3>1, TodoFacts
    <3> HIDE DEF x
    <3>3. ASSUME NEW d \in call.dirs
          PROVE  /\ Covered(d, On(d, ToSet(call.todo))) => Covered(d, On(d, ToSet(call.todo)))'
                 /\ call.dirs # Dirs => (Sound(d) => Sound(d)')
      <4>1. call.dirs \subseteq Dirs
        BY DEF Types, CallType
      <4>2. E = {} \/ E = {Entry(x, call.dirs, FALSE)}
        BY <2>2
      <4>3. Devs(E, d) = IF E # {} /\ d \in call.dirs THEN {x} ELSE {}
        BY <4>2, Described
      <4>4. E = {} <=> Lists!Skips(x, call.dirs) \/ x \notin ToSet(present)
        BY <2>2
      <4>5. /\ On(d, {x}) \cap Now(d) \subseteq Devs(E, d)
            /\ call.dirs # Dirs => (Devs(E, d) \subseteq Now(d))
        BY <3>2, <4>1, <4>3, <4>4, SkipsFacts DEF On, Now
      <4>6. On(d, ToSet(call.todo)) = On(d, ToSet(call.todo))' \cup On(d, {x})
        BY <3>2 DEF On, ToSet
      <4> QED BY <2>3, <2>4, <4>5, <4>6 DEF Covered, Sound
    <3> QED BY <2>1, <2>3, <2>4, <3>2, <3>3 DEF SunLists
  <2> QED BY <2>4, <2>5
<1>7. CASE Lists!Looked
  <2>1. /\ Continues /\ Quiet /\ call.at = "look" /\ call'.at = "done" /\ call.todo = <<>>
        /\ call'.found = call.found
    BY <1>7, ListLooked
  <2>2. Types' /\ ListTells' /\ ToldOnly /\ (Enumerating' <=> Enumerating) /\ call'.dirs = call.dirs
        /\ call'.touched = call.touched /\ \A d : Now(d)' = Now(d)
    BY <2>1, ListContinues
  <2>3. \A d : On(d, ToSet(call.todo)) = {}
    BY <2>1 DEF ToSet, On
  <2>4. \A d : /\ Covered(d, On(d, ToSet(call.todo))) => Covered(d, {})'
               /\ Sound(d) => Sound(d)'
    BY <2>1, <2>2, <2>3 DEF Covered, Sound
  <2>5. SunLists'
    BY <2>1, <2>2, <2>4 DEF SunLists
  <2> QED BY <2>2, <2>5
<1> QED BY <1>1, <1>2, <1>3, <1>4, <1>5, <1>6, <1>7 DEF Lists!sun_enumerate_devices

\* ALSA, sndio and JACK list the default device, whatever there is: of these only
\* what is told matters.
LEMMA DefaultStep ==
  ASSUME Types, ListTells,
         \/ Lists!Change \/ Done
         \/ Lists!alsa_enumerate_devices \/ Lists!sndio_enumerate_devices \/ Lists!cbjack_enumerate_devices
  PROVE  Types' /\ ListTells' /\ ToldOnly
<1>1. CASE Lists!Change
  BY <1>1, ListChange
<1>2. CASE Done
  BY <1>2, ListDone
<1>3. CASE Lists!Enumerates("default")
  BY <1>3, ListBegins
<1>4. CASE Lists!Gives({"default"})
  BY <1>4, ListGives
<1>5. ASSUME NEW types, Lists!Lists(types) PROVE Types' /\ ListTells' /\ ToldOnly
  <2>1. Works /\ UNCHANGED <<known, thread, st>>
        /\ call' = [call EXCEPT !.at = "done", !.found = Lists!DefaultOf(types)]
    BY <1>5, ListsSame DEF Lists!Lists
  <2>2. call' = [op |-> call.op, at |-> "done", dirs |-> call.dirs, todo |-> call.todo,
                 found |-> Lists!DefaultOf(types), preferred |-> call.preferred, touched |-> call.touched]
    BY <2>1 DEF Types, CallType
  <2>3. Continues /\ Quiet
    BY <2>1, <2>2, SystemSteps, ClientSteps DEF Types, Continues, Quiet
  <2> QED BY <2>3, ListContinues
<1>6. CASE Lists!alsa_enumerate_devices
  BY <1>3, <1>4, <1>5, <1>6 DEF Lists!alsa_enumerate_devices
<1>7. CASE Lists!sndio_enumerate_devices
  BY <1>3, <1>4, <1>5, <1>7 DEF Lists!sndio_enumerate_devices
<1>8. CASE Lists!cbjack_enumerate_devices
  BY <1>3, <1>5, <1>8 DEF Lists!cbjack_enumerate_devices
<1> QED BY <1>1, <1>2, <1>6, <1>7, <1>8

-----------------------------------------------------------------------------
\* All of them together.

\* The devices are there before a client looks, and no call is under way.
LEMMA InitInv == Init => IInv
<1> SUFFICES ASSUME Init PROVE IInv
  OBVIOUS
<1>1. present \in Orders
  <2>1. {"headset"} \subseteq Devices /\ {"mic", "headset"} \subseteq Devices
    BY Names
  <2>2. InOrder({"headset"}) = <<"headset">>
    <3>1. InOrder({"headset"}) = <<>> \o <<"headset">>
      BY DEF InOrder
    <3> QED BY <3>1
  <2>3. InOrder({"mic", "headset"}) = <<"mic", "headset">>
    <3>1. InOrder({"mic", "headset"}) = <<"mic">> \o <<"headset">>
      BY DEF InOrder
    <3> QED BY <3>1
  <2> QED BY <2>1, <2>2, <2>3 DEF Init, ClientInit, Orders
<1>2. /\ failures = 0 /\ registered = {} /\ due = {} /\ call = NoCall /\ thread = "none"
  BY DEF Init, ClientInit
<1>3. /\ call = [op |-> call.op, at |-> call.at, dirs |-> call.dirs, todo |-> call.todo,
                 found |-> call.found, preferred |-> call.preferred, touched |-> call.touched]
      /\ call.op = "none" /\ call.at = "idle" /\ call.dirs = {} /\ call.touched = {}
  BY <1>2 DEF NoCall
<1>4. Types
  BY <1>1, <1>2, <1>3 DEF Types, SystemTypes, KnownTypes, CallType
<1>5. ~Enumerating
  BY <1>3 DEF Enumerating
<1>6. CASE backend = "pulse"
  <2>1. st = Pulse!Context
    BY <1>6 DEF Init
  <2>2. PulseTells
    BY <2>1, <1>2, <1>3 DEF PulseTells, Pulse!Context
  <2> QED BY <1>4, <1>5, <1>6, <2>2 DEF IInv, PulseLists
<1>7. CASE backend = "wasapi"
  <2>1. st = Wasapi!Context
    BY <1>7 DEF Init
  <2>2. WasapiTells
    BY <2>1, <1>2, <1>3, <1>5 DEF WasapiTells, Wasapi!Context
  <2>3. WasapiRegisters
    BY <2>1, <1>2, <1>3 DEF WasapiRegisters, WasapiRegistration, Wasapi!Context
  <2> QED BY <1>4, <1>5, <1>7, <2>2, <2>3 DEF IInv, WasapiLists
<1>8. CASE backend = "audiounit"
  <2>1. st = AudioUnit!Context
    BY <1>8 DEF Init
  <2>2. AudioUnitTells
    BY <2>1, <1>2, <1>3 DEF AudioUnitTells, AudioUnit!Context
  <2> QED BY <1>4, <1>5, <1>8, <2>2 DEF IInv, AudioUnitLists
<1>9. CASE backend \notin {"pulse", "wasapi", "audiounit"}
  <2>1. st = Lists!Context
    BY <1>9 DEF Init
  <2>2. ListTells
    BY <2>1, <1>2, <1>3 DEF ListTells
  <2> QED BY <1>2, <1>4, <1>5, <1>9, <2>2 DEF IInv, WinmmLists, OssLists, SndstatLists, SunLists
<1> QED BY <1>6, <1>7, <1>8, <1>9

\* What a step of each backend keeps, and what it tells of.
LEMMA PulseStep ==
  ASSUME IInv, Next, backend = "pulse"
  PROVE  Types' /\ PulseTells' /\ PulseLists' /\ Told
<1>1. Types /\ PulseTells /\ PulseLists
  BY DEF IInv
<1>2. \/ Pulse!Change \/ Pulse!Calls \/ Pulse!Client \/ Done \/ Pulse!Thread \/ Pulse!ContextFails
  BY DEF Next, Change, Calls, Client, Enumerations, Thread
<1> QED BY <1>1, <1>2, PulseChange, PulseCalls, PulseClient, PulseDone, PulseThread, PulseFails

\* The steps of WASAPI,
LEMMA WasapiStep ==
  ASSUME IInv, Next, backend = "wasapi"
  PROVE  Types' /\ WasapiTells' /\ WasapiRegisters' /\ WasapiLists' /\ ToldOrSafe
<1>1. Types /\ WasapiTells /\ WasapiRegisters /\ WasapiLists /\ thread # "undefined"
  BY DEF IInv, Next
<1>2. \/ Wasapi!Change \/ Wasapi!Calls \/ Wasapi!Client \/ Done \/ Wasapi!Thread
  BY DEF Next, Change, Calls, Client, Enumerations, Thread
<1>3. CASE Wasapi!Calls
  <2>1. \A dirs \in SUBSET Dirs : Wasapi!wasapi_register_device_collection_changed(dirs) =>
          Types' /\ WasapiTells' /\ WasapiRegisters' /\ WasapiLists' /\ ToldOrSafe
    BY <1>1, WasapiRegister
  <2> QED BY <1>1, <1>3, <2>1, WasapiOtherCalls, WasapiSame DEF Wasapi!Calls
<1>4. CASE Wasapi!Client
  BY <1>1, <1>4, WasapiClient, WasapiEnumerates DEF Wasapi!Client
<1> QED BY <1>1, <1>2, <1>3, <1>4, WasapiChange, WasapiDone, WasapiThread

\* of AudioUnit,
LEMMA AudioUnitStep ==
  ASSUME IInv, Next, backend = "audiounit"
  PROVE  Types' /\ AudioUnitTells' /\ AudioUnitLists' /\ ToldOnly
<1>1. Types /\ AudioUnitTells /\ AudioUnitLists
  BY DEF IInv
<1>2. \/ AudioUnit!Change \/ AudioUnit!Calls \/ AudioUnit!Client \/ Done \/ AudioUnit!Thread
  BY DEF Next, Change, Calls, Client, Enumerations, Thread
<1> QED BY <1>1, <1>2, AudioUnitChange, AudioUnitCalls, AudioUnitClient, AudioUnitDone, AudioUnitThread

\* and of the others, those that do not list devices included.
LEMMA ListStep ==
  ASSUME IInv, Next, backend \notin {"pulse", "wasapi", "audiounit"}
  PROVE  IInv' /\ ToldOnly
<1>1. Types /\ ListTells
  BY DEF IInv
<1>2. Lists!Change \/ Done \/ Enumerations
  BY DEF Next, Change, Calls, Client, Thread
<1>3. backend' = backend
  BY DEF Next
<1>4. CASE backend = "winmm"
  <2>1. Lists!Change \/ Lists!winmm_enumerate_devices \/ Done
    BY <1>2, <1>4 DEF Enumerations
  <2>2. Types' /\ ListTells' /\ WinmmLists' /\ ToldOnly
    BY <1>1, <1>4, <2>1, WinmmStep DEF IInv
  <2> QED BY <1>3, <1>4, <2>2 DEF IInv
<1>5. CASE backend = "oss"
  <2>1. Lists!Change \/ Lists!oss_enumerate_devices \/ Done
    BY <1>2, <1>5 DEF Enumerations
  <2>2. Types' /\ ListTells' /\ OssLists' /\ ToldOnly
    BY <1>1, <1>5, <2>1, OssStep DEF IInv
  <2> QED BY <1>3, <1>5, <2>2 DEF IInv
<1>6. CASE backend = "oss_sndstat"
  <2>1. Lists!Change \/ Lists!oss_enumerate_sndstat \/ Done
    BY <1>2, <1>6 DEF Enumerations
  <2>2. Types' /\ ListTells' /\ SndstatLists' /\ ToldOnly
    BY <1>1, <1>6, <2>1, SndstatStep DEF IInv
  <2> QED BY <1>3, <1>6, <2>2 DEF IInv
<1>7. CASE backend = "sun"
  <2>1. Lists!Change \/ Lists!sun_enumerate_devices \/ Done
    BY <1>2, <1>7 DEF Enumerations
  <2>2. Types' /\ ListTells' /\ SunLists' /\ ToldOnly
    BY <1>1, <1>7, <2>1, SunStep DEF IInv
  <2> QED BY <1>3, <1>7, <2>2 DEF IInv
<1>8. CASE backend \in {"alsa", "sndio", "jack"}
  <2>1. \/ Lists!Change \/ Done
        \/ Lists!alsa_enumerate_devices \/ Lists!sndio_enumerate_devices \/ Lists!cbjack_enumerate_devices
    BY <1>2, <1>8 DEF Enumerations
  <2>2. Types' /\ ListTells' /\ ToldOnly
    BY <1>1, <2>1, DefaultStep
  <2> QED BY <1>3, <1>8, <2>2 DEF IInv
<1>9. CASE backend \notin {"winmm", "oss", "oss_sndstat", "sun", "alsa", "sndio", "jack"}
  <2>1. call = NoCall /\ call.op = "none"
    BY <1>9 DEF IInv, NoCall
  <2>2. Lists!Change
    BY <1>2, <1>9, <2>1 DEF Enumerations, Done
  <2>3. Types' /\ ListTells' /\ ToldOnly /\ call' = call
    BY <1>1, <2>1, <2>2, ListChange
  <2>4. call' = NoCall /\ NoCall' = NoCall
    BY <2>1, <2>3 DEF NoCall
  <2> QED BY <1>3, <1>9, <2>3, <2>4 DEF IInv
<1> QED BY <1>4, <1>5, <1>6, <1>7, <1>8, <1>9

\* Every step keeps the invariant.
LEMMA StepInv ==
  ASSUME IInv, Next
  PROVE  IInv'
<1>1. backend' = backend
  BY DEF Next
<1>2. CASE backend = "pulse"
  BY <1>1, <1>2, PulseStep DEF IInv
<1>3. CASE backend = "wasapi"
  BY <1>1, <1>3, WasapiStep DEF IInv
<1>4. CASE backend = "audiounit"
  BY <1>1, <1>4, AudioUnitStep DEF IInv
<1>5. CASE backend \notin {"pulse", "wasapi", "audiounit"}
  BY <1>5, ListStep
<1> QED BY <1>2, <1>3, <1>4, <1>5

\* A step that changes nothing keeps everything.
LEMMA StutterInv ==
  ASSUME IInv, UNCHANGED all
  PROVE  IInv'
<1>1. /\ present' = present /\ failures' = failures /\ registered' = registered /\ due' = due
      /\ call' = call /\ thread' = thread /\ st' = st /\ backend' = backend
  BY DEF all, vars, system, known
<1>2. Types'
  BY <1>1 DEF IInv, Types, SystemTypes, KnownTypes, CallType
<1>3. failures \in Nat
  BY DEF IInv, Types, SystemTypes
<1>4. CASE backend = "pulse"
  <2>1. PulseTells'
    BY <1>1, <1>4 DEF IInv, PulseTells
  <2>2. PulseLists'
    BY <1>1, <1>3, <1>4, PulseStays DEF IInv
  <2> QED BY <1>1, <1>2, <1>4, <2>1, <2>2 DEF IInv
<1>5. CASE backend = "wasapi"
  <2>1. WasapiTells'
    BY <1>1, <1>5 DEF IInv, WasapiTells, Enumerating
  <2>2. WasapiRegisters'
    BY <1>1, <1>5 DEF IInv, WasapiRegisters, WasapiRegistration
  <2>3. WasapiLists'
    BY <1>1, <1>5, WasapiStays DEF IInv
  <2> QED BY <1>1, <1>2, <1>5, <2>1, <2>2, <2>3 DEF IInv
<1>6. CASE backend = "audiounit"
  <2>1. AudioUnitTells'
    BY <1>1, <1>6 DEF IInv, AudioUnitTells
  <2>2. AudioUnitLists'
    BY <1>1, <1>6, AudioUnitStays DEF IInv
  <2> QED BY <1>1, <1>2, <1>6, <2>1, <2>2 DEF IInv
<1>7. CASE backend \notin {"pulse", "wasapi", "audiounit"}
  <2>0. Lists!Context' = Lists!Context /\ NoCall' = NoCall
    BY DEF Lists!Context, NoCall
  <2>1. ListTells'
    BY <1>1, <1>7, <2>0 DEF IInv, ListTells
  <2>2. Quiet
    BY <1>1 DEF Quiet
  <2>3. \A d : Lists!Sided(d)' = Lists!Sided(d) /\ Now(d)' = Now(d)
    BY <1>1, <2>2, SidedStays DEF Now
  <2>4. backend = "winmm" => WinmmLists'
    <3>1. \A d : Pointed(d)' = Pointed(d)
      BY <1>1, <2>3 DEF Pointed
    <3> QED BY <1>1, <1>7, <2>3, <3>1 DEF IInv, WinmmLists, Enumerating, Covered, Sound
  <2>5. backend = "oss" => OssLists'
    <3>1. OssPointed' = OssPointed
      BY <1>1 DEF OssPointed
    <3> QED BY <1>1, <1>7, <2>3, <3>1 DEF IInv, OssLists, Enumerating, Covered, Sound, On
  <2>6. backend = "oss_sndstat" => SndstatLists'
    BY <1>1, <1>7, <2>3 DEF IInv, SndstatLists, Enumerating, Covered, Sound, On, ToSet
  <2>7. backend = "sun" => SunLists'
    BY <1>1, <1>7, <2>3 DEF IInv, SunLists, Enumerating, Covered, Sound, On, ToSet
  <2> QED BY <1>1, <1>2, <1>7, <2>0, <2>1, <2>4, <2>5, <2>6, <2>7 DEF IInv
<1> QED BY <1>4, <1>5, <1>6, <1>7

\* A list that is done is what it ought to be, but for the liberties that are taken.
LEMMA ListsDone ==
  ASSUME IInv
  PROVE  ListsPresent
<1> SUFFICES ASSUME Enumerating, call.at = "done", ~Takes("static"), NEW d \in call.dirs
             PROVE  /\ \/ Now(d) \ call.touched \subseteq Shown(d).devs
                       \/ Takes("moves") /\ call.touched # {}
                       \/ Takes("one way") /\ call.dirs = Dirs
                       \/ Takes("empty") /\ failures > 0
                    /\ \/ Shown(d).devs \subseteq Now(d) \cup On(d, call.touched)
                       \/ Takes("any type") /\ call.dirs = Dirs
  BY DEF ListsPresent, Enumerating
<1>1. Shown(d).devs = Devs(call.found, d) /\ d \in Dirs
  BY DEF Shown, Listed, Devs, IInv, Types, CallType
<1>2. /\ Covered(d, {}) <=> Now(d) \ call.touched \subseteq Shown(d).devs
      /\ Sound(d) <=> Shown(d).devs \subseteq Now(d) \cup On(d, call.touched)
  BY <1>1 DEF Covered, Sound
<1>3. CASE backend = "pulse"
  <2>1. (Covered(d, {}) \/ failures > 0) /\ Sound(d)
    BY <1>1, <1>3, Names DEF IInv, PulseLists, PulseLooked
  <2>2. Takes("empty")
    BY <1>3 DEF Takes, Liberties
  <2> QED BY <1>2, <2>1, <2>2
<1>4. CASE backend = "wasapi"
  <2>1. Covered(d, {}) /\ Sound(d)
    BY <1>4 DEF IInv, WasapiLists
  <2> QED BY <1>2, <2>1
<1>5. CASE backend = "audiounit"
  <2>1. (Covered(d, {}) \/ failures > 0) /\ Sound(d)
    BY <1>1, <1>5 DEF IInv, AudioUnitLists, AudioUnitLooked
  <2>2. Takes("empty")
    BY <1>5 DEF Takes, Liberties
  <2> QED BY <1>2, <2>1, <2>2
<1>6. CASE backend = "winmm"
  <2>1. (Covered(d, {}) \/ call.touched # {}) /\ Sound(d)
    BY <1>6 DEF IInv, WinmmLists
  <2>2. Takes("moves")
    BY <1>6 DEF Takes, Liberties
  <2> QED BY <1>2, <2>1, <2>2
<1>7. CASE backend = "oss"
  <2>1. (Covered(d, {}) \/ call.touched # {} \/ call.dirs = Dirs) /\ Sound(d)
    BY <1>7 DEF IInv, OssLists
  <2>2. Takes("moves") /\ Takes("one way")
    BY <1>7 DEF Takes, Liberties
  <2> QED BY <1>2, <2>1, <2>2
<1>8. CASE backend = "oss_sndstat"
  <2>1. (Covered(d, {}) \/ call.dirs = Dirs) /\ Sound(d)
    BY <1>8 DEF IInv, SndstatLists
  <2>2. Takes("one way")
    BY <1>8 DEF Takes, Liberties
  <2> QED BY <1>2, <2>1, <2>2
<1>9. CASE backend = "sun"
  <2>1. Covered(d, {}) /\ (Sound(d) \/ call.dirs = Dirs)
    BY <1>9 DEF IInv, SunLists
  <2>2. Takes("any type")
    BY <1>9 DEF Takes, Liberties
  <2> QED BY <1>2, <2>1, <2>2
<1>10. CASE backend \in {"alsa", "sndio", "jack"}
  BY <1>10 DEF Takes, Liberties
<1>11. CASE backend \notin {"pulse", "wasapi", "audiounit", "winmm", "oss", "oss_sndstat", "sun",
                            "alsa", "sndio", "jack"}
  <2>1. call = NoCall
    BY <1>11 DEF IInv
  <2> QED BY <2>1 DEF NoCall, Enumerating
<1> QED BY <1>3, <1>4, <1>5, <1>6, <1>7, <1>8, <1>9, <1>10, <1>11

\* What a step tells of, and that it uses nothing that has gone.
LEMMA TellsStep ==
  ASSUME IInv, Next
  PROVE  /\ \/ due' \ due \subseteq registered' \cup call.dirs
            \/ Takes("tells others") /\ failures > 0
         /\ \/ thread' # "undefined"
            \/ Takes("undefined")
            \/ Takes("asserts") /\ failures > 0
<1>1. CASE backend = "pulse"
  <2>1. Takes("tells others") /\ Takes("undefined")
    BY <1>1 DEF Takes, Liberties
  <2> QED BY <1>1, <2>1, PulseStep DEF Told
<1>2. CASE backend = "wasapi"
  <2>1. Takes("tells others") /\ Takes("asserts")
    BY <1>2 DEF Takes, Liberties
  <2> QED BY <1>2, <2>1, WasapiStep DEF ToldOrSafe
<1>3. CASE backend = "audiounit"
  <2>1. Takes("undefined")
    BY <1>3 DEF Takes, Liberties
  <2> QED BY <1>3, <2>1, AudioUnitStep DEF ToldOnly
<1>4. CASE backend \notin {"pulse", "wasapi", "audiounit"}
  <2>1. IInv' /\ ToldOnly /\ backend' = backend
    BY <1>4, ListStep DEF Next
  <2>2. thread' = "none"
    BY <1>4, <2>1 DEF IInv, ListTells
  <2> QED BY <2>1, <2>2 DEF ToldOnly
<1> QED BY <1>1, <1>2, <1>3, <1>4

\* The invariant holds of every behaviour.
THEOREM Invariant == Spec => []IInv
<1>1. IInv /\ [Next]_all => IInv'
  BY StepInv, StutterInv
<1> QED BY <1>1, InitInv, PTL DEF Spec

\* A list that is handed over has every device that was there all along, and none
\* that never was, whatever the backend, and however often the devices change and
\* the system fails (cubeb_enumerate_devices).
THEOREM ListsPresentHolds == Spec => []ListsPresent
<1>1. IInv => ListsPresent
  BY ListsDone
<1> QED BY <1>1, Invariant, PTL

\* Nothing is told of a side that is neither registered nor being so, and no callback
\* or context is used that has gone, but where the backend takes that liberty
\* (cubeb_register_device_collection_changed).
THEOREM TellsRegisteredHolds == Spec => TellsRegistered
<1> DEFINE Tells == /\ \/ due' \ due \subseteq registered' \cup call.dirs
                       \/ Takes("tells others") /\ failures > 0
                    /\ \/ thread' # "undefined"
                       \/ Takes("undefined")
                       \/ Takes("asserts") /\ failures > 0
<1>1. IInv /\ [Next]_all => [Tells]_all
  BY TellsStep
<1> HIDE DEF Tells
<1>2. Spec => [][Tells]_all
  BY <1>1, Invariant, PTL DEF Spec
<1> QED BY <1>2 DEF TellsRegistered, Tells

-----------------------------------------------------------------------------
\* No change is forgotten: a registered side whose devices are not those the client
\* saw has an answer that is due, or an event of it is on its way, or it is being
\* enumerated, or it is one that the backend says it has missed.

\* The side is being enumerated.
Looking(d) == Enumerating /\ d \in call.dirs

\* While nothing is owed of a side, the client saw what is there, or is about to.
Remembers(d) == IF Looking(d) THEN On(d, call.touched) = {} ELSE seen[d].devs = Now(d)

\* What the steps of the client do to what it knows.
LEMMA KnownSteps ==
  ASSUME Types
  PROVE  /\ \A op, dirs : Accept(op, dirs) =>
              /\ registered' = IF op = "register" THEN registered \cup dirs ELSE registered \ dirs
              /\ due' = IF op = "register" THEN due \cup dirs ELSE due \ dirs
              /\ \A d \in Dirs \ dirs : seen'[d] = seen[d]
              /\ call'.op = "none" /\ call'.at = "idle"
         /\ Refuse => registered' = registered /\ due' = due /\ seen' = seen /\ call'.op = "none" /\ call'.at = "idle"
         /\ \A dirs, at : Begin(dirs, at) =>
              /\ registered' = registered /\ due' = due \ dirs
              /\ \A d \in Dirs \ dirs : seen'[d] = seen[d]
              /\ call'.op = "enumerate" /\ call'.at = at /\ call'.dirs = dirs
              /\ call'.touched = {} /\ call'.found = {} /\ call'.todo = <<>> /\ call.op = "none"
         /\ \A at : Goto(at) =>
              /\ registered' = registered /\ due' = due /\ seen' = seen
              /\ call'.op = call.op /\ call'.at = at /\ call'.dirs = call.dirs /\ call'.touched = call.touched
              /\ call'.found = call.found /\ call'.preferred = call.preferred
         /\ \A op, dirs, at : Enter(op, dirs, at) =>
              /\ registered' = registered /\ due' = due /\ seen' = seen
              /\ call'.op = op /\ call'.at = at /\ call'.dirs = dirs
         /\ Failed => /\ registered' = registered /\ due' = due \cup (call.dirs \cap registered) /\ seen' = seen
                      /\ call'.op = "none" /\ call'.at = "idle"
         /\ \A d : Tell(d) => registered' = registered /\ due' = due \cup {d} /\ seen' = seen
         /\ Done => /\ registered' = registered /\ due' = due /\ st' = st /\ thread' = thread
                    /\ present' = present /\ default' = default
                    /\ \A d \in Dirs : seen'[d] = IF d \in call.dirs \cap registered THEN Shown(d) ELSE seen[d]
                    /\ call.op = "enumerate" /\ call.at = "done" /\ call'.op = "none" /\ call'.at = "idle"
         /\ UNCHANGED known => registered' = registered /\ due' = due /\ seen' = seen
<1>1. \A op, dirs : Accept(op, dirs) =>
              /\ registered' = IF op = "register" THEN registered \cup dirs ELSE registered \ dirs
              /\ due' = IF op = "register" THEN due \cup dirs ELSE due \ dirs
              /\ \A d \in Dirs \ dirs : seen'[d] = seen[d]
              /\ call'.op = "none" /\ call'.at = "idle"
  BY DEF Accept, Forget, NoCall
<1>2. Refuse => registered' = registered /\ due' = due /\ seen' = seen /\ call'.op = "none" /\ call'.at = "idle"
  BY DEF Refuse, NoCall, known
<1>3. \A dirs, at : Begin(dirs, at) =>
              /\ registered' = registered /\ due' = due \ dirs
              /\ \A d \in Dirs \ dirs : seen'[d] = seen[d]
              /\ call'.op = "enumerate" /\ call'.at = at /\ call'.dirs = dirs
              /\ call'.touched = {} /\ call'.found = {} /\ call'.todo = <<>> /\ call.op = "none"
  <2> SUFFICES ASSUME NEW dirs, NEW at, Begin(dirs, at)
               PROVE  /\ registered' = registered /\ due' = due \ dirs
                      /\ \A d \in Dirs \ dirs : seen'[d] = seen[d]
                      /\ call'.op = "enumerate" /\ call'.at = at /\ call'.dirs = dirs
                      /\ call'.touched = {} /\ call'.found = {} /\ call'.todo = <<>> /\ call.op = "none"
    OBVIOUS
  <2>1. call' = [op |-> "enumerate", at |-> at, dirs |-> dirs, todo |-> <<>>, found |-> {},
                 preferred |-> "none", touched |-> {}]
    BY DEF Begin, In, NoCall
  <2>2. /\ registered' = registered /\ due' = due \ dirs /\ call.op = "none"
        /\ \A d \in Dirs \ dirs : seen'[d] = seen[d]
    BY DEF Begin, Forget, Idle
  <2> QED BY <2>1, <2>2
<1>4. \A at : Goto(at) =>
              /\ registered' = registered /\ due' = due /\ seen' = seen
              /\ call'.op = call.op /\ call'.at = at /\ call'.dirs = call.dirs /\ call'.touched = call.touched
              /\ call'.found = call.found /\ call'.preferred = call.preferred
  <2>1. \A at : Goto(at) => registered' = registered /\ due' = due /\ seen' = seen
    BY DEF Goto, known
  <2> QED BY <2>1, ClientSteps
<1>5. \A op, dirs, at : Enter(op, dirs, at) =>
              /\ registered' = registered /\ due' = due /\ seen' = seen
              /\ call'.op = op /\ call'.at = at /\ call'.dirs = dirs
  <2> SUFFICES ASSUME NEW op, NEW dirs, NEW at, Enter(op, dirs, at)
               PROVE  /\ registered' = registered /\ due' = due /\ seen' = seen
                      /\ call'.op = op /\ call'.at = at /\ call'.dirs = dirs
    OBVIOUS
  <2>1. call' = [op |-> op, at |-> at, dirs |-> dirs, todo |-> <<>>, found |-> {},
                 preferred |-> "none", touched |-> {}]
    BY DEF Enter, In, NoCall
  <2> QED BY <2>1 DEF Enter, known
<1>6. Failed => /\ registered' = registered /\ due' = due \cup (call.dirs \cap registered) /\ seen' = seen
                /\ call'.op = "none" /\ call'.at = "idle"
  BY DEF Failed, NoCall
<1>7. \A d : Tell(d) => registered' = registered /\ due' = due \cup {d} /\ seen' = seen
  BY DEF Tell
<1>8. Done => /\ registered' = registered /\ due' = due /\ st' = st /\ thread' = thread
              /\ present' = present /\ default' = default
              /\ \A d \in Dirs : seen'[d] = IF d \in call.dirs \cap registered THEN Shown(d) ELSE seen[d]
              /\ call.op = "enumerate" /\ call.at = "done" /\ call'.op = "none" /\ call'.at = "idle"
  BY DEF Done, NoCall, system
<1>9. UNCHANGED known => registered' = registered /\ due' = due /\ seen' = seen
  BY DEF known
<1> QED BY <1>1, <1>2, <1>3, <1>4, <1>5, <1>6, <1>7, <1>8, <1>9

\* A change of one side leaves the other as it was.
LEMMA OtherSide ==
  ASSUME Types, NEW x \in Devices, PlugOrUnplug(x), NEW d, d \notin Sides[x]
  PROVE  /\ Now(d)' = Now(d) /\ On(d, call'.touched) = On(d, call.touched)
         /\ seen' = seen /\ (Looking(d)' <=> Looking(d))
<1> DEFINE devs == IF x \in ToSet(present) THEN ToSet(present) \ {x} ELSE ToSet(present) \cup {x}
<1>1. devs \subseteq Devices
  BY PresentFacts DEF Types, SystemTypes
<1>2. ToSet(present') = devs
  BY <1>1, OrderFacts DEF PlugOrUnplug
<1>3. Now(d)' = Now(d)
  BY <1>2 DEF Now, On
<1>4. seen' = seen
  BY DEF PlugOrUnplug, Changed, known
<1>5. call'.op = call.op /\ call'.dirs = call.dirs /\ (call'.touched = call.touched \cup {x} \/ call' = call)
  BY Plugged DEF Enumerating
<1>6. On(d, call'.touched) = On(d, call.touched)
  BY <1>5 DEF On
<1> QED BY <1>3, <1>4, <1>5, <1>6 DEF Looking, Enumerating

\* A list that covers what was there all along and is sound is what is there, if
\* nothing was touched.
LEMMA SeenIsNow ==
  ASSUME NEW d, Covered(d, {}), Sound(d), On(d, call.touched) = {}
  PROVE  Devs(call.found, d) = Now(d) /\ Shown(d).devs = Now(d)
<1>1. Now(d) \ call.touched = Now(d)
  BY DEF On, Now
<1>2. Shown(d).devs = Devs(call.found, d)
  BY DEF Shown, Listed, Devs
<1> QED BY <1>1, <1>2 DEF Covered, Sound

-----------------------------------------------------------------------------
\* PulseAudio: what is owed of a side is due, or its event is queued.
PulseOwes(d) == d \in due \cup st.missed \cup st.events
PulseFinds ==
  Enumerating =>
    /\ call.at \in {"sources", "done"} /\ "output" \in call.dirs => Covered("output", {}) \/ "output" \in st.missed
    /\ call.at = "done" /\ "input" \in call.dirs => Covered("input", {}) \/ "input" \in st.missed
PulseKeeps == (\A d \in registered : PulseOwes(d) \/ Remembers(d)) /\ PulseFinds

\* While neither the devices nor the call change, owing more or less of a side is
\* all that matters.
LEMMA PulseRests ==
  ASSUME Types, PulseKeeps, present' = present, call' = call, seen' = seen, registered' = registered,
         \A d \in registered : PulseOwes(d) => PulseOwes(d)',
         st.missed \subseteq st'.missed
  PROVE  PulseKeeps'
<1>1. \A d : Now(d)' = Now(d)
  BY DEF Now
<1>2. \A d : Remembers(d) => Remembers(d)'
  BY <1>1 DEF Remembers, Looking, Enumerating
<1>3. PulseFinds'
  BY <1>1 DEF PulseKeeps, PulseFinds, Covered, Enumerating
<1> QED BY <1>2, <1>3 DEF PulseKeeps

\* A change of either side has its event, if the server sends it, or else is missed.
LEMMA PulseChangeKeeps ==
  ASSUME Types, PulseTells, PulseKeeps, Pulse!Change
  PROVE  PulseKeeps'
<1> PICK x \in Devices : PlugOrUnplug(x) /\ UNCHANGED failures
                         /\ st' = [st EXCEPT !.events = @ \cup (Sides[x] \cap st.mask),
                                             !.missed = @ \cup Pulse!Missed(Sides[x])]
  BY PulseSame DEF Pulse!Change
<1>1. /\ registered' = registered /\ due' = due /\ call'.op = call.op /\ call'.at = call.at
      /\ call'.dirs = call.dirs /\ call'.found = call.found
  BY Plugged
<1>2. /\ st'.events = st.events \cup (Sides[x] \cap st.mask)
      /\ st'.missed = st.missed \cup ((Sides[x] \cap registered) \ st.mask)
  BY DEF PulseTells, Pulse!Missed
<1>3. ASSUME NEW d \in registered PROVE PulseOwes(d)' \/ Remembers(d)'
  <2>1. CASE d \in Sides[x]
    BY <2>1, <1>1, <1>2 DEF PulseOwes
  <2>2. CASE d \notin Sides[x]
    <3>1. PulseOwes(d) => PulseOwes(d)'
      BY <1>1, <1>2 DEF PulseOwes
    <3>2. Remembers(d) => Remembers(d)'
      BY <2>2, OtherSide DEF Remembers, On
    <3> QED BY <3>1, <3>2 DEF PulseKeeps
  <2> QED BY <2>1, <2>2
<1>4. PulseFinds'
  <2>1. CASE Enumerating
    <3>1. \A d : Covered(d, {}) => Covered(d, {})'
      BY <2>1, <1>1, Plugged DEF Covered
    <3> QED BY <2>1, <3>1, <1>1, <1>2 DEF PulseKeeps, PulseFinds
  <2>2. CASE ~Enumerating
    BY <2>2, <1>1 DEF PulseFinds, Enumerating
  <2> QED BY <2>1, <2>2
<1> QED BY <1>1, <1>3, <1>4 DEF PulseKeeps

\* A call that begins, or a context that is new, forgets nothing.
LEMMA PulseCallsKeep ==
  ASSUME Types, PulseTells, PulseKeeps, Pulse!Calls
  PROVE  PulseKeeps'
<1>1. CASE \E dirs \in SUBSET Dirs : Pulse!pulse_register_device_collection_changed(dirs)
  <2> PICK dirs \in SUBSET Dirs : Pulse!pulse_register_device_collection_changed(dirs)
    BY <1>1
  <2>1. present' = present
    BY SystemSteps, PulseSame DEF Pulse!pulse_register_device_collection_changed, Types
  <2>2. /\ call.op = "none" /\ st'.events = st.events /\ st'.missed = st.missed
        /\ Enter("register", dirs, "subscribe") \/ Enter("unregister", dirs, "subscribe")
    BY PulseSame DEF Pulse!pulse_register_device_collection_changed, MayRegister, MayUnregister, Idle, PulseTells
  <2>3. /\ registered' = registered /\ due' = due /\ seen' = seen /\ ~Enumerating /\ ~Enumerating'
    BY <2>2, KnownSteps DEF Enumerating
  <2>4. \A d : Now(d)' = Now(d)
    BY <2>1 DEF Now
  <2> QED BY <2>2, <2>3, <2>4 DEF PulseKeeps, PulseFinds, PulseOwes, Remembers, Looking
<1>2. CASE Pulse!pulse_enumerate_devices
  <2>1. /\ present' = present /\ st' = [st EXCEPT !.missed = @ \ due]
        /\ Begin(due, "sinks")
    BY <1>2, SystemSteps, PulseSame DEF Pulse!pulse_enumerate_devices, Types
  <2>2. /\ registered' = registered /\ due' = {} /\ (\A d \in Dirs \ due : seen'[d] = seen[d])
        /\ call'.op = "enumerate" /\ call'.at = "sinks" /\ call'.dirs = due
        /\ call'.touched = {} /\ ~Enumerating
    BY <2>1, KnownSteps DEF Enumerating
  <2>3. st'.events = st.events /\ st'.missed = st.missed \ due
    BY <2>1 DEF PulseTells
  <2>4. \A d : Now(d)' = Now(d)
    BY <2>1 DEF Now
  <2>5. ASSUME NEW d \in registered PROVE PulseOwes(d)' \/ Remembers(d)'
    <3>1. d \in Dirs
      BY DEF Types, KnownTypes
    <3>2. CASE d \in due
      BY <3>2, <2>2 DEF Remembers, Looking, Enumerating, On
    <3>3. CASE d \notin due
      <4>1. PulseOwes(d) => PulseOwes(d)'
        BY <3>3, <2>2, <2>3 DEF PulseOwes
      <4>2. ~Looking(d) /\ ~Looking(d)' /\ seen'[d] = seen[d]
        BY <3>1, <3>3, <2>2 DEF Looking
      <4> QED BY <4>1, <4>2, <2>4 DEF PulseKeeps, Remembers
    <3> QED BY <3>2, <3>3
  <2>6. PulseFinds'
    BY <2>2 DEF PulseFinds
  <2> QED BY <2>2, <2>5, <2>6 DEF PulseKeeps
<1>3. CASE Pulse!pulse_context_init
  <2>1. /\ present' = present /\ registered' = registered /\ due' = due /\ seen' = seen /\ call' = call
        /\ st' = [st EXCEPT !.failed = FALSE]
    BY <1>3, SystemSteps, KnownSteps, PulseSame DEF Pulse!pulse_context_init, Types
  <2>2. st'.events = st.events /\ st'.missed = st.missed
    BY <2>1 DEF PulseTells
  <2> QED BY <2>1, <2>2, PulseRests DEF PulseOwes
<1>4. CASE Pulse!pulse_destroy
  <2>1. /\ registered = {} /\ registered' = registered /\ call' = call /\ call.op = "none"
    BY <1>4, KnownSteps, PulseSame DEF Pulse!pulse_destroy, MayDestroy, Idle
  <2> QED BY <2>1 DEF PulseKeeps, PulseFinds, Enumerating
<1> QED BY <1>1, <1>2, <1>3, <1>4, PulseSame DEF Pulse!Calls

\* A side that was registered is due; a list that could not be read is missed.
LEMMA PulseClientKeeps ==
  ASSUME Types, PulseTells, PulseLists, PulseKeeps, Pulse!Client
  PROVE  PulseKeeps'
<1>1. CASE Pulse!pulse_subscribe_notifications
  <2>1. present' = present /\ \A d : Now(d)' = Now(d)
    BY <1>1, SystemSteps, PulseSame DEF Pulse!pulse_subscribe_notifications, Types, Now
  <2>2. /\ ~Enumerating /\ st'.events = st.events /\ st'.missed = st.missed
        /\ Refuse \/ Goto("wait") \/ Accept(call.op, call.dirs)
    BY <1>1, PulseSame DEF Pulse!pulse_subscribe_notifications, PulseTells, Enumerating
  <2>3. CASE Refuse \/ Goto("wait")
    <3>1. registered' = registered /\ due' = due /\ seen' = seen /\ ~Enumerating'
      BY <2>2, <2>3, KnownSteps DEF Enumerating
    <3> QED BY <2>1, <2>2, <3>1 DEF PulseKeeps, PulseFinds, PulseOwes, Remembers, Looking
  <2>4. CASE Accept(call.op, call.dirs)
    <3>1. /\ registered' = IF call.op = "register" THEN registered \cup call.dirs ELSE registered \ call.dirs
          /\ due' = IF call.op = "register" THEN due \cup call.dirs ELSE due \ call.dirs
          /\ (\A d \in Dirs \ call.dirs : seen'[d] = seen[d]) /\ ~Enumerating'
      BY <2>4, KnownSteps DEF Enumerating
    <3>2. ASSUME NEW d \in registered' PROVE PulseOwes(d)' \/ Remembers(d)'
      <4>1. CASE d \in call.dirs
        BY <4>1, <3>1 DEF PulseOwes
      <4>2. CASE d \notin call.dirs
        <5>1. d \in registered /\ d \in Dirs /\ seen'[d] = seen[d]
          BY <4>2, <3>1 DEF Types, KnownTypes
        <5>2. PulseOwes(d) => PulseOwes(d)'
          BY <4>2, <3>1, <2>2 DEF PulseOwes
        <5> QED BY <5>1, <5>2, <2>1, <2>2, <3>1 DEF PulseKeeps, Remembers, Looking
      <4> QED BY <4>1, <4>2
    <3> QED BY <3>1, <3>2 DEF PulseKeeps, PulseFinds
  <2> QED BY <2>2, <2>3, <2>4
<1>2. CASE Pulse!SinksAndSources
  <2>1. /\ present' = present /\ due' = due /\ registered' = registered /\ seen' = seen
        /\ call.at \in {"sinks", "sources"} /\ \A d : Now(d)' = Now(d)
    BY <1>2, SystemSteps, KnownSteps, PulseSame DEF Pulse!SinksAndSources, Types, Now
  <2>2. st'.events = st.events /\ st'.missed = IF st.failed THEN st.missed \cup call.dirs ELSE st.missed
    BY <1>2, PulseSame DEF Pulse!SinksAndSources, PulseTells
  <2> DEFINE e == IF call.at = "sinks" THEN "output" ELSE "input"
  <2>3. call' = [op |-> call.op, at |-> IF call.at = "sinks" THEN "sources" ELSE "done", dirs |-> call.dirs,
                 todo |-> call.todo, found |-> call.found \cup Pulse!Entries(e),
                 preferred |-> call.preferred, touched |-> call.touched]
    BY <1>2, PulseSame DEF Pulse!SinksAndSources, Types, CallType
  <2>4. \A d : (Looking(d)' <=> Looking(d)) /\ (Remembers(d) => Remembers(d)')
    BY <2>1, <2>3 DEF Remembers, Looking, Enumerating, On
  <2>5. \A d : PulseOwes(d) => PulseOwes(d)'
    BY <2>1, <2>2 DEF PulseOwes
  <2>6. \A d : Devs(call'.found, d) = Devs(call.found, d) \cup Devs(Pulse!Entries(e), d)
    BY <2>3, DevsFacts
  <2>7. ASSUME NEW f, f = e, f \in call.dirs PROVE Covered(f, {})' \/ f \in st'.missed
    <3>1. CASE st.failed
      BY <3>1, <2>2, <2>7
    <3>2. CASE ~st.failed
      <4>1. Devs(Pulse!Entries(f), f) = Now(f)
        BY <3>2, <2>7, PulseEntries
      <4> QED BY <4>1, <2>1, <2>6, <2>7 DEF Covered
    <3> QED BY <3>1, <3>2
  <2>8. Covered("output", {}) => Covered("output", {})'
    BY <2>1, <2>3, <2>6 DEF Covered
  <2>9. PulseFinds'
    <3> SUFFICES ASSUME Enumerating' PROVE PulseFinds'
      BY DEF PulseFinds
    <3>1. Enumerating /\ call'.dirs = call.dirs /\ st.missed \subseteq st'.missed
      BY <2>2, <2>3 DEF Enumerating
    <3>2. CASE call.at = "sinks"
      <4>1. e = "output" /\ call'.at = "sources"
        BY <3>2, <2>3
      <4> QED BY <3>1, <4>1, <2>7 DEF PulseFinds
    <3>3. CASE call.at = "sources"
      <4>1. e = "input" /\ call'.at = "done"
        BY <3>3, <2>3
      <4>2. "output" \in call.dirs => Covered("output", {})' \/ "output" \in st'.missed
        BY <3>1, <3>3, <2>8 DEF PulseFinds, PulseKeeps
      <4> QED BY <3>1, <4>1, <4>2, <2>7 DEF PulseFinds
    <3> QED BY <3>2, <3>3, <2>1
  <2> QED BY <2>1, <2>4, <2>5, <2>9 DEF PulseKeeps
<1> QED BY <1>1, <1>2, PulseSame DEF Pulse!Client

\* The list that is handed over is what the client saw.
LEMMA PulseDoneKeeps ==
  ASSUME Types, PulseLists, PulseKeeps, Done
  PROVE  PulseKeeps'
<1>1. /\ registered' = registered /\ due' = due /\ st' = st /\ present' = present /\ ~Enumerating'
      /\ (\A d \in Dirs : seen'[d] = IF d \in call.dirs \cap registered THEN Shown(d) ELSE seen[d])
      /\ Enumerating /\ call.at = "done"
  BY KnownSteps DEF Enumerating
<1>2. \A d : Now(d)' = Now(d)
  BY <1>1 DEF Now
<1>3. ASSUME NEW d \in registered PROVE PulseOwes(d)' \/ Remembers(d)'
  <2>1. d \in Dirs /\ (PulseOwes(d) => PulseOwes(d)')
    BY <1>1 DEF Types, KnownTypes, PulseOwes
  <2>2. CASE d \in call.dirs
    <3>1. Sound(d) /\ (Covered(d, {}) \/ d \in st.missed)
      BY <2>1, <2>2, <1>1, Names DEF PulseLists, PulseLooked, PulseKeeps, PulseFinds
    <3>2. On(d, call.touched) = {} \/ PulseOwes(d)
      BY <2>2, <1>1 DEF PulseKeeps, Remembers, Looking
    <3>3. Shown(d).devs = Now(d) \/ PulseOwes(d)
      BY <3>1, <3>2, SeenIsNow DEF PulseOwes
    <3> QED BY <2>1, <2>2, <3>3, <1>1, <1>2 DEF Remembers, Looking
  <2>3. CASE d \notin call.dirs
    BY <2>1, <2>3, <1>1, <1>2 DEF PulseKeeps, Remembers, Looking
  <2> QED BY <2>2, <2>3
<1> QED BY <1>1, <1>3 DEF PulseKeeps, PulseFinds

\* An event that is handled makes its side due; what the server had queued for a
\* context that fails is missed.
LEMMA PulseStepKeeps ==
  ASSUME IInv, PulseKeeps, Next, backend = "pulse", thread' # "undefined"
  PROVE  PulseKeeps'
<1>0. Types /\ PulseTells /\ PulseLists
  BY DEF IInv
<1>1. \/ Pulse!Change \/ Pulse!Calls \/ Pulse!Client \/ Done \/ Pulse!Thread \/ Pulse!ContextFails
  BY DEF Next, Change, Calls, Client, Enumerations, Thread
<1>2. CASE Pulse!ContextFails
  <2>1. /\ present' = present /\ registered' = registered /\ due' = due /\ seen' = seen /\ call' = call
        /\ st' = [st EXCEPT !.failed = TRUE, !.mask = {}, !.events = {}, !.missed = @ \cup st.events]
    BY <1>0, <1>2, SystemSteps, KnownSteps, PulseSame DEF Pulse!ContextFails, Types
  <2>2. st'.missed = st.missed \cup st.events
    BY <1>0, <2>1 DEF PulseTells
  <2> QED BY <1>0, <2>1, <2>2, PulseRests DEF PulseOwes
<1>3. CASE Pulse!Thread
  <2> PICK d \in st.events :
        /\ Works /\ UNCHANGED call /\ st' = [st EXCEPT !.events = @ \ {d}] /\ Tell(d)
    BY <1>3, PulseSame DEF Pulse!Thread, Pulse!pulse_subscribe_callback
  <2>1. /\ present' = present /\ registered' = registered /\ due' = due \cup {d} /\ seen' = seen
    BY <1>0, SystemSteps, KnownSteps DEF Types
  <2>2. st'.events = st.events \ {d} /\ st'.missed = st.missed
    BY <1>0 DEF PulseTells
  <2> QED BY <1>0, <2>1, <2>2, PulseRests DEF PulseOwes
<1> QED BY <1>0, <1>1, <1>2, <1>3, PulseChangeKeeps, PulseCallsKeep, PulseClientKeeps, PulseDoneKeeps

-----------------------------------------------------------------------------
\* AudioUnit: what is owed of a side is due, or a block will compare its devices.
Blocked(d) == d \in st.callbacks /\ (st.blocks > 0 \/ (thread = "output" /\ d = "output"))
AudioUnitOwes(d) == d \in due \cup st.missed \/ Blocked(d)
AudioUnitListens == st.blocks \in Nat /\ (st.callbacks # {} => st.listening)
AudioUnitFound(d, rest) == d \in call.dirs => Covered(d, rest) \/ d \in st.missed
AudioUnitFinds ==
  Enumerating =>
    /\ call.at \in {"inputs", "create"} => AudioUnitFound("output", Paired("output"))
    /\ call.at = "create" => AudioUnitFound("input", Paired("input"))
    /\ call.at = "done" => \A d \in Dirs : AudioUnitFound(d, {})
AudioUnitKeeps == /\ AudioUnitListens /\ AudioUnitFinds
                  /\ \A d \in registered : AudioUnitOwes(d) \/ Remembers(d)

\* While neither the devices nor the call change, owing more or less of a side is
\* all that matters.
LEMMA AudioUnitRests ==
  ASSUME Types, AudioUnitKeeps, present' = present, call' = call, seen' = seen, registered' = registered,
         \A d \in registered : AudioUnitOwes(d) => AudioUnitOwes(d)',
         st.missed \subseteq st'.missed, AudioUnitListens'
  PROVE  AudioUnitKeeps'
<1>1. \A d : Now(d)' = Now(d)
  BY DEF Now
<1>2. \A d : Remembers(d) => Remembers(d)'
  BY <1>1 DEF Remembers, Looking, Enumerating
<1>3. \A d : /\ AudioUnitFound(d, {}) => AudioUnitFound(d, {})'
             /\ AudioUnitFound(d, Paired(d)) => AudioUnitFound(d, Paired(d))'
  BY <1>1 DEF AudioUnitFound, Covered, Paired
<1>4. AudioUnitFinds'
  BY <1>3 DEF AudioUnitKeeps, AudioUnitFinds, Enumerating
<1> QED BY <1>2, <1>4 DEF AudioUnitKeeps

\* A change of either side has its block, as long as there are callbacks.
LEMMA AudioUnitChangeKeeps ==
  ASSUME Types, AudioUnitTells, AudioUnitKeeps, AudioUnit!Change
  PROVE  AudioUnitKeeps'
<1> PICK x \in Devices :
      /\ PlugOrUnplug(x) /\ UNCHANGED failures
      /\ st' = [st EXCEPT !.blocks = IF st.listening THEN @ + 1 ELSE @,
                          !.missed = @ \cup ((Sides[x] \cap registered) \ st.callbacks)]
  BY AudioUnitSame DEF AudioUnit!Change
<1>1. /\ registered' = registered /\ due' = due /\ thread' = thread /\ call'.op = call.op /\ call'.at = call.at
      /\ call'.dirs = call.dirs /\ call'.found = call.found /\ call'.todo = call.todo
  BY Plugged
<1>2. /\ st'.blocks = IF st.listening THEN st.blocks + 1 ELSE st.blocks
      /\ st'.missed = st.missed \cup ((Sides[x] \cap registered) \ st.callbacks)
      /\ st'.callbacks = st.callbacks /\ st'.listening = st.listening
  BY DEF AudioUnitTells
<1>3. AudioUnitListens' /\ (st.blocks > 0 => st'.blocks > 0) /\ (st.listening => st'.blocks > 0)
  BY <1>2 DEF AudioUnitKeeps, AudioUnitListens
<1>4. ASSUME NEW d \in registered PROVE AudioUnitOwes(d)' \/ Remembers(d)'
  <2>1. CASE d \in Sides[x]
    <3>1. CASE d \in st.callbacks
      <4>1. st.listening
        BY <3>1 DEF AudioUnitKeeps, AudioUnitListens
      <4> QED BY <4>1, <3>1, <1>2, <1>3 DEF AudioUnitOwes, Blocked
    <3>2. CASE d \notin st.callbacks
      BY <3>2, <2>1, <1>2 DEF AudioUnitOwes
    <3> QED BY <3>1, <3>2
  <2>2. CASE d \notin Sides[x]
    <3>1. AudioUnitOwes(d) => AudioUnitOwes(d)'
      BY <1>1, <1>2, <1>3 DEF AudioUnitOwes, Blocked
    <3>2. Remembers(d) => Remembers(d)'
      BY <2>2, OtherSide DEF Remembers, On
    <3> QED BY <3>1, <3>2 DEF AudioUnitKeeps
  <2> QED BY <2>1, <2>2
<1>5. AudioUnitFinds'
  <2>1. CASE Enumerating
    <3>1. \A d : Now(d)' \ call'.touched \subseteq Now(d) \ call.touched
      BY <2>1, Plugged
    <3>2. \A d : /\ AudioUnitFound(d, {}) => AudioUnitFound(d, {})'
                 /\ AudioUnitFound(d, Paired(d)) => AudioUnitFound(d, Paired(d))'
      BY <3>1, <1>1, <1>2 DEF AudioUnitFound, Covered, Paired
    <3> QED BY <2>1, <3>2, <1>1 DEF AudioUnitKeeps, AudioUnitFinds
  <2>2. CASE ~Enumerating
    BY <2>2, <1>1 DEF AudioUnitFinds, Enumerating
  <2> QED BY <2>1, <2>2
<1> QED BY <1>1, <1>3, <1>4, <1>5 DEF AudioUnitKeeps

\* A side that is registered is due; one that keeps its callback keeps its blocks.
LEMMA AudioUnitCallsKeep ==
  ASSUME Types, AudioUnitTells, AudioUnitKeeps, AudioUnit!Calls
  PROVE  AudioUnitKeeps'
<1>1. ASSUME NEW dirs \in SUBSET Dirs, AudioUnit!audiounit_add_device_listener(dirs)
      PROVE  AudioUnitKeeps'
  <2>1. /\ present' = present /\ ~Enumerating /\ thread' = thread
        /\ \/ /\ Accept("register", dirs)
              /\ \E array : st' = [st EXCEPT !.listening = TRUE, !.callbacks = @ \cup dirs, !.device_array = array]
           \/ Refuse /\ UNCHANGED st
    BY <1>1, SystemSteps, AudioUnitSame
       DEF AudioUnit!audiounit_add_device_listener, Types, MayRegister, Idle, Enumerating
  <2>2. \A d : Now(d)' = Now(d)
    BY <2>1 DEF Now
  <2>3. CASE Refuse /\ UNCHANGED st
    <3>1. registered' = registered /\ due' = due /\ seen' = seen /\ ~Enumerating'
      BY <2>3, KnownSteps DEF Enumerating
    <3>2. \A d \in registered : (AudioUnitOwes(d) => AudioUnitOwes(d)') /\ (Remembers(d) => Remembers(d)')
      BY <2>1, <2>2, <2>3, <3>1 DEF AudioUnitOwes, Blocked, Remembers, Looking
    <3> QED BY <2>3, <3>1, <3>2 DEF AudioUnitKeeps, AudioUnitListens, AudioUnitFinds
  <2>4. CASE /\ Accept("register", dirs)
             /\ \E array : st' = [st EXCEPT !.listening = TRUE, !.callbacks = @ \cup dirs, !.device_array = array]
    <3>1. /\ registered' = registered \cup dirs /\ due' = due \cup dirs
          /\ (\A d \in Dirs \ dirs : seen'[d] = seen[d]) /\ ~Enumerating'
      BY <2>4, KnownSteps DEF Enumerating
    <3>2. /\ st'.callbacks = st.callbacks \cup dirs /\ st'.blocks = st.blocks /\ st'.missed = st.missed
          /\ st'.listening
      BY <2>4 DEF AudioUnitTells
    <3>3. ASSUME NEW d \in registered' PROVE AudioUnitOwes(d)' \/ Remembers(d)'
      <4>1. CASE d \in dirs
        BY <4>1, <3>1 DEF AudioUnitOwes
      <4>2. CASE d \notin dirs
        <5>1. d \in registered /\ seen'[d] = seen[d]
          BY <4>2, <3>1 DEF Types, KnownTypes
        <5>2. (AudioUnitOwes(d) => AudioUnitOwes(d)') /\ (Remembers(d) => Remembers(d)')
          BY <2>1, <2>2, <3>1, <3>2, <5>1 DEF AudioUnitOwes, Blocked, Remembers, Looking
        <5> QED BY <5>1, <5>2 DEF AudioUnitKeeps
      <4> QED BY <4>1, <4>2
    <3> QED BY <3>1, <3>2, <3>3 DEF AudioUnitKeeps, AudioUnitListens, AudioUnitFinds
  <2> QED BY <2>1, <2>3, <2>4
<1>2. ASSUME NEW dirs \in SUBSET Dirs, AudioUnit!audiounit_remove_device_listener(dirs)
      PROVE  AudioUnitKeeps'
  <2> DEFINE left == st.callbacks \ dirs
  <2>1. /\ present' = present /\ ~Enumerating /\ thread' = thread
        /\ \/ /\ Accept("unregister", dirs)
              /\ \E array : st' = [st EXCEPT !.callbacks = left, !.device_array = array, !.listening = left # {}]
           \/ /\ Refuse /\ left = {}
              /\ \E array : st' = [st EXCEPT !.callbacks = left, !.device_array = array, !.missed = @ \cup registered]
    <3>1. \/ /\ Works /\ Accept("unregister", dirs)
             /\ \E array : st' = [st EXCEPT !.callbacks = left, !.device_array = array, !.listening = left # {}]
          \/ /\ Breaks /\ Refuse /\ left = {}
             /\ \E array : st' = [st EXCEPT !.callbacks = left, !.device_array = array, !.missed = @ \cup registered]
      <4> DEFINE array == [d \in Dirs |-> IF d \in dirs THEN {} ELSE st.device_array[d]]
                 removed == [st EXCEPT !.callbacks = left, !.device_array = array]
      <4>1. \/ Works /\ Accept("unregister", dirs) /\ st' = [removed EXCEPT !.listening = left # {}]
            \/ Breaks /\ left = {} /\ Refuse /\ st' = [removed EXCEPT !.missed = @ \cup registered]
        BY <1>2, AudioUnitSame DEF AudioUnit!audiounit_remove_device_listener
      <4>2. [removed EXCEPT !.listening = left # {}]
              = [st EXCEPT !.callbacks = left, !.device_array = array, !.listening = left # {}]
        BY DEF AudioUnitTells
      <4>3. [removed EXCEPT !.missed = @ \cup registered]
              = [st EXCEPT !.callbacks = left, !.device_array = array, !.missed = @ \cup registered]
        BY DEF AudioUnitTells
      <4> HIDE DEF removed, array, left
      <4> QED BY <4>1, <4>2, <4>3
    <3>2. ~Enumerating /\ thread' = thread
      BY <1>2, AudioUnitSame DEF AudioUnit!audiounit_remove_device_listener, MayUnregister, Idle, Enumerating
    <3>3. present' = present
      BY <3>1, SystemSteps DEF Types
    <3> QED BY <3>1, <3>2, <3>3
  <2>2. \A d : Now(d)' = Now(d)
    BY <2>1 DEF Now
  <2>3. CASE /\ Refuse /\ left = {}
             /\ \E array : st' = [st EXCEPT !.callbacks = left, !.device_array = array, !.missed = @ \cup registered]
    <3>1. registered' = registered /\ ~Enumerating'
      BY <2>3, KnownSteps DEF Enumerating
    <3>2. st'.callbacks = {} /\ st'.blocks = st.blocks /\ st'.missed = st.missed \cup registered
      BY <2>3 DEF AudioUnitTells
    <3> QED BY <3>1, <3>2 DEF AudioUnitKeeps, AudioUnitListens, AudioUnitFinds, AudioUnitOwes
  <2>4. CASE /\ Accept("unregister", dirs)
             /\ \E array : st' = [st EXCEPT !.callbacks = left, !.device_array = array, !.listening = left # {}]
    <3>1. /\ registered' = registered \ dirs /\ due' = due \ dirs
          /\ (\A d \in Dirs \ dirs : seen'[d] = seen[d]) /\ ~Enumerating'
      BY <2>4, KnownSteps DEF Enumerating
    <3>2. /\ st'.callbacks = left /\ st'.blocks = st.blocks /\ st'.missed = st.missed
          /\ st'.listening = (left # {})
      BY <2>4 DEF AudioUnitTells
    <3>3. ASSUME NEW d \in registered' PROVE AudioUnitOwes(d)' \/ Remembers(d)'
      <4>1. d \in registered /\ d \notin dirs /\ seen'[d] = seen[d]
        BY <3>1 DEF Types, KnownTypes
      <4>2. (AudioUnitOwes(d) => AudioUnitOwes(d)') /\ (Remembers(d) => Remembers(d)')
        BY <2>1, <2>2, <3>1, <3>2, <4>1 DEF AudioUnitOwes, Blocked, Remembers, Looking
      <4> QED BY <4>1, <4>2 DEF AudioUnitKeeps
    <3>4. AudioUnitListens'
      BY <3>2 DEF AudioUnitKeeps, AudioUnitListens
    <3> QED BY <3>1, <3>3, <3>4 DEF AudioUnitKeeps, AudioUnitFinds
  <2> QED BY <2>1, <2>3, <2>4
<1>3. CASE AudioUnit!audiounit_enumerate_devices
  <2>1. /\ present' = present /\ thread' = thread /\ st' = [st EXCEPT !.missed = @ \ due]
        /\ Begin(due, "outputs")
    BY <1>3, SystemSteps, AudioUnitSame DEF AudioUnit!audiounit_enumerate_devices, Types
  <2>2. /\ registered' = registered /\ due' = {} /\ (\A d \in Dirs \ due : seen'[d] = seen[d])
        /\ call'.op = "enumerate" /\ call'.at = "outputs" /\ call'.dirs = due
        /\ call'.touched = {} /\ ~Enumerating
    BY <2>1, KnownSteps DEF Enumerating
  <2>3. /\ st'.callbacks = st.callbacks /\ st'.blocks = st.blocks /\ st'.listening = st.listening
        /\ st'.missed = st.missed \ due
    BY <2>1 DEF AudioUnitTells
  <2>4. \A d : Now(d)' = Now(d)
    BY <2>1 DEF Now
  <2>5. ASSUME NEW d \in registered PROVE AudioUnitOwes(d)' \/ Remembers(d)'
    <3>1. d \in Dirs
      BY DEF Types, KnownTypes
    <3>2. CASE d \in due
      BY <3>2, <2>2 DEF Remembers, Looking, Enumerating, On
    <3>3. CASE d \notin due
      <4>1. AudioUnitOwes(d) => AudioUnitOwes(d)'
        BY <3>3, <2>1, <2>2, <2>3 DEF AudioUnitOwes, Blocked
      <4>2. ~Looking(d) /\ ~Looking(d)' /\ seen'[d] = seen[d]
        BY <3>1, <3>3, <2>2 DEF Looking
      <4> QED BY <4>1, <4>2, <2>4 DEF AudioUnitKeeps, Remembers
    <3> QED BY <3>2, <3>3
  <2>6. AudioUnitFinds' /\ AudioUnitListens'
    BY <2>2, <2>3 DEF AudioUnitKeeps, AudioUnitFinds, AudioUnitListens
  <2> QED BY <2>2, <2>5, <2>6 DEF AudioUnitKeeps
<1>4. CASE AudioUnit!audiounit_destroy
  <2>1. /\ registered = {} /\ registered' = registered /\ call' = call /\ call.op = "none"
        /\ st' = [st EXCEPT !.open = FALSE]
    BY <1>4, KnownSteps, AudioUnitSame DEF AudioUnit!audiounit_destroy, MayDestroy, Idle
  <2>2. st'.callbacks = st.callbacks /\ st'.blocks = st.blocks /\ st'.listening = st.listening
    BY <2>1 DEF AudioUnitTells
  <2> QED BY <2>1, <2>2 DEF AudioUnitKeeps, AudioUnitFinds, AudioUnitListens, Enumerating
<1> QED BY <1>1, <1>2, <1>3, <1>4, AudioUnitSame DEF AudioUnit!Calls

\* One side of the block: its callback is called, or a change was seen already.
LEMMA AudioUnitComparesKeep ==
  ASSUME Types, NEW d \in Dirs, NEW s, AudioUnit!Compare(d, s), NEW blocks, NEW missed,
         s = [open |-> st.open, callbacks |-> st.callbacks, listening |-> st.listening,
              blocks |-> blocks, device_array |-> st.device_array, missed |-> missed]
  PROVE  /\ present' = present /\ registered' = registered /\ seen' = seen
         /\ st'.callbacks = st.callbacks /\ st'.listening = st.listening /\ st'.blocks = blocks
         /\ missed \subseteq st'.missed /\ due \subseteq due'
         /\ d \in st.callbacks => d \in due' \cup st'.missed
<1>1. Works \/ Breaks
  BY AudioUnitSame DEF AudioUnit!Compare, AudioUnit!Got
<1>2. present' = present
  BY <1>1, SystemSteps DEF Types
<1>3. CASE d \notin s.callbacks /\ st' = s /\ UNCHANGED known
  BY <1>2, <1>3, KnownSteps
<1>4. CASE UNCHANGED known /\ st' = [s EXCEPT !.missed = @ \cup {d}]
  BY <1>2, <1>4, KnownSteps
<1>5. CASE Tell(d) /\ \E devs : st' = [s EXCEPT !.device_array[d] = devs]
  BY <1>2, <1>5, KnownSteps
<1> QED BY <1>3, <1>4, <1>5, AudioUnitSame DEF AudioUnit!Compare

\* The block compares the inputs, and then the outputs; it does not need another for that.
LEMMA AudioUnitThreadKeeps ==
  ASSUME Types, AudioUnitTells, AudioUnitKeeps, AudioUnit!Thread, thread' # "undefined"
  PROVE  AudioUnitKeeps'
<1>0. call' = call /\ Dirs = {"input", "output"} /\ registered \subseteq Dirs
  BY Names DEF AudioUnit!Thread, AudioUnit!audiounit_collection_changed_callback, AudioUnit!Output,
               Types, KnownTypes
<1>1. CASE AudioUnit!audiounit_collection_changed_callback
  <2> DEFINE taken == [st EXCEPT !.blocks = @ - 1]
  <2>1. st.blocks > 0 /\ thread = "none"
    BY <1>1 DEF AudioUnit!audiounit_collection_changed_callback, AudioUnit!Unlocked
  <2>2. taken = [open |-> st.open, callbacks |-> st.callbacks, listening |-> st.listening,
              blocks |-> st.blocks - 1, device_array |-> st.device_array, missed |-> st.missed]
    BY DEF AudioUnitTells
  <2>3. st.blocks - 1 \in Nat
    BY <2>1 DEF AudioUnitKeeps, AudioUnitListens
  <2>4. CASE st.callbacks = {} /\ st' = taken /\ Works /\ UNCHANGED known
    <3> HIDE DEF taken
    <3>1. present' = present /\ registered' = registered /\ due' = due /\ seen' = seen
      BY <2>4, SystemSteps, KnownSteps DEF Types
    <3>2. st'.callbacks = {} /\ st'.blocks = st.blocks - 1 /\ st'.missed = st.missed
      BY <2>2, <2>4
    <3>3. \A d \in registered : AudioUnitOwes(d) => AudioUnitOwes(d)'
      BY <2>4, <3>1, <3>2 DEF AudioUnitOwes, Blocked
    <3>4. AudioUnitListens'
      BY <2>3, <3>2 DEF AudioUnitListens
    <3> QED BY <1>0, <3>1, <3>2, <3>3, <3>4, AudioUnitRests
  <2>5. CASE thread' = "output" /\ AudioUnit!Compare("input", taken)
    <3> HIDE DEF taken
    <3>1. /\ present' = present /\ registered' = registered /\ seen' = seen
          /\ st'.callbacks = st.callbacks /\ st'.listening = st.listening /\ st'.blocks = st.blocks - 1
          /\ st.missed \subseteq st'.missed /\ due \subseteq due'
          /\ "input" \in st.callbacks => "input" \in due' \cup st'.missed
      BY <1>0, <2>2, <2>5, AudioUnitComparesKeep
    <3>2. \A d \in registered : AudioUnitOwes(d) => AudioUnitOwes(d)'
      BY <1>0, <2>5, <3>1 DEF AudioUnitOwes, Blocked
    <3>3. AudioUnitListens'
      BY <2>3, <3>1 DEF AudioUnitKeeps, AudioUnitListens
    <3> QED BY <1>0, <3>1, <3>2, <3>3, AudioUnitRests
  <2> QED BY <1>1, <2>4, <2>5, AudioUnitSame DEF AudioUnit!audiounit_collection_changed_callback
<1>2. CASE AudioUnit!Output
  <2>1. AudioUnit!Compare("output", st)
    BY <1>2 DEF AudioUnit!Output
  <2>2. st = [open |-> st.open, callbacks |-> st.callbacks, listening |-> st.listening,
              blocks |-> st.blocks, device_array |-> st.device_array, missed |-> st.missed]
    BY DEF AudioUnitTells
  <2>3. /\ present' = present /\ registered' = registered /\ seen' = seen
        /\ st'.callbacks = st.callbacks /\ st'.listening = st.listening /\ st'.blocks = st.blocks
        /\ st.missed \subseteq st'.missed /\ due \subseteq due'
        /\ "output" \in st.callbacks => "output" \in due' \cup st'.missed
    BY <1>0, <2>1, <2>2, AudioUnitComparesKeep
  <2>4. \A d \in registered : AudioUnitOwes(d) => AudioUnitOwes(d)'
    BY <1>0, <2>3 DEF AudioUnitOwes, Blocked
  <2>5. AudioUnitListens'
    BY <2>3 DEF AudioUnitKeeps, AudioUnitListens
  <2> QED BY <1>0, <2>3, <2>4, <2>5, AudioUnitRests
<1> QED BY <1>1, <1>2 DEF AudioUnit!Thread

\* A side whose devices could not be got is missed; those got are still to be described.
LEMMA AudioUnitLookupKeeps ==
  ASSUME Types, AudioUnitTells, AudioUnitLists, AudioUnitKeeps, AudioUnit!Lookup
  PROVE  AudioUnitKeeps'
<1>0. "input" \in Dirs /\ "output" \in Dirs /\ Dirs = {"input", "output"}
  BY Names
<1> DEFINE Looks(d, at, devs) ==
             /\ devs \subseteq Now(d) /\ (Works \/ Breaks)
             /\ st' = [st EXCEPT !.missed = IF d \in call.dirs /\ devs # Now(d) THEN @ \cup {d} ELSE @]
             /\ call' = [call EXCEPT !.at = at, !.todo = @ \o Queue(devs, d)]
<1> PICK d, at, devs :
      /\ \/ call.at = "outputs" /\ d = "output" /\ at = "inputs"
         \/ call.at = "inputs" /\ d = "input" /\ at = "create"
      /\ Looks(d, at, devs)
  <2>1. CASE call.at = "outputs"
    <3>1. \E devs : Looks("output", "inputs", devs)
      BY <2>1, AudioUnitSame DEF AudioUnit!Lookup, AudioUnit!Got, Queue
    <3> QED BY <2>1, <3>1
  <2>2. CASE call.at = "inputs"
    <3>1. \E devs : Looks("input", "create", devs)
      BY <2>2, AudioUnitSame DEF AudioUnit!Lookup, AudioUnit!Got, Queue
    <3> QED BY <2>2, <3>1
  <2> QED BY <2>1, <2>2 DEF AudioUnit!Lookup
<1>9. d \in Dirs
  BY <1>0
<1>1. /\ present' = present /\ registered' = registered /\ due' = due /\ seen' = seen /\ thread' = thread
  BY SystemSteps, KnownSteps, AudioUnitSame DEF AudioUnit!Lookup, Types
<1>2. call' = [op |-> call.op, at |-> at, dirs |-> call.dirs, todo |-> call.todo \o Queue(devs, d),
               found |-> call.found, preferred |-> call.preferred, touched |-> call.touched]
  BY DEF Types, CallType
<1>3. /\ call'.at = at /\ call'.dirs = call.dirs /\ call'.found = call.found /\ call'.op = call.op
      /\ call'.touched = call.touched /\ call'.todo = call.todo \o Queue(devs, d)
  BY <1>2
<1>4. /\ st'.callbacks = st.callbacks /\ st'.listening = st.listening /\ st'.blocks = st.blocks
      /\ st'.missed = IF d \in call.dirs /\ devs # Now(d) THEN st.missed \cup {d} ELSE st.missed
  BY DEF AudioUnitTells
<1>5. \A e : Now(e)' = Now(e)
  BY <1>1 DEF Now
<1>6. \A e : (AudioUnitOwes(e) => AudioUnitOwes(e)') /\ (Remembers(e) => Remembers(e)')
  BY <1>1, <1>3, <1>4, <1>5 DEF AudioUnitOwes, Blocked, Remembers, Looking, Enumerating
<1>7. AudioUnitFinds'
  <2> SUFFICES ASSUME Enumerating' PROVE AudioUnitFinds'
    BY DEF AudioUnitFinds
  <2>1. Enumerating
    BY <1>3 DEF Enumerating
  <2>2. call.todo \in Seq(Devices \X Dirs) /\ devs \subseteq Devices
    BY <2>1, PresentFacts DEF AudioUnitLists, Now, On, Types, SystemTypes
  <2>3. \A x, e : <<x, e>> \in ToSet(call'.todo) <=> <<x, e>> \in ToSet(call.todo) \/ (x \in devs /\ e = d)
    <3>1. Adds(call.todo \o Queue(devs, d), call.todo, devs, d)
      BY <1>9, <2>2, Queued
    <3> QED BY <3>1, <1>3 DEF Adds
  <2>4. \A e : Paired(e)' = IF e = d THEN Paired(e) \cup devs ELSE Paired(e)
    BY <2>2, <2>3 DEF Paired
  <2>5. AudioUnitFound(d, Paired(d))'
    BY <1>3, <1>4, <1>5, <2>4 DEF AudioUnitFound, Covered
  <2>6. CASE call.at = "outputs"
    BY <2>5, <2>6, <1>3 DEF AudioUnitFinds
  <2>7. CASE call.at = "inputs"
    <3>1. AudioUnitFound("output", Paired("output"))
      BY <2>1, <2>7 DEF AudioUnitKeeps, AudioUnitFinds
    <3>2. AudioUnitFound("output", Paired("output"))'
      BY <3>1, <2>4, <2>7, <1>3, <1>4, <1>5 DEF AudioUnitFound, Covered
    <3> QED BY <2>5, <2>7, <3>2, <1>3 DEF AudioUnitFinds
  <2> QED BY <2>6, <2>7
<1> QED BY <1>1, <1>4, <1>6, <1>7 DEF AudioUnitKeeps, AudioUnitListens

\* A device is described, or has gone.
LEMMA AudioUnitDescribesKeep ==
  ASSUME Types, AudioUnitLists, AudioUnitKeeps, AudioUnit!audiounit_create_device_from_hwdev
  PROVE  AudioUnitKeeps'
<1>1. /\ present' = present /\ call.at = "create" /\ st' = st /\ thread' = thread
      /\ due' = due /\ registered' = registered /\ seen' = seen
  BY SystemSteps, KnownSteps, AudioUnitSame DEF AudioUnit!audiounit_create_device_from_hwdev, Types
<1>2. \A e : Now(e)' = Now(e)
  BY <1>1 DEF Now
<1>3. CASE call.todo = <<>>
  <2>1. call' = [call EXCEPT !.at = "done"]
    BY <1>3 DEF AudioUnit!audiounit_create_device_from_hwdev
  <2>2. /\ call'.at = "done" /\ call'.dirs = call.dirs /\ call'.found = call.found
        /\ call'.touched = call.touched /\ call'.op = call.op
    BY <2>1 DEF Types, CallType
  <2>3. \A e : Paired(e) = {}
    BY <1>3 DEF Paired, ToSet
  <2>4. \A e : AudioUnitFound(e, Paired(e)) => AudioUnitFound(e, {})'
    BY <1>1, <1>2, <2>2, <2>3 DEF AudioUnitFound, Covered
  <2>5. AudioUnitFinds'
    BY <1>1, <2>2, <2>4, Names DEF AudioUnitKeeps, AudioUnitFinds, Enumerating
  <2>6. \A e : (AudioUnitOwes(e) => AudioUnitOwes(e)') /\ (Remembers(e) => Remembers(e)')
    BY <1>1, <1>2, <2>2 DEF AudioUnitOwes, Blocked, Remembers, Looking, Enumerating
  <2> QED BY <1>1, <2>5, <2>6 DEF AudioUnitKeeps, AudioUnitListens
<1>4. CASE call.todo # <<>>
  <2> DEFINE x == Head(call.todo)[1]
             d == Head(call.todo)[2]
             new == IF x \notin Now(d) THEN {} ELSE {Entry(x, {d}, FALSE)}
  <2>1. call' = [call EXCEPT !.todo = Tail(@), !.found = @ \cup new]
    BY <1>4, AudioUnitSame DEF AudioUnit!audiounit_create_device_from_hwdev, Types, CallType
  <2>2. /\ call'.at = call.at /\ call'.dirs = call.dirs /\ call'.found = call.found \cup new
        /\ call'.touched = call.touched /\ call'.todo = Tail(call.todo) /\ call'.op = call.op
    BY <2>1 DEF Types, CallType
  <2>3. Devs(call.found, d) \cup (IF x \in Now(d) THEN {x} ELSE {}) \subseteq Devs(call'.found, d)
    <3>1. Devs(call'.found, d) = Devs(call.found, d) \cup Devs(new, d)
      <4> HIDE DEF new, x, d
      <4> QED BY <2>2, DevsFacts
    <3>2. CASE x \in Now(d)
      <4>1. new = {Entry(x, {d}, FALSE)}
        BY <3>2
      <4> HIDE DEF new, x, d
      <4>2. ASSUME NEW e PROVE Devs({Entry(x, {d}, FALSE)}, e) = IF e \in {d} THEN {x} ELSE {}
        BY DevsFacts
      <4> QED BY <3>1, <3>2, <4>1, <4>2
    <3>3. CASE x \notin Now(d)
      <4> HIDE DEF new, x, d
      <4> QED BY <3>1, <3>3
    <3> QED BY <3>2, <3>3
  <2>4. \A e : Devs(call.found, e) \subseteq Devs(call'.found, e)
    <3> HIDE DEF new
    <3> QED BY <2>2, DevsFacts
  <2>5. \A e : (AudioUnitOwes(e) => AudioUnitOwes(e)') /\ (Remembers(e) => Remembers(e)')
    <3> HIDE DEF new, x, d
    <3> QED BY <1>1, <1>2, <2>2 DEF AudioUnitOwes, Blocked, Remembers, Looking, Enumerating
  <2>6. AudioUnitFinds'
    <3> SUFFICES ASSUME Enumerating' PROVE AudioUnitFinds'
      BY DEF AudioUnitFinds
    <3>1. Enumerating /\ call.todo \in Seq(Devices \X Dirs)
      BY <2>2 DEF Enumerating, AudioUnitLists
    <3>2. Head(call.todo) = <<x, d>> /\ ToSet(call.todo) = {<<x, d>>} \cup ToSet(call'.todo)
      BY <1>4, <2>2, <3>1, TodoFacts
    <3> HIDE DEF new, x, d
    <3>3. \A e : Paired(e) \subseteq Paired(e)' \cup (IF e = d THEN {x} ELSE {})
      BY <3>2 DEF Paired
    <3>4. \A e : Covered(e, Paired(e)) => Covered(e, Paired(e))'
      <4> SUFFICES ASSUME NEW e, Covered(e, Paired(e)) PROVE Covered(e, Paired(e))'
        OBVIOUS
      <4>1. ASSUME NEW y \in Now(e) \ call.touched PROVE y \in Devs(call'.found, e) \cup Paired(e)'
        <5>1. y \in Devs(call.found, e) \/ y \in Paired(e)
          BY <4>1 DEF Covered
        <5>2. CASE e = d /\ y = x
          BY <5>2, <4>1, <2>3
        <5> QED BY <5>1, <5>2, <2>4, <3>3
      <4> QED BY <4>1, <1>2, <2>2 DEF Covered
    <3>5. \A e : AudioUnitFound(e, Paired(e)) => AudioUnitFound(e, Paired(e))'
      BY <1>1, <2>2, <3>4 DEF AudioUnitFound
    <3> QED BY <1>1, <2>2, <3>1, <3>5 DEF AudioUnitKeeps, AudioUnitFinds
  <2> HIDE DEF new, x, d
  <2> QED BY <1>1, <2>5, <2>6 DEF AudioUnitKeeps, AudioUnitListens
<1> QED BY <1>3, <1>4

\* The list that is handed over is what the client saw.
LEMMA AudioUnitDoneKeeps ==
  ASSUME Types, AudioUnitLists, AudioUnitKeeps, Done
  PROVE  AudioUnitKeeps'
<1>1. /\ registered' = registered /\ due' = due /\ st' = st /\ thread' = thread /\ present' = present
      /\ ~Enumerating' /\ Enumerating /\ call.at = "done"
      /\ (\A d \in Dirs : seen'[d] = IF d \in call.dirs \cap registered THEN Shown(d) ELSE seen[d])
  BY KnownSteps DEF Enumerating
<1>2. \A d : Now(d)' = Now(d)
  BY <1>1 DEF Now
<1>3. ASSUME NEW d \in registered PROVE AudioUnitOwes(d)' \/ Remembers(d)'
  <2>1. d \in Dirs /\ (AudioUnitOwes(d) => AudioUnitOwes(d)')
    BY <1>1 DEF Types, KnownTypes, AudioUnitOwes, Blocked
  <2>2. CASE d \in call.dirs
    <3>1. Sound(d) /\ (Covered(d, {}) \/ d \in st.missed)
      BY <2>1, <2>2, <1>1 DEF AudioUnitLists, AudioUnitKeeps, AudioUnitFinds, AudioUnitFound
    <3>2. On(d, call.touched) = {} \/ AudioUnitOwes(d)
      BY <2>2, <1>1 DEF AudioUnitKeeps, Remembers, Looking
    <3>3. Shown(d).devs = Now(d) \/ AudioUnitOwes(d)
      BY <3>1, <3>2, SeenIsNow DEF AudioUnitOwes
    <3> QED BY <2>1, <2>2, <3>3, <1>1, <1>2 DEF Remembers, Looking
  <2>3. CASE d \notin call.dirs
    BY <2>1, <2>3, <1>1, <1>2 DEF AudioUnitKeeps, Remembers, Looking
  <2> QED BY <2>2, <2>3
<1> QED BY <1>1, <1>3 DEF AudioUnitKeeps, AudioUnitFinds, AudioUnitListens

\* Whatever happens, a side of AudioUnit is owed an answer, or what was seen of it is there.
LEMMA AudioUnitStepKeeps ==
  ASSUME IInv, AudioUnitKeeps, Next, backend = "audiounit", thread' # "undefined"
  PROVE  AudioUnitKeeps'
<1>0. Types /\ AudioUnitTells /\ AudioUnitLists
  BY DEF IInv
<1>1. AudioUnit!Change \/ AudioUnit!Calls \/ AudioUnit!Client \/ Done \/ AudioUnit!Thread
  BY DEF Next, Change, Calls, Client, Enumerations, Thread
<1> QED BY <1>0, <1>1, AudioUnitChangeKeeps, AudioUnitCallsKeep, AudioUnitLookupKeeps, AudioUnitDescribesKeep,
           AudioUnitThreadKeeps, AudioUnitDoneKeeps DEF AudioUnit!Client

-----------------------------------------------------------------------------
\* WASAPI, where the default is shown too: what is owed of a side is due, or its
\* event is set.
WasapiOwes(d) == d \in due \cup st.missed \cup st.events
WasapiRemembers(d) ==
  IF Looking(d) THEN /\ On(d, call.touched) = {}
                     /\ d = "input" /\ call.at # "defaults" => call.preferred = default
  ELSE seen[d] = List(d)
DefaultThere == default \in Now("input") \/ (default = "none" /\ Now("input") = {})
WasapiPrefers == Enumerating => \A e \in call.found : e.preferred <=> e.dev = call.preferred

\* A notification client hears of all that is registered.  Registrations that
\* failed may leave callbacks, but for no side is one missing while there is none.
WasapiHears ==
  /\ call.at = "unregister_client" => st.client
  /\ call.at \in {"join", "set", "register_client"} => ~st.client
  /\ st.client \/ call.at \in {"join", "set"} => registered \subseteq st.callbacks
  /\ st.callbacks = {} => registered = {}
  /\ call.at = "register_client" =>
       /\ st.callbacks # {}
       /\ call.op = "register" => registered \cup call.dirs \subseteq st.callbacks
       /\ call.op = "unregister" => registered \subseteq st.callbacks \cup call.dirs
WasapiKeeps == /\ WasapiHears /\ WasapiPrefers /\ DefaultThere
               /\ \A d \in registered : WasapiOwes(d) \/ WasapiRemembers(d)

\* Nothing is said of an enumeration while there is none, and what was seen is still there.
LEMMA WasapiRests ==
  ASSUME Types, WasapiKeeps, present' = present, default' = default, WasapiHears',
         ~Enumerating, ~Enumerating',
         \A d \in registered' : d \in due' \/ (d \in registered /\ seen'[d] = seen[d] /\ (WasapiOwes(d) => WasapiOwes(d)'))
  PROVE  WasapiKeeps'
<1>1. \A d : Now(d)' = Now(d) /\ List(d)' = List(d)
  BY DEF Now, List
<1>2. \A d \in registered' : WasapiOwes(d)' \/ WasapiRemembers(d)'
  BY <1>1 DEF WasapiKeeps, WasapiOwes, WasapiRemembers, Looking
<1> QED BY <1>1, <1>2 DEF WasapiKeeps, WasapiPrefers, DefaultThere

\* The same while an enumeration, or any call, stays where it is.
LEMMA WasapiStaysKept ==
  ASSUME Types, WasapiKeeps, present' = present, default' = default, call' = call, seen' = seen,
         registered' = registered, WasapiHears', \A d \in registered : WasapiOwes(d) => WasapiOwes(d)'
  PROVE  WasapiKeeps'
<1>1. \A d : Now(d)' = Now(d) /\ List(d)' = List(d)
  BY DEF Now, List
<1>2. \A d : WasapiRemembers(d) => WasapiRemembers(d)'
  BY <1>1 DEF WasapiRemembers, Looking, Enumerating
<1> QED BY <1>1, <1>2 DEF WasapiKeeps, WasapiPrefers, DefaultThere, Enumerating

\* The default is one of the inputs, as long as there is any.
LEMMA DefaultKept ==
  ASSUME Types, NEW x \in Devices, PlugOrUnplug(x)
  PROVE  DefaultThere'
<1>1. present' \in Orders
  BY Plugged
<1>2. present' \in Seq(Devices) /\ ToSet(present') \subseteq Devices
  <2>1. PICK devs \in SUBSET Devices : present' = InOrder(devs)
    BY <1>1 DEF Orders
  <2> QED BY <2>1, OrderFacts
<1>3. Now("input")' = ToSet(present')
  <2>1. \A y \in Devices : "input" \in Sides[y]
    BY Names
  <2> QED BY <2>1, <1>2 DEF Now, On
<1>4. CASE present' = <<>>
  <2>1. default' = "none"
    BY <1>4 DEF PlugOrUnplug
  <2>2. ToSet(present') = {}
    BY <1>2, <1>4, TodoFacts
  <2> QED BY <2>1, <2>2, <1>3 DEF DefaultThere
<1>5. CASE present' # <<>>
  <2>1. default' = present'[Len(present')] /\ Len(present') \in DOMAIN present'
    BY <1>2, <1>5 DEF PlugOrUnplug, Last
  <2> QED BY <2>1, <1>3 DEF DefaultThere, ToSet
<1> QED BY <1>4, <1>5

\* Of another default, or another device, the client hears, or it is missed.
LEMMA WasapiNotifies ==
  ASSUME WasapiTells, WasapiKeeps, NEW dirs, registered' = registered, due' = due,
         Wasapi!notify(dirs) \/ st' = [st EXCEPT !.missed = @ \cup (dirs \cap registered)]
  PROVE  /\ st'.callbacks = st.callbacks /\ st'.client = st.client
         /\ \A d \in registered : d \in dirs \/ WasapiOwes(d) => WasapiOwes(d)'
<1>1. CASE st' = [st EXCEPT !.missed = @ \cup (dirs \cap registered)]
  BY <1>1 DEF WasapiTells, WasapiOwes
<1>2. CASE Wasapi!notify(dirs)
  <2>1. /\ st'.callbacks = st.callbacks /\ st'.client = st.client
        /\ st'.events = IF Wasapi!Hears THEN st.events \cup (dirs \cap st.callbacks) ELSE st.events
        /\ st'.missed = IF Wasapi!Hears THEN st.missed ELSE st.missed \cup (dirs \cap registered)
    BY <1>2 DEF WasapiTells, Wasapi!notify
  <2>2. Wasapi!Hears => registered \subseteq st.callbacks
    BY DEF WasapiKeeps, WasapiHears, Wasapi!Hears
  <2> QED BY <2>1, <2>2 DEF WasapiOwes
<1> QED BY <1>1, <1>2

\* A change of a side, or of the default.
LEMMA WasapiChangeKeeps ==
  ASSUME Types, WasapiTells, WasapiKeeps, Wasapi!Change
  PROVE  WasapiKeeps'
<1>1. CASE \E x \in Devices :
             /\ PlugOrUnplug(x)
             /\ Wasapi!notify(Sides[x]) \/ st' = [st EXCEPT !.missed = @ \cup (Sides[x] \cap registered)]
  <2> PICK x \in Devices :
             /\ PlugOrUnplug(x)
             /\ Wasapi!notify(Sides[x]) \/ st' = [st EXCEPT !.missed = @ \cup (Sides[x] \cap registered)]
    BY <1>1
  <2>1. /\ registered' = registered /\ due' = due /\ call'.op = call.op /\ call'.at = call.at
        /\ call'.dirs = call.dirs /\ call'.found = call.found /\ call'.preferred = call.preferred
    BY Plugged
  <2>2. /\ st'.callbacks = st.callbacks /\ st'.client = st.client
        /\ \A d \in registered : d \in Sides[x] \/ WasapiOwes(d) => WasapiOwes(d)'
    BY <2>1, WasapiNotifies
  <2>3. ASSUME NEW d \in registered PROVE WasapiOwes(d)' \/ WasapiRemembers(d)'
    <3>1. CASE d \in Sides[x]
      BY <2>2, <3>1
    <3>2. CASE d \notin Sides[x]
      <4>1. d # "input"
        BY <3>2, Names
      <4>2. List(d)' = List(d)
        BY <3>2, <4>1, OtherSide DEF List
      <4>3. WasapiRemembers(d) => WasapiRemembers(d)'
        BY <3>2, <4>1, <4>2, OtherSide DEF WasapiRemembers
      <4> QED BY <2>2, <4>3 DEF WasapiKeeps
    <3> QED BY <3>1, <3>2
  <2>4. DefaultThere'
    BY DefaultKept
  <2>5. WasapiHears'
    BY <2>1, <2>2 DEF WasapiKeeps, WasapiHears
  <2>6. WasapiPrefers'
    BY <2>1 DEF WasapiKeeps, WasapiPrefers, Enumerating
  <2> QED BY <2>1, <2>3, <2>4, <2>5, <2>6 DEF WasapiKeeps
<1>2. CASE SetDefault /\ Wasapi!notify({"input"})
  <2>1. /\ present' = present /\ call' = call /\ registered' = registered /\ due' = due /\ seen' = seen
        /\ default' \in Now("input")
    BY <1>2 DEF SetDefault, Changed, known
  <2>2. /\ st'.callbacks = st.callbacks /\ st'.client = st.client
        /\ \A d \in registered : d = "input" \/ WasapiOwes(d) => WasapiOwes(d)'
    BY <1>2, <2>1, WasapiNotifies
  <2>3. \A d : Now(d)' = Now(d) /\ (d # "input" => List(d)' = List(d))
    BY <2>1 DEF Now, List
  <2>4. ASSUME NEW d \in registered, d # "input" PROVE WasapiRemembers(d) => WasapiRemembers(d)'
    BY <2>1, <2>3, <2>4 DEF WasapiRemembers, Looking, Enumerating
  <2>5. \A d \in registered : WasapiOwes(d)' \/ WasapiRemembers(d)'
    BY <2>2, <2>4 DEF WasapiKeeps
  <2>6. WasapiHears' /\ WasapiPrefers' /\ DefaultThere'
    BY <2>1, <2>2, <2>3 DEF WasapiKeeps, WasapiHears, WasapiPrefers, DefaultThere, Enumerating
  <2> QED BY <2>1, <2>5, <2>6 DEF WasapiKeeps
<1> QED BY <1>1, <1>2, WasapiSame DEF Wasapi!Change

\* A call begins.  With no notification client there is nothing to take away, and
\* then no side is without its callback, or else no other could be registered.
LEMMA WasapiCallsKeep ==
  ASSUME Types, WasapiTells, WasapiKeeps, Wasapi!Calls, thread' # "undefined"
  PROVE  WasapiKeeps'
<1>0. Dirs = {"input", "output"} /\ registered \subseteq Dirs /\ st.callbacks \subseteq Dirs
  BY Names DEF Types, KnownTypes, WasapiTells
<1>1. ASSUME NEW dirs \in SUBSET Dirs, Wasapi!wasapi_register_device_collection_changed(dirs)
      PROVE  WasapiKeeps'
  <2>1. /\ present' = present /\ default' = default /\ st' = st
        /\ \/ /\ MayRegister(dirs) /\ dirs \cap st.callbacks = {}
              /\ Enter("register", dirs, IF st.client THEN "unregister_client" ELSE "set")
           \/ MayRegister(dirs) /\ Refuse
           \/ MayUnregister(dirs) /\ st.client /\ Enter("unregister", dirs, "unregister_client")
           \/ MayUnregister(dirs) /\ ~st.client /\ Accept("unregister", dirs)
    BY <1>1, SystemSteps, WasapiSame DEF Wasapi!wasapi_register_device_collection_changed, Types
  <2>2. ~Enumerating /\ dirs # {} /\ (MayRegister(dirs) => dirs \cap registered = {})
    BY <2>1 DEF MayRegister, MayUnregister, Idle, Enumerating
  <2>3. CASE MayRegister(dirs) /\ Refuse
    <3>1. registered' = registered /\ due' = due /\ seen' = seen /\ ~Enumerating' /\ call'.at = "idle"
      BY <2>3, KnownSteps DEF Enumerating
    <3>2. WasapiHears'
      BY <2>1, <3>1 DEF WasapiKeeps, WasapiHears
    <3> QED BY <2>1, <2>2, <3>1, <3>2, WasapiRests DEF WasapiOwes
  <2>4. CASE /\ MayRegister(dirs) /\ dirs \cap st.callbacks = {}
             /\ Enter("register", dirs, IF st.client THEN "unregister_client" ELSE "set")
    <3>1. /\ registered' = registered /\ due' = due /\ seen' = seen /\ ~Enumerating'
          /\ call'.at = IF st.client THEN "unregister_client" ELSE "set"
      BY <2>4, KnownSteps DEF Enumerating
    <3>2. registered \subseteq st.callbacks
      <4>1. ASSUME NEW d \in registered, d \notin st.callbacks PROVE FALSE
        <5>1. PICK e \in st.callbacks : TRUE
          BY <4>1 DEF WasapiKeeps, WasapiHears
        <5> QED BY <1>0, <2>2, <2>4, <4>1, <5>1
      <4> QED BY <4>1
    <3>3. WasapiHears'
      BY <2>1, <3>1, <3>2 DEF WasapiKeeps, WasapiHears
    <3> QED BY <2>1, <2>2, <3>1, <3>3, WasapiRests DEF WasapiOwes
  <2>5. CASE st.client /\ Enter("unregister", dirs, "unregister_client")
    <3>1. /\ registered' = registered /\ due' = due /\ seen' = seen /\ ~Enumerating'
          /\ call'.at = "unregister_client"
      BY <2>5, KnownSteps DEF Enumerating
    <3>2. WasapiHears'
      BY <2>1, <2>5, <3>1 DEF WasapiKeeps, WasapiHears
    <3> QED BY <2>1, <2>2, <3>1, <3>2, WasapiRests DEF WasapiOwes
  <2>6. CASE ~st.client /\ Accept("unregister", dirs)
    <3>1. /\ registered' = registered \ dirs /\ due' = due \ dirs /\ ~Enumerating' /\ call'.at = "idle"
          /\ \A d \in Dirs \ dirs : seen'[d] = seen[d]
      BY <2>6, KnownSteps DEF Enumerating
    <3>2. WasapiHears'
      BY <2>1, <2>6, <3>1 DEF WasapiKeeps, WasapiHears
    <3>3. \A d \in registered' : d \in registered /\ seen'[d] = seen[d] /\ (WasapiOwes(d) => WasapiOwes(d)')
      BY <1>0, <2>1, <3>1 DEF WasapiOwes
    <3> QED BY <2>1, <2>2, <3>1, <3>2, <3>3, WasapiRests
  <2> QED BY <2>1, <2>3, <2>4, <2>5, <2>6
<1>2. CASE Wasapi!wasapi_enumerate_devices
  <2>1. /\ present' = present /\ default' = default /\ st' = [st EXCEPT !.missed = @ \ due]
        /\ Begin(due, "defaults")
    BY <1>2, SystemSteps, WasapiSame DEF Wasapi!wasapi_enumerate_devices, Types
  <2>2. /\ registered' = registered /\ due' = {} /\ (\A d \in Dirs \ due : seen'[d] = seen[d])
        /\ call'.op = "enumerate" /\ call'.at = "defaults" /\ call'.dirs = due
        /\ call'.touched = {} /\ call'.found = {} /\ ~Enumerating
    BY <2>1, KnownSteps DEF Enumerating
  <2>3. /\ st'.events = st.events /\ st'.missed = st.missed \ due /\ st'.callbacks = st.callbacks
        /\ st'.client = st.client
    BY <2>1 DEF WasapiTells
  <2>4. \A d : Now(d)' = Now(d) /\ List(d)' = List(d)
    BY <2>1 DEF Now, List
  <2>5. ASSUME NEW d \in registered PROVE WasapiOwes(d)' \/ WasapiRemembers(d)'
    <3>1. d \in Dirs
      BY <1>0
    <3>2. CASE d \in due
      BY <3>2, <2>2 DEF WasapiRemembers, Looking, Enumerating, On
    <3>3. CASE d \notin due
      <4>1. WasapiOwes(d) => WasapiOwes(d)'
        BY <3>3, <2>2, <2>3 DEF WasapiOwes
      <4>2. ~Looking(d) /\ ~Looking(d)' /\ seen'[d] = seen[d]
        BY <3>1, <3>3, <2>2 DEF Looking
      <4> QED BY <4>1, <4>2, <2>4 DEF WasapiKeeps, WasapiRemembers
    <3> QED BY <3>2, <3>3
  <2>6. WasapiPrefers' /\ DefaultThere' /\ WasapiHears'
    BY <2>1, <2>2, <2>3, <2>4 DEF WasapiKeeps, WasapiPrefers, DefaultThere, WasapiHears
  <2> QED BY <2>2, <2>5, <2>6 DEF WasapiKeeps
<1>3. CASE Wasapi!wasapi_destroy
  <2>1. /\ registered = {} /\ registered' = registered /\ call' = call /\ call.op = "none"
        /\ st' = [Wasapi!Context EXCEPT !.open = FALSE] /\ present' = present /\ default' = default
    BY <1>3, SystemSteps, KnownSteps, WasapiSame DEF Wasapi!wasapi_destroy, MayDestroy, Idle, Types
  <2>2. call.at = "idle" /\ ~Enumerating /\ ~Enumerating'
    BY <2>1 DEF WasapiTells, Enumerating
  <2>3. ~st'.client
    BY <2>1 DEF Wasapi!Context
  <2>4. WasapiHears'
    BY <2>1, <2>2, <2>3 DEF WasapiHears
  <2> QED BY <2>1, <2>2, <2>4, WasapiRests
<1> QED BY <1>1, <1>2, <1>3, WasapiSame DEF Wasapi!Calls

\* The notification client is taken away and another is made, for more or fewer
\* callbacks: what it has set stays.
LEMMA WasapiClientKeeps ==
  ASSUME Types, WasapiTells, WasapiKeeps,
         \/ Wasapi!unregister_collection_notification_client \/ Wasapi!Join \/ Wasapi!SetCallbacks
         \/ Wasapi!register_collection_notification_client
  PROVE  WasapiKeeps'
<1>0. /\ call.at \in {"unregister_client", "join", "set", "register_client"}
      /\ Works \/ Breaks
      /\ \/ Goto("join") /\ call.at = "unregister_client"
            /\ st' = [st EXCEPT !.client = FALSE, !.shutdown = TRUE]
         \/ Goto("set") /\ call.at = "join" /\ st' = [st EXCEPT !.shutdown = FALSE]
         \/ Wasapi!SetCallbacks
         \/ Refuse /\ UNCHANGED st /\ call.at \in {"unregister_client", "register_client"}
         \/ Accept(call.op, call.dirs) /\ call.at = "register_client" /\ st' = [st EXCEPT !.client = TRUE]
  BY WasapiSame DEF Wasapi!unregister_collection_notification_client, Wasapi!Join, Wasapi!SetCallbacks,
                    Wasapi!register_collection_notification_client
<1>1. /\ call.op \in {"register", "unregister"} /\ ~Enumerating
  BY <1>0 DEF WasapiTells, Types, CallType, Enumerating
<1>2. present' = present /\ default' = default
  BY <1>0, SystemSteps DEF Types
<1>3. CASE Goto("join") /\ call.at = "unregister_client" /\ st' = [st EXCEPT !.client = FALSE, !.shutdown = TRUE]
  <2>1. /\ registered' = registered /\ due' = due /\ seen' = seen /\ call'.at = "join" /\ ~Enumerating'
    BY <1>1, <1>3, KnownSteps DEF Enumerating
  <2>2. /\ st'.callbacks = st.callbacks /\ st'.events = st.events /\ st'.missed = st.missed /\ ~st'.client
    BY <1>3 DEF WasapiTells
  <2>3. WasapiHears'
    BY <1>3, <2>1, <2>2 DEF WasapiKeeps, WasapiHears
  <2> QED BY <1>1, <1>2, <2>1, <2>2, <2>3, WasapiRests DEF WasapiOwes
<1>4. CASE Goto("set") /\ call.at = "join" /\ st' = [st EXCEPT !.shutdown = FALSE]
  <2>1. /\ registered' = registered /\ due' = due /\ seen' = seen /\ call'.at = "set" /\ ~Enumerating'
    BY <1>1, <1>4, KnownSteps DEF Enumerating
  <2>2. /\ st'.callbacks = st.callbacks /\ st'.events = st.events /\ st'.missed = st.missed
        /\ st'.client = st.client
    BY <1>4 DEF WasapiTells
  <2>3. WasapiHears'
    BY <1>4, <2>1, <2>2 DEF WasapiKeeps, WasapiHears
  <2> QED BY <1>1, <1>2, <2>1, <2>2, <2>3, WasapiRests DEF WasapiOwes
<1>5. CASE Refuse /\ UNCHANGED st /\ call.at \in {"unregister_client", "register_client"}
  <2>1. registered' = registered /\ due' = due /\ seen' = seen /\ call'.at = "idle" /\ ~Enumerating'
    BY <1>5, KnownSteps DEF Enumerating
  <2>2. WasapiHears'
    BY <1>5, <2>1 DEF WasapiKeeps, WasapiHears
  <2> QED BY <1>1, <1>2, <1>5, <2>1, <2>2, WasapiRests DEF WasapiOwes
<1>6. ASSUME Accept(call.op, call.dirs), st'.events = st.events, st'.missed = st.missed, WasapiHears'
      PROVE  WasapiKeeps'
  <2>1. /\ registered' = IF call.op = "register" THEN registered \cup call.dirs ELSE registered \ call.dirs
        /\ due' = IF call.op = "register" THEN due \cup call.dirs ELSE due \ call.dirs
        /\ (\A d \in Dirs \ call.dirs : seen'[d] = seen[d]) /\ ~Enumerating'
    BY <1>6, KnownSteps DEF Enumerating
  <2>2. ASSUME NEW d \in registered'
        PROVE  d \in due' \/ (d \in registered /\ seen'[d] = seen[d] /\ (WasapiOwes(d) => WasapiOwes(d)'))
    <3>1. CASE d \in call.dirs
      BY <3>1, <2>1
    <3>2. CASE d \notin call.dirs
      <4>1. d \in registered /\ d \in Dirs
        BY <3>2, <2>1 DEF Types, KnownTypes
      <4> QED BY <3>2, <4>1, <2>1, <1>6 DEF WasapiOwes
    <3> QED BY <3>1, <3>2
  <2> QED BY <1>1, <1>2, <1>6, <2>1, <2>2, WasapiRests
<1>7. CASE Accept(call.op, call.dirs) /\ call.at = "register_client" /\ st' = [st EXCEPT !.client = TRUE]
  <2>1. /\ st'.callbacks = st.callbacks /\ st'.events = st.events /\ st'.missed = st.missed /\ st'.client
    BY <1>7 DEF WasapiTells
  <2>2. /\ registered' = IF call.op = "register" THEN registered \cup call.dirs ELSE registered \ call.dirs
        /\ call'.at = "idle"
    BY <1>7, KnownSteps
  <2>3. WasapiHears'
    BY <1>1, <1>7, <2>1, <2>2 DEF WasapiKeeps, WasapiHears
  <2> QED BY <1>6, <1>7, <2>1, <2>3
<1>8. CASE Wasapi!SetCallbacks
  <2> DEFINE set == IF call.op = "register" THEN st.callbacks \cup call.dirs ELSE st.callbacks \ call.dirs
  <2>1. /\ call.at = "set" /\ st' = [st EXCEPT !.callbacks = set]
        /\ IF set = {} THEN Accept(call.op, call.dirs) ELSE Goto("register_client")
    BY <1>8, WasapiSame DEF Wasapi!SetCallbacks
  <2>2. /\ st'.callbacks = set /\ st'.events = st.events /\ st'.missed = st.missed /\ st'.client = st.client
    BY <2>1 DEF WasapiTells
  <2>3. registered \subseteq st.callbacks /\ ~st.client
    BY <2>1 DEF WasapiKeeps, WasapiHears
  <2>4. CASE set = {}
    <3>1. /\ registered' = IF call.op = "register" THEN registered \cup call.dirs ELSE registered \ call.dirs
          /\ call'.at = "idle"
      BY <2>1, <2>4, KnownSteps
    <3>2. registered' = {}
      BY <1>1, <2>3, <2>4, <3>1
    <3>3. WasapiHears'
      BY <2>2, <2>3, <3>1, <3>2 DEF WasapiHears
    <3> QED BY <1>6, <2>1, <2>2, <2>4, <3>3
  <2>5. CASE set # {}
    <3>1. /\ registered' = registered /\ due' = due /\ seen' = seen /\ call'.at = "register_client"
          /\ call'.op = call.op /\ call'.dirs = call.dirs /\ ~Enumerating'
      BY <1>1, <2>1, <2>5, KnownSteps DEF Enumerating
    <3>2. WasapiHears'
      BY <1>1, <2>2, <2>3, <2>5, <3>1 DEF WasapiHears
    <3> QED BY <1>1, <1>2, <2>2, <3>1, <3>2, WasapiRests DEF WasapiOwes
  <2> QED BY <2>4, <2>5
<1> QED BY <1>0, <1>3, <1>4, <1>5, <1>7, <1>8

\* The default is read before the endpoints are: it is the one that is marked.
LEMMA WasapiEnumeratesKeep ==
  ASSUME Types, WasapiTells, WasapiLists, WasapiKeeps,
         Wasapi!Defaults \/ Wasapi!EnumAudioEndpoints \/ Wasapi!wasapi_create_device
  PROVE  WasapiKeeps'
<1>0. call.at \in {"defaults", "endpoints", "create"} => Enumerating
  BY DEF WasapiTells, Types, CallType, Enumerating
<1>1. ASSUME NEW at \in {"endpoints", "create", "done"}, call.at \in {"defaults", "endpoints", "create"},
             call' = [op |-> call.op, at |-> at, dirs |-> call.dirs, todo |-> call'.todo,
                      found |-> call'.found, preferred |-> call'.preferred, touched |-> call.touched],
             IF call.at = "defaults" THEN call'.preferred = default ELSE call'.preferred = call.preferred,
             present' = present, default' = default, st' = st, UNCHANGED known,
             WasapiPrefers'
      PROVE  WasapiKeeps'
  <2>1. registered' = registered /\ due' = due /\ seen' = seen
    BY <1>1, KnownSteps
  <2>2. Enumerating /\ Enumerating' /\ call'.at = at /\ call'.dirs = call.dirs /\ call'.touched = call.touched
    BY <1>0, <1>1 DEF Enumerating
  <2>3. \A d : Now(d)' = Now(d) /\ List(d)' = List(d)
    BY <1>1 DEF Now, List
  <2>4. \A d : (WasapiOwes(d) => WasapiOwes(d)') /\ (WasapiRemembers(d) => WasapiRemembers(d)')
    BY <1>1, <2>1, <2>2, <2>3 DEF WasapiOwes, WasapiRemembers, Looking
  <2>5. WasapiHears' /\ DefaultThere'
    BY <1>1, <2>1, <2>2, <2>3 DEF WasapiKeeps, WasapiHears, DefaultThere
  <2> QED BY <1>1, <2>1, <2>4, <2>5 DEF WasapiKeeps
<1>2. CASE Wasapi!Defaults
  <2>1. /\ call.at = "defaults" /\ present' = present /\ default' = default /\ st' = st /\ UNCHANGED known
        /\ call' = [call EXCEPT !.preferred = default, !.at = "endpoints"]
    BY <1>2, SystemSteps, WasapiSame DEF Wasapi!Defaults, Types
  <2>2. call' = [op |-> call.op, at |-> "endpoints", dirs |-> call.dirs, todo |-> call.todo,
                 found |-> call.found, preferred |-> default, touched |-> call.touched]
    BY <2>1 DEF Types, CallType
  <2>3. WasapiPrefers'
    BY <1>0, <2>1, <2>2 DEF WasapiLists, WasapiPrefers
  <2> QED BY <1>1, <2>1, <2>2, <2>3
<1>3. CASE Wasapi!EnumAudioEndpoints
  <2>1. call.at = "endpoints" /\ st' = st
    BY <1>3 DEF Wasapi!EnumAudioEndpoints
  <2>2. CASE Works /\ UNCHANGED known /\ call' = [call EXCEPT !.at = "create", !.todo = present]
    <3>1. present' = present /\ default' = default
      BY <2>2, SystemSteps DEF Types
    <3>2. call' = [op |-> call.op, at |-> "create", dirs |-> call.dirs, todo |-> present,
                   found |-> call.found, preferred |-> call.preferred, touched |-> call.touched]
      BY <2>2 DEF Types, CallType
    <3>3. WasapiPrefers'
      BY <3>2 DEF WasapiKeeps, WasapiPrefers, Enumerating
    <3> QED BY <1>1, <2>1, <2>2, <3>1, <3>2, <3>3
  <2>3. CASE Breaks /\ Failed
    <3>1. present' = present /\ default' = default
      BY <2>3, SystemSteps DEF Types
    <3>2. /\ registered' = registered /\ due' = due \cup (call.dirs \cap registered) /\ seen' = seen
          /\ call'.at = "idle" /\ ~Enumerating'
      BY <2>3, KnownSteps DEF Enumerating
    <3>3. WasapiHears' /\ \A d : Now(d)' = Now(d) /\ List(d)' = List(d)
      BY <2>1, <3>1, <3>2 DEF WasapiKeeps, WasapiHears, Now, List
    <3>4. \A d \in registered : WasapiOwes(d)' \/ WasapiRemembers(d)'
      BY <2>1, <3>2, <3>3 DEF WasapiKeeps, WasapiOwes, WasapiRemembers, Looking
    <3> QED BY <3>1, <3>2, <3>3, <3>4 DEF WasapiKeeps, WasapiPrefers, DefaultThere
  <2> QED BY <1>3, <2>2, <2>3, WasapiSame DEF Wasapi!EnumAudioEndpoints
<1>4. CASE Wasapi!wasapi_create_device
  <2>1. call.at = "create" /\ present' = present /\ default' = default /\ st' = st /\ UNCHANGED known
    BY <1>4, SystemSteps, WasapiSame DEF Wasapi!wasapi_create_device, Types
  <2>2. CASE call.todo = <<>>
    <3>1. call' = [call EXCEPT !.at = "done"]
      BY <1>4, <2>2 DEF Wasapi!wasapi_create_device
    <3>2. call' = [op |-> call.op, at |-> "done", dirs |-> call.dirs, todo |-> call.todo,
                   found |-> call.found, preferred |-> call.preferred, touched |-> call.touched]
      BY <3>1 DEF Types, CallType
    <3>3. WasapiPrefers'
      BY <3>2 DEF WasapiKeeps, WasapiPrefers, Enumerating
    <3> QED BY <1>1, <2>1, <3>2, <3>3
  <2>3. CASE call.todo # <<>>
    <3> DEFINE x    == Head(call.todo)
               ends == IF x \in Wasapi!ToSet(present) THEN Wasapi!Sides[x] \cap call.dirs ELSE {}
               new  == { Wasapi!Entry(x, {d}, x = call.preferred) : d \in ends }
    <3>1. call' = [call EXCEPT !.todo = Tail(@), !.found = @ \cup new]
      BY <1>4, <2>3 DEF Wasapi!wasapi_create_device
    <3>2. \A e \in new : e.preferred <=> e.dev = call.preferred
      <4> DEFINE p == x = call.preferred
      <4>1. \A e \in new : e.dev = x /\ e.preferred = p
        <5> HIDE DEF ends, x, p
        <5> QED BY DEF Wasapi!Entry, p
      <4> HIDE DEF ends, x, new
      <4> QED BY <4>1
    <3> HIDE DEF new, ends, x
    <3>3. call' = [op |-> call.op, at |-> "create", dirs |-> call.dirs, todo |-> Tail(call.todo),
                   found |-> call.found \cup new, preferred |-> call.preferred, touched |-> call.touched]
      BY <2>1, <3>1 DEF Types, CallType
    <3>4. WasapiPrefers'
      BY <1>0, <2>1, <3>2, <3>3 DEF WasapiKeeps, WasapiPrefers
    <3> QED BY <1>1, <2>1, <3>3, <3>4
  <2> QED BY <2>2, <2>3
<1> QED BY <1>2, <1>3, <1>4

\* A list that covers what was there all along, is sound and has the default marked is
\* the list, if nothing was touched.
LEMMA SeenIsList ==
  ASSUME NEW d \in Dirs, Covered(d, {}), Sound(d), On(d, call.touched) = {}, Enumerating, WasapiPrefers,
         DefaultThere, d = "input" => call.preferred = default
  PROVE  Shown(d) = List(d)
<1>1. Shown(d).devs = Now(d) /\ Devs(call.found, d) = Now(d)
  BY SeenIsNow
<1>2. Listed(d) \subseteq call.found /\ Devs(call.found, d) = { e.dev : e \in Listed(d) }
  BY DEF Listed, Devs
<1> DEFINE marked == \E e \in Listed(d) : e.preferred /\ d = "input"
           first  == CHOOSE e \in Listed(d) : e.preferred
           devs   == { e.dev : e \in Listed(d) }
           shown  == IF marked THEN first.dev ELSE "none"
           listed == IF d = "input" THEN default ELSE "none"
<1>3. /\ Shown(d) = [devs |-> devs, preferred |-> shown]
      /\ List(d) = [devs |-> Now(d), preferred |-> listed]
  BY DEF Shown, List
<1>4. ASSUME d = "input" PROVE (IF marked THEN first.dev ELSE "none") = default
  <2>1. \A e \in Listed(d) : e.preferred <=> e.dev = default
    BY <1>2, <1>4 DEF WasapiPrefers
  <2>2. CASE default \in Now("input")
    <3>1. PICK e \in Listed(d) : e.dev = default
      BY <1>1, <1>2, <1>4, <2>2
    <3>2. marked /\ first \in Listed(d) /\ first.preferred
      BY <1>4, <2>1, <3>1
    <3> HIDE DEF marked, first
    <3> QED BY <2>1, <3>2
  <2>3. CASE default = "none" /\ Now("input") = {}
    <3>1. { e.dev : e \in Listed(d) } = {}
      BY <1>1, <1>2, <1>4, <2>3
    <3>2. Listed(d) = {}
      BY <3>1
    <3> QED BY <2>3, <3>2
  <2> QED BY <2>2, <2>3 DEF DefaultThere
<1>5. shown = listed
  BY <1>4
<1>6. devs = Now(d)
  BY <1>1, <1>2
<1> HIDE DEF devs, shown, listed
<1> QED BY <1>3, <1>5, <1>6

\* The list that is handed over is what the client saw.
LEMMA WasapiDoneKeeps ==
  ASSUME Types, WasapiLists, WasapiKeeps, Done
  PROVE  WasapiKeeps'
<1>1. /\ registered' = registered /\ due' = due /\ st' = st /\ present' = present /\ default' = default
      /\ ~Enumerating' /\ Enumerating /\ call.at = "done" /\ call'.at = "idle"
      /\ (\A d \in Dirs : seen'[d] = IF d \in call.dirs \cap registered THEN Shown(d) ELSE seen[d])
  BY KnownSteps DEF Enumerating
<1>2. \A d : Now(d)' = Now(d) /\ List(d)' = List(d)
  BY <1>1 DEF Now, List
<1>3. ASSUME NEW d \in registered PROVE WasapiOwes(d)' \/ WasapiRemembers(d)'
  <2>1. d \in Dirs /\ (WasapiOwes(d) => WasapiOwes(d)')
    BY <1>1 DEF Types, KnownTypes, WasapiOwes
  <2>2. CASE d \in call.dirs
    <3>1. Sound(d) /\ Covered(d, {})
      BY <2>2, <1>1 DEF WasapiLists
    <3>2. WasapiOwes(d) \/ (On(d, call.touched) = {} /\ (d = "input" => call.preferred = default))
      BY <2>2, <1>1 DEF WasapiKeeps, WasapiRemembers, Looking
    <3>3. WasapiOwes(d) \/ Shown(d) = List(d)
      BY <2>1, <3>1, <3>2, <1>1, SeenIsList DEF WasapiKeeps
    <3> QED BY <2>1, <2>2, <3>3, <1>1, <1>2 DEF WasapiRemembers, Looking
  <2>3. CASE d \notin call.dirs
    BY <2>1, <2>3, <1>1, <1>2 DEF WasapiKeeps, WasapiRemembers, Looking
  <2> QED BY <2>2, <2>3
<1>4. WasapiHears'
  BY <1>1 DEF WasapiKeeps, WasapiHears
<1> QED BY <1>1, <1>2, <1>3, <1>4 DEF WasapiKeeps, WasapiPrefers, DefaultThere

\* The thread turns an event into an answer that is due; whatever else happens, a
\* side of WASAPI is owed one, or what was seen of it is there.
LEMMA WasapiStepKeeps ==
  ASSUME IInv, WasapiKeeps, Next, backend = "wasapi", thread' # "undefined"
  PROVE  WasapiKeeps'
<1>0. Types /\ WasapiTells /\ WasapiLists
  BY DEF IInv
<1>1. Wasapi!Change \/ Wasapi!Calls \/ Wasapi!Client \/ Done \/ Wasapi!Thread
  BY DEF Next, Change, Calls, Client, Enumerations, Thread
<1>2. CASE Wasapi!Thread
  <2>1. /\ Works /\ call' = call
        /\ \/ \E d \in st.events : st' = [st EXCEPT !.events = @ \ {d}] /\ Tell(d)
           \/ UNCHANGED <<known, st>>
    BY <1>2, WasapiSame DEF Wasapi!Thread, Wasapi!notification_thread_loop
  <2>2. present' = present /\ default' = default
    BY <1>0, <2>1, SystemSteps DEF Types
  <2>3. CASE UNCHANGED <<known, st>>
    <3>1. registered' = registered /\ due' = due /\ seen' = seen /\ st' = st
      BY <1>0, <2>3, KnownSteps
    <3>2. WasapiHears'
      BY <2>1, <3>1 DEF WasapiKeeps, WasapiHears
    <3> QED BY <1>0, <2>1, <2>2, <3>1, <3>2, WasapiStaysKept DEF WasapiOwes
  <2>4. CASE \E d \in st.events : st' = [st EXCEPT !.events = @ \ {d}] /\ Tell(d)
    <3> PICK d \in st.events : st' = [st EXCEPT !.events = @ \ {d}] /\ Tell(d)
      BY <2>4
    <3>1. registered' = registered /\ due' = due \cup {d} /\ seen' = seen
      BY <1>0, KnownSteps
    <3>2. /\ st'.events = st.events \ {d} /\ st'.missed = st.missed /\ st'.callbacks = st.callbacks
          /\ st'.client = st.client
      BY <1>0 DEF WasapiTells
    <3>3. WasapiHears'
      BY <2>1, <3>1, <3>2 DEF WasapiKeeps, WasapiHears
    <3> QED BY <1>0, <2>1, <2>2, <3>1, <3>2, <3>3, WasapiStaysKept DEF WasapiOwes
  <2> QED BY <2>1, <2>3, <2>4
<1> QED BY <1>0, <1>1, <1>2, WasapiChangeKeeps, WasapiCallsKeep, WasapiClientKeeps, WasapiEnumeratesKeep,
           WasapiDoneKeeps DEF Wasapi!Client

-----------------------------------------------------------------------------
\* The other backends register nothing, so that nothing is owed.
LEMMA ListStepKeeps ==
  ASSUME IInv, registered = {}, Next, backend \notin {"pulse", "wasapi", "audiounit"}
  PROVE  registered' = {}
<1>0. Types
  BY DEF IInv
<1>1. Lists!Change \/ Done \/ Enumerations
  BY DEF Next, Change, Calls, Client, Thread
<1>2. CASE Lists!Change
  BY <1>0, <1>2, Plugged, ListsSame DEF Lists!Change
<1>3. CASE Done
  BY <1>3, DoneStep, <1>0
<1>4. CASE Enumerations
  <2>1. UNCHANGED Lists!known \/ Lists!Failed \/ (\E dirs, at : Lists!Begin(dirs, at)) \/ (\E at : Lists!Goto(at))
    BY <1>4
       DEF Enumerations, Lists!winmm_enumerate_devices, Lists!oss_enumerate_devices, Lists!oss_enumerate_sndstat,
           Lists!sun_enumerate_devices, Lists!alsa_enumerate_devices, Lists!sndio_enumerate_devices,
           Lists!cbjack_enumerate_devices, Lists!Enumerates, Lists!Looks, Lists!Look, Lists!Looked, Lists!Gives,
           Lists!Lists
  <2>2. UNCHANGED known \/ Failed \/ (\E dirs, at : Begin(dirs, at)) \/ (\E at : Goto(at))
    BY <2>1, ListsSame
  <2> QED BY <1>0, <2>2, KnownSteps
<1> QED BY <1>1, <1>2, <1>3, <1>4

\* What every backend keeps while it is not undone.
Keeps ==
  /\ backend = "pulse"     => PulseKeeps
  /\ backend = "wasapi"    => WasapiKeeps
  /\ backend = "audiounit" => AudioUnitKeeps
  /\ backend \notin {"pulse", "wasapi", "audiounit"} => registered = {}
Owing == thread # "undefined" => Keeps

\* At first nothing is registered.
LEMMA InitOwing == Init => Owing
<1> SUFFICES ASSUME Init PROVE Keeps
  BY DEF Owing
<1>1. registered = {} /\ ~Enumerating /\ call.at = "idle"
  BY DEF Init, ClientInit, NoCall, Enumerating
<1>2. CASE backend = "pulse"
  BY <1>1, <1>2 DEF Keeps, PulseKeeps, PulseFinds
<1>3. CASE backend = "audiounit"
  <2>1. st.blocks = 0 /\ st.callbacks = {}
    BY <1>3 DEF Init, AudioUnit!Context
  <2> QED BY <1>1, <1>3, <2>1 DEF Keeps, AudioUnitKeeps, AudioUnitFinds, AudioUnitListens
<1>4. CASE backend = "wasapi"
  <2>1. st.client = FALSE /\ st.callbacks = {}
    BY <1>4 DEF Init, Wasapi!Context
  <2>2. WasapiHears /\ WasapiPrefers
    BY <1>1, <2>1 DEF WasapiHears, WasapiPrefers
  <2>3. DefaultThere
    <3>1. present \in {<<"headset">>, <<"mic", "headset">>} /\ default = Last(present)
      BY DEF Init, ClientInit
    <3>2. default = "headset" /\ "headset" \in ToSet(present)
      <4>1. CASE present = <<"headset">>
        BY <3>1, <4>1 DEF Last, ToSet
      <4>2. CASE present = <<"mic", "headset">>
        BY <3>1, <4>2 DEF Last, ToSet
      <4> QED BY <3>1, <4>1, <4>2
    <3>3. "input" \in Sides["headset"]
      BY Names
    <3> QED BY <3>2, <3>3 DEF DefaultThere, Now, On
  <2> QED BY <1>1, <1>4, <2>2, <2>3 DEF Keeps, WasapiKeeps
<1> QED BY <1>1, <1>2, <1>3, <1>4 DEF Keeps

\* A step that changes nothing keeps what is owed.
LEMMA StutterOwing ==
  ASSUME Owing, UNCHANGED all
  PROVE  Owing'
<1>1. /\ present' = present /\ default' = default /\ registered' = registered /\ due' = due /\ seen' = seen
      /\ call' = call /\ thread' = thread /\ st' = st /\ backend' = backend
  BY DEF all, vars, system, known
<1>2. (\A d : Now(d)' = Now(d) /\ List(d)' = List(d)) /\ (Enumerating' <=> Enumerating)
  BY <1>1 DEF Now, List, Enumerating
<1>3. \A d : (Looking(d)' <=> Looking(d)) /\ (Covered(d, {})' <=> Covered(d, {}))
             /\ (Covered(d, Paired(d))' <=> Covered(d, Paired(d)))
  BY <1>1, <1>2 DEF Looking, Covered, Paired
<1>4. PulseKeeps => PulseKeeps'
  BY <1>1, <1>2, <1>3 DEF PulseKeeps, PulseFinds, PulseOwes, Remembers
<1>5. AudioUnitKeeps => AudioUnitKeeps'
  BY <1>1, <1>2, <1>3 DEF AudioUnitKeeps, AudioUnitFinds, AudioUnitFound, AudioUnitListens, AudioUnitOwes, Blocked,
                          Remembers
<1>6. WasapiKeeps => WasapiKeeps'
  BY <1>1, <1>2, <1>3 DEF WasapiKeeps, WasapiHears, WasapiPrefers, DefaultThere, WasapiOwes, WasapiRemembers
<1> QED BY <1>1, <1>4, <1>5, <1>6 DEF Owing, Keeps

\* Every step keeps what is owed.
LEMMA StepOwing ==
  ASSUME IInv, Owing, Next
  PROVE  Owing'
<1> SUFFICES ASSUME thread' # "undefined" PROVE Keeps'
  BY DEF Owing
<1>1. backend' = backend /\ Keeps
  BY DEF Next, Owing
<1>2. CASE backend = "pulse"
  BY <1>1, <1>2, PulseStepKeeps DEF Keeps
<1>3. CASE backend = "wasapi"
  BY <1>1, <1>3, WasapiStepKeeps DEF Keeps
<1>4. CASE backend = "audiounit"
  BY <1>1, <1>4, AudioUnitStepKeeps DEF Keeps
<1>5. CASE backend \notin {"pulse", "wasapi", "audiounit"}
  BY <1>1, <1>5, ListStepKeeps DEF Keeps
<1> QED BY <1>2, <1>3, <1>4, <1>5

\* The client is yet to be told: an event of the side is on its way, or a block.
Coming(d) == IF backend = "audiounit" THEN Blocked(d)
             ELSE backend \in {"pulse", "wasapi"} /\ d \in st.events

\* An enumeration is under way that no change of the side has overtaken, and, where
\* the client is told of another default, none of the default.
UpToDate(d) ==
  /\ Looking(d) /\ On(d, call.touched) = {}
  /\ backend = "wasapi" /\ d = "input" /\ call.at # "defaults" => call.preferred = default

\* No change is forgotten: while what the client saw of a side is not what there is,
\* it is to enumerate that side again, or is yet to be told of it, or is looking at it
\* with nothing changed since it began, or the backend has said that it missed a change.
NothingForgotten ==
  thread # "undefined" =>
    \A d \in Dirs : Stale(d) => d \in due \cup st.missed \/ Coming(d) \/ UpToDate(d)

\* What is owed is all that a side can be stale for.
LEMMA OwingForgetsNothing == Owing => NothingForgotten
<1> SUFFICES ASSUME Keeps, NEW d \in Dirs, Stale(d)
             PROVE  d \in due \cup st.missed \/ Coming(d) \/ UpToDate(d)
  BY DEF Owing, NothingForgotten
<1>1. d \in registered /\ Seen(seen[d]) # Seen(List(d))
  BY DEF Stale
<1>2. List(d).devs = Now(d)
  BY DEF List
<1>3. CASE backend = "pulse"
  <2>1. seen[d].devs # Now(d)
    BY <1>1, <1>2, <1>3 DEF Seen, Takes, Liberties
  <2> QED BY <1>1, <1>3, <2>1 DEF Keeps, PulseKeeps, PulseOwes, Remembers, Coming, UpToDate
<1>4. CASE backend = "audiounit"
  <2>1. seen[d].devs # Now(d)
    BY <1>1, <1>2, <1>4 DEF Seen, Takes, Liberties
  <2> QED BY <1>1, <1>4, <2>1 DEF Keeps, AudioUnitKeeps, AudioUnitOwes, Remembers, Coming, UpToDate
<1>5. CASE backend = "wasapi"
  <2>1. seen[d] # List(d)
    BY <1>1
  <2> QED BY <1>1, <1>5, <2>1 DEF Keeps, WasapiKeeps, WasapiOwes, WasapiRemembers, Coming, UpToDate
<1>6. CASE backend \notin {"pulse", "wasapi", "audiounit"}
  BY <1>1, <1>6 DEF Keeps
<1> QED BY <1>3, <1>4, <1>5, <1>6

\* Whatever the order of the changes, the events, the calls and their failures, no
\* change of a registered side is forgotten: the safety behind KeepsUp, of which only
\* that what is owed is paid in the end is left to fairness.
THEOREM NothingForgottenHolds == Spec => []NothingForgotten
<1>1. IInv /\ Owing /\ [Next]_all => Owing'
  BY StepOwing, StutterOwing
<1>2. Owing => NothingForgotten
  BY OwingForgetsNothing
<1> QED BY <1>1, <1>2, InitOwing, Invariant, PTL DEF Spec
================================================================================
