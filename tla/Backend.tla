-------------------------------- MODULE Backend --------------------------------
(* What the models of the backends share: the variables, and the view of the   *)
(* client that owns one context and one stream.  A backend keeps its cubeb and  *)
(* cubeb_stream structures in stm, and says in pc where each thread is.  Two    *)
(* fields of stm have the same meaning everywhere: held, the resources acquired *)
(* and not released, and queued, what the system was given and has not played.  *)
EXTENDS Naturals, FiniteSets, Sequences

CONSTANT MaxStarts       \* the client starts its stream at most so often

ASSUME MaxStartsAssumption == MaxStarts \in Nat

VARIABLES stm, pc, phase, calling, starts

vars == <<stm, pc, phase, calling, starts>>
user == <<phase, calling, starts>>

Goto(a, l) == pc' = [pc EXCEPT ![a] = l]
Become(p)  == phase' = p /\ UNCHANGED <<calling, starts>>

\* No thread runs, and the client is in no call.
AtRest == [client |-> "idle", thread |-> "none", worker |-> "none"]

\* The client calls one function at a time, stops its stream before it starts or
\* destroys it again, and uses neither stream nor context once it is destroyed.
Idle       == pc.client = "idle"
MayOpen    == Idle /\ phase = "closed"
MayClose   == Idle /\ phase \in {"none", "destroyed"}
MayInit    == Idle /\ phase = "none"
MayStart   == Idle /\ phase = "stopped" /\ starts < MaxStarts
MayStop    == Idle /\ phase \in {"started", "draining", "drained", "error"}
MayDestroy == Idle /\ phase = "stopped"
Begins     == phase' = "started" /\ starts' = starts + 1 /\ UNCHANGED calling

\* What is held when one of steps, acquired in this order, fails and the error
\* path releases freed.
All(steps)         == { steps[i] : i \in DOMAIN steps }
Left(steps, freed) == { { steps[j] : j \in 1..i } \ freed : i \in 0..(Len(steps) - 1) }

Acquire(steps) == stm' = [stm EXCEPT !.held = @ \cup All(steps)]
Release(freed) == stm' = [stm EXCEPT !.held = @ \ freed]
Fails(steps, freed) == \E left \in Left(steps, freed) : stm' = [stm EXCEPT !.held = @ \cup left]

\* The init of a backend, which cubeb_init goes on from when it fails; and its destroy.
Opens(steps, freed) ==
    /\ MayOpen
    /\ \/ Acquire(steps) /\ Become("none") /\ UNCHANGED pc
       \/ Fails(steps, freed) /\ Goto("client", "failed") /\ UNCHANGED user
Closes(freed) == MayClose /\ Release(freed) /\ Become("gone") /\ UNCHANGED pc

\* The data callback is called, and returns as many frames as asked, fewer,
\* none, or an error.
Results    == {"all", "some", "none", "error"}
Short      == {"some", "none"}
CallData   == calling' = calling + 1 /\ UNCHANGED <<phase, starts>>
Answer(r)  == /\ calling' = calling - 1
              /\ phase' = IF phase # "started" \/ r = "all" THEN phase
                          ELSE IF r = "error" THEN "error" ELSE "draining"
              /\ UNCHANGED starts

\* The state callback.
Told(s) == /\ phase' = CASE s = "DRAINED" -> "drained"
                         [] s = "ERROR"   -> "error"
                         [] OTHER         -> phase
           /\ UNCHANGED <<calling, starts>>
================================================================================
