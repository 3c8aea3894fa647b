----------------------------- MODULE AlsaSlots -----------------------------
(***************************************************************************)
(* The streams of an ALSA context (src/src/cubeb_alsa.c): several clients  *)
(* create and destroy streams at once; active_streams limits how many, and *)
(* the array of streams, of the same size, is where alsa_run finds them.   *)
(*                                                                         *)
(* Each section under the context's mutex is an action.  A duplex stream   *)
(* is two streams, created input first.  alsa_get_max_channel_count        *)
(* creates a stream of its own to ask it.                                  *)
(***************************************************************************)
EXTENDS Integers, FiniteSets

CONSTANTS
  Clients,
  Null,
  CUBEB_STREAM_MAX

ASSUME AlsaSlotsAssumption ==
  CUBEB_STREAM_MAX \in Nat \ {0} /\ Null \notin Clients \X {"in", "out"}

VARIABLES
  streams,          \* the array, of streams <<client, half>>, or Null
  active_streams,
  pc, kind,         \* of each client: program counter, what it is doing
  half,             \* the half of the stream it is creating or destroying
  held,             \* the halves it has created
  failing           \* whether it is undoing a failed creation

vars == <<streams, active_streams, pc, kind, half, held, failing>>

Slots == 0 .. CUBEB_STREAM_MAX - 1
\* Where alsa_register_stream may put a stream.  Mutant: in any slot.
FreeOrNot == Slots
Free == {i \in Slots : streams[i] = Null}

Init ==
  /\ streams = [i \in Slots |-> Null]
  /\ active_streams = 0
  /\ pc = [c \in Clients |-> "idle"] /\ kind = [c \in Clients |-> "output"]
  /\ half = [c \in Clients |-> "out"] /\ held = [c \in Clients |-> {}]
  /\ failing = [c \in Clients |-> FALSE]

Goto(c, label) == pc' = [pc EXCEPT ![c] = label]

\* alsa_stream_init, and the one alsa_get_max_channel_count makes: a client may
\* ask for the channels whether it has a stream or not.
StreamInit(c, k) ==
  /\ pc[c] = "idle" /\ held[c] = {}
  /\ kind' = [kind EXCEPT ![c] = k]
  /\ half' = [half EXCEPT ![c] = IF k = "duplex" THEN "in" ELSE "out"]
  /\ failing' = [failing EXCEPT ![c] = FALSE]
  /\ Goto(c, "reserve")
  /\ UNCHANGED <<streams, active_streams, held>>

\* Mutant of Undo: nothing is undone.
UndoNothing(c, left) ==
  /\ failing' = [failing EXCEPT ![c] = TRUE]
  /\ Goto(c, "idle")
  /\ UNCHANGED half

\* A half cannot be created: what is left of it, if any, is destroyed, then the
\* input half that was.
Undo(c, left) ==
  /\ failing' = [failing EXCEPT ![c] = TRUE]
  /\ IF left
     THEN Goto(c, "unregister") /\ UNCHANGED half
     ELSE IF held[c] = {}
     THEN Goto(c, "idle") /\ UNCHANGED half
     ELSE Goto(c, "unregister") /\ half' = [half EXCEPT ![c] = "in"]

\* Mutant of AtLimit: one stream too many.
AboveLimit == active_streams > CUBEB_STREAM_MAX
AtLimit == active_streams >= CUBEB_STREAM_MAX

\* alsa_stream_init_single
Reserve(c) ==
  /\ pc[c] = "reserve"
  /\ IF AtLimit
     THEN Undo(c, FALSE) /\ UNCHANGED active_streams
     ELSE /\ active_streams' = active_streams + 1
          /\ Goto(c, "open")
          /\ UNCHANGED <<failing, half>>
  /\ UNCHANGED <<streams, kind, held>>

\* alsa_locked_pcm_open, snd_pcm_set_params
Open(c) ==
  /\ pc[c] = "open"
  /\ \/ Goto(c, "register") /\ UNCHANGED <<failing, half>>
     \/ Undo(c, TRUE)
  /\ UNCHANGED <<streams, active_streams, kind, held>>

Created(c) ==
  CASE kind[c] = "duplex" /\ half[c] = "in" -> "reserve"
    [] kind[c] = "probe" -> "query"
    [] OTHER -> "idle"

\* alsa_register_stream takes the first free slot.
Register(c) ==
  /\ pc[c] = "register"
  /\ IF Free = {}
     THEN Undo(c, TRUE) /\ UNCHANGED <<streams, held>>
     ELSE /\ \E i \in Free :
               /\ \A j \in Free : i <= j
               /\ streams' = [streams EXCEPT ![i] = <<c, half[c]>>]
          /\ held' = [held EXCEPT ![c] = @ \cup {half[c]}]
          /\ Goto(c, Created(c))
          /\ half' = [half EXCEPT ![c] = "out"]
          /\ UNCHANGED failing
  /\ UNCHANGED <<active_streams, kind>>

\* alsa_get_max_channel_count: an error returns without destroying the stream.
Query(c) ==
  /\ pc[c] = "query"
  /\ \/ Goto(c, "unregister")
     \/ Goto(c, "leaked")
  /\ UNCHANGED <<streams, active_streams, kind, half, held, failing>>

\* alsa_stream_destroy, the input half first.
StreamDestroy(c) ==
  /\ pc[c] = "idle" /\ held[c] # {}
  /\ half' = [half EXCEPT ![c] = IF "in" \in held[c] THEN "in" ELSE "out"]
  /\ Goto(c, "unregister")
  /\ UNCHANGED <<streams, active_streams, kind, held, failing>>

\* alsa_unregister_stream
Unregister(c) ==
  /\ pc[c] = "unregister"
  /\ streams' = [i \in Slots |->
                   IF streams[i] = <<c, half[c]>> THEN Null ELSE streams[i]]
  /\ Goto(c, "release")
  /\ UNCHANGED <<active_streams, kind, half, held, failing>>

Release(c) ==
  /\ pc[c] = "release"
  /\ active_streams' = active_streams - 1
  /\ held' = [held EXCEPT ![c] = @ \ {half[c]}]
  /\ IF held'[c] = {}
     THEN Goto(c, "idle") /\ UNCHANGED half
     ELSE /\ Goto(c, "unregister")
          /\ half' = [half EXCEPT ![c] = CHOOSE h \in held'[c] : TRUE]
  /\ UNCHANGED <<streams, kind, failing>>

Next == \E c \in Clients :
  \/ \E k \in {"output", "duplex", "probe"} : StreamInit(c, k)
  \/ Reserve(c) \/ Open(c) \/ Register(c) \/ Query(c)
  \/ StreamDestroy(c) \/ Unregister(c) \/ Release(c)

Spec == Init /\ [][Next]_vars

-----------------------------------------------------------------------------
TypeOK ==
  /\ streams \in [Slots -> (Clients \X {"in", "out"}) \cup {Null}]
  /\ active_streams \in 0 .. CUBEB_STREAM_MAX
  /\ pc \in [Clients -> {"idle", "reserve", "open", "register", "query",
                         "leaked", "unregister", "release"}]
  /\ kind \in [Clients -> {"output", "duplex", "probe"}]
  /\ half \in [Clients -> {"in", "out"}]
  /\ held \in [Clients -> SUBSET {"in", "out"}]
  /\ failing \in [Clients -> BOOLEAN]

\* The streams that count: those created, and those on the way in or out.
Building(c) == \/ pc[c] \in {"open", "register"}
               \/ pc[c] \in {"unregister", "release"} /\ half[c] \notin held[c]
Counted(c) == IF Building(c) THEN held[c] \cup {half[c]} ELSE held[c]
CountedStreams == {s \in Clients \X {"in", "out"} : s[2] \in Counted(s[1])}

\* active_streams is the number of streams that exist, whatever creations fail
\* half way and whoever creates and destroys meanwhile; each is counted for the
\* whole time it is in the array, and is there once.
CountIsExact ==
  /\ active_streams = Cardinality(CountedStreams)
  /\ \A i \in Slots : streams[i] # Null => streams[i] \in CountedStreams
  /\ \A i, j \in Slots : streams[i] = streams[j] /\ i # j => streams[i] = Null

\* A stream that got past the limit finds a slot: alsa_register_stream never
\* fails, since destroying a stream frees the slot before the count.
AlwaysASlot == \A c \in Clients : pc[c] = "register" => Free # {}

\* alsa_run finds every stream its client may start, and none that is gone.
CreatedAreRegistered ==
  \A c \in Clients, h \in {"in", "out"} :
    (\E i \in Slots : streams[i] = <<c, h>>) <=>
      h \in held[c] /\ ~(pc[c] = "release" /\ half[c] = h)

\* A creation that failed leaves nothing behind.
FailureLeavesNothing ==
  \A c \in Clients : pc[c] = "idle" /\ failing[c] => held[c] = {}
=============================================================================
