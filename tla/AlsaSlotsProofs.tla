-------------------------- MODULE AlsaSlotsProofs --------------------------
(***************************************************************************)
(* The count of ALSA streams is exact and every stream that passed the     *)
(* limit finds a slot, for any set of clients and any limit.               *)
(*                                                                         *)
(* The argument: a stream is counted from Reserve to Release, and in the   *)
(* array from Register to Unregister, which lie inside.  The streams in    *)
(* the array are distinct and do not include the one being registered, so  *)
(* if they filled it there would be more counted streams than the limit.   *)
(***************************************************************************)
EXTENDS AlsaSlots, FiniteSetTheorems, TLAPS

Creating(c) == pc[c] \in {"reserve", "open", "register"}
Leaving(c, h) == pc[c] = "release" /\ half[c] = h

\* How a client's locals go together.
PhaseInv ==
  \A c \in Clients :
    /\ Creating(c) => /\ half[c] \notin held[c]
                      /\ half[c] = "in" => held[c] = {}
                      /\ kind[c] = "probe" => half[c] = "out"
                      /\ ~failing[c]
    /\ pc[c] = "query" => half[c] \in held[c]
    /\ pc[c] = "idle" /\ failing[c] => held[c] = {}

CountInv ==
  /\ IsFiniteSet(CountedStreams)
  /\ active_streams = Cardinality(CountedStreams)

\* No stream is in the array twice, and those in it are the created ones.
SlotInv ==
  /\ \A i, j \in Slots : streams[i] = streams[j] /\ i # j => streams[i] = Null
  /\ CreatedAreRegistered

IInv == TypeOK /\ PhaseInv /\ CountInv /\ SlotInv

-----------------------------------------------------------------------------
LEMMA InitInv == Init => IInv
<1> SUFFICES ASSUME Init PROVE IInv
  OBVIOUS
<1>1. CountedStreams = {}
  BY DEF Init, CountedStreams, Counted, Building
<1>2. CountInv
  BY <1>1, FS_EmptySet DEF CountInv, Init
<1>3. TypeOK
  BY AlsaSlotsAssumption DEF Init, TypeOK, Slots
<1>4. PhaseInv
  BY DEF Init, PhaseInv, Creating
<1>5. SlotInv
  BY AlsaSlotsAssumption DEF Init, SlotInv, CreatedAreRegistered, Slots
<1>6. QED
  BY <1>2, <1>3, <1>4, <1>5 DEF IInv

\* A step that counts nobody in or out.
LEMMA CountUnchanged ==
  ASSUME CountInv, UNCHANGED active_streams,
         \A d \in Clients : Counted(d)' = Counted(d)
  PROVE  CountInv'
<1>1. CountedStreams' = CountedStreams
  BY DEF CountedStreams
<1>2. QED
  BY <1>1 DEF CountInv

\* A step that leaves the array, and what is in it, alone.
Listed(c, h) == h \in held[c] /\ ~Leaving(c, h)

LEMMA SlotUnchanged ==
  ASSUME SlotInv, UNCHANGED streams,
         \A d \in Clients, h \in {"in", "out"} : Listed(d, h)' <=> Listed(d, h)
  PROVE  SlotInv'
<1>1. CreatedAreRegistered'
  BY DEF SlotInv, CreatedAreRegistered, Listed, Leaving
<1>2. (\A i, j \in Slots : streams[i] = streams[j] /\ i # j => streams[i] = Null)'
  BY DEF SlotInv, Slots
<1>3. QED
  BY <1>1, <1>2 DEF SlotInv

\* Undoing a creation only moves its client along: whatever step failed, the
\* stream keeps its count until it is destroyed.
LEMMA UndoStep ==
  ASSUME IInv, NEW c \in Clients, NEW left \in BOOLEAN, Undo(c, left),
         IF left THEN pc[c] \in {"open", "register"} ELSE pc[c] = "reserve",
         UNCHANGED <<streams, active_streams, kind, held>>
  PROVE  IInv'
<1> USE DEF IInv
<1>1. /\ pc' = [pc EXCEPT ![c] = IF left \/ held[c] # {} THEN "unregister" ELSE "idle"]
      /\ half' = [half EXCEPT ![c] = IF left \/ held[c] = {} THEN @ ELSE "in"]
      /\ failing' = [failing EXCEPT ![c] = TRUE]
      /\ Creating(c)
  BY DEF Undo, Goto, Creating, TypeOK
<1>2. TypeOK'
  <2>1. failing' \in [Clients -> BOOLEAN]
    BY <1>1, Zenon DEF TypeOK
  <2>2. pc' \in [Clients -> {"idle", "reserve", "open", "register", "query",
                            "leaked", "unregister", "release"}]
    BY <1>1 DEF TypeOK
  <2>3. half' \in [Clients -> {"in", "out"}]
    BY <1>1 DEF TypeOK
  <2>4. QED
    BY <2>1, <2>2, <2>3 DEF TypeOK, Slots
<1>3. PhaseInv'
  BY <1>1 DEF TypeOK, PhaseInv, Creating
<1>4. half[c] \notin held[c] /\ (~left /\ held[c] # {} => held[c] = {"in"})
  BY <1>1 DEF PhaseInv, TypeOK
<1>5. \A d \in Clients : Counted(d)' = Counted(d)
  <2>1. Counted(c)' = Counted(c)
    BY <1>1, <1>4 DEF TypeOK, Counted, Building
  <2>2. \A d \in Clients \ {c} : Counted(d)' = Counted(d)
    BY <1>1 DEF TypeOK, Counted, Building
  <2>3. QED
    BY <2>1, <2>2
<1>6. \A d \in Clients, h \in {"in", "out"} : Listed(d, h)' <=> Listed(d, h)
  BY <1>1 DEF TypeOK, Listed, Leaving, Creating
<1>7. QED
  BY <1>2, <1>3, <1>5, <1>6, CountUnchanged, SlotUnchanged

\* The limit holds because it is tested in the section that counts.
LEMMA ReserveStep == ASSUME IInv, NEW c \in Clients, Reserve(c) PROVE IInv'
<1> USE DEF IInv
<1> DEFINE s == <<c, half[c]>>
<1>1. CASE AtLimit
  BY <1>1, UndoStep DEF Reserve
<1>2. CASE ~AtLimit
  <2>1. TypeOK' /\ PhaseInv'
    BY <1>2, AlsaSlotsAssumption DEF Reserve, AtLimit, Goto, TypeOK, PhaseInv, Creating
  <2>2. CountInv'
    <3>1. s \notin CountedStreams
      BY DEF Reserve, PhaseInv, Creating, CountedStreams, Counted, Building
    <3>2. \A d \in Clients : Counted(d)' =
            IF d = c THEN Counted(d) \cup {half[c]} ELSE Counted(d)
      BY <1>2 DEF Reserve, Goto, TypeOK, Counted, Building
    <3>3. CountedStreams' = CountedStreams \cup {s}
      BY <3>2 DEF CountedStreams, TypeOK
    <3>4. QED
      BY <1>2, <3>1, <3>3, FS_AddElement DEF CountInv, Reserve
  <2>3. SlotInv'
    <3>1. \A d \in Clients, h \in {"in", "out"} : Listed(d, h)' <=> Listed(d, h)
      BY <1>2 DEF Reserve, Goto, TypeOK, Listed, Leaving
    <3>2. QED
      BY <3>1, SlotUnchanged DEF Reserve
  <2>4. QED
    BY <2>1, <2>2, <2>3
<1>3. QED
  BY <1>1, <1>2

LEMMA RegisterStep == ASSUME IInv, NEW c \in Clients, Register(c) PROVE IInv'
<1> USE DEF IInv
<1>1. CASE Free = {}
  BY <1>1, UndoStep DEF Register
<1>2. CASE Free # {}
  <2>1. PICK i \in Free : streams' = [streams EXCEPT ![i] = <<c, half[c]>>]
    BY <1>2 DEF Register
  <2>2. i \in Slots /\ streams[i] = Null
    BY DEF Free
  <2>3. /\ held' = [held EXCEPT ![c] = @ \cup {half[c]}]
        /\ half' = [half EXCEPT ![c] = "out"]
        /\ pc' = [pc EXCEPT ![c] = Created(c)]
        /\ pc[c] = "register"
        /\ UNCHANGED <<failing, active_streams, kind>>
    BY <1>2 DEF Register, Goto
  <2>4. /\ Created(c) \in {"reserve", "query", "idle"}
        /\ Created(c) = "reserve" => half[c] = "in" /\ kind[c] = "duplex"
    BY DEF Created
  <2>5. TypeOK'
    BY <2>1, <2>2, <2>3, <2>4 DEF TypeOK
  <2>6. PhaseInv'
    <3>1. Created(c) = "query" => kind[c] = "probe"
      BY DEF Created
    <3>2. QED
      BY <2>3, <2>4, <3>1 DEF PhaseInv, Creating, TypeOK
  <2>7. CountInv'
    <3>1. \A d \in Clients : Counted(d)' = Counted(d)
      BY <2>3, <2>4 DEF TypeOK, Counted, Building
    <3>2. QED
      BY <2>3, <3>1, CountUnchanged
  <2>8. SlotInv'
    <3>1. \A j \in Slots : streams[j] # <<c, half[c]>>
      BY <2>3 DEF SlotInv, CreatedAreRegistered, PhaseInv, Creating, TypeOK
    <3>2. \A j \in Slots : streams'[j] = IF j = i THEN <<c, half[c]>> ELSE streams[j]
      BY <2>1 DEF TypeOK
    <3>3. \A j, k \in Slots : streams'[j] = streams'[k] /\ j # k => streams'[j] = Null
      BY <3>1, <3>2 DEF SlotInv
    <3>4. ASSUME NEW d \in Clients, NEW h \in {"in", "out"}
          PROVE  (\E j \in Slots : streams'[j] = <<d, h>>) <=>
                   h \in held'[d] /\ ~Leaving(d, h)'
      <4>1. (\E j \in Slots : streams[j] = <<d, h>>) <=> h \in held[d] /\ ~Leaving(d, h)
        BY DEF SlotInv, CreatedAreRegistered, Leaving
      <4>2. <<d, h>> # Null
        BY AlsaSlotsAssumption
      <4>3. CASE d = c /\ h = half[c]
        BY <4>3, <2>2, <2>3, <2>4, <3>2 DEF Leaving, TypeOK
      <4>4. CASE ~(d = c /\ h = half[c])
        <5>1. (\E j \in Slots : streams'[j] = <<d, h>>) <=>
                (\E j \in Slots : streams[j] = <<d, h>>)
          BY <4>2, <4>4, <2>2, <3>2
        <5>2. (h \in held'[d] /\ ~Leaving(d, h)') <=> (h \in held[d] /\ ~Leaving(d, h))
          BY <4>4, <2>3, <2>4 DEF Leaving, TypeOK
        <5>3. QED
          BY <4>1, <5>1, <5>2
      <4>5. QED
        BY <4>3, <4>4
    <3>5. QED
      BY <3>3, <3>4 DEF SlotInv, CreatedAreRegistered, Leaving
  <2>9. QED
    BY <2>5, <2>6, <2>7, <2>8
<1>3. QED
  BY <1>1, <1>2

LEMMA UnregisterStep == ASSUME IInv, NEW c \in Clients, Unregister(c) PROVE IInv'
<1> USE DEF IInv
<1>1. TypeOK' /\ PhaseInv'
  BY DEF Unregister, Goto, TypeOK, PhaseInv, Creating
<1>2. CountInv'
  <2>1. \A d \in Clients : Counted(d)' = Counted(d)
    BY DEF Unregister, Goto, TypeOK, Counted, Building
  <2>2. QED
    BY <2>1, CountUnchanged DEF Unregister
<1>3. SlotInv'
  <2>1. \A j \in Slots : streams'[j] = IF streams[j] = <<c, half[c]>>
                                       THEN Null ELSE streams[j]
    BY DEF Unregister
  <2>2. ASSUME NEW d \in Clients, NEW h \in {"in", "out"}
        PROVE  (\E j \in Slots : streams'[j] = <<d, h>>) <=>
                 h \in held'[d] /\ ~Leaving(d, h)'
    <3>1. (\E j \in Slots : streams[j] = <<d, h>>) <=> h \in held[d] /\ ~Leaving(d, h)
      BY DEF SlotInv, CreatedAreRegistered, Leaving
    <3>2. <<d, h>> # Null
      BY AlsaSlotsAssumption
    <3>3. QED
      BY <2>1, <3>1, <3>2 DEF Unregister, Goto, Leaving, TypeOK
  <2>3. \A j, k \in Slots : streams'[j] = streams'[k] /\ j # k => streams'[j] = Null
    BY <2>1 DEF SlotInv
  <2>4. QED
    BY <2>2, <2>3 DEF SlotInv, CreatedAreRegistered, Leaving, Slots
<1>4. QED
  BY <1>1, <1>2, <1>3

LEMMA ReleaseStep == ASSUME IInv, NEW c \in Clients, Release(c) PROVE IInv'
<1> USE DEF IInv
<1> DEFINE s == <<c, half[c]>>
<1>1. /\ pc[c] = "release"
      /\ active_streams' = active_streams - 1
      /\ held' = [held EXCEPT ![c] = @ \ {half[c]}]
      /\ pc' = [pc EXCEPT ![c] = IF held'[c] = {} THEN "idle" ELSE "unregister"]
      /\ held'[c] # {} => half'[c] \in held'[c]
      /\ half' \in [Clients -> {"in", "out"}]
      /\ \A d \in Clients \ {c} : half'[d] = half[d]
      /\ UNCHANGED <<streams, kind, failing>>
  <2>1. held'[c] # {} => (CHOOSE h \in held'[c] : TRUE) \in held'[c]
    OBVIOUS
  <2>2. held'[c] \subseteq {"in", "out"}
    BY DEF Release, TypeOK
  <2>3. QED
    BY <2>1, <2>2 DEF Release, Goto, TypeOK
<1>2. CountInv' /\ active_streams' \in 0 .. CUBEB_STREAM_MAX
  <2>1. s \in CountedStreams
    BY <1>1 DEF CountedStreams, Counted, Building, TypeOK
  <2>2. \A d \in Clients : Counted(d)' =
          IF d = c THEN Counted(d) \ {half[c]} ELSE Counted(d)
    BY <1>1 DEF TypeOK, Counted, Building
  <2>3. CountedStreams' = CountedStreams \ {s}
    BY <2>2 DEF CountedStreams, TypeOK
  <2>4. CountInv'
    BY <1>1, <2>1, <2>3, FS_RemoveElement DEF CountInv
  <2>5. active_streams' >= 0
    BY <2>4, FS_CardinalityType DEF CountInv
  <2>6. QED
    BY <1>1, <2>4, <2>5, AlsaSlotsAssumption DEF TypeOK
<1>3. TypeOK'
  BY <1>1, <1>2 DEF TypeOK
<1>4. PhaseInv'
  BY <1>1 DEF PhaseInv, Creating, TypeOK
<1>5. SlotInv'
  <2>1. \A d \in Clients, h \in {"in", "out"} : Listed(d, h)' <=> Listed(d, h)
    BY <1>1 DEF TypeOK, Listed, Leaving
  <2>2. QED
    BY <1>1, <2>1, SlotUnchanged
<1>6. QED
  BY <1>2, <1>3, <1>4, <1>5

\* The other operations only move their client along.
LEMMA OtherSteps ==
  ASSUME IInv, NEW c \in Clients,
         \/ \E k \in {"output", "duplex", "probe"} : StreamInit(c, k)
         \/ Open(c) \/ Query(c) \/ StreamDestroy(c)
  PROVE  IInv'
<1> USE DEF IInv
<1>1. ASSUME NEW k \in {"output", "duplex", "probe"}, StreamInit(c, k) PROVE IInv'
  <2>1. TypeOK' /\ PhaseInv'
    BY <1>1 DEF StreamInit, Goto, TypeOK, PhaseInv, Creating
  <2>2. \A d \in Clients : Counted(d)' = Counted(d)
    BY <1>1 DEF StreamInit, Goto, TypeOK, Counted, Building
  <2>3. \A d \in Clients, h \in {"in", "out"} : Listed(d, h)' <=> Listed(d, h)
    BY <1>1 DEF StreamInit, Goto, TypeOK, Listed, Leaving
  <2>4. QED
    BY <1>1, <2>1, <2>2, <2>3, CountUnchanged, SlotUnchanged DEF StreamInit
<1>2. CASE Open(c)
  <2>1. CASE Undo(c, TRUE)
    BY <1>2, <2>1, UndoStep DEF Open
  <2>2. CASE Goto(c, "register") /\ UNCHANGED <<failing, half>>
    <3>1. TypeOK' /\ PhaseInv'
      BY <1>2, <2>2 DEF Open, Goto, TypeOK, PhaseInv, Creating
    <3>2. \A d \in Clients : Counted(d)' = Counted(d)
      BY <1>2, <2>2 DEF Open, Goto, TypeOK, Counted, Building
    <3>3. \A d \in Clients, h \in {"in", "out"} : Listed(d, h)' <=> Listed(d, h)
      BY <1>2, <2>2 DEF Open, Goto, TypeOK, Listed, Leaving
    <3>4. QED
      BY <1>2, <3>1, <3>2, <3>3, CountUnchanged, SlotUnchanged DEF Open
  <2>3. QED
    BY <1>2, <2>1, <2>2 DEF Open
<1>3. CASE Query(c)
  <2>1. TypeOK' /\ PhaseInv'
    BY <1>3 DEF Query, Goto, TypeOK, PhaseInv, Creating
  <2>2. \A d \in Clients : Counted(d)' = Counted(d)
    BY <1>3 DEF Query, Goto, TypeOK, PhaseInv, Counted, Building
  <2>3. \A d \in Clients, h \in {"in", "out"} : Listed(d, h)' <=> Listed(d, h)
    BY <1>3 DEF Query, Goto, TypeOK, Listed, Leaving
  <2>4. QED
    BY <1>3, <2>1, <2>2, <2>3, CountUnchanged, SlotUnchanged DEF Query
<1>4. CASE StreamDestroy(c)
  <2>1. TypeOK' /\ PhaseInv'
    BY <1>4 DEF StreamDestroy, Goto, TypeOK, PhaseInv, Creating
  <2>2. \A d \in Clients : Counted(d)' = Counted(d)
    BY <1>4 DEF StreamDestroy, Goto, TypeOK, Counted, Building
  <2>3. \A d \in Clients, h \in {"in", "out"} : Listed(d, h)' <=> Listed(d, h)
    BY <1>4 DEF StreamDestroy, Goto, TypeOK, Listed, Leaving
  <2>4. QED
    BY <1>4, <2>1, <2>2, <2>3, CountUnchanged, SlotUnchanged DEF StreamDestroy
<1>5. QED
  BY <1>1, <1>2, <1>3, <1>4

\* The invariant behind the theorems below.
THEOREM Invariant == Spec => []IInv
<1>1. IInv /\ [Next]_vars => IInv'
  <2> SUFFICES ASSUME IInv, [Next]_vars PROVE IInv'
    OBVIOUS
  <2>1. CASE Next
    BY <2>1, ReserveStep, RegisterStep, UnregisterStep, ReleaseStep, OtherSteps DEF Next
  <2>2. CASE UNCHANGED vars
    <3>1. TypeOK' /\ PhaseInv'
      BY <2>2 DEF vars, IInv, TypeOK, Slots, PhaseInv, Creating
    <3>2. \A d \in Clients : Counted(d)' = Counted(d)
      BY <2>2 DEF vars, Counted, Building
    <3>3. \A d \in Clients, h \in {"in", "out"} : Listed(d, h)' <=> Listed(d, h)
      BY <2>2 DEF vars, Listed, Leaving
    <3>4. QED
      BY <2>2, <3>1, <3>2, <3>3, CountUnchanged, SlotUnchanged DEF IInv, vars
  <2>3. QED
    BY <2>1, <2>2
<1>2. QED
  BY <1>1, InitInv, PTL DEF Spec

\* The members of the context and the locals of the calls keep their types; in
\* particular active_streams never exceeds CUBEB_STREAM_MAX.
THEOREM TypeCorrect == Spec => []TypeOK
<1>1. IInv => TypeOK
  BY DEF IInv
<1>2. QED
  BY <1>1, Invariant, PTL

\* active_streams is exact through failed and concurrent creations.
THEOREM ExactCount == Spec => []CountIsExact
<1>1. IInv => CountIsExact
  <2> SUFFICES ASSUME IInv PROVE CountIsExact
    OBVIOUS
  <2>1. ASSUME NEW i \in Slots, streams[i] # Null PROVE streams[i] \in CountedStreams
    <3>1. PICK c \in Clients, h \in {"in", "out"} : streams[i] = <<c, h>>
      BY <2>1 DEF IInv, TypeOK
    <3>2. h \in held[c]
      BY <3>1 DEF IInv, SlotInv, CreatedAreRegistered
    <3>3. QED
      BY <3>1, <3>2 DEF CountedStreams, Counted
  <2>2. QED
    BY <2>1 DEF IInv, CountInv, SlotInv, CountIsExact
<1>2. QED
  BY <1>1, Invariant, PTL

\* alsa_register_stream finds a slot for every stream that passed the limit.
THEOREM SlotGuaranteed == Spec => []AlwaysASlot
<1>1. IInv /\ CountIsExact => AlwaysASlot
  <2> SUFFICES ASSUME IInv, CountIsExact, NEW c \in Clients, pc[c] = "register",
                      Free = {}
               PROVE  FALSE
    BY DEF AlwaysASlot
  <2> DEFINE s == <<c, half[c]>>
             Others == CountedStreams \ {s}
  <2>1. s \in CountedStreams
    BY DEF IInv, TypeOK, CountedStreams, Counted, Building
  <2>2. IsFiniteSet(Others) /\ Cardinality(Others) = active_streams - 1
    BY <2>1, FS_RemoveElement DEF IInv, CountInv
  <2>3. IsFiniteSet(Slots) /\ Cardinality(Slots) = CUBEB_STREAM_MAX
    BY FS_Interval, AlsaSlotsAssumption DEF Slots
  <2>4. \A i \in Slots : streams[i] # Null /\ streams[i] # s
    BY DEF Free, IInv, PhaseInv, Creating, SlotInv, CreatedAreRegistered, TypeOK
  <2>5. streams \in [Slots -> Others]
    BY <2>4 DEF CountIsExact, IInv, TypeOK
  <2>6. Cardinality(Others) < Cardinality(Slots)
    BY <2>2, <2>3, AlsaSlotsAssumption DEF IInv, TypeOK
  <2>7. \E i, j \in Slots : i # j /\ streams[i] = streams[j]
    BY <2>2, <2>3, <2>5, <2>6, FS_PigeonHole
  <2>8. QED
    BY <2>4, <2>7 DEF IInv, SlotInv
<1>2. QED
  BY <1>1, ExactCount, Invariant, PTL

\* The streams alsa_run finds in the array are the created ones.
THEOREM RegisteredOnes == Spec => []CreatedAreRegistered
<1>1. IInv => CreatedAreRegistered
  BY DEF IInv, SlotInv
<1>2. QED
  BY <1>1, Invariant, PTL

\* A creation that fails, at any step, leaves no half of its stream behind.
THEOREM NothingLeft == Spec => []FailureLeavesNothing
<1>1. IInv => FailureLeavesNothing
  BY DEF IInv, PhaseInv, FailureLeavesNothing
<1>2. QED
  BY <1>1, Invariant, PTL
=============================================================================
