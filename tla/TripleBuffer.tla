---------------------------- MODULE TripleBuffer ----------------------------
(***************************************************************************)
(* triple_buffer<T> (src/src/cubeb_triple_buffer.h): a producer publishes  *)
(* values to a consumer without blocking; the consumer only sees the       *)
(* latest.  The three slots rotate between the producer (input_idx), the   *)
(* back buffer (shared_state) and the consumer (output_idx).               *)
(*                                                                         *)
(* A value is larger than a word: it is stored and copied in two parts,    *)
(* "lo" and "hi", so that a torn copy is visible.  It is represented by    *)
(* the number of the write() that produced it; 0 is the value-initialized  *)
(* storage.  Every atomic operation is an action of its own.               *)
(***************************************************************************)
EXTENDS Integers

CONSTANTS
  MaxWrites,       \* bound: calls of write()
  MaxInvalidates   \* bound: calls of invalidate()

ASSUME TripleBufferAssumption == MaxWrites \in Nat /\ MaxInvalidates \in Nat

VARIABLES
  storage,                 \* the three values
  shared_state,            \* index of the back buffer, and its dirty bit
  input_idx, output_idx,   \* private to the producer, to the consumer
  pPc, overwrote,          \* write(): its program counter, its last result
  cPc, copy,               \* read(): its program counter, the caller's copy
  published,               \* number of the last value published
  taken, lost,             \* values read, values overwritten before a read ...
  base,                    \* ... since `published` was base: the last invalidate
  atLeast,                 \* the last value published when read() was called
  invalidates

producerVars == <<input_idx, pPc, overwrote, published, lost>>
consumerVars == <<output_idx, cPc, copy, taken, atLeast>>
bufferVars == <<storage, shared_state, producerVars, consumerVars, base, invalidates>>

Slots == 0 .. 2
Whole(n) == [lo |-> n, hi |-> n]

BufferInit ==
  /\ storage = [s \in Slots |-> Whole(0)]
  /\ shared_state = [idx |-> 0, dirty |-> FALSE]
  /\ input_idx = 2 /\ output_idx = 1
  /\ pPc = "idle" /\ overwrote = FALSE
  /\ cPc = "idle" /\ copy = Whole(0)
  /\ published = 0 /\ taken = 0 /\ lost = 0 /\ base = 0 /\ atLeast = 0
  /\ invalidates = 0

\* write(): the assignment to storage[input_idx], one part after the other.
WriteLo ==
  /\ pPc = "idle"
  /\ published < MaxWrites
  /\ storage' = [storage EXCEPT ![input_idx].lo = published + 1]
  /\ pPc' = "half"
  /\ UNCHANGED <<shared_state, input_idx, overwrote, published, lost,
                 consumerVars, base, invalidates>>

WriteHi ==
  /\ pPc = "half"
  /\ storage' = [storage EXCEPT ![input_idx].hi = published + 1]
  /\ pPc' = "publish"
  /\ UNCHANGED <<shared_state, input_idx, overwrote, published, lost,
                 consumerVars, base, invalidates>>

\* publish(): the exchange hands over the slot and takes the back buffer's.
\* Mutant: the slot is stored, and the producer keeps it.
PublishStore ==
  /\ pPc = "publish"
  /\ shared_state' = [idx |-> input_idx, dirty |-> TRUE]
  /\ overwrote' = shared_state.dirty
  /\ pPc' = "idle"
  /\ published' = published + 1
  /\ lost' = IF shared_state.dirty THEN lost + 1 ELSE lost
  /\ UNCHANGED <<storage, input_idx, consumerVars, base, invalidates>>

\* Mutant: the dirty bit is not set.
PublishClean ==
  /\ pPc = "publish"
  /\ shared_state' = [idx |-> input_idx, dirty |-> FALSE]
  /\ input_idx' = shared_state.idx
  /\ overwrote' = shared_state.dirty
  /\ pPc' = "idle"
  /\ published' = published + 1
  /\ lost' = IF shared_state.dirty THEN lost + 1 ELSE lost
  /\ UNCHANGED <<storage, consumerVars, base, invalidates>>

Publish ==
  /\ pPc = "publish"
  /\ shared_state' = [idx |-> input_idx, dirty |-> TRUE]
  /\ input_idx' = shared_state.idx
  /\ overwrote' = shared_state.dirty
  /\ pPc' = "idle"
  /\ published' = published + 1
  /\ lost' = IF shared_state.dirty THEN lost + 1 ELSE lost
  /\ UNCHANGED <<storage, consumerVars, base, invalidates>>

\* updated(), a load of the dirty bit.
updated == shared_state.dirty

\* read() and its update(): nothing is exchanged unless the dirty bit is set.
ReadCheck ==
  /\ cPc = "idle"
  /\ cPc' = IF updated THEN "exchange" ELSE "copyLo"
  /\ atLeast' = published
  /\ UNCHANGED <<storage, shared_state, producerVars, output_idx, copy, taken,
                 base, invalidates>>

\* Mutant: the dirty bit stays set.
ReadExchangeDirty ==
  /\ cPc = "exchange"
  /\ shared_state' = [shared_state EXCEPT !.idx = output_idx]
  /\ output_idx' = shared_state.idx
  /\ cPc' = "copyLo"
  /\ taken' = taken + 1
  /\ UNCHANGED <<storage, producerVars, copy, atLeast, base, invalidates>>

ReadExchange ==
  /\ cPc = "exchange"
  /\ shared_state' = [idx |-> output_idx, dirty |-> FALSE]
  /\ output_idx' = shared_state.idx
  /\ cPc' = "copyLo"
  /\ taken' = taken + 1
  /\ UNCHANGED <<storage, producerVars, copy, atLeast, base, invalidates>>

\* The caller copies the value out of the reference read() returned.
CopyLo ==
  /\ cPc = "copyLo"
  /\ copy' = [copy EXCEPT !.lo = storage[output_idx].lo]
  /\ cPc' = "copyHi"
  /\ UNCHANGED <<storage, shared_state, producerVars, output_idx, taken,
                 atLeast, base, invalidates>>

CopyHi ==
  /\ cPc = "copyHi"
  /\ copy' = [copy EXCEPT !.hi = storage[output_idx].hi]
  /\ cPc' = "idle"
  /\ UNCHANGED <<storage, shared_state, producerVars, output_idx, taken,
                 atLeast, base, invalidates>>

\* invalidate(), which its only caller (aaudio_stream_destroy_locked) makes once
\* the AAudio streams are closed and nothing else can use the stream.
invalidate ==
  /\ pPc = "idle" /\ cPc = "idle"
  /\ invalidates < MaxInvalidates
  /\ shared_state' = [idx |-> 0, dirty |-> FALSE]
  /\ input_idx' = 1
  /\ output_idx' = 2
  /\ base' = published
  /\ taken' = 0 /\ lost' = 0
  /\ invalidates' = invalidates + 1
  /\ UNCHANGED <<storage, pPc, overwrote, published, cPc, copy, atLeast>>

BufferNext ==
  \/ WriteLo \/ WriteHi \/ Publish
  \/ ReadCheck \/ ReadExchange \/ CopyLo \/ CopyHi
  \/ invalidate

BufferSpec == BufferInit /\ [][BufferNext]_bufferVars

-----------------------------------------------------------------------------
Values == [lo : Nat, hi : Nat]

TypeOK ==
  /\ storage \in [Slots -> Values]
  /\ shared_state \in [idx : Slots, dirty : BOOLEAN]
  /\ input_idx \in Slots /\ output_idx \in Slots
  /\ pPc \in {"idle", "half", "publish"} /\ overwrote \in BOOLEAN
  /\ cPc \in {"idle", "exchange", "copyLo", "copyHi"} /\ copy \in Values
  /\ published \in Nat /\ taken \in Nat /\ lost \in Nat
  /\ base \in 0 .. published /\ atLeast \in 0 .. published
  /\ invalidates \in Nat

\* Whatever the order of the two exchanges and of invalidate(), no slot is ever
\* owned twice: the producer, the back buffer and the consumer hold one each.
SlotsOwnedOnce == {input_idx, shared_state.idx, output_idx} = Slots

\* The consumer never holds a half-written value, so its copy, made while the
\* producer goes on writing and publishing, is never torn.
NeverTorn ==
  /\ storage[output_idx].lo = storage[output_idx].hi
  /\ cPc = "idle" => copy.lo = copy.hi

\* A finished read() returns a value at least as recent as the last one that
\* had been published when it was called, in particular when the producer
\* publishes again between its updated() and its exchange.  A value published
\* before invalidate() is not owed to anyone.
FreshEnough == cPc = "idle" /\ atLeast > base => copy.lo >= atLeast

\* write() reports an overwrite exactly when a value was lost: since the last
\* invalidate(), each published value was read, lost, or waits with the dirty
\* bit set.  A dirty bit cleared or set at the wrong time breaks the account.
PublishedAccountedFor ==
  published - base = taken + lost + (IF updated THEN 1 ELSE 0)

\* The values handed to the consumer never go back in time (the loop of
\* test_triple_buffer.cpp), except that invalidate() may leave it an older one.
NeverOlder ==
  [][invalidates' = invalidates
       => storage[output_idx].lo <= storage'[output_idx'].lo]_bufferVars

\* The buffer implements an atomic latest-value register.
Register == INSTANCE LatestValue WITH
  latest <- published, unread <- updated, seen <- storage[output_idx].lo

ImplementsRegister == Register!Spec
=============================================================================
