----------------------------- MODULE RingBuffer -----------------------------
(***************************************************************************)
(* ring_buffer_base<T> (src/src/cubeb_ringbuffer.h): the wait-free single  *)
(* producer, single consumer queue behind the asynchronous logger and the  *)
(* audio dump, and its adapter audio_ring_buffer_base<T>, which counts in  *)
(* frames of channel_count samples.                                        *)
(*                                                                         *)
(* An operation is split where the other thread can observe it: the load   *)
(* of the other side's index, the copy of each sample (plain, non atomic   *)
(* memory), and the store of the own index.  A sample is represented by    *)
(* its position in the stream the producer offers, so any sample that is   *)
(* lost, duplicated, reordered or torn shows up as a wrong number.         *)
(*                                                                         *)
(* Atomics are sequentially consistent here: the relaxed loads are those   *)
(* of an index by the only thread that stores it.                          *)
(***************************************************************************)
EXTENDS Integers, Sequences

CONSTANTS
  CapacityInFrames,   \* capacity_in_frames of the constructor
  ChannelCount,       \* channel_count; 1 for a bare ring_buffer_base
  MaxFrameCount,      \* bound: frames requested by one call
  MaxFrames           \* bound: frames accepted over the whole behaviour

ASSUME RingBufferAssumption ==
  /\ CapacityInFrames \in Nat \ {0}
  /\ ChannelCount \in Nat \ {0}
  /\ MaxFrameCount \in Nat
  /\ MaxFrames \in Nat

VARIABLES
  read_index, write_index, data,      \* the members of ring_buffer_base
  pPc, pRdIdx, pWrIdx, toWrite, pK,   \* locals of enqueue, pK samples copied
  cPc, cRdIdx, cWrIdx, toRead, cK,    \* locals of dequeue, cK samples copied
  elements,                           \* what dequeue has copied out so far
  produced, consumed,                 \* samples accepted, samples removed
  delivered                           \* the last batch dequeue handed over

producerVars == <<pPc, pRdIdx, pWrIdx, toWrite, pK>>
consumerVars == <<cPc, cRdIdx, cWrIdx, toRead, cK, elements>>
vars == <<read_index, write_index, data, producerVars, consumerVars,
          produced, consumed, delivered>>

frames_to_samples(frames) == frames * ChannelCount

capacity == frames_to_samples(CapacityInFrames)

\* One more element, to distinguish a full buffer from an empty one.
storage_capacity == capacity + 1

Indices == 0 .. storage_capacity - 1

empty_internal(rd, wr) == wr = rd

full_internal(rd, wr) == (wr + 1) % storage_capacity = rd

available_read_internal(rd, wr) ==
  IF wr >= rd THEN wr - rd ELSE wr + storage_capacity - rd

\* Mutant: the element that stays free is offered too.
available_write_internalAll(rd, wr) ==
  IF wr >= rd THEN rd - wr + storage_capacity ELSE rd - wr

available_write_internal(rd, wr) ==
  IF wr >= rd THEN rd - wr - 1 + storage_capacity ELSE rd - wr - 1

increment_index(index, increment) == (index + increment) % storage_capacity

AtMost(available, count) == IF available <= count THEN available ELSE count

\* The slot of the k-th sample copied from `base`: the first part runs to the
\* end of the storage, the second part starts again at its beginning.
CopySlot(base, k) ==
  IF k < storage_capacity - base THEN base + k ELSE k - (storage_capacity - base)

Init ==
  /\ read_index = 0 /\ write_index = 0
  /\ data = [i \in Indices |-> -1]
  /\ pPc = "idle" /\ pRdIdx = 0 /\ pWrIdx = 0 /\ toWrite = 0 /\ pK = 0
  /\ cPc = "idle" /\ cRdIdx = 0 /\ cWrIdx = 0 /\ toRead = 0 /\ cK = 0
  /\ elements = <<>>
  /\ produced = 0 /\ consumed = 0 /\ delivered = <<>>

\* enqueue(): load both indices; a full buffer returns 0 and changes nothing.
EnqueueLoad(frame_count) ==
  LET count == frames_to_samples(frame_count)
      n     == AtMost(available_write_internal(read_index, write_index), count)
  IN /\ pPc = "idle"
     /\ ~full_internal(read_index, write_index)
     /\ produced + n <= frames_to_samples(MaxFrames)
     /\ pWrIdx' = write_index
     /\ pRdIdx' = read_index
     /\ toWrite' = n
     /\ pK' = 0
     /\ pPc' = "copy"
     /\ UNCHANGED <<read_index, write_index, data, consumerVars, produced,
                    consumed, delivered>>

\* One sample of Copy(), or of ConstructDefault() when `elements` is null.
EnqueueCopy ==
  /\ pPc = "copy"
  /\ pK < toWrite
  /\ data' = [data EXCEPT ![CopySlot(pWrIdx, pK)] = produced + pK]
  /\ pK' = pK + 1
  /\ UNCHANGED <<read_index, write_index, pPc, pRdIdx, pWrIdx, toWrite,
                 consumerVars, produced, consumed, delivered>>

\* Mutant: the index is stored before the samples are copied.
EnqueuePublishEarly ==
  /\ pPc = "copy"
  /\ write_index' = increment_index(pWrIdx, toWrite)
  /\ produced' = produced + toWrite
  /\ pPc' = "idle"
  /\ UNCHANGED <<read_index, data, pRdIdx, pWrIdx, toWrite, pK, consumerVars,
                 consumed, delivered>>

EnqueuePublish ==
  /\ pPc = "copy"
  /\ pK = toWrite
  /\ write_index' = increment_index(pWrIdx, toWrite)
  /\ produced' = produced + toWrite
  /\ pPc' = "idle"
  /\ UNCHANGED <<read_index, data, pRdIdx, pWrIdx, toWrite, pK, consumerVars,
                 consumed, delivered>>

\* dequeue(): a null `elements` discards the samples instead of copying them.
DequeueLoad(frame_count, discard) ==
  /\ cPc = "idle"
  /\ ~empty_internal(read_index, write_index)
  /\ cRdIdx' = read_index
  /\ cWrIdx' = write_index
  /\ toRead' = AtMost(available_read_internal(read_index, write_index),
                      frames_to_samples(frame_count))
  /\ cK' = 0
  /\ elements' = <<>>
  /\ cPc' = IF discard THEN "discard" ELSE "copy"
  /\ UNCHANGED <<read_index, write_index, data, producerVars, produced,
                 consumed, delivered>>

DequeueCopy ==
  /\ cPc = "copy"
  /\ cK < toRead
  /\ elements' = Append(elements, data[CopySlot(cRdIdx, cK)])
  /\ cK' = cK + 1
  /\ UNCHANGED <<read_index, write_index, data, producerVars, cPc, cRdIdx,
                 cWrIdx, toRead, produced, consumed, delivered>>

DequeuePublish ==
  /\ \/ cPc = "copy" /\ cK = toRead /\ delivered' = elements
     \/ cPc = "discard" /\ UNCHANGED delivered
  /\ read_index' = increment_index(cRdIdx, toRead)
  /\ consumed' = consumed + toRead
  /\ cPc' = "idle"
  /\ UNCHANGED <<write_index, data, producerVars, cRdIdx, cWrIdx, toRead, cK,
                 elements, produced>>

Requests == 1 .. MaxFrameCount

Next ==
  \/ \E n \in Requests : EnqueueLoad(n)
  \/ EnqueueCopy
  \/ EnqueuePublish
  \/ \E n \in Requests, discard \in BOOLEAN : DequeueLoad(n, discard)
  \/ DequeueCopy
  \/ DequeuePublish

Spec == Init /\ [][Next]_vars

-----------------------------------------------------------------------------
TypeOK ==
  /\ read_index \in Indices /\ write_index \in Indices
  /\ data \in [Indices -> Int]
  /\ pPc \in {"idle", "copy"}
  /\ pRdIdx \in Indices /\ pWrIdx \in Indices
  /\ toWrite \in 0 .. capacity /\ pK \in 0 .. capacity
  /\ cPc \in {"idle", "copy", "discard"}
  /\ cRdIdx \in Indices /\ cWrIdx \in Indices
  /\ toRead \in 0 .. capacity /\ cK \in 0 .. capacity
  /\ elements \in Seq(Int)
  /\ produced \in Nat /\ consumed \in Nat
  /\ delivered \in Seq(Int)

\* The slots a call has still to write, or to read.
BeingWritten ==
  IF pPc = "copy" THEN {CopySlot(pWrIdx, k) : k \in pK .. toWrite - 1} ELSE {}
BeingRead ==
  IF cPc = "copy" THEN {CopySlot(cRdIdx, k) : k \in cK .. toRead - 1} ELSE {}

\* No sample is written while it is being read: whatever the index each side
\* loaded, and however stale it has become, the two copies use disjoint slots.
NoDataRace == BeingWritten \cap BeingRead = {}

\* What the consumer has copied so far is exactly the next samples of the
\* stream, in order: enqueue never overtakes a dequeue in progress.
CopiedInOrder ==
  cPc = "copy" => \A i \in 1 .. Len(elements) : elements[i] = consumed + i - 1

\* The two indices always account for every accepted sample, and the number of
\* queued samples never exceeds what capacity() promises.
IndicesAccountForSamples ==
  /\ available_read_internal(read_index, write_index) = produced - consumed
  /\ produced - consumed <= capacity

\* A wrapped or stale index never makes a side give up the last free or the
\* last filled slot: a queue with room refuses nothing and a queue with data
\* delivers at least one frame (the early returns of enqueue and dequeue).
NoSpuriousRefusal ==
  /\ produced - consumed < capacity => ~full_internal(read_index, write_index)
  /\ produced > consumed => ~empty_internal(read_index, write_index)
  /\ pPc = "copy" => toWrite > 0
  /\ cPc # "idle" => toRead > 0

\* The queue implements a bounded FIFO of samples.
Queued ==
  [i \in 1 .. available_read_internal(read_index, write_index) |->
     data[CopySlot(read_index, i - 1)]]

Fifo == INSTANCE BoundedFifo WITH Bound <- capacity, queue <- Queued,
                                  next <- produced, received <- delivered

ImplementsFifo == Fifo!Spec
=============================================================================
