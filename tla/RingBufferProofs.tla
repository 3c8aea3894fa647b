-------------------------- MODULE RingBufferProofs --------------------------
(***************************************************************************)
(* The ring buffer is a race free FIFO for every capacity, every number of *)
(* channels and every interleaving of its two threads.                     *)
(*                                                                         *)
(* The argument: each thread works from a possibly stale copy of the       *)
(* other's index, but the other thread can only have freed more room       *)
(* (dequeue) or published more samples (enqueue) since, so what a call     *)
(* took for available still is.  The distance from the read index to the   *)
(* write index splits the storage into filled and free slots, and the      *)
(* producer only touches the second, the consumer the first.               *)
(***************************************************************************)
EXTENDS RingBuffer, SequenceTheorems, TLAPS

\* What is available only grows behind the back of the side that loaded it.
ProducerInv ==
  pPc = "copy" =>
    /\ pWrIdx = write_index
    /\ toWrite \in 1 .. available_write_internal(pRdIdx, pWrIdx)
    /\ available_write_internal(pRdIdx, pWrIdx)
         <= available_write_internal(read_index, write_index)
    /\ pK <= toWrite

ConsumerInv ==
  cPc # "idle" =>
    /\ cRdIdx = read_index
    /\ toRead \in 1 .. available_read_internal(cRdIdx, cWrIdx)
    /\ available_read_internal(cRdIdx, cWrIdx)
         <= available_read_internal(read_index, write_index)
    /\ cK <= toRead
    /\ cPc = "copy" => Len(elements) = cK

\* The filled slots hold the samples from `consumed` on, the slots already
\* copied by an enqueue in progress the samples from `produced` on.
FilledInv ==
  \A k \in 0 .. available_read_internal(read_index, write_index) - 1 :
    data[CopySlot(read_index, k)] = consumed + k

WrittenInv ==
  pPc = "copy" =>
    \A k \in 0 .. pK - 1 : data[CopySlot(pWrIdx, k)] = produced + k

CountInv ==
  available_read_internal(read_index, write_index) = produced - consumed

IInv == /\ TypeOK
        /\ ProducerInv
        /\ ConsumerInv
        /\ FilledInv
        /\ WrittenInv
        /\ CountInv
        /\ CopiedInOrder

-----------------------------------------------------------------------------
(* Arithmetic of the indices.                                              *)

LEMMA CapacityPositive == capacity \in Nat \ {0}
BY RingBufferAssumption DEF capacity, frames_to_samples

\* The slots reached from an index are slots of the storage, all different.
LEMMA CopySlotInjective ==
  ASSUME NEW base \in Indices, NEW j \in 0 .. capacity, NEW k \in 0 .. capacity
  PROVE  /\ CopySlot(base, j) \in Indices
         /\ CopySlot(base, j) = CopySlot(base, k) => j = k
BY CapacityPositive DEF CopySlot, Indices, storage_capacity

LEMMA CopySlotAdd ==
  ASSUME NEW base \in Indices, NEW j \in Nat, NEW k \in Nat,
         j + k <= capacity
  PROVE  CopySlot(CopySlot(base, j), k) = CopySlot(base, j + k)
BY CapacityPositive DEF CopySlot, Indices, storage_capacity

\* The modulo in increment_index is the wrap around of the copies.
LEMMA IncrementIsCopySlot ==
  ASSUME NEW base \in Indices, NEW n \in 0 .. capacity
  PROVE  increment_index(base, n) = CopySlot(base, n)
<1>1. \A S \in Nat \ {0}, i \in 0 .. capacity, m \in 0 .. capacity :
        S = capacity + 1 =>
          (i + m) % S = IF m < S - i THEN i + m ELSE m - (S - i)
  BY CapacityPositive
<1>2. base \in 0 .. capacity /\ capacity + 1 \in Nat \ {0}
  BY CapacityPositive DEF Indices, storage_capacity
<1> QED
  BY <1>1, <1>2 DEF increment_index, CopySlot, storage_capacity

\* Filled and free slots partition the storage, less the one kept empty.
LEMMA Availability ==
  ASSUME NEW rd \in Indices, NEW wr \in Indices
  PROVE  /\ available_read_internal(rd, wr) \in 0 .. capacity
         /\ available_write_internal(rd, wr) \in 0 .. capacity
         /\ available_write_internal(rd, wr)
              = capacity - available_read_internal(rd, wr)
         /\ wr = CopySlot(rd, available_read_internal(rd, wr))
         /\ wr = rd <=> available_read_internal(rd, wr) = 0
BY CapacityPositive
DEF available_read_internal, available_write_internal, CopySlot, Indices,
    storage_capacity

LEMMA AdvanceWrite ==
  ASSUME NEW rd \in Indices, NEW wr \in Indices,
         NEW n \in 0 .. available_write_internal(rd, wr)
  PROVE  available_read_internal(rd, CopySlot(wr, n))
           = available_read_internal(rd, wr) + n
BY CapacityPositive
DEF available_read_internal, available_write_internal, CopySlot, Indices,
    storage_capacity

LEMMA AdvanceRead ==
  ASSUME NEW rd \in Indices, NEW wr \in Indices,
         NEW n \in 0 .. available_read_internal(rd, wr)
  PROVE  available_read_internal(CopySlot(rd, n), wr)
           = available_read_internal(rd, wr) - n
BY CapacityPositive
DEF available_read_internal, CopySlot, Indices, storage_capacity

\* full_internal and empty_internal are the two ends of the availability.
LEMMA FullIsNoRoom ==
  ASSUME NEW rd \in Indices, NEW wr \in Indices
  PROVE  full_internal(rd, wr) <=> available_write_internal(rd, wr) = 0
<1>1. full_internal(rd, wr) <=> CopySlot(wr, 1) = rd
  BY IncrementIsCopySlot, CapacityPositive DEF full_internal, increment_index
<1> QED
  BY <1>1, CapacityPositive
  DEF available_write_internal, CopySlot, Indices, storage_capacity

\* The state in the terms of the index arithmetic: `filled` slots from the
\* read index on, and each call in progress within its side.
filled == available_read_internal(read_index, write_index)

LEMMA StateFacts ==
  ASSUME IInv
  PROVE  /\ capacity \in Nat \ {0}
         /\ read_index \in Indices /\ write_index \in Indices
         /\ filled \in 0 .. capacity
         /\ available_write_internal(read_index, write_index) = capacity - filled
         /\ write_index = CopySlot(read_index, filled)
         /\ write_index = read_index <=> filled = 0
         /\ full_internal(read_index, write_index) <=> filled = capacity
         /\ pPc = "copy" => /\ pWrIdx = write_index
                            /\ toWrite \in 1 .. capacity - filled
                            /\ pK \in 0 .. toWrite
         /\ cPc # "idle" => /\ cRdIdx = read_index
                            /\ toRead \in 1 .. filled
                            /\ cK \in 0 .. toRead
<1>1. capacity \in Nat \ {0}
  BY CapacityPositive
<1>2. /\ read_index \in Indices /\ write_index \in Indices
      /\ pRdIdx \in Indices /\ pWrIdx \in Indices
      /\ cRdIdx \in Indices /\ cWrIdx \in Indices
      /\ pK \in 0 .. capacity /\ cK \in 0 .. capacity
  BY DEF IInv, TypeOK
<1>3. /\ filled \in 0 .. capacity
      /\ available_write_internal(read_index, write_index) = capacity - filled
      /\ write_index = CopySlot(read_index, filled)
      /\ write_index = read_index <=> filled = 0
  BY <1>2, Availability DEF filled
<1>4. /\ available_write_internal(pRdIdx, pWrIdx) \in 0 .. capacity
      /\ available_read_internal(cRdIdx, cWrIdx) \in 0 .. capacity
  BY <1>2, Availability
<1>5. full_internal(read_index, write_index) <=> filled = capacity
  BY <1>1, <1>2, <1>3, FullIsNoRoom
<1>6. pPc = "copy" => /\ pWrIdx = write_index
                     /\ toWrite \in 1 .. capacity - filled
                     /\ pK \in 0 .. toWrite
  BY <1>1, <1>2, <1>3, <1>4 DEF IInv, ProducerInv
<1>7. cPc # "idle" => /\ cRdIdx = read_index
                     /\ toRead \in 1 .. filled
                     /\ cK \in 0 .. toRead
  BY <1>1, <1>2, <1>3, <1>4 DEF IInv, ConsumerInv, filled
<1> QED  BY <1>1, <1>2, <1>3, <1>5, <1>6, <1>7

-----------------------------------------------------------------------------
(* The invariant is inductive: one lemma per action.                       *)

LEMMA InitIInv == Init => IInv
BY CapacityPositive
DEF Init, IInv, TypeOK, ProducerInv, ConsumerInv, FilledInv, WrittenInv,
    CountInv, CopiedInOrder, available_read_internal, Indices, storage_capacity

LEMMA EnqueueLoadIInv ==
  ASSUME IInv, NEW n \in Requests, EnqueueLoad(n)
  PROVE  IInv'
<1> DEFINE room == available_write_internal(read_index, write_index)
<1>1. room \in 1 .. capacity
  BY StateFacts DEF EnqueueLoad
<1>2. frames_to_samples(n) \in Nat \ {0}
  BY RingBufferAssumption DEF frames_to_samples, Requests
<1>3. toWrite' \in 1 .. room
  BY <1>1, <1>2 DEF EnqueueLoad, AtMost
<1>4. TypeOK'
  BY <1>1, <1>3, CapacityPositive
  DEF IInv, TypeOK, EnqueueLoad, consumerVars
<1>5. ProducerInv'
  BY <1>1, <1>3 DEF IInv, TypeOK, EnqueueLoad, ProducerInv
<1>6. ConsumerInv' /\ FilledInv' /\ CountInv' /\ CopiedInOrder'
  BY DEF IInv, EnqueueLoad, ConsumerInv, FilledInv, CountInv, CopiedInOrder,
         consumerVars
<1>7. WrittenInv'
  BY DEF EnqueueLoad, WrittenInv
<1> QED  BY <1>4, <1>5, <1>6, <1>7 DEF IInv

\* The slot an enqueue writes next is none of the filled ones.
LEMMA EnqueueCopyIInv ==
  ASSUME IInv, EnqueueCopy
  PROVE  IInv'
<1> DEFINE slot == CopySlot(pWrIdx, pK)
<1>1. /\ pWrIdx = write_index /\ pWrIdx \in Indices /\ read_index \in Indices
      /\ pK \in 0 .. capacity /\ pK + 1 <= toWrite /\ toWrite \in 0 .. capacity
      /\ capacity \in Nat /\ filled \in 0 .. capacity
      /\ filled + pK + 1 <= capacity
      /\ write_index = CopySlot(read_index, filled)
  BY StateFacts DEF EnqueueCopy
<1>2. slot = CopySlot(read_index, filled + pK)
  BY <1>1, CopySlotAdd
<1>3. slot \in Indices
  BY <1>1, CopySlotInjective
<1>4. TypeOK'
  BY <1>1, <1>3 DEF IInv, TypeOK, EnqueueCopy, consumerVars
<1>5. ProducerInv' /\ ConsumerInv' /\ CountInv' /\ CopiedInOrder'
  BY <1>1 DEF IInv, TypeOK, EnqueueCopy, ProducerInv, ConsumerInv, CountInv,
              CopiedInOrder, consumerVars
<1>6. FilledInv'
  <2> SUFFICES ASSUME NEW k \in 0 .. filled - 1
               PROVE  data'[CopySlot(read_index, k)] = consumed + k
    BY DEF EnqueueCopy, FilledInv, filled
  <2>1. k \in 0 .. capacity /\ filled + pK \in 0 .. capacity /\ k # filled + pK
    BY <1>1
  <2>2. /\ CopySlot(read_index, k) \in Indices
        /\ CopySlot(read_index, k) # slot
    BY <1>1, <1>2, <2>1, CopySlotInjective
  <2> QED
    BY <2>2 DEF IInv, TypeOK, FilledInv, EnqueueCopy, filled
<1>7. WrittenInv'
  <2> SUFFICES ASSUME NEW k \in 0 .. pK
               PROVE  data'[CopySlot(pWrIdx, k)] = produced + k
    BY <1>1 DEF EnqueueCopy, WrittenInv
  <2>1. /\ k \in 0 .. capacity
        /\ CopySlot(pWrIdx, k) \in Indices
        /\ k # pK => CopySlot(pWrIdx, k) # slot
    BY <1>1, CopySlotInjective
  <2>2. CASE k = pK
    BY <1>3, <2>2 DEF IInv, TypeOK, EnqueueCopy
  <2>3. CASE k # pK
    <3>1. k \in 0 .. pK - 1
      BY <1>1, <2>3
    <3> QED
      BY <2>1, <2>3, <3>1 DEF IInv, TypeOK, WrittenInv, EnqueueCopy
  <2> QED  BY <2>2, <2>3
<1> QED  BY <1>4, <1>5, <1>6, <1>7 DEF IInv

LEMMA EnqueuePublishIInv ==
  ASSUME IInv, EnqueuePublish
  PROVE  IInv'
<1>1. /\ pWrIdx = write_index /\ pK = toWrite /\ toWrite \in 0 .. capacity
      /\ toWrite \in 0 .. available_write_internal(read_index, write_index)
      /\ capacity \in Nat /\ filled \in 0 .. capacity
      /\ filled + toWrite <= capacity
      /\ write_index = CopySlot(read_index, filled)
      /\ read_index \in Indices /\ write_index \in Indices
  BY StateFacts DEF EnqueuePublish
<1>2. write_index' = CopySlot(write_index, toWrite) /\ write_index' \in Indices
  BY <1>1, IncrementIsCopySlot, CopySlotInjective DEF EnqueuePublish
<1>3. available_read_internal(read_index', write_index') = filled + toWrite
  BY <1>1, <1>2, AdvanceWrite DEF EnqueuePublish, filled
<1>4. TypeOK'
  BY <1>1, <1>2 DEF IInv, TypeOK, EnqueuePublish, consumerVars
<1>5. ProducerInv' /\ WrittenInv' /\ CopiedInOrder'
  BY DEF IInv, EnqueuePublish, ProducerInv, WrittenInv, CopiedInOrder,
         consumerVars
<1>6. CountInv'
  BY <1>1, <1>3 DEF IInv, TypeOK, CountInv, EnqueuePublish, filled
<1>7. ConsumerInv'
  <2>1. cPc # "idle" => available_read_internal(cRdIdx, cWrIdx) \in 0 .. capacity
    BY Availability DEF IInv, TypeOK
  <2> QED
    BY <1>1, <1>3, <2>1
    DEF IInv, TypeOK, ConsumerInv, EnqueuePublish, consumerVars, filled
<1>8. FilledInv'
  <2> SUFFICES ASSUME NEW k \in 0 .. filled + toWrite - 1
               PROVE  data[CopySlot(read_index, k)] = consumed + k
    BY <1>1, <1>3 DEF EnqueuePublish, FilledInv
  <2>1. CASE k < filled
    BY <2>1, <1>1 DEF IInv, FilledInv, filled
  <2>2. CASE k >= filled
    <3>1. /\ k - filled \in 0 .. pK - 1 /\ k - filled \in Nat
          /\ filled + (k - filled) = k /\ k <= capacity
      BY <1>1, <2>2
    <3>2. CopySlot(pWrIdx, k - filled) = CopySlot(read_index, k)
      BY <1>1, <3>1, CopySlotAdd
    <3>3. data[CopySlot(pWrIdx, k - filled)] = produced + (k - filled)
      BY <3>1 DEF IInv, WrittenInv, EnqueuePublish
    <3> QED
      BY <1>1, <3>2, <3>3 DEF IInv, TypeOK, CountInv, filled
  <2> QED  BY <2>1, <2>2, <1>1
<1> QED  BY <1>4, <1>5, <1>6, <1>7, <1>8 DEF IInv

LEMMA DequeueLoadIInv ==
  ASSUME IInv, NEW n \in Requests, NEW discard \in BOOLEAN,
         DequeueLoad(n, discard)
  PROVE  IInv'
<1>1. filled \in 1 .. capacity
  BY StateFacts DEF DequeueLoad, empty_internal
<1>2. frames_to_samples(n) \in Nat \ {0}
  BY RingBufferAssumption DEF frames_to_samples, Requests
<1>3. toRead' \in 1 .. filled
  BY <1>1, <1>2 DEF DequeueLoad, AtMost, filled
<1>4. TypeOK'
  BY <1>1, <1>3, CapacityPositive DEF IInv, TypeOK, DequeueLoad, producerVars
<1>5. ConsumerInv'
  BY <1>1, <1>3 DEF IInv, TypeOK, DequeueLoad, ConsumerInv, filled
<1>6. ProducerInv' /\ FilledInv' /\ WrittenInv' /\ CountInv' /\ CopiedInOrder'
  BY DEF IInv, DequeueLoad, ProducerInv, FilledInv, WrittenInv, CountInv,
         CopiedInOrder, producerVars
<1> QED  BY <1>4, <1>5, <1>6 DEF IInv

LEMMA DequeueCopyIInv ==
  ASSUME IInv, DequeueCopy
  PROVE  IInv'
<1> DEFINE x == data[CopySlot(cRdIdx, cK)]
<1>1. /\ cRdIdx = read_index /\ cK \in 0 .. capacity /\ cK + 1 <= toRead
      /\ toRead \in 0 .. capacity /\ cK \in 0 .. filled - 1
      /\ capacity \in Nat /\ filled \in 0 .. capacity
  BY StateFacts DEF DequeueCopy
<1>8. Len(elements) = cK
  BY DEF IInv, ConsumerInv, DequeueCopy
<1>2. x = consumed + cK
  BY <1>1 DEF IInv, FilledInv, filled
<1>3. x \in Int /\ elements' \in Seq(Int) /\ Len(elements') = cK + 1
  BY <1>1, <1>2, <1>8 DEF IInv, TypeOK, DequeueCopy
<1>9. cK' \in 0 .. capacity
  BY <1>1 DEF DequeueCopy
<1>4. TypeOK'
  BY <1>3, <1>9 DEF IInv, TypeOK, DequeueCopy, producerVars
<1>5. ConsumerInv'
  BY <1>1, <1>3 DEF IInv, TypeOK, ConsumerInv, DequeueCopy
<1>6. ProducerInv' /\ FilledInv' /\ WrittenInv' /\ CountInv'
  BY DEF IInv, DequeueCopy, ProducerInv, FilledInv, WrittenInv, CountInv,
         producerVars
<1>7. CopiedInOrder'
  BY <1>1, <1>2, <1>3, <1>8 DEF IInv, TypeOK, DequeueCopy, CopiedInOrder
<1> QED  BY <1>4, <1>5, <1>6, <1>7 DEF IInv

LEMMA DequeuePublishIInv ==
  ASSUME IInv, DequeuePublish
  PROVE  IInv'
<1>1. /\ cRdIdx = read_index /\ toRead \in 0 .. capacity /\ toRead \in 0 .. filled
      /\ capacity \in Nat /\ filled \in 0 .. capacity
      /\ read_index \in Indices /\ write_index \in Indices
  BY StateFacts DEF DequeuePublish
<1>2. read_index' = CopySlot(read_index, toRead) /\ read_index' \in Indices
  BY <1>1, IncrementIsCopySlot, CopySlotInjective DEF DequeuePublish
<1>3. available_read_internal(read_index', write_index') = filled - toRead
  BY <1>1, <1>2, AdvanceRead DEF DequeuePublish, filled
<1>4. TypeOK'
  BY <1>1, <1>2 DEF IInv, TypeOK, DequeuePublish, producerVars
<1>5. ConsumerInv' /\ WrittenInv' /\ CopiedInOrder'
  BY DEF IInv, DequeuePublish, ConsumerInv, WrittenInv, CopiedInOrder,
         producerVars
<1>6. CountInv'
  BY <1>1, <1>3 DEF IInv, TypeOK, CountInv, DequeuePublish, filled
<1>7. ProducerInv'
  <2>1. available_write_internal(read_index', write_index')
          = available_write_internal(read_index, write_index) + toRead
    <3>1. available_write_internal(read_index', write_index')
            = capacity - (filled - toRead)
      BY <1>1, <1>2, <1>3, Availability DEF DequeuePublish
    <3>2. available_write_internal(read_index, write_index) = capacity - filled
      BY StateFacts
    <3> QED  BY <1>1, <3>1, <3>2
  <2>2. pPc = "copy" => available_write_internal(pRdIdx, pWrIdx) \in 0 .. capacity
    BY Availability DEF IInv, TypeOK
  <2>3. available_write_internal(read_index, write_index) \in 0 .. capacity
    BY StateFacts
  <2> QED
    BY <1>1, <2>1, <2>2, <2>3
    DEF IInv, TypeOK, ProducerInv, DequeuePublish, producerVars
<1>8. FilledInv'
  <2> SUFFICES ASSUME NEW k \in 0 .. filled - toRead - 1
               PROVE  data[CopySlot(read_index', k)] = consumed + toRead + k
    BY <1>1, <1>3 DEF IInv, TypeOK, DequeuePublish, FilledInv
  <2>1. toRead \in Nat /\ k \in Nat /\ toRead + k <= capacity
        /\ toRead + k \in 0 .. filled - 1
    BY <1>1
  <2>2. CopySlot(read_index', k) = CopySlot(read_index, toRead + k)
    BY <1>1, <1>2, <2>1, CopySlotAdd
  <2>3. data[CopySlot(read_index, toRead + k)] = consumed + (toRead + k)
    BY <2>1 DEF IInv, FilledInv, filled
  <2> QED
    BY <1>1, <2>1, <2>2, <2>3 DEF IInv, TypeOK
<1> QED  BY <1>4, <1>5, <1>6, <1>7, <1>8 DEF IInv

LEMMA NextIInv == IInv /\ [Next]_vars => IInv'
<1> SUFFICES ASSUME IInv, [Next]_vars  PROVE IInv'
  OBVIOUS
<1>1. CASE UNCHANGED vars
  BY <1>1
  DEF vars, producerVars, consumerVars, IInv, TypeOK, ProducerInv, ConsumerInv,
      FilledInv, WrittenInv, CountInv, CopiedInOrder
<1> QED
  BY <1>1, EnqueueLoadIInv, EnqueueCopyIInv, EnqueuePublishIInv,
     DequeueLoadIInv, DequeueCopyIInv, DequeuePublishIInv DEF Next

LEMMA InductiveInvariant == Spec => []IInv
BY InitIInv, NextIInv, PTL DEF Spec

-----------------------------------------------------------------------------
(* What follows from the invariant.                                        *)

\* The members and the locals of both calls keep their types.
THEOREM TypeCorrect == Spec => []TypeOK
BY InductiveInvariant, PTL DEF IInv

\* The producer's copy and the consumer's copy never share a slot.
THEOREM RaceFree == Spec => []NoDataRace
<1>1. IInv => NoDataRace
  <2> SUFFICES ASSUME IInv, pPc = "copy", cPc = "copy",
                      NEW j \in pK .. toWrite - 1, NEW k \in cK .. toRead - 1
               PROVE  CopySlot(pWrIdx, j) # CopySlot(cRdIdx, k)
    BY DEF NoDataRace, BeingWritten, BeingRead
  <2>1. /\ cRdIdx = read_index /\ pWrIdx = write_index
        /\ read_index \in Indices
        /\ filled \in Nat /\ j \in Nat /\ filled + j <= capacity
        /\ k \in 0 .. capacity /\ filled + j \in 0 .. capacity /\ k # filled + j
        /\ write_index = CopySlot(read_index, filled)
    BY StateFacts
  <2>2. CopySlot(pWrIdx, j) = CopySlot(read_index, filled + j)
    BY <2>1, CopySlotAdd
  <2> QED
    BY <2>1, <2>2, CopySlotInjective
<1> QED  BY <1>1, InductiveInvariant, PTL

\* The consumer always copies the next samples of the stream, in order.
THEOREM FifoOrder == Spec => []CopiedInOrder
BY InductiveInvariant, PTL DEF IInv

\* The indices account for every sample, and never for more than capacity().
THEOREM CountsAgree == Spec => []IndicesAccountForSamples
<1>1. IInv => IndicesAccountForSamples
  BY StateFacts DEF IInv, CountInv, IndicesAccountForSamples, filled
<1> QED  BY <1>1, InductiveInvariant, PTL

\* A queue with room takes at least one sample, one with data delivers some.
THEOREM NeverRefusesInVain == Spec => []NoSpuriousRefusal
<1>1. IInv => NoSpuriousRefusal
  <2> SUFFICES ASSUME IInv PROVE NoSpuriousRefusal
    OBVIOUS
  <2>1. filled = produced - consumed /\ produced \in Nat /\ consumed \in Nat
    BY DEF IInv, CountInv, TypeOK, filled
  <2>2. produced - consumed < capacity => ~full_internal(read_index, write_index)
    BY <2>1, StateFacts
  <2>3. produced > consumed => ~empty_internal(read_index, write_index)
    BY <2>1, StateFacts DEF empty_internal
  <2>4. (pPc = "copy" => toWrite > 0) /\ (cPc # "idle" => toRead > 0)
    BY StateFacts
  <2> QED  BY <2>2, <2>3, <2>4 DEF NoSpuriousRefusal
<1> QED  BY <1>1, InductiveInvariant, PTL

-----------------------------------------------------------------------------
(* The ring buffer implements a bounded FIFO.  Its queue holds the samples  *)
(* numbered from `consumed` on, so a step of the abstract queue is a fact   *)
(* about runs of consecutive numbers.                                      *)

Numbers(first, n) == [i \in 1 .. n |-> first + i - 1]

LEMMA NumbersIsSeq ==
  ASSUME NEW first \in Int, NEW n \in Nat
  PROVE  /\ Numbers(first, n) \in Seq(Int)
         /\ Len(Numbers(first, n)) = n
         /\ \A i \in 1 .. n : Numbers(first, n)[i] = first + i - 1
BY DEF Numbers

LEMMA NumbersConcat ==
  ASSUME NEW first \in Int, NEW m \in Nat, NEW n \in Nat
  PROVE  Numbers(first, m) \o Numbers(first + m, n) = Numbers(first, m + n)
<1> DEFINE s == Numbers(first, m)
           t == Numbers(first + m, n)
           u == Numbers(first, m + n)
<1>1. /\ s \in Seq(Int) /\ Len(s) = m /\ \A i \in 1 .. m : s[i] = first + i - 1
      /\ t \in Seq(Int) /\ Len(t) = n /\ \A i \in 1 .. n : t[i] = first + m + i - 1
      /\ u \in Seq(Int) /\ Len(u) = m + n
      /\ \A i \in 1 .. m + n : u[i] = first + i - 1
  BY NumbersIsSeq
<1> HIDE DEF s, t, u
<1>2. s \o t \in Seq(Int) /\ Len(s \o t) = m + n
  BY <1>1, ConcatProperties
<1>3. ASSUME NEW i \in 1 .. m + n PROVE (s \o t)[i] = u[i]
  <2>1. (s \o t)[i] = IF i <= m THEN s[i] ELSE t[i - m]
    BY <1>1, ConcatProperties
  <2>2. i <= m => s[i] = first + i - 1
    BY <1>1
  <2>3. i > m => t[i - m] = first + m + (i - m) - 1
    <3> SUFFICES ASSUME i > m PROVE t[i - m] = first + m + (i - m) - 1
      OBVIOUS
    <3>1. i - m \in 1 .. n
      OBVIOUS
    <3> QED  BY <1>1, <3>1
  <2>4. u[i] = first + i - 1
    BY <1>1
  <2> QED  BY <2>1, <2>2, <2>3, <2>4
<1>4. s \o t = u
  BY <1>1, <1>2, <1>3, SeqEqual
<1> QED  BY <1>4 DEF s, t, u

LEMMA NumbersSubSeq ==
  ASSUME NEW first \in Int, NEW n \in Nat, NEW m \in 0 .. n
  PROVE  /\ SubSeq(Numbers(first, n), 1, m) = Numbers(first, m)
         /\ SubSeq(Numbers(first, n), m + 1, n) = Numbers(first + m, n - m)
<1> DEFINE s == Numbers(first, n)
           t == Numbers(first, m)
           u == Numbers(first + m, n - m)
<1>1. /\ s \in Seq(Int) /\ Len(s) = n /\ \A i \in 1 .. n : s[i] = first + i - 1
      /\ t \in Seq(Int) /\ Len(t) = m /\ \A i \in 1 .. m : t[i] = first + i - 1
      /\ u \in Seq(Int) /\ Len(u) = n - m
      /\ \A i \in 1 .. n - m : u[i] = first + m + i - 1
  <2>1. m \in Nat /\ n - m \in Nat /\ first + m \in Int
    OBVIOUS
  <2> QED  BY <2>1, NumbersIsSeq
<1> HIDE DEF s, t, u
<1>2. /\ SubSeq(s, 1, m) \in Seq(Int) /\ Len(SubSeq(s, 1, m)) = m
      /\ \A i \in 1 .. m : SubSeq(s, 1, m)[i] = s[i]
  <2>1. \A i \in 1 .. m : s[i] \in Int
    BY <1>1
  <2> QED  BY <1>1, <2>1, SubSeqProperties
<1>3. /\ SubSeq(s, m + 1, n) \in Seq(Int) /\ Len(SubSeq(s, m + 1, n)) = n - m
      /\ \A i \in 1 .. n - m : SubSeq(s, m + 1, n)[i] = s[m + i]
  <2>1. \A i \in m + 1 .. n : s[i] \in Int
    BY <1>1
  <2> QED  BY <1>1, <2>1, SubSeqProperties
<1>4. SubSeq(s, 1, m) = t
  BY <1>1, <1>2, SeqEqual
<1>5. SubSeq(s, m + 1, n) = u
  BY <1>1, <1>3, SeqEqual
<1> QED  BY <1>4, <1>5 DEF s, t, u

LEMMA QueuedIsNumbers == IInv => Queued = Numbers(consumed, filled)
<1> SUFFICES ASSUME IInv PROVE Queued = Numbers(consumed, filled)
  OBVIOUS
<1>1. filled \in Nat /\ consumed \in Nat
  BY StateFacts DEF IInv, TypeOK
<1>2. ASSUME NEW i \in 1 .. filled
      PROVE  data[CopySlot(read_index, i - 1)] = consumed + i - 1
  <2>1. i - 1 \in 0 .. filled - 1
    BY <1>1
  <2>2. data[CopySlot(read_index, i - 1)] = consumed + (i - 1)
    BY <2>1 DEF IInv, FilledInv, filled
  <2> QED  BY <1>1, <2>2
<1> QED  BY <1>2 DEF Queued, Numbers, filled

LEMMA QueuedIsNumbersNext == (IInv => Queued = Numbers(consumed, filled))'
BY QueuedIsNumbers, PTL

\* A call that has not stored its index yet leaves the abstract queue alone.
LEMMA UnpublishedStutters ==
  ASSUME IInv, IInv', filled' = filled,
         UNCHANGED <<produced, consumed, delivered>>
  PROVE  UNCHANGED Fifo!fifoVars
<1>1. Queued = Numbers(consumed, filled) /\ Queued' = Numbers(consumed', filled')
  BY QueuedIsNumbers, QueuedIsNumbersNext
<1> QED  BY <1>1 DEF Fifo!fifoVars, Numbers

LEMMA EnqueuePublishIsPut ==
  ASSUME IInv, IInv', EnqueuePublish
  PROVE  toWrite \in 1 .. capacity /\ Fifo!Put(toWrite)
<1>1. /\ pWrIdx = write_index /\ toWrite \in 1 .. capacity
      /\ toWrite \in 0 .. available_write_internal(read_index, write_index)
      /\ capacity \in Nat /\ filled \in 0 .. capacity
      /\ filled + toWrite <= capacity
      /\ read_index \in Indices /\ write_index \in Indices
  BY StateFacts DEF EnqueuePublish
<1>2. write_index' = CopySlot(write_index, toWrite)
  BY <1>1, IncrementIsCopySlot DEF EnqueuePublish
<1>3. filled' = filled + toWrite
  BY <1>1, <1>2, AdvanceWrite DEF EnqueuePublish, filled
<1>4. produced = consumed + filled /\ consumed \in Nat /\ consumed' = consumed
  BY DEF IInv, TypeOK, CountInv, filled, EnqueuePublish
<1>5. Queued = Numbers(consumed, filled)
  BY QueuedIsNumbers
<1>6. Queued' = Numbers(consumed, filled + toWrite)
  <2>1. Queued' = Numbers(consumed', filled')
    BY QueuedIsNumbersNext
  <2> QED  BY <1>3, <1>4, <2>1 DEF Numbers
<1>7. Queued' = Queued \o Numbers(produced, toWrite)
  <2>1. consumed \in Int /\ filled \in Nat /\ toWrite \in Nat
    BY <1>1, <1>4
  <2>2. Numbers(consumed, filled) \o Numbers(consumed + filled, toWrite)
          = Numbers(consumed, filled + toWrite)
    BY <2>1, NumbersConcat
  <2> QED  BY <1>4, <1>5, <1>6, <2>2
<1>8. Len(Queued) + toWrite <= capacity
  BY <1>1, <1>4, <1>5, NumbersIsSeq
<1> QED  BY <1>1, <1>7, <1>8 DEF Fifo!Put, EnqueuePublish, Numbers

LEMMA DequeuePublishIsTakeOrDiscard ==
  ASSUME IInv, IInv', DequeuePublish
  PROVE  /\ toRead \in 1 .. Len(Queued)
         /\ Fifo!Take(toRead) \/ Fifo!Discard(toRead)
<1>1. /\ cRdIdx = read_index /\ toRead \in 1 .. filled
      /\ toRead \in 0 .. capacity /\ toRead \in 0 .. filled
      /\ capacity \in Nat /\ filled \in 0 .. capacity
      /\ read_index \in Indices /\ write_index \in Indices
  BY StateFacts DEF DequeuePublish
<1>2. read_index' = CopySlot(read_index, toRead)
  BY <1>1, IncrementIsCopySlot DEF DequeuePublish
<1>3. filled' = filled - toRead
  BY <1>1, <1>2, AdvanceRead DEF DequeuePublish, filled
<1>4. consumed \in Nat /\ consumed' = consumed + toRead
  BY DEF IInv, TypeOK, DequeuePublish
<1>5. Queued = Numbers(consumed, filled) /\ Len(Queued) = filled
  BY <1>1, <1>4, QueuedIsNumbers, NumbersIsSeq
<1>6. Queued' = Numbers(consumed + toRead, filled - toRead)
  <2>1. Queued' = Numbers(consumed', filled')
    BY QueuedIsNumbersNext
  <2> QED  BY <1>3, <1>4, <2>1 DEF Numbers
<1>7. /\ SubSeq(Queued, 1, toRead) = Numbers(consumed, toRead)
       /\ SubSeq(Queued, toRead + 1, Len(Queued))
            = Numbers(consumed + toRead, filled - toRead)
  <2>1. consumed \in Int /\ filled \in Nat /\ toRead \in 0 .. filled
    BY <1>1, <1>4
  <2>2. /\ SubSeq(Numbers(consumed, filled), 1, toRead)
             = Numbers(consumed, toRead)
        /\ SubSeq(Numbers(consumed, filled), toRead + 1, filled)
             = Numbers(consumed + toRead, filled - toRead)
    BY <2>1, NumbersSubSeq
  <2> QED  BY <1>5, <2>2
<1>8. Queued' = SubSeq(Queued, toRead + 1, Len(Queued))
  BY <1>6, <1>7
<1>9. CASE cPc = "copy"
  <2>1. /\ delivered' = elements /\ elements \in Seq(Int)
        /\ Len(elements) = toRead
        /\ \A i \in 1 .. Len(elements) : elements[i] = consumed + i - 1
    BY <1>9 DEF DequeuePublish, IInv, TypeOK, ConsumerInv, CopiedInOrder
  <2>2. elements = Numbers(consumed, toRead)
    <3>1. consumed \in Int /\ toRead \in Nat
      BY <1>1, <1>4
    <3>2. /\ Numbers(consumed, toRead) \in Seq(Int)
          /\ Len(Numbers(consumed, toRead)) = toRead
          /\ \A i \in 1 .. toRead : Numbers(consumed, toRead)[i] = consumed + i - 1
      BY <3>1, NumbersIsSeq
    <3> QED  BY <2>1, <3>2, SeqEqual
  <2>3. delivered' = SubSeq(Queued, 1, toRead)
    BY <1>7, <2>1, <2>2
  <2> QED  BY <1>1, <1>5, <1>8, <2>3 DEF Fifo!Take, DequeuePublish
<1>10. CASE cPc = "discard"
  <2>1. UNCHANGED <<produced, delivered>>
    BY <1>10 DEF DequeuePublish
  <2> QED  BY <1>1, <1>5, <1>8, <2>1 DEF Fifo!Discard
<1> QED  BY <1>9, <1>10 DEF DequeuePublish

LEMMA InitIsFifoInit == Init => Fifo!FifoInit
<1> SUFFICES ASSUME Init PROVE Fifo!FifoInit
  OBVIOUS
<1>1. available_read_internal(read_index, write_index) = 0
  BY DEF Init, available_read_internal
<1>2. Queued = <<>>
  BY <1>1 DEF Queued
<1> QED  BY <1>2 DEF Init, Fifo!FifoInit

LEMMA NextIsFifoNext ==
  ASSUME IInv, IInv', [Next]_vars
  PROVE  [Fifo!FifoNext]_(Fifo!fifoVars)
<1>1. ASSUME NEW n \in Requests, EnqueueLoad(n)
      PROVE  UNCHANGED Fifo!fifoVars
  BY <1>1, UnpublishedStutters DEF EnqueueLoad, filled
<1>2. ASSUME EnqueueCopy  PROVE UNCHANGED Fifo!fifoVars
  BY <1>2, UnpublishedStutters DEF EnqueueCopy, filled
<1>3. ASSUME EnqueuePublish  PROVE Fifo!FifoNext
  BY <1>3, EnqueuePublishIsPut DEF Fifo!FifoNext
<1>4. ASSUME NEW n \in Requests, NEW discard \in BOOLEAN,
             DequeueLoad(n, discard)
      PROVE  UNCHANGED Fifo!fifoVars
  BY <1>4, UnpublishedStutters DEF DequeueLoad, filled
<1>5. ASSUME DequeueCopy  PROVE UNCHANGED Fifo!fifoVars
  BY <1>5, UnpublishedStutters DEF DequeueCopy, filled
<1>6. ASSUME DequeuePublish  PROVE Fifo!FifoNext
  BY <1>6, DequeuePublishIsTakeOrDiscard DEF Fifo!FifoNext
<1>7. ASSUME UNCHANGED vars  PROVE UNCHANGED Fifo!fifoVars
  BY <1>7, UnpublishedStutters DEF vars, filled
<1> QED
  BY <1>1, <1>2, <1>3, <1>4, <1>5, <1>6, <1>7 DEF Next

\* Seen from its two users the ring buffer is a bounded FIFO: enqueue appends
\* its batch and dequeue removes one from the head, each at the instant it
\* stores its index, and no other step of either call is visible.
THEOREM RingBufferIsFifo == Spec => ImplementsFifo
<1>1. Init => Fifo!FifoInit
  BY InitIsFifoInit
<1>2. IInv /\ IInv' /\ [Next]_vars => [Fifo!FifoNext]_(Fifo!fifoVars)
  BY NextIsFifoNext
<1> QED
  BY <1>1, <1>2, InductiveInvariant, PTL DEF Spec, ImplementsFifo, Fifo!Spec
=============================================================================
