---------------------------- MODULE BoundedFifo ----------------------------
(***************************************************************************)
(* What a lock free queue promises its two users: a bounded FIFO.  A call  *)
(* appends a batch at the tail or removes a batch from the head, in one    *)
(* step, whatever the steps of the implementation are.  The producer       *)
(* numbers the items 0, 1, 2, ...                                          *)
(***************************************************************************)
EXTENDS Integers, Sequences

CONSTANT Bound

VARIABLES
  queue,      \* the items in the queue, head first
  next,       \* the number of the next item the producer appends
  received    \* the last batch the consumer received

fifoVars == <<queue, next, received>>

FifoInit == queue = <<>> /\ next = 0 /\ received = <<>>

Put(n) ==
  /\ Len(queue) + n <= Bound
  /\ queue' = queue \o [i \in 1 .. n |-> next + i - 1]
  /\ next' = next + n
  /\ UNCHANGED received

Take(n) ==
  /\ received' = SubSeq(queue, 1, n)
  /\ queue' = SubSeq(queue, n + 1, Len(queue))
  /\ UNCHANGED next

Discard(n) ==
  /\ queue' = SubSeq(queue, n + 1, Len(queue))
  /\ UNCHANGED <<next, received>>

FifoNext ==
  \/ \E n \in 1 .. Bound : Put(n)
  \/ \E n \in 1 .. Len(queue) : Take(n) \/ Discard(n)

Spec == FifoInit /\ [][FifoNext]_fifoVars
=============================================================================
