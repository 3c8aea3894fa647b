------------------------- MODULE AsyncLoggerProofs -------------------------
(***************************************************************************)
(* No queue of the logger is used by two at once, or after it is deleted,  *)
(* for any number of threads, queues, messages and calls.                  *)
(*                                                                         *)
(* The argument: a queue that may be used is in one place, msg_queue, a    *)
(* thread inside push(), or the client in stop(); each exchange moves it   *)
(* from one to another.  The logging thread's queue is deleted only while  *)
(* there is no logging thread, which the client's program counter tells.   *)
(***************************************************************************)
EXTENDS AsyncLogger, TLAPS

ClientPcs ==
  {"idle", "setCallback", "newQueue", "setConsumer", "clearFlag", "run",
   "setNoop", "setFlag", "join", "loadQueue", "grab", "delete", "clearConsumer"}
PushPcs == {"idle", "syncLoad", "syncCall", "pushLoad", "grab", "enqueue",
            "giveBack"}
ThreadPcs == {"none", "test", "load", "dequeue", "print", "call", "exited"}

\* The part of the type invariant that the argument needs.
PointerTypes ==
  /\ msg_queue \in Pointers /\ msg_queue_consumer \in Pointers
  /\ live \subseteq Queues
  /\ cPc \in ClientPcs /\ cQueue \in Pointers
  /\ logging_thread \in ThreadPcs /\ lQueue \in Pointers
  /\ pc \in [Threads -> PushPcs] /\ owned \in [Threads -> Pointers]

\* Where the queues are.
OwnershipInv ==
  /\ msg_queue # Null => msg_queue \in live
  /\ QueueHeldOnce
  /\ \A t \in Threads : pc[t] = "grab" => owned[t] # Null
  /\ cPc = "delete" /\ cQueue # Null => cQueue \in live /\ cQueue # msg_queue

\* When there is a logging thread, and that its queue is there.
ThreadInv ==
  /\ NoThreadOnceDisabled
  /\ cPc \in {"setCallback", "newQueue", "setConsumer", "clearFlag", "run",
              "loadQueue", "grab", "delete", "clearConsumer"}
       => logging_thread = "none"
  /\ cPc \in {"newQueue", "setConsumer", "clearFlag", "run"}
       => cubeb_log_get_callback
  /\ cPc \in {"setConsumer", "clearFlag", "run"} => cQueue \in live
  /\ cPc \in {"clearFlag", "run"} => msg_queue_consumer = cQueue
  /\ logging_thread # "none" => msg_queue_consumer \in live
  /\ logging_thread \in {"dequeue", "print", "call"} => lQueue \in live

IInv == PointerTypes /\ OwnershipInv /\ ThreadInv

USE DEF Pointers, ClientPcs, PushPcs, ThreadPcs

-----------------------------------------------------------------------------
LEMMA InitInv == Init => IInv
<1> SUFFICES ASSUME Init PROVE IInv
  OBVIOUS
<1> USE AsyncLoggerAssumption DEF Init
<1>1. PointerTypes
  BY DEF PointerTypes
<1>2. OwnershipInv
  BY DEF OwnershipInv, QueueHeldOnce, Owns
<1>3. ThreadInv
  BY DEF ThreadInv, NoThreadOnceDisabled
<1>4. QED
  BY <1>1, <1>2, <1>3 DEF IInv

LEMMA ClientStep == IInv /\ ClientNext => IInv'
<1> SUFFICES ASSUME IInv, ClientNext PROVE IInv'
  OBVIOUS
<1> USE AsyncLoggerAssumption DEF IInv, settings, heap, client, logger, pushers
<1>1. ASSUME NEW level \in {"normal", "verbose"}, SetOn(level) PROVE IInv'
  <2>1. PointerTypes'
    BY <1>1 DEF SetOn, PointerTypes
  <2>2. OwnershipInv'
    BY <1>1 DEF SetOn, PointerTypes, OwnershipInv, QueueHeldOnce, Owns
  <2>3. ThreadInv'
    BY <1>1 DEF SetOn, PointerTypes, ThreadInv, NoThreadOnceDisabled, cubeb_log_get_callback
  <2>4. QED
    BY <2>1, <2>2, <2>3
<1>2. CASE SetCallback
  <2>1. PointerTypes'
    BY <1>2 DEF SetCallback, PointerTypes
  <2>2. OwnershipInv'
    BY <1>2 DEF SetCallback, PointerTypes, OwnershipInv, QueueHeldOnce, Owns
  <2>3. ThreadInv'
    BY <1>2 DEF SetCallback, PointerTypes, ThreadInv, NoThreadOnceDisabled, cubeb_log_get_callback
  <2>4. QED
    BY <2>1, <2>2, <2>3 DEF IInv
<1>3. CASE SetDisabledWithCallback
  <2>1. PointerTypes'
    BY <1>3 DEF SetDisabledWithCallback, PointerTypes
  <2>2. OwnershipInv'
    BY <1>3 DEF SetDisabledWithCallback, PointerTypes, OwnershipInv, QueueHeldOnce, Owns
  <2>3. ThreadInv'
    BY <1>3 DEF SetDisabledWithCallback, PointerTypes, ThreadInv, NoThreadOnceDisabled, cubeb_log_get_callback
  <2>4. QED
    BY <2>1, <2>2, <2>3 DEF IInv
<1>4. CASE StartNewQueue
  <2>1. PointerTypes'
    BY <1>4 DEF StartNewQueue, PointerTypes
  <2>2. OwnershipInv'
    BY <1>4 DEF StartNewQueue, PointerTypes, OwnershipInv, QueueHeldOnce, Owns
  <2>3. ThreadInv'
    BY <1>4 DEF StartNewQueue, PointerTypes, ThreadInv, NoThreadOnceDisabled, cubeb_log_get_callback
  <2>4. QED
    BY <2>1, <2>2, <2>3 DEF IInv
<1>5. CASE StartSetConsumer
  <2>1. PointerTypes'
    BY <1>5 DEF StartSetConsumer, PointerTypes
  <2>2. OwnershipInv'
    BY <1>5 DEF StartSetConsumer, PointerTypes, OwnershipInv, QueueHeldOnce, Owns
  <2>3. ThreadInv'
    BY <1>5 DEF StartSetConsumer, PointerTypes, ThreadInv, NoThreadOnceDisabled, cubeb_log_get_callback
  <2>4. QED
    BY <2>1, <2>2, <2>3 DEF IInv
<1>6. CASE StartClearFlag
  <2>1. PointerTypes'
    BY <1>6 DEF StartClearFlag, PointerTypes
  <2>2. OwnershipInv'
    BY <1>6 DEF StartClearFlag, PointerTypes, OwnershipInv, QueueHeldOnce, Owns
  <2>3. ThreadInv'
    BY <1>6 DEF StartClearFlag, PointerTypes, ThreadInv, NoThreadOnceDisabled, cubeb_log_get_callback
  <2>4. QED
    BY <2>1, <2>2, <2>3 DEF IInv
<1>7. CASE StartThread
  <2>1. PointerTypes'
    BY <1>7 DEF StartThread, PointerTypes
  <2>2. OwnershipInv'
    BY <1>7 DEF StartThread, PointerTypes, OwnershipInv, QueueHeldOnce, Owns
  <2>3. ThreadInv'
    BY <1>7 DEF StartThread, PointerTypes, ThreadInv, NoThreadOnceDisabled, cubeb_log_get_callback
  <2>4. QED
    BY <2>1, <2>2, <2>3 DEF IInv
<1>8. CASE SetOff
  <2>1. PointerTypes'
    BY <1>8 DEF SetOff, PointerTypes
  <2>2. OwnershipInv'
    BY <1>8 DEF SetOff, PointerTypes, OwnershipInv, QueueHeldOnce, Owns
  <2>3. ThreadInv'
    BY <1>8 DEF SetOff, PointerTypes, ThreadInv, NoThreadOnceDisabled, cubeb_log_get_callback
  <2>4. QED
    BY <2>1, <2>2, <2>3 DEF IInv
<1>9. CASE SetNoop
  <2>1. PointerTypes'
    BY <1>9 DEF SetNoop, PointerTypes
  <2>2. OwnershipInv'
    BY <1>9 DEF SetNoop, PointerTypes, OwnershipInv, QueueHeldOnce, Owns
  <2>3. ThreadInv'
    BY <1>9 DEF SetNoop, PointerTypes, ThreadInv, NoThreadOnceDisabled, cubeb_log_get_callback
  <2>4. QED
    BY <2>1, <2>2, <2>3 DEF IInv
<1>10. CASE StopSetFlag
  <2>1. PointerTypes'
    BY <1>10 DEF StopSetFlag, PointerTypes
  <2>2. OwnershipInv'
    BY <1>10 DEF StopSetFlag, PointerTypes, OwnershipInv, QueueHeldOnce, Owns
  <2>3. ThreadInv'
    BY <1>10 DEF StopSetFlag, PointerTypes, ThreadInv, NoThreadOnceDisabled, cubeb_log_get_callback
  <2>4. QED
    BY <2>1, <2>2, <2>3 DEF IInv
<1>11. CASE StopJoin
  <2>1. PointerTypes'
    BY <1>11 DEF StopJoin, PointerTypes
  <2>2. OwnershipInv'
    BY <1>11 DEF StopJoin, PointerTypes, OwnershipInv, QueueHeldOnce, Owns
  <2>3. ThreadInv'
    BY <1>11 DEF StopJoin, PointerTypes, ThreadInv, NoThreadOnceDisabled, cubeb_log_get_callback
  <2>4. QED
    BY <2>1, <2>2, <2>3 DEF IInv
<1>12. CASE StopLoadQueue
  <2>1. PointerTypes'
    BY <1>12 DEF StopLoadQueue, PointerTypes
  <2>2. OwnershipInv'
    BY <1>12 DEF StopLoadQueue, PointerTypes, OwnershipInv, QueueHeldOnce, Owns
  <2>3. ThreadInv'
    BY <1>12 DEF StopLoadQueue, PointerTypes, ThreadInv, NoThreadOnceDisabled, cubeb_log_get_callback
  <2>4. QED
    BY <2>1, <2>2, <2>3 DEF IInv
<1>13. CASE StopGrab
  <2>1. PointerTypes'
    BY <1>13 DEF StopGrab, PointerTypes
  <2>2. OwnershipInv'
    BY <1>13 DEF StopGrab, PointerTypes, OwnershipInv, QueueHeldOnce, Owns
  <2>3. ThreadInv'
    BY <1>13 DEF StopGrab, PointerTypes, ThreadInv, NoThreadOnceDisabled, cubeb_log_get_callback
  <2>4. QED
    BY <2>1, <2>2, <2>3 DEF IInv
<1>14. CASE StopDelete
  <2>1. PointerTypes'
    BY <1>14 DEF StopDelete, PointerTypes
  <2>2. OwnershipInv'
    BY <1>14 DEF StopDelete, PointerTypes, OwnershipInv, QueueHeldOnce, Owns
  <2>3. ThreadInv'
    BY <1>14 DEF StopDelete, PointerTypes, ThreadInv, NoThreadOnceDisabled, cubeb_log_get_callback
  <2>4. QED
    BY <2>1, <2>2, <2>3 DEF IInv
<1>15. CASE StopClearConsumer
  <2>1. PointerTypes'
    BY <1>15 DEF StopClearConsumer, PointerTypes
  <2>2. OwnershipInv'
    BY <1>15 DEF StopClearConsumer, PointerTypes, OwnershipInv, QueueHeldOnce, Owns
  <2>3. ThreadInv'
    BY <1>15 DEF StopClearConsumer, PointerTypes, ThreadInv, NoThreadOnceDisabled, cubeb_log_get_callback
  <2>4. QED
    BY <2>1, <2>2, <2>3 DEF IInv
<1>16. QED
  BY <1>1, <1>2, <1>3, <1>4, <1>5, <1>6, <1>7, <1>8, <1>9, <1>10, <1>11, <1>12, <1>13, <1>14, <1>15 DEF ClientNext

LEMMA LoggingThreadStep == IInv /\ LoggingThreadNext => IInv'
<1> SUFFICES ASSUME IInv, LoggingThreadNext PROVE IInv'
  OBVIOUS
<1> USE AsyncLoggerAssumption DEF IInv, settings, heap, client, logger, pushers
<1>1. CASE ThreadTest
  <2>1. PointerTypes'
    BY <1>1 DEF ThreadTest, PointerTypes
  <2>2. OwnershipInv'
    BY <1>1 DEF ThreadTest, PointerTypes, OwnershipInv, QueueHeldOnce, Owns
  <2>3. ThreadInv'
    BY <1>1 DEF ThreadTest, PointerTypes, ThreadInv, NoThreadOnceDisabled, cubeb_log_get_callback
  <2>4. QED
    BY <2>1, <2>2, <2>3 DEF IInv
<1>2. CASE ThreadLoad
  <2>1. PointerTypes'
    BY <1>2 DEF ThreadLoad, PointerTypes
  <2>2. OwnershipInv'
    BY <1>2 DEF ThreadLoad, PointerTypes, OwnershipInv, QueueHeldOnce, Owns
  <2>3. ThreadInv'
    BY <1>2 DEF ThreadLoad, PointerTypes, ThreadInv, NoThreadOnceDisabled, cubeb_log_get_callback
  <2>4. QED
    BY <2>1, <2>2, <2>3 DEF IInv
<1>3. CASE ThreadDequeue
  <2>1. PointerTypes'
    BY <1>3 DEF ThreadDequeue, PointerTypes
  <2>2. OwnershipInv'
    BY <1>3 DEF ThreadDequeue, PointerTypes, OwnershipInv, QueueHeldOnce, Owns
  <2>3. ThreadInv'
    BY <1>3 DEF ThreadDequeue, PointerTypes, ThreadInv, NoThreadOnceDisabled, cubeb_log_get_callback
  <2>4. QED
    BY <2>1, <2>2, <2>3 DEF IInv
<1>4. CASE ThreadPrint
  <2>1. PointerTypes'
    BY <1>4 DEF ThreadPrint, PointerTypes
  <2>2. OwnershipInv'
    BY <1>4 DEF ThreadPrint, PointerTypes, OwnershipInv, QueueHeldOnce, Owns
  <2>3. ThreadInv'
    BY <1>4 DEF ThreadPrint, PointerTypes, ThreadInv, NoThreadOnceDisabled, cubeb_log_get_callback
  <2>4. QED
    BY <2>1, <2>2, <2>3 DEF IInv
<1>5. CASE ThreadCall
  <2>1. PointerTypes'
    BY <1>5 DEF ThreadCall, PointerTypes
  <2>2. OwnershipInv'
    BY <1>5 DEF ThreadCall, PointerTypes, OwnershipInv, QueueHeldOnce, Owns
  <2>3. ThreadInv'
    BY <1>5 DEF ThreadCall, PointerTypes, ThreadInv, NoThreadOnceDisabled, cubeb_log_get_callback
  <2>4. QED
    BY <2>1, <2>2, <2>3 DEF IInv
<1>6. QED
  BY <1>1, <1>2, <1>3, <1>4, <1>5 DEF LoggingThreadNext

LEMMA LogStep == ASSUME NEW t \in Threads PROVE IInv /\ LogNext(t) => IInv'
<1> SUFFICES ASSUME IInv, LogNext(t) PROVE IInv'
  OBVIOUS
<1> USE AsyncLoggerAssumption DEF IInv, settings, heap, client, logger, pushers
<1>1. CASE Log(t)
  <2>1. PointerTypes'
    BY <1>1 DEF Log, PointerTypes
  <2>2. OwnershipInv'
    BY <1>1 DEF Log, PointerTypes, OwnershipInv, QueueHeldOnce, Owns
  <2>3. ThreadInv'
    BY <1>1 DEF Log, PointerTypes, ThreadInv, NoThreadOnceDisabled, cubeb_log_get_callback
  <2>4. QED
    BY <2>1, <2>2, <2>3 DEF IInv
<1>2. CASE LogLoad(t)
  <2>1. PointerTypes'
    BY <1>2 DEF LogLoad, PointerTypes
  <2>2. OwnershipInv'
    BY <1>2 DEF LogLoad, PointerTypes, OwnershipInv, QueueHeldOnce, Owns
  <2>3. ThreadInv'
    BY <1>2 DEF LogLoad, PointerTypes, ThreadInv, NoThreadOnceDisabled, cubeb_log_get_callback
  <2>4. QED
    BY <2>1, <2>2, <2>3 DEF IInv
<1>3. CASE LogCall(t)
  <2>1. PointerTypes'
    BY <1>3 DEF LogCall, PointerTypes
  <2>2. OwnershipInv'
    BY <1>3 DEF LogCall, PointerTypes, OwnershipInv, QueueHeldOnce, Owns
  <2>3. ThreadInv'
    BY <1>3 DEF LogCall, PointerTypes, ThreadInv, NoThreadOnceDisabled, cubeb_log_get_callback
  <2>4. QED
    BY <2>1, <2>2, <2>3 DEF IInv
<1>4. CASE PushLoad(t)
  <2>1. PointerTypes'
    BY <1>4 DEF PushLoad, PointerTypes
  <2>2. OwnershipInv'
    BY <1>4 DEF PushLoad, PointerTypes, OwnershipInv, QueueHeldOnce, Owns
  <2>3. ThreadInv'
    BY <1>4 DEF PushLoad, PointerTypes, ThreadInv, NoThreadOnceDisabled, cubeb_log_get_callback
  <2>4. QED
    BY <2>1, <2>2, <2>3 DEF IInv
<1>5. CASE PushGrab(t)
  <2>1. PointerTypes'
    BY <1>5 DEF PushGrab, PointerTypes
  <2>2. OwnershipInv'
    BY <1>5 DEF PushGrab, PointerTypes, OwnershipInv, QueueHeldOnce, Owns
  <2>3. ThreadInv'
    BY <1>5 DEF PushGrab, PointerTypes, ThreadInv, NoThreadOnceDisabled, cubeb_log_get_callback
  <2>4. QED
    BY <2>1, <2>2, <2>3 DEF IInv
<1>6. CASE PushEnqueue(t)
  <2>1. PointerTypes'
    BY <1>6 DEF PushEnqueue, PointerTypes
  <2>2. OwnershipInv'
    BY <1>6 DEF PushEnqueue, PointerTypes, OwnershipInv, QueueHeldOnce, Owns
  <2>3. ThreadInv'
    BY <1>6 DEF PushEnqueue, PointerTypes, ThreadInv, NoThreadOnceDisabled, cubeb_log_get_callback
  <2>4. QED
    BY <2>1, <2>2, <2>3 DEF IInv
<1>7. CASE PushGiveBack(t)
  <2>1. PointerTypes'
    BY <1>7 DEF PushGiveBack, PointerTypes
  <2>2. OwnershipInv'
    BY <1>7 DEF PushGiveBack, PointerTypes, OwnershipInv, QueueHeldOnce, Owns
  <2>3. ThreadInv'
    BY <1>7 DEF PushGiveBack, PointerTypes, ThreadInv, NoThreadOnceDisabled, cubeb_log_get_callback
  <2>4. QED
    BY <2>1, <2>2, <2>3 DEF IInv
<1>8. QED
  BY <1>1, <1>2, <1>3, <1>4, <1>5, <1>6, <1>7 DEF LogNext

\* The invariant behind the theorems below.
THEOREM Invariant == Spec => []IInv
<1>1. Init => IInv
  BY InitInv
<1>2. IInv /\ [Next]_vars => IInv'
  <2> SUFFICES ASSUME IInv, [Next]_vars PROVE IInv'
    OBVIOUS
  <2>1. CASE Next
    BY <2>1, ClientStep, LoggingThreadStep, LogStep DEF Next
  <2>2. CASE UNCHANGED vars
    BY <2>2 DEF vars, settings, heap, client, logger, pushers, IInv,
       PointerTypes, OwnershipInv, QueueHeldOnce, Owns, ThreadInv,
       NoThreadOnceDisabled, cubeb_log_get_callback
  <2>3. QED
    BY <2>1, <2>2
<1>3. QED
  BY <1>1, <1>2, PTL DEF Spec

\* push() and stop() hand the queue over: it is never held by two, nor enqueued
\* into after it was deleted.
THEOREM HeldOnce == Spec => []QueueHeldOnce
<1>1. IInv => QueueHeldOnce
  BY DEF IInv, OwnershipInv
<1>2. QED
  BY <1>1, Invariant, PTL

\* run() dequeues from a queue that exists, across stops and starts.
THEOREM ThreadQueueLive == Spec => []LoggingThreadQueueLive
<1>1. IInv => LoggingThreadQueueLive
  BY DEF IInv, ThreadInv, LoggingThreadQueueLive, PointerTypes
<1>2. QED
  BY <1>1, Invariant, PTL

\* Once cubeb_set_log_callback has disabled logging, no logging thread is left.
THEOREM DisabledMeansJoined == Spec => []NoThreadOnceDisabled
<1>1. IInv => NoThreadOnceDisabled
  BY DEF IInv, ThreadInv
<1>2. QED
  BY <1>1, Invariant, PTL

-----------------------------------------------------------------------------
(* The order of the messages.  A queue is emptied when it is allocated, so  *)
(* whatever address the next start() gets, its messages are later than all  *)
(* those the last logging thread printed; and a logging thread prints from  *)
(* one queue only.  A queue lost to a push() in progress may still receive  *)
(* messages: they are never printed.                                       *)

Increasing(s) == \A i, j \in 1 .. Len(s) : i < j => s[i] < s[j]
Below(s, n) == \A i \in 1 .. Len(s) : s[i] < n
Above(s, n) == \A i \in 1 .. Len(s) : n < s[i]
Before(s, t) == \A i \in 1 .. Len(s), j \in 1 .. Len(t) : s[i] < t[j]

\* The queue the logging thread reads, or will read once it is started.
Current(q) ==
  \/ logging_thread # "none" /\ q = msg_queue_consumer
  \/ cPc \in {"setConsumer", "clearFlag", "run"} /\ q = cQueue

OrderInv ==
  /\ enqueued \in Nat /\ lMsg \in Nat
  /\ msgs \in [Queues -> Seq(Nat)] /\ printed \in Seq(Nat)
  /\ \A q \in Queues : Increasing(msgs[q]) /\ Below(msgs[q], enqueued + 1)
  /\ Increasing(printed) /\ Below(printed, enqueued + 1)
  /\ \A q \in Queues : Current(q) => Before(printed, msgs[q])
  /\ logging_thread \in {"dequeue", "print", "call"}
       => lQueue = msg_queue_consumer
  /\ logging_thread \in {"print", "call"} =>
       lMsg <= enqueued /\ Below(printed, lMsg) /\ Above(msgs[lQueue], lMsg)

LEMMA IncreasingAppend ==
  ASSUME NEW s \in Seq(Nat), NEW n \in Nat, Increasing(s), Below(s, n)
  PROVE  /\ Append(s, n) \in Seq(Nat)
         /\ Increasing(Append(s, n)) /\ Below(Append(s, n), n + 1)
BY DEF Increasing, Below

LEMMA IncreasingTail ==
  ASSUME NEW s \in Seq(Nat), s # <<>>, Increasing(s)
  PROVE  /\ Head(s) \in Nat /\ Tail(s) \in Seq(Nat)
         /\ Increasing(Tail(s)) /\ Above(Tail(s), Head(s))
         /\ \A n \in Nat : Below(s, n) => Head(s) < n /\ Below(Tail(s), n)
         /\ \A t \in Seq(Nat) : Before(t, s) => Below(t, Head(s))
BY DEF Increasing, Below, Above, Before

LEMMA BelowMore ==
  ASSUME NEW s \in Seq(Nat), NEW n \in Nat, NEW m \in Nat, Below(s, n), n <= m
  PROVE  Below(s, m)
<1> SUFFICES ASSUME NEW i \in 1 .. Len(s) PROVE s[i] < m
  BY DEF Below
<1>1. s[i] \in Nat /\ s[i] < n
  BY DEF Below
<1> QED  BY <1>1

LEMMA BelowAboveBefore ==
  ASSUME NEW s \in Seq(Nat), NEW t \in Seq(Nat), NEW n \in Nat,
         Below(s, n), Above(t, n)
  PROVE  Before(s, t)
<1> SUFFICES ASSUME NEW i \in 1 .. Len(s), NEW j \in 1 .. Len(t)
             PROVE  s[i] < t[j]
  BY DEF Before
<1>1. s[i] \in Nat /\ t[j] \in Nat /\ s[i] < n /\ n < t[j]
  BY DEF Below, Above
<1> QED  BY <1>1

\* A message printed is above the printed ones, one queued above the queued.
LEMMA BeforeAppend ==
  ASSUME NEW s \in Seq(Nat), NEW t \in Seq(Nat), NEW n \in Nat, Before(s, t)
  PROVE  /\ Below(s, n) => Before(s, Append(t, n))
         /\ Above(t, n) => Before(Append(s, n), t)
<1>1. \A r \in Seq(Nat) :
        /\ Len(Append(r, n)) = Len(r) + 1 /\ Len(r) \in Nat
        /\ Append(r, n)[Len(r) + 1] = n
        /\ \A i \in 1 .. Len(r) : Append(r, n)[i] = r[i]
  OBVIOUS
<1>2. ASSUME Below(s, n) PROVE Before(s, Append(t, n))
  <2> SUFFICES ASSUME NEW i \in 1 .. Len(s), NEW j \in 1 .. Len(t) + 1
               PROVE  s[i] < Append(t, n)[j]
    BY <1>1 DEF Before
  <2>1. CASE j = Len(t) + 1
    BY <1>1, <1>2, <2>1 DEF Below
  <2>2. CASE j \in 1 .. Len(t)
    BY <1>1, <2>2 DEF Before
  <2> QED  BY <1>1, <2>1, <2>2
<1>3. ASSUME Above(t, n) PROVE Before(Append(s, n), t)
  <2> SUFFICES ASSUME NEW i \in 1 .. Len(s) + 1, NEW j \in 1 .. Len(t)
               PROVE  Append(s, n)[i] < t[j]
    BY <1>1 DEF Before
  <2>1. CASE i = Len(s) + 1
    BY <1>1, <1>3, <2>1 DEF Above
  <2>2. CASE i \in 1 .. Len(s)
    BY <1>1, <2>2 DEF Before
  <2> QED  BY <1>1, <2>1, <2>2
<1> QED  BY <1>2, <1>3

LEMMA AboveAppend ==
  ASSUME NEW s \in Seq(Nat), NEW n \in Nat, NEW m \in Nat, Above(s, m), m < n
  PROVE  Above(Append(s, n), m)
BY DEF Above

LEMMA InitOrder == Init => OrderInv
BY DEF Init, OrderInv, Increasing, Below, Current

\* Most steps touch no message, and no queue becomes the current one.
LEMMA OrderKept ==
  ASSUME OrderInv, UNCHANGED <<enqueued, lMsg, msgs, printed>>,
         \A q \in Queues : Current(q)' => Current(q),
         logging_thread' \in {"dequeue", "print", "call"} =>
           lQueue' = msg_queue_consumer',
         logging_thread' \in {"print", "call"} =>
           logging_thread \in {"print", "call"} /\ lQueue' = lQueue
  PROVE  OrderInv'
BY DEF OrderInv

LEMMA ClientOrder ==
  ASSUME IInv, OrderInv, ClientNext
  PROVE  OrderInv'
<1> USE DEF settings, heap, client, logger, pushers, IInv
<1>1. ASSUME NEW level \in {"normal", "verbose"}, SetOn(level) PROVE OrderInv'
  BY <1>1, OrderKept DEF SetOn, Current, OrderInv
<1>2. CASE SetCallback
  BY <1>2, OrderKept DEF SetCallback, Current, OrderInv, ThreadInv
<1>3. CASE SetDisabledWithCallback
  BY <1>3, OrderKept DEF SetDisabledWithCallback, Current, OrderInv, ThreadInv
<1>4. CASE StartSetConsumer
  BY <1>4, OrderKept DEF StartSetConsumer, Current, OrderInv, ThreadInv
<1>5. CASE StartClearFlag
  BY <1>5, OrderKept DEF StartClearFlag, Current, OrderInv, ThreadInv
<1>6. CASE StartThread
  BY <1>6, OrderKept DEF StartThread, Current, OrderInv, ThreadInv
<1>7. CASE SetNoop
  BY <1>7, OrderKept DEF SetNoop, Current, OrderInv, ThreadInv
<1>8. CASE StopSetFlag
  BY <1>8, OrderKept DEF StopSetFlag, Current, OrderInv, ThreadInv
<1>9. CASE StopJoin
  BY <1>9, OrderKept DEF StopJoin, Current, OrderInv, ThreadInv
<1>10. CASE StopLoadQueue
  BY <1>10, OrderKept DEF StopLoadQueue, Current, OrderInv, ThreadInv
<1>11. CASE StopGrab
  BY <1>11, OrderKept DEF StopGrab, Current, OrderInv, ThreadInv
<1>12. CASE StopDelete
  BY <1>12, OrderKept DEF StopDelete, Current, OrderInv, ThreadInv
<1>13. CASE StopClearConsumer
  BY <1>13, OrderKept DEF StopClearConsumer, Current, OrderInv, ThreadInv
<1>14. CASE StartNewQueue
  <2>1. PICK q \in Queues \ live :
          msgs' = [msgs EXCEPT ![q] = <<>>] /\ cQueue' = q
    BY <1>14 DEF StartNewQueue
  <2>2. /\ cPc' = "setConsumer" /\ logging_thread = "none"
        /\ UNCHANGED <<logging_thread, enqueued, lMsg, printed>>
    BY <1>14 DEF StartNewQueue, ThreadInv
  <2>3. msgs' \in [Queues -> Seq(Nat)] /\ msgs'[q] = <<>>
    BY <2>1 DEF OrderInv
  <2>4. \A r \in Queues :
          Increasing(msgs'[r]) /\ Below(msgs'[r], enqueued + 1)
    BY <2>1, <2>3 DEF OrderInv, Increasing, Below
  <2>5. \A r \in Queues : Current(r)' => Before(printed, msgs'[r])
    BY <2>1, <2>2, <2>3 DEF Current, Before
  <2> QED  BY <2>2, <2>3, <2>4, <2>5 DEF OrderInv
<1>15. CASE SetOff
  BY <1>15, OrderKept DEF SetOff, Current, OrderInv
<1> QED
  BY <1>1, <1>2, <1>3, <1>4, <1>5, <1>6, <1>7, <1>8, <1>9, <1>10, <1>11, <1>12, <1>13, <1>14, <1>15
  DEF ClientNext

LEMMA LoggingThreadOrder ==
  ASSUME IInv, OrderInv, LoggingThreadNext
  PROVE  OrderInv'
<1> USE DEF settings, heap, client, logger, pushers, IInv
<1>1. CASE ThreadTest
  BY <1>1, OrderKept DEF ThreadTest, Current, OrderInv
<1>2. CASE ThreadLoad
  BY <1>2, OrderKept DEF ThreadLoad, Current, OrderInv
<1>3. CASE ThreadDequeue
  <2>1. /\ lQueue = msg_queue_consumer /\ lQueue \in Queues
        /\ UNCHANGED <<enqueued, printed, lQueue, msg_queue_consumer, cPc, cQueue>>
        /\ Before(printed, msgs[lQueue])
    BY <1>3 DEF ThreadDequeue, OrderInv, ThreadInv, PointerTypes, Current
  <2>2. CASE msgs[lQueue] = <<>>
    BY <1>3, <2>2, OrderKept DEF ThreadDequeue, Current, OrderInv
  <2>3. CASE msgs[lQueue] # <<>>
    <3> DEFINE s == msgs[lQueue]
    <3>1. /\ lMsg' = Head(s) /\ msgs' = [msgs EXCEPT ![lQueue] = Tail(s)]
          /\ logging_thread' = "print"
      BY <1>3, <2>3 DEF ThreadDequeue
    <3>2. s \in Seq(Nat) /\ Increasing(s) /\ Below(s, enqueued + 1)
          /\ printed \in Seq(Nat) /\ enqueued + 1 \in Nat
      BY <2>1 DEF OrderInv
    <3>3. /\ Head(s) \in Nat /\ Tail(s) \in Seq(Nat) /\ Increasing(Tail(s))
          /\ Above(Tail(s), Head(s))
          /\ Head(s) < enqueued + 1 /\ Below(Tail(s), enqueued + 1)
          /\ Below(printed, Head(s))
      BY <2>1, <2>3, <3>2, IncreasingTail
    <3>4. /\ msgs' \in [Queues -> Seq(Nat)] /\ msgs'[lQueue] = Tail(s)
          /\ \A q \in Queues \ {lQueue} : msgs'[q] = msgs[q]
      BY <2>1, <3>1, <3>3 DEF OrderInv
    <3>5. Before(printed, Tail(s))
      BY <3>2, <3>3, BelowAboveBefore
    <3>6. \A q \in Queues : Current(q)' => Before(printed, msgs'[q])
      BY <1>3, <2>1, <3>4, <3>5 DEF ThreadDequeue, Current, OrderInv
    <3> QED
      BY <2>1, <3>1, <3>3, <3>4, <3>6 DEF OrderInv
  <2> QED  BY <2>2, <2>3
<1>4. CASE ThreadPrint
  BY <1>4, OrderKept DEF ThreadPrint, Current, OrderInv
<1>5. CASE ThreadCall
  <2>1. /\ printed' = Append(printed, lMsg) /\ logging_thread' = "load"
        /\ UNCHANGED <<enqueued, lMsg, msgs, msg_queue_consumer, cPc, cQueue>>
        /\ lQueue = msg_queue_consumer /\ lMsg <= enqueued
        /\ Below(printed, lMsg) /\ Above(msgs[lQueue], lMsg)
        /\ printed \in Seq(Nat) /\ lMsg \in Nat /\ Increasing(printed)
    BY <1>5 DEF ThreadCall, OrderInv
  <2>2. /\ printed' \in Seq(Nat) /\ Increasing(printed')
        /\ Below(printed', lMsg + 1)
    BY <2>1, IncreasingAppend
  <2>3. Below(printed', enqueued + 1)
    <3>1. lMsg + 1 \in Nat /\ enqueued + 1 \in Nat /\ lMsg + 1 <= enqueued + 1
      BY <2>1 DEF OrderInv
    <3> QED  BY <2>2, <3>1, BelowMore
  <2>4. \A q \in Queues : Current(q)' => Before(printed', msgs[q])
    <3>1. lQueue \in Queues /\ msgs[lQueue] \in Seq(Nat)
      BY <1>5 DEF ThreadCall, OrderInv, ThreadInv, PointerTypes
    <3>2. Before(printed, msgs[lQueue])
      BY <1>5, <2>1, <3>1 DEF ThreadCall, OrderInv, Current
    <3>3. Before(printed', msgs[lQueue])
      BY <2>1, <3>1, <3>2, BeforeAppend
    <3> QED  BY <1>5, <2>1, <3>3 DEF ThreadCall, Current, ThreadInv
  <2> QED  BY <2>1, <2>2, <2>3, <2>4 DEF OrderInv
<1> QED
  BY <1>1, <1>2, <1>3, <1>4, <1>5 DEF LoggingThreadNext

LEMMA LogOrder ==
  ASSUME NEW t \in Threads, IInv, OrderInv, LogNext(t)
  PROVE  OrderInv'
<1> USE DEF settings, heap, client, logger, pushers, IInv
<1>1. CASE Log(t)
  BY <1>1, OrderKept DEF Log, Current, OrderInv
<1>2. CASE LogLoad(t)
  BY <1>2, OrderKept DEF LogLoad, Current, OrderInv
<1>3. CASE LogCall(t)
  BY <1>3, OrderKept DEF LogCall, Current, OrderInv
<1>4. CASE PushLoad(t)
  BY <1>4, OrderKept DEF PushLoad, Current, OrderInv
<1>5. CASE PushGrab(t)
  BY <1>5, OrderKept DEF PushGrab, Current, OrderInv
<1>6. CASE PushGiveBack(t)
  BY <1>6, OrderKept DEF PushGiveBack, Current, OrderInv
<1>7. CASE PushEnqueue(t)
  <2> DEFINE q == owned[t]
             s == msgs[q]
  <2>1. /\ q \in Queues
        /\ UNCHANGED <<printed, lMsg, logging_thread, lQueue,
                       msg_queue_consumer, cPc, cQueue>>
    BY <1>7 DEF PushEnqueue, PointerTypes, OwnershipInv, QueueHeldOnce, Owns
  <2>2. CASE ~(Len(s) < Depth)
    BY <1>7, <2>2, OrderKept DEF PushEnqueue, Current, OrderInv
  <2>3. CASE Len(s) < Depth
    <3>1. /\ msgs' = [msgs EXCEPT ![q] = Append(s, enqueued + 1)]
          /\ enqueued' = enqueued + 1
      BY <1>7, <2>3 DEF PushEnqueue
    <3>2. /\ s \in Seq(Nat) /\ enqueued + 1 \in Nat
          /\ Increasing(s) /\ Below(s, enqueued + 1)
      BY <2>1 DEF OrderInv
    <3>3. /\ Append(s, enqueued + 1) \in Seq(Nat)
          /\ Increasing(Append(s, enqueued + 1))
          /\ Below(Append(s, enqueued + 1), enqueued + 1 + 1)
      BY <3>2, IncreasingAppend
    <3>4. /\ msgs' \in [Queues -> Seq(Nat)]
          /\ msgs'[q] = Append(s, enqueued + 1)
          /\ \A r \in Queues \ {q} : msgs'[r] = msgs[r]
      BY <2>1, <3>1, <3>3 DEF OrderInv
    <3>5. \A r \in Queues :
            Increasing(msgs'[r]) /\ Below(msgs'[r], enqueued' + 1)
      <4> SUFFICES ASSUME NEW r \in Queues, r # q
                   PROVE  /\ Increasing(msgs'[r])
                          /\ Below(msgs'[r], enqueued' + 1)
        BY <3>1, <3>3, <3>4
      <4>1. /\ msgs'[r] = msgs[r] /\ msgs[r] \in Seq(Nat) /\ enqueued \in Nat
            /\ Increasing(msgs[r]) /\ Below(msgs[r], enqueued + 1)
        BY <3>4 DEF OrderInv
      <4>2. Below(msgs[r], enqueued + 1 + 1)
        BY <4>1, BelowMore
      <4> QED  BY <3>1, <4>1, <4>2
    <3>6. /\ Increasing(printed') /\ Below(printed', enqueued' + 1)
          /\ Below(printed, enqueued + 1)
      <4>1. /\ printed \in Seq(Nat) /\ enqueued \in Nat
            /\ Increasing(printed) /\ Below(printed, enqueued + 1)
        BY DEF OrderInv
      <4>2. Below(printed, enqueued + 1 + 1)
        BY <4>1, BelowMore
      <4> QED  BY <2>1, <3>1, <4>1, <4>2
    <3>7. \A r \in Queues : Current(r)' => Before(printed', msgs'[r])
      <4> SUFFICES ASSUME NEW r \in Queues, Current(r)
                   PROVE  Before(printed, msgs'[r])
        BY <2>1 DEF Current
      <4>1. Before(printed, msgs[r])
        BY DEF OrderInv
      <4>2. CASE r = q
        <5>1. printed \in Seq(Nat)
          BY DEF OrderInv
        <5> QED  BY <3>2, <3>4, <3>6, <4>1, <4>2, <5>1, BeforeAppend
      <4> QED  BY <3>4, <4>1, <4>2
    <3>8. logging_thread' \in {"print", "call"} => Above(msgs'[lQueue], lMsg)
      <4> SUFFICES ASSUME logging_thread \in {"print", "call"}
                   PROVE  Above(msgs'[lQueue], lMsg)
        BY <2>1
      <4>1. /\ lQueue \in Queues /\ Above(msgs[lQueue], lMsg)
            /\ lMsg < enqueued + 1 /\ lMsg \in Nat
        BY DEF OrderInv, ThreadInv, PointerTypes
      <4>2. CASE lQueue = q
        BY <3>2, <3>4, <4>1, <4>2, AboveAppend
      <4> QED  BY <3>4, <4>1, <4>2
    <3> QED
      BY <2>1, <3>1, <3>2, <3>4, <3>5, <3>6, <3>7, <3>8 DEF OrderInv
  <2> QED  BY <2>2, <2>3
<1> QED
  BY <1>1, <1>2, <1>3, <1>4, <1>5, <1>6, <1>7 DEF LogNext

\* ALOG messages reach the callback in the order push() queued them and none
\* twice, whatever stops and starts of the logger, and whichever thread's
\* push() gives a queue back late.
THEOREM InOrder == Spec => []PrintedInOrder
<1>1. IInv /\ OrderInv /\ [Next]_vars => OrderInv'
  <2> SUFFICES ASSUME IInv, OrderInv, [Next]_vars PROVE OrderInv'
    OBVIOUS
  <2>1. CASE Next
    BY <2>1, ClientOrder, LoggingThreadOrder, LogOrder DEF Next
  <2>2. CASE UNCHANGED vars
    BY <2>2, OrderKept
    DEF vars, settings, heap, client, logger, pushers, OrderInv, Current
  <2> QED  BY <2>1, <2>2
<1>2. OrderInv => PrintedInOrder
  BY DEF OrderInv, Increasing, PrintedInOrder
<1> QED  BY <1>1, <1>2, InitOrder, Invariant, PTL DEF Spec
=============================================================================
