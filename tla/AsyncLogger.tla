---------------------------- MODULE AsyncLogger ----------------------------
(***************************************************************************)
(* The logger (src/src/cubeb_log.cpp): cubeb_log_set, the synchronous LOG  *)
(* and the asynchronous ALOG, whose messages go through a lock free queue  *)
(* to a logging thread.                                                    *)
(*                                                                         *)
(* Actors: the client calling cubeb_set_log_callback, the threads that     *)
(* log, and the logging thread.  Each step is one access to shared state.  *)
(* The queue is a bounded FIFO, which is what RingBuffer is shown to       *)
(* implement; its address may be reused once it is deleted.  A message is  *)
(* the number of the successful enqueue that queued it.  The build is one  *)
(* without assertions: the thread ids that cubeb_async_log_reset_threads   *)
(* resets are not there.                                                   *)
(***************************************************************************)
EXTENDS Naturals, Sequences, FiniteSets, SequencesExt

CONSTANTS
  Threads,       \* the threads that log
  Queues,        \* addresses a queue may be allocated at
  Null,          \* the null pointer, in none of the sets above
  Depth,         \* CUBEB_LOG_MESSAGE_QUEUE_DEPTH
  MaxLogs,       \* bound: messages logged
  MaxSets        \* bound: calls of cubeb_set_log_callback

ASSUME AsyncLoggerAssumption ==
  /\ Null \notin Threads \cup Queues
  /\ Depth \in Nat \ {0}
  /\ MaxLogs \in Nat /\ MaxSets \in Nat

VARIABLES
  g_cubeb_log_level, g_cubeb_log_callback,
  msg_queue, msg_queue_consumer, shutdown_thread,
  live, msgs,          \* the allocated queues, the messages in each
  cPc, cQueue,         \* the client: program counter, local queue pointer
  logging_thread,      \* "none", or the program counter of the logging thread
  lQueue, lMsg,        \* its locals: the queue loaded, the message to print
  pc, owned,           \* per logging thread: program counter, owned_queue
  logs, enqueued,      \* messages logged, messages queued so far
  printed,             \* the messages given to the callback
  sets

settings == <<g_cubeb_log_level, g_cubeb_log_callback>>
heap == <<live, msgs>>
client == <<cPc, cQueue, sets>>
logger == <<logging_thread, lQueue, lMsg, printed>>
pushers == <<pc, owned, logs, enqueued>>
vars == <<settings, msg_queue, msg_queue_consumer, shutdown_thread, heap,
          client, logger, pushers>>

Init ==
  /\ g_cubeb_log_level = "disabled" /\ g_cubeb_log_callback = "null"
  /\ msg_queue = Null /\ msg_queue_consumer = Null /\ shutdown_thread = FALSE
  /\ live = {} /\ msgs = [q \in Queues |-> <<>>]
  /\ cPc = "idle" /\ cQueue = Null /\ sets = 0
  /\ logging_thread = "none" /\ lQueue = Null /\ lMsg = 0 /\ printed = <<>>
  /\ pc = [t \in Threads |-> "idle"] /\ owned = [t \in Threads |-> Null]
  /\ logs = 0 /\ enqueued = 0

\* cubeb_log_get_callback() hides the no-op callback.
cubeb_log_get_callback == g_cubeb_log_callback = "user"

-----------------------------------------------------------------------------
(* The client.                                                             *)

\* cubeb_set_log_callback(level, callback): a callback cannot replace another.
\* The level is stored first.
SetOn(level) ==
  /\ cPc = "idle" /\ sets < MaxSets
  /\ ~cubeb_log_get_callback
  /\ g_cubeb_log_level' = level
  /\ cPc' = "setCallback"
  /\ sets' = sets + 1
  /\ UNCHANGED <<g_cubeb_log_callback, msg_queue, msg_queue_consumer,
                 shutdown_thread, heap, cQueue, logger, pushers>>

SetCallback ==
  /\ cPc = "setCallback"
  /\ g_cubeb_log_callback' = "user"
  /\ cPc' = IF g_cubeb_log_level = "verbose" THEN "newQueue" ELSE "idle"
  /\ UNCHANGED <<g_cubeb_log_level, msg_queue, msg_queue_consumer,
                 shutdown_thread, heap, cQueue, sets, logger, pushers>>

\* start()
StartNewQueue ==
  /\ cPc = "newQueue"
  /\ \E q \in Queues \ live :
       /\ live' = live \cup {q}
       /\ msgs' = [msgs EXCEPT ![q] = <<>>]
       /\ cQueue' = q
       /\ msg_queue' = q
  /\ cPc' = "setConsumer"
  /\ UNCHANGED <<settings, msg_queue_consumer, shutdown_thread, sets, logger,
                 pushers>>

StartSetConsumer ==
  /\ cPc = "setConsumer"
  /\ msg_queue_consumer' = cQueue
  /\ cPc' = "clearFlag"
  /\ UNCHANGED <<settings, msg_queue, shutdown_thread, heap, cQueue, sets,
                 logger, pushers>>

\* Mutant: the flag the last stop left is not cleared.
StartClearFlagForgotten ==
  /\ cPc = "clearFlag"
  /\ cPc' = "run"
  /\ UNCHANGED <<settings, msg_queue, msg_queue_consumer, shutdown_thread, heap,
                 cQueue, sets, logger, pushers>>

StartClearFlag ==
  /\ cPc = "clearFlag"
  /\ shutdown_thread' = FALSE
  /\ cPc' = "run"
  /\ UNCHANGED <<settings, msg_queue, msg_queue_consumer, heap, cQueue, sets,
                 logger, pushers>>

\* run()
StartThread ==
  /\ cPc = "run"
  /\ logging_thread' = "test"
  /\ cPc' = "idle"
  /\ UNCHANGED <<settings, msg_queue, msg_queue_consumer, shutdown_thread, heap,
                 cQueue, sets, lQueue, lMsg, printed, pushers>>

\* cubeb_set_log_callback(CUBEB_LOG_DISABLED, callback) passes the checks too.
\* It ends in the last branch of cubeb_log_set, an assertion and nothing else.
SetDisabledWithCallback ==
  /\ cPc = "idle" /\ sets < MaxSets
  /\ ~cubeb_log_get_callback
  /\ g_cubeb_log_level' = "disabled"
  /\ sets' = sets + 1
  /\ UNCHANGED <<g_cubeb_log_callback, msg_queue, msg_queue_consumer,
                 shutdown_thread, heap, cPc, cQueue, logger, pushers>>

\* cubeb_set_log_callback(CUBEB_LOG_DISABLED, NULL), and stop().
SetOff ==
  /\ cPc = "idle" /\ sets < MaxSets
  /\ g_cubeb_log_level' = "disabled"
  /\ cPc' = "setNoop"
  /\ sets' = sets + 1
  /\ UNCHANGED <<g_cubeb_log_callback, msg_queue, msg_queue_consumer,
                 shutdown_thread, heap, cQueue, logger, pushers>>

SetNoop ==
  /\ cPc = "setNoop"
  /\ g_cubeb_log_callback' = "noop"
  /\ cPc' = "setFlag"
  /\ UNCHANGED <<g_cubeb_log_level, msg_queue, msg_queue_consumer,
                 shutdown_thread, heap, cQueue, sets, logger, pushers>>

StopSetFlag ==
  /\ cPc = "setFlag"
  /\ shutdown_thread' = TRUE
  /\ cPc' = IF logging_thread = "none" THEN "idle" ELSE "join"
  /\ UNCHANGED <<settings, msg_queue, msg_queue_consumer, heap, cQueue, sets,
                 logger, pushers>>

StopJoin ==
  /\ cPc = "join"
  /\ logging_thread = "exited"
  /\ logging_thread' = "none"
  /\ cPc' = "loadQueue"
  /\ UNCHANGED <<settings, msg_queue, msg_queue_consumer, shutdown_thread, heap,
                 cQueue, sets, lQueue, lMsg, printed, pushers>>

StopLoadQueue ==
  /\ cPc = "loadQueue"
  /\ cQueue' = msg_queue
  /\ cPc' = "grab"
  /\ UNCHANGED <<settings, msg_queue, msg_queue_consumer, shutdown_thread, heap,
                 sets, logger, pushers>>

\* Mutants of StopGrab: an exchange that does not compare, and one that does not
\* refresh owned_queue when it fails.
StopGrabBlind ==
  /\ cPc = "grab"
  /\ msg_queue' = Null
  /\ cPc' = "delete"
  /\ UNCHANGED <<settings, msg_queue_consumer, shutdown_thread, heap, cQueue,
                 sets, logger, pushers>>
StopGrabStale ==
  /\ cPc = "grab"
  /\ msg_queue = cQueue
  /\ msg_queue' = Null
  /\ cPc' = "delete"
  /\ UNCHANGED <<settings, msg_queue_consumer, shutdown_thread, heap, cQueue,
                 sets, logger, pushers>>

\* compare_exchange_weak(owned_queue, nullptr): on failure owned_queue becomes
\* the current value, which may be null, and the loop goes around.
StopGrab ==
  /\ cPc = "grab"
  /\ IF msg_queue = cQueue
     THEN msg_queue' = Null /\ cPc' = "delete" /\ UNCHANGED cQueue
     ELSE cQueue' = msg_queue /\ UNCHANGED <<msg_queue, cPc>>
  /\ UNCHANGED <<settings, msg_queue_consumer, shutdown_thread, heap, sets,
                 logger, pushers>>

\* Deleting a null pointer does nothing.
StopDelete ==
  /\ cPc = "delete"
  /\ live' = live \ {cQueue}
  /\ cPc' = "clearConsumer"
  /\ UNCHANGED <<settings, msg_queue, msg_queue_consumer, shutdown_thread, msgs,
                 cQueue, sets, logger, pushers>>

StopClearConsumer ==
  /\ cPc = "clearConsumer"
  /\ msg_queue_consumer' = Null
  /\ cPc' = "idle"
  /\ UNCHANGED <<settings, msg_queue, shutdown_thread, heap, cQueue, sets,
                 logger, pushers>>

-----------------------------------------------------------------------------
(* The logging thread.                                                     *)

ThreadTest ==
  /\ logging_thread = "test"
  /\ logging_thread' = IF shutdown_thread THEN "exited" ELSE "load"
  /\ UNCHANGED <<settings, msg_queue, msg_queue_consumer, shutdown_thread, heap,
                 client, lQueue, lMsg, printed, pushers>>

ThreadLoad ==
  /\ logging_thread = "load"
  /\ lQueue' = msg_queue_consumer
  /\ logging_thread' = "dequeue"
  /\ UNCHANGED <<settings, msg_queue, msg_queue_consumer, shutdown_thread, heap,
                 client, lMsg, printed, pushers>>

\* Mutant of ThreadDequeue: the message stays in the queue.
ThreadDequeuePeek ==
  /\ logging_thread = "dequeue"
  /\ IF msgs[lQueue] = <<>>
     THEN logging_thread' = "test" /\ UNCHANGED lMsg
     ELSE lMsg' = Head(msgs[lQueue]) /\ logging_thread' = "print"
  /\ UNCHANGED <<settings, msg_queue, msg_queue_consumer, shutdown_thread, heap,
                 client, lQueue, printed, pushers>>

\* An empty queue ends the inner loop; the thread sleeps and tests again.
ThreadDequeue ==
  /\ logging_thread = "dequeue"
  /\ IF msgs[lQueue] = <<>>
     THEN logging_thread' = "test" /\ UNCHANGED <<lMsg, msgs>>
     ELSE /\ lMsg' = Head(msgs[lQueue])
          /\ msgs' = [msgs EXCEPT ![lQueue] = Tail(@)]
          /\ logging_thread' = "print"
  /\ UNCHANGED <<settings, msg_queue, msg_queue_consumer, shutdown_thread, live,
                 client, lQueue, printed, pushers>>

\* cubeb_log_internal_no_format: load the callback, which may be the no-op.
ThreadPrint ==
  /\ logging_thread = "print"
  /\ logging_thread' = IF g_cubeb_log_callback = "user" THEN "call" ELSE "load"
  /\ UNCHANGED <<settings, msg_queue, msg_queue_consumer, shutdown_thread, heap,
                 client, lQueue, lMsg, printed, pushers>>

ThreadCall ==
  /\ logging_thread = "call"
  /\ printed' = Append(printed, lMsg)
  /\ logging_thread' = "load"
  /\ UNCHANGED <<settings, msg_queue, msg_queue_consumer, shutdown_thread, heap,
                 client, lQueue, lMsg, pushers>>

-----------------------------------------------------------------------------
(* The threads that log.                                                   *)

\* LOG_INTERNAL and ALOG_INTERNAL test the level and the callback.  A LOG is
\* synchronous and loads the callback again; an ALOG goes to push().
Log(t) ==
  /\ pc[t] = "idle"
  /\ logs < MaxLogs
  /\ g_cubeb_log_level # "disabled" /\ cubeb_log_get_callback
  /\ logs' = logs + 1
  /\ \E next \in {"syncLoad", "pushLoad"} : pc' = [pc EXCEPT ![t] = next]
  /\ UNCHANGED <<settings, msg_queue, msg_queue_consumer, shutdown_thread, heap,
                 client, logger, owned, enqueued>>

\* cubeb_log_internal
LogLoad(t) ==
  /\ pc[t] = "syncLoad"
  /\ pc' = [pc EXCEPT ![t] = IF g_cubeb_log_callback = "user"
                             THEN "syncCall" ELSE "idle"]
  /\ UNCHANGED <<settings, msg_queue, msg_queue_consumer, shutdown_thread, heap,
                 client, logger, owned, logs, enqueued>>

LogCall(t) ==
  /\ pc[t] = "syncCall"
  /\ pc' = [pc EXCEPT ![t] = "idle"]
  /\ UNCHANGED <<settings, msg_queue, msg_queue_consumer, shutdown_thread, heap,
                 client, logger, owned, logs, enqueued>>

\* push(): load the queue ...
PushLoad(t) ==
  /\ pc[t] = "pushLoad"
  /\ owned' = [owned EXCEPT ![t] = msg_queue]
  /\ pc' = [pc EXCEPT ![t] = IF msg_queue = Null THEN "idle" ELSE "grab"]
  /\ UNCHANGED <<settings, msg_queue, msg_queue_consumer, shutdown_thread, heap,
                 client, logger, logs, enqueued>>

\* ... take it out of msg_queue, or drop the message ...
PushGrab(t) ==
  /\ pc[t] = "grab"
  /\ IF msg_queue = owned[t]
     THEN msg_queue' = Null /\ pc' = [pc EXCEPT ![t] = "enqueue"]
     ELSE UNCHANGED msg_queue /\ pc' = [pc EXCEPT ![t] = "idle"]
  /\ UNCHANGED <<settings, msg_queue_consumer, shutdown_thread, heap, client,
                 logger, owned, logs, enqueued>>

\* ... enqueue, which drops the message when the queue is full ...
PushEnqueue(t) ==
  /\ pc[t] = "enqueue"
  /\ IF Len(msgs[owned[t]]) < Depth
     THEN /\ msgs' = [msgs EXCEPT ![owned[t]] = Append(@, enqueued + 1)]
          /\ enqueued' = enqueued + 1
     ELSE UNCHANGED <<msgs, enqueued>>
  /\ pc' = [pc EXCEPT ![t] = "giveBack"]
  /\ UNCHANGED <<settings, msg_queue, msg_queue_consumer, shutdown_thread, live,
                 client, logger, owned, logs>>

\* ... and give the queue back, whatever msg_queue has become.
PushGiveBack(t) ==
  /\ pc[t] = "giveBack"
  /\ msg_queue' = owned[t]
  /\ pc' = [pc EXCEPT ![t] = "idle"]
  /\ UNCHANGED <<settings, msg_queue_consumer, shutdown_thread, heap, client,
                 logger, owned, logs, enqueued>>

ClientNext ==
  \/ \E level \in {"normal", "verbose"} : SetOn(level)
  \/ SetCallback \/ SetDisabledWithCallback
  \/ StartNewQueue \/ StartSetConsumer \/ StartClearFlag \/ StartThread
  \/ SetOff \/ SetNoop
  \/ StopSetFlag \/ StopJoin \/ StopLoadQueue \/ StopGrab \/ StopDelete
  \/ StopClearConsumer

LoggingThreadNext ==
  ThreadTest \/ ThreadLoad \/ ThreadDequeue \/ ThreadPrint \/ ThreadCall

LogNext(t) ==
  \/ Log(t) \/ LogLoad(t) \/ LogCall(t)
  \/ PushLoad(t) \/ PushGrab(t) \/ PushEnqueue(t) \/ PushGiveBack(t)

Next == ClientNext \/ LoggingThreadNext \/ \E t \in Threads : LogNext(t)

\* A call of the client that has begun goes on, the logging thread is
\* scheduled, and push(), which never waits, comes to its end.
Fairness ==
  /\ WF_vars(cPc # "idle" /\ ClientNext)
  /\ WF_vars(LoggingThreadNext)
  /\ \A t \in Threads : WF_vars(pc[t] # "idle" /\ LogNext(t))

Spec == Init /\ [][Next]_vars
FairSpec == Spec /\ Fairness

-----------------------------------------------------------------------------
Pointers == Queues \cup {Null}

TypeOK ==
  /\ g_cubeb_log_level \in {"disabled", "normal", "verbose"}
  /\ g_cubeb_log_callback \in {"null", "noop", "user"}
  /\ msg_queue \in Pointers /\ msg_queue_consumer \in Pointers
  /\ shutdown_thread \in BOOLEAN
  /\ live \subseteq Queues /\ msgs \in [Queues -> Seq(1 .. MaxLogs)]
  /\ cPc \in {"idle", "setCallback", "newQueue", "setConsumer", "clearFlag",
              "run", "setNoop", "setFlag", "join", "loadQueue", "grab",
              "delete", "clearConsumer"}
  /\ cQueue \in Pointers /\ sets \in 0 .. MaxSets
  /\ logging_thread \in {"none", "test", "load", "dequeue", "print", "call",
                         "exited"}
  /\ lQueue \in Pointers /\ lMsg \in 0 .. MaxLogs
  /\ printed \in Seq(1 .. MaxLogs)
  /\ pc \in [Threads -> {"idle", "syncLoad", "syncCall", "pushLoad", "grab",
                         "enqueue", "giveBack"}]
  /\ owned \in [Threads -> Pointers]
  /\ logs \in 0 .. MaxLogs /\ enqueued \in 0 .. logs

Owns(t) == pc[t] \in {"enqueue", "giveBack"}

\* A queue is in one place: in msg_queue, with one thread that took it out, or
\* with the client that is about to delete it.  In particular no thread ever
\* enqueues into a queue that another thread or the client holds, or into one
\* that has been deleted, even if its address is used again.
QueueHeldOnce ==
  /\ \A t \in Threads : Owns(t) => owned[t] \in live \ {msg_queue}
  /\ \A t, u \in Threads : Owns(t) /\ Owns(u) /\ t # u => owned[t] # owned[u]
  /\ cPc = "delete" => \A t \in Threads : Owns(t) => owned[t] # cQueue

\* The logging thread only dequeues from a queue that exists: it is joined
\* before its queue is deleted, and started after it is set.
LoggingThreadQueueLive ==
  /\ logging_thread \in {"load", "dequeue", "print", "call"}
       => msg_queue_consumer \in live
  /\ logging_thread \in {"dequeue", "print", "call"} => lQueue \in live

\* Asynchronous messages come out in the order they were queued, at most once,
\* across restarts of the logger and whoever queued them.
PrintedInOrder ==
  \A i, j \in 1 .. Len(printed) : i < j => printed[i] < printed[j]

\* Once disabling has returned, the logging thread no longer calls back.
NoThreadOnceDisabled ==
  cPc = "idle" /\ ~cubeb_log_get_callback => logging_thread = "none"

\* cubeb_set_log_callback returns, even while threads are logging: neither the
\* join nor the loop that grabs the queue can wait for ever.
SetReturns == cPc # "idle" ~> cPc = "idle"

\* A message queued for the logging thread is printed, unless logging is turned
\* off before.
EventuallyPrinted ==
  \A n \in 1 .. MaxLogs :
    (\E q \in Queues : q = msg_queue_consumer /\ logging_thread # "none"
                         /\ Contains(msgs[q], n))
      ~> (Contains(printed, n) \/ g_cubeb_log_callback = "noop")
=============================================================================
