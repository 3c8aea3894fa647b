CONSTANTS
  Threads = {t1, t2}
  Queues = {q1, q2}
  Null = null
  Depth = 1
  MaxLogs = 2
  MaxSets = 4
SPECIFICATION FairSpec
INVARIANTS
  QueueHeldOnce PrintedInOrder
PROPERTIES SetReturns EventuallyPrinted
CHECK_DEADLOCK FALSE
