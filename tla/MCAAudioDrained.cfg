CONSTANTS
  Handles = {"out"}
  BufferSize = 2
  MaxFaults = 0
  MaxChanges = 1
SPECIFICATION Spec
INVARIANTS DrainedAfterRead
CHECK_DEADLOCK FALSE
