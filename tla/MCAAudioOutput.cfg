CONSTANTS
  Handles = {"out"}
  BufferSize = 2
  MaxFaults = 0
  MaxChanges = 1
SPECIFICATION FairSpec
PROPERTIES TransitionsEnd DestroyReturns
CHECK_DEADLOCK FALSE
