CONSTANTS
  Handles = {"in", "out"}
  BufferSize = 1
  MaxFaults = 2
  MaxChanges = 1
SPECIFICATION Spec
INVARIANTS ReinitKeepsSlot QuietOnceStopped PositionRuns
CHECK_DEADLOCK FALSE
