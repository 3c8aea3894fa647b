CONSTANTS
  CapacityInFrames = 2
  ChannelCount = 2
  MaxFrameCount = 3
  MaxFrames = 8
SPECIFICATION Spec
INVARIANTS
  NoDataRace CopiedInOrder
PROPERTIES ImplementsFifo
CHECK_DEADLOCK FALSE
