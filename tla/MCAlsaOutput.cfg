CONSTANTS
  streams <- Output
  Capture = {}
  other_stream <- OutAlone
  NoStream = NoStream
  in = in
  out = out
  DevSize = 2
  PipeSize = 2
  EagerRestart = TRUE
  MaxFaults = 1
SPECIFICATION FairSpec
INVARIANTS ErrorStopsData
PROPERTIES StopReturns ShortIsDrained ShutdownEnds
CHECK_DEADLOCK FALSE
