CONSTANTS
  streams <- Duplexed
  Capture = {in}
  other_stream <- Paired
  NoStream = NoStream
  in = in
  out = out
  DevSize = 2
  PipeSize = 2
  EagerRestart = FALSE
  MaxFaults = 0
SPECIFICATION Spec
INVARIANTS
  BuffersBounded NoLostWakeup ProcessingIsExclusive QuietOnceStopped
  ShortIsLast
CHECK_DEADLOCK FALSE
