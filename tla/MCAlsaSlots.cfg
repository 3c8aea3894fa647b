CONSTANTS
  Clients = {c1, c2, c3}
  Null = null
  CUBEB_STREAM_MAX = 3
SPECIFICATION Spec
SYMMETRY ClientSymmetry
INVARIANTS
  CountIsExact AlwaysASlot CreatedAreRegistered
CHECK_DEADLOCK FALSE
