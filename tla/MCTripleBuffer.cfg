CONSTANTS
  MaxWrites = 7
  MaxInvalidates = 2
SPECIFICATION BufferSpec
INVARIANTS
  NeverTorn FreshEnough PublishedAccountedFor
PROPERTIES
  ImplementsRegister
CHECK_DEADLOCK FALSE
