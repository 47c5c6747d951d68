CONSTANTS
  N = 4
  Chunk = 2
  MaxTyped = 6
  MaxSent = 3
SPECIFICATION ClientSpec
INVARIANTS
  AllPrinted
  KeepsLines
PROPERTY
  BothStop
CHECK_DEADLOCK FALSE
