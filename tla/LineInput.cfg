CONSTANTS
  BUFF_SIZE = 3
  MaxLines = 2
  MaxParts = 5
  MaxThrown = 3
  MaxEnds = 2
SPECIFICATION Spec
INVARIANTS
  RunsWholeLine
PROPERTIES
  EveryLineIsTaken
CHECK_DEADLOCK FALSE
