CONSTANTS
  Handles = {h1, h2, h3}
  NULL = NULL
SPECIFICATION Spec
INVARIANTS
  Intact
  TakesItsJob
CHECK_DEADLOCK FALSE
