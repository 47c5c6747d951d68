CONSTANTS
  Character <- MCCharacter
  MAX_ARGS = 5
  Builtins <- MCBuiltins
  MaxLen = 5
  MaxEscaped = 6
  Lines <- MCLines
SPECIFICATION Spec
INVARIANTS
  Splits
  InBounds
  FreedOnce
  WholeLine
  ReadsBack
CHECK_DEADLOCK FALSE
