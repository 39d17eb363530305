SPECIFICATION Spec
CONSTANTS
  MaxLines = 3
INVARIANTS
  NoTaskLeft
CHECK_DEADLOCK FALSE
