SPECIFICATION Spec
CONSTANTS
  N = 1
  WithCleanup = {1}
  WithTask = {1}
  WithClose = {}
  Fronts = {1}
  MaxCancels = 1
  MaxClosers = 1
INVARIANTS
  CausesCarried
CHECK_DEADLOCK FALSE
