SPECIFICATION Spec
CONSTANTS
  N = 1
  Modern = {}
  Closers = {"host", "other"}
  Changing = {1}
  MaxChanges = 1
  Calls = {"c"}
  Losing = {1}
  MaxEvents = 1
  Called = {1}
INVARIANTS
  FailedMeansNoEffect
CHECK_DEADLOCK FALSE
