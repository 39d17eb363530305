SPECIFICATION MCSpec
CONSTANTS
  Ids = {"outer", "inner", "query", "invalid"}
  Tasks = {"t1", "t2"}
  Kind <- MCKind
  Nested <- MCNested
  Expires = {"outer", "inner"}
  NoId = "-"
  MaxTime = 1
  MaxCalls = 3
  MaxFaults = 1
  N = 2
  Modern = {1}
  Closers = {"host", "other"}
  Changing = {2}
  MaxChanges = 1
  Calls = {"c"}
  Losing = {2}
  MaxEvents = 1
  Called = {2}
INVARIANTS
  OperationsSound
  McpSound
PROPERTIES
  CallsReturn
  StartAndCloseEnd
CHECK_DEADLOCK FALSE
