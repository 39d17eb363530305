SPECIFICATION Spec
CONSTANTS
  Commands <- MCCommands
  Owner <- MCOwner
  Installed = {}
  AtOnce = 1
  InAll = 2
  Mishaps = {"cut"}
INVARIANTS
  RegisteredIsInstalled
CHECK_DEADLOCK FALSE
