SPECIFICATION MCSpec
CONSTANTS
  Goals = {"g"}
  Wakes = {"w"}
  NoGoal = "-"
  Stores = {"tools", "clock"}
  Changes <- MCChanges
  Home <- MCHome
  PageSize = 2
  MaxLog = 3
  Callers = {a, b}
  Cells <- MCCells
  Values = {"x"}
  Watchers = {"v", "w"}
  Failing = {"v"}
  Recursing = {"v"}
  MaxRevision = 2
  Commands <- MCCommands
  Owner <- MCOwner
  Installed <- MCInstalled
  AtOnce = 2
  InAll = 3
  Mishaps = {"cut", "crash"}
INVARIANTS
  BotSound
  ContextSound
  AppsSound
  InstallSound
PROPERTIES
  KeepsSubject
CHECK_DEADLOCK FALSE
