SPECIFICATION MCSpec
CONSTANTS
  CallIds = {c1, c2, c3}
  MaxModelCalls = 2
  MaxToolCalls = 2
  MaxBatch = 2
  MaxInputs = 2
  Rooms = {4, 5, 6, 7, 8, 9, 10, 11}
  MaxMessages = 5
INVARIANTS
  HistorySound
  IInv
  PromptSound
PROPERTIES
  NoNewWorkAfterCancel
  KeepsContract
  Ends
CHECK_DEADLOCK FALSE
