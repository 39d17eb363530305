SPECIFICATION MCSpec
CONSTANTS
  CallIds = {c1, c2, c3}
  Catalog = {c1, c2}
  MaxModelCalls = 2
  MaxToolCalls = 2
  MaxBatch = 2
  HostInputs = 0
  MaxInputs = 2
  MaxWorld = 1
  Scopes = {"seen", "state"}
  RequestScopes = {"seen"}
  Observe <- MCObserve
  Publish <- MCPublish
  PageSize = 1
  RecallPage = 2
  Admitted = {"a", "b", "run"}
  Window = 1
  PerScope = 1
  Budget = 3
  MaxFacts = 3
  MaxTime = 2
  MaxAsked = 2
  Noted = {"m", "n"}
  Prompts = {"q"}
SYMMETRY CallSymmetry
INVARIANTS
  RecordsSound
  MemorySound
PROPERTIES
  EndIsLast
  DrivesTheAgent
CHECK_DEADLOCK FALSE
