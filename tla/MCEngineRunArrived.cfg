SPECIFICATION Spec
CONSTANTS
  CallIds = {c1, c2}
  Catalog = {c1, c2}
  MaxModelCalls = 2
  MaxToolCalls = 2
  MaxBatch = 1
  HostInputs = 0
  MaxInputs = 2
  MaxWorld = 1
  Scopes = {"seen", "state"}
  RequestScopes = {"seen"}
  Observe <- MCObserve
  Publish <- MCPublish
  PageSize = 1
INVARIANTS
  ActsOnWhatArrived
CHECK_DEADLOCK FALSE
