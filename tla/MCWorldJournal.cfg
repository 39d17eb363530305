SPECIFICATION MCSpec
CONSTANTS
  Scopes = {"a", "b", "c"}
  Batches <- MCBatches
  Watched = {"a", "b"}
  PageSize = 2
  Clock = {1, 2}
  PolicyScopes = {"a", "b"}
  Models = {"m", "n"}
  MaxLog = 4
  MaxScores = 2
  MaxMishaps = 2
  Runs = {"p", "q"}
  MaxCuts = 1
  Finders = {"f", "g"}
  MaxRows = 3
  Identities = {1, 2, 3}
  Versions = {1, 2}
  RunIdentities = {2}
  Limits = {1, 2}
INVARIANTS
  LogSound
  ObserverSound
  RankingSound
  InstancesSound
  CatalogSound
PROPERTIES
  CatchesUp
CHECK_DEADLOCK FALSE
