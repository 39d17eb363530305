SPECIFICATION MCSpec
CONSTANTS
  N = 2
  WithCleanup = {1, 2}
  WithTask = {1, 2}
  WithClose = {1, 2}
  Fronts = {1, 2}
  MaxCancels = 2
  MaxClosers = 1
  Callers = {"a", "b", "c"}
  Way <- MCWay
  Given <- MCGiven
  MaxDeaths = 1
  MaxLines = 3
  CallIds = {c1}
  Catalog = {c1}
  MaxModelCalls = 1
  MaxToolCalls = 1
  MaxBatch = 1
  HostInputs = 1
  MaxInputs = 2
  MaxWorld = 2
  Scopes = {"seen"}
  RequestScopes = {"seen"}
  PageSize = 1
  Subscribers = {s1, s2}
  MaxEvents = 4
  Timeouts = {1, 2}
  Totals = {2, 3}
  Counts = {1, 2, 3}
  Puts <- MCPuts
  Reads <- MCReads
  MaxDamage = 1
INVARIANTS
  SupervisionSound
  ResolutionSound
  EntrySound
  GatewaySound
  EventsSound
  ArtifactsSound
  NothingSkippedElsewhere
PROPERTIES
  ProcessStops
  ExecuteEnds
  SubscriptionsDrain
CHECK_DEADLOCK FALSE
