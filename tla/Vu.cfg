SPECIFICATION VuSpec
CONSTANTS
  MaxIters = 2
  MaxOps = 3
  MaxBatch = 2
  TopLevelAsync = FALSE
  NestedSync = TRUE
  ScriptsSettle = FALSE
  Lagging = FALSE
  VUs = {v1}
  Requests = {1, 2}
  Conns = {1, 2}
  Urls <- MCUrls
  Posts = {}
  Ips <- MCIps
  Family <- MCFamily
  Dns <- MCDns
  TestConfigs <- MCTestConfigs
  Responses <- MCResponses
  Callbacks = {}
  None = None
  MaxFrames = 1
  MaxControl = 1
INVARIANTS Bookkeeping CleanStart OneLane RouteSound BytesOwn
PROPERTIES TypedOutcome VuEnds
