SPECIFICATION Spec
CONSTANTS
  MaxIters = 2
  MaxOps = 2
  MaxBatch = 2
  TopLevelAsync = FALSE
  NestedSync = TRUE
  ScriptsSettle = TRUE
  Lagging = FALSE
INVARIANTS AwaitPendingServed
