SPECIFICATION Spec
CONSTANTS
  MaxIters = 2
  MaxOps = 2
  MaxBatch = 2
  TopLevelAsync = FALSE
  NestedSync = FALSE
  ScriptsSettle = TRUE
  Lagging = TRUE
INVARIANTS CleanStart
