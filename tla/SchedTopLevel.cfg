SPECIFICATION Spec
CONSTANTS
  MaxIters = 2
  MaxOps = 2
  MaxBatch = 2
  TopLevelAsync = TRUE
  NestedSync = FALSE
  ScriptsSettle = TRUE
  Lagging = FALSE
INVARIANTS MetaFound
