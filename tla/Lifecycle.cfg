SPECIFICATION RunSpec
CONSTANTS
  Requests = {r1, r2}
  Scenarios = {s1}
  Paused = TRUE
  Disconnects = TRUE
  Inputs <- MCInputs
  U32 = 16
  Null = Null
INVARIANTS SnapshotQuiet StopDocumented LiveHooksSerialized Precedence
PROPERTIES SetupSealed StopBeatsResume RunEnds
