SPECIFICATION RunSafety
CONSTANTS
  Requests = {r1}
  Scenarios = {s1}
  Paused = TRUE
  Disconnects = TRUE
  Inputs <- MCInputs
  U32 = 16
  Null = Null
INVARIANT HooksSerialized
