SPECIFICATION ChannelsSpec
CONSTANTS
  Emitters = {e1, e2}
  CONSOLE_CAPACITY = 2
  MaxEmits = 5
  Producers = {p1, p2}
  Metrics = {"a", "b"}
  Capacity = 1
  BatchLimit = 2
  MaxSamples <- MCMaxSamples
  Requests = {r1, r2, r3, r4}
  max_in_flight = 2
  WsSessionIds = {1}
  WsFrames = {"message", "ping"}
  MaxPeerFrames <- MCMaxPeerFrames
  MaxCommands = 2
  WsVus = {"coroutine", "blocking"}
  Clients = {"c", "d"}
  Metadatas <- MCMetadatas
  Messages <- MCMessages
  IntBits = 4
  MaxConnects = 3
  MaxInvokes = 2
INVARIANTS Accounted DefBeforePoint SamplesAccounted PermitsConserved WsLossless WsReleased GrpcSound
PROPERTIES DrainCompletes NoStarvation WsConnectEnds
CHECK_DEADLOCK FALSE
