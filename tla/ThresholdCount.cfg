SPECIFICATION RequestsSpec
CONSTANTS
  VUs = {v1}
  Requests = {1, 2}
  Conns = {1, 2}
  Urls <- MCUrls
  Posts <- MCPosts
  Ips <- MCIps
  Family <- MCFamily
  Dns <- MCDns
  TestConfigs <- MCTestConfigs
  Responses <- MCResponses
  Callbacks <- MCCallbacks
  None = None
  MaxFrames = 2
  MaxControl = 0
  u1 = u1
  u2 = u2
  Vus <- MCVus
  Alphabet <- MCAlphabet
  Texts <- MCTexts
  Runs <- MCRuns
  Numbers <- MCNumbers
CHECK_DEADLOCK FALSE
INVARIANT ThresholdsReadLive
