\* Recording and custom muxers, without the cache; liveness.
SPECIFICATION FairSpec
CONSTANTS
  ui = ui
  sd = sd
  custom = custom
  wifi = wifi
  Clients <- UiAndSd
  Muxers <- OneMuxer
  Calls <- MuxerCalls
  MaxCalls = 2
  MaxFails = 1
  CacheInMem = FALSE
  InOrder = FALSE
  NoClient = NoClient
PROPERTIES StopAnswered StoppedIsDeleted
