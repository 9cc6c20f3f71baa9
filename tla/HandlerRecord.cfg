\* Recording, caching, switching, saving and attaching, the cache in memory.
SPECIFICATION Spec
CONSTANTS
  ui = ui
  sd = sd
  custom = custom
  wifi = wifi
  Clients <- UiAndSd
  Muxers <- OneMuxer
  Calls <- RecordCalls
  MaxCalls = 3
  MaxFails = 1
  CacheInMem = TRUE
  InOrder = TRUE
  NoClient = NoClient
INVARIANTS TypeOK BeginsWithKey FlagsMatch StopComplete AnswersWaiter HandlerInUse
