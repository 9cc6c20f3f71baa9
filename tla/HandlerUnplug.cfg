\* A camera is unplugged while its cache is on.
SPECIFICATION Spec
CONSTANTS
  ui = ui
  sd = sd
  custom = custom
  wifi = wifi
  Clients <- UiOnly
  Muxers <- NoMuxers
  Calls <- UnplugCalls
  MaxCalls = 2
  MaxFails = 0
  CacheInMem = TRUE
  InOrder = TRUE
  NoClient = NoClient
INVARIANTS ClosedBeforeDelete
