\* Two clients start and stop the recording, attach and detach at the same time.
SPECIFICATION Spec
CONSTANTS
  ui = ui
  sd = sd
  custom = custom
  wifi = wifi
  Clients <- UiAndSd
  Muxers <- TwoMuxers
  Calls <- StarterCalls
  MaxCalls = 2
  MaxFails = 1
  CacheInMem = TRUE
  InOrder = TRUE
  NoClient = NoClient
INVARIANTS RefcountExact Registered
