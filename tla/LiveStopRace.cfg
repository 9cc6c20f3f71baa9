\* The muxer that is attached again while the transfer is stopped.
SPECIFICATION Spec
CONSTANTS
  Client = Client
  Camera = Camera
  Commu = Commu
  Live = Live
  MaxCommands = 3
  MaxStarts = 2
  Callers <- ThreeCallers
  Dispatchers <- LiveOnly
  Receivers <- None
  CacheInMem = FALSE
  Capture = Capture
  Nobody = Nobody
INVARIANTS NoStale
