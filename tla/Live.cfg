\* One camera's live stream: three transfers and two commands of the server.
SPECIFICATION FairSpec
CONSTANTS
  Client = Client
  Camera = Camera
  Commu = Commu
  Live = Live
  MaxCommands = 2
  MaxStarts = 3
  Callers <- ThreeCallers
  Dispatchers <- LiveOnly
  Receivers <- None
  CacheInMem = FALSE
  Capture = Capture
  Nobody = Nobody
INVARIANTS AttachedIfRunning Obeys NoAudioAfterStop
PROPERTIES StopReturns
