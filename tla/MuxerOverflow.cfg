\* One job, groups of two frames, more pushes than the list holds; liveness.
SPECIFICATION FairSpec
CONSTANTS
  w1 = w1
  w2 = w2
  Writers <- OneWriter
  MaxJobs = 1
  MaxPackets = 6
  MaxVideo = 2
  Gop = 2
  ExitIds <- AllExits
  NoPtr = NoPtr
  NoThread = NoThread
INVARIANTS Decodable VideoCountExact
PROPERTIES FlushCloses StopReturns DeleteReturns
