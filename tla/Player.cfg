SPECIFICATION Spec
CONSTANTS
  QueueSize = 2
  Frames = 2
  MaxPackets = 2
  MaxSeeks = 1
  MaxKeys = 1
INVARIANTS
  ImagesOnce
  NotOverwritten
  AtMostOneStale
PROPERTIES
  ShownInOrder
  DeinitReturns
  PlaysToEnd
