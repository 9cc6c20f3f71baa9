\* One object after another, all exit ids, an overflowing list.
SPECIFICATION Spec
CONSTANTS
  w1 = w1
  w2 = w2
  Writers <- TwoWriters
  MaxJobs = 2
  MaxPackets = 4
  MaxVideo = 2
  Gop = 1
  ExitIds <- AllExits
  NoPtr = NoPtr
  NoThread = NoThread
SYMMETRY Symmetry
INVARIANTS RefsExact ClosedComplete NoPopFromEmpty NoUseAfterDelete
PROPERTIES ImplementsJob
