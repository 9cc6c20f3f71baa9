\* Two processors one after the other, windows of two frames.
SPECIFICATION FairSpec
CONSTANTS
  MaxProcessors = 2
  Window = 2
  Loop = Loop
  Nobody = Nobody
INVARIANTS HandlersLive RecordFollows
PROPERTIES ScaledServed StopReturns
