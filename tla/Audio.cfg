\* Two callers, a camera and a receiver of raw samples; liveness.
SPECIFICATION FairSpec
CONSTANTS
  cacher = cacher
  recorder = recorder
  front = front
  pcm = pcm
  Callers <- TwoCallers
  Dispatchers <- OneDispatcher
  Receivers <- OneReceiver
  Adds <- AllAdds
  Caches <- OneCaches
  CacheInMem = TRUE
  Capture = Capture
  Nobody = Nobody
INVARIANTS CaptureWhileListed
PROPERTIES LockReleased CacheHeard
