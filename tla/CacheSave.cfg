\* Two files saved from a cache that overflows.
SPECIFICATION Spec
CONSTANTS
  Window = 3
  Gop = 2
  MaxFrames = 9
  MaxAudio = 2
INVARIANTS SavedContiguous SavedLength KeyFirst
