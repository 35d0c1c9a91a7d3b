CONSTANTS
  Blocks = {b1, b2, b3}
  NULL = NULL
  Uninit = Uninit
  LedCount = 2
  Boot = 3
  MaxFrames = 5
  RecvUntil = 6
  MaxTime = 13
  Origins = {TRUE}
  SuspendAfter = 3
  CounterMod = 2
SPECIFICATION FairSpec
INVARIANTS BuffersDistinct WindowOfFrames IntervalOfPair RotationHasFrame
PROPERTIES BlendInOrder DisplaySpec LateFrameTaken
