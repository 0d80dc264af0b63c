SPECIFICATION FairSpec
CONSTANTS
  MaxQueueSize = 2
  MaxFrames = 3
  MaxChanges = 2
  Unreliable = TRUE
INVARIANTS
  FramesOwnedOnce
  MapsFollowFlags
  PipelineInv
PROPERTIES
  ImplementsFeed
  NeedIsServed
  QuitEnds
