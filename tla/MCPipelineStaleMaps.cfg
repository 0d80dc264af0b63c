SPECIFICATION Spec
CONSTANTS
  MaxQueueSize = 2
  MaxFrames = 3
  MaxChanges = 1
  Unreliable = FALSE
INVARIANT
  MapsCoverFrame
