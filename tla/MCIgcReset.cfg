SPECIFICATION Spec
CONSTANTS
  Count = 11
  MaxFrags = 0
  Frames <- MCFrames
  Budget = 2
INVARIANT
  WatchedIsPresent
