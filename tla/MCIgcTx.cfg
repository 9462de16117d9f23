SPECIFICATION FairSpec
CONSTANTS
  Count = 11
  MaxFrags = 0
  Frames <- MCFrames
  Budget = 2
INVARIANTS
  IInv
  RingSound
  WakePending
PROPERTY
  QueueResumes
