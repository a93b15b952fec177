\* Five handle objects, one may be forgotten, counters wide enough.
CONSTANTS
  Handle = {h1, h2, h3, h4, h5}
  Modulus = 8
  MaxForget = 1
SPECIFICATION FairSpec
INVARIANTS
  OwnersSeeLiveValue
  NoTouchAfterFree
  DestroyedOnceThenFreed
  NoLeak
PROPERTIES
  ImplementsOwnership
CHECK_DEADLOCK FALSE
