SPECIFICATION FairSpec
CONSTANTS
  MaxQueued = 2
  Entities = 1
INVARIANTS
  OfflineWhenGone
PROPERTIES
  Converges
CHECK_DEADLOCK FALSE
