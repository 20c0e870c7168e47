SPECIFICATION FairSpec
CONSTANTS
  Worker = {w1, w2}
  MaxBatches = 2
  PerBatch = 2
  DayLength = 2
  Retention = 1
  Ahead = 0
  Lag = 2
  MaxNow = 4
  MaxAborts = 1
INVARIANTS
  ViewShowsOnce
  ShownAloneIsMarked
  WindowInsertable
PROPERTIES
  RollupsGrow
  OnlyOverlapMisses
  MarkersCleared
