SPECIFICATION Spec
CONSTANTS
  Worker = {w1}
  MaxBatches = 2
  PerBatch = 1
  DayLength = 2
  Retention = 1
  Ahead = 1
  Lag = 2
  MaxNow = 3
  MaxAborts = 0
INVARIANTS
  LateCommitsVisible
