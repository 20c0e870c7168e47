SPECIFICATION Spec
CONSTANTS
  MaxQueued = 2
  Entities = 1
INVARIANTS
  NeverPreservesOnline
CHECK_DEADLOCK FALSE
