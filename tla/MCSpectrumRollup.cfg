SPECIFICATION Spec
CONSTANTS
  HourLength = 1
  DayLength = 2
  Epochs = {e1, e2}
  Counts = {1, 2}
  UINT32_MAX = 3
  MaxTime = 4
  MaxFrames = 3
SYMMETRY MCSymmetry
INVARIANTS
  SegmentsFit
  SegmentsInOrder
  MissedOnlyIfLate
  EachFrameOnce
PROPERTIES
  NothingUnrolled
