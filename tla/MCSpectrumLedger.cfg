SPECIFICATION Spec
CONSTANTS
  Readings <- MCReadings
  Audits <- MCFewAudits
  Calibrations <- MCCalibrations
  MaxChannels = 3
  ExpectedChannels <- MCExpected
  FrameTarget = 2
  UINT32_MAX = 3
  MaxTime = 2
  MaxStepsBack = 1
  MaxConnections = 2
  MaxSessions = 2
INVARIANTS
  Conserved
  ReadingsStorable
  Calibrated
  ClosedSessionsExplained
  FramesDisjoint
PROPERTIES
  ImplementsExactFrames
