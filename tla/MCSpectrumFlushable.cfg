SPECIFICATION Spec
CONSTANTS
  Readings <- MCFewReadings
  Audits <- MCNoAudits
  Calibrations <- MCCalibrations
  MaxChannels = 3
  ExpectedChannels <- MCExpected
  FrameTarget = 2
  UINT32_MAX = 3
  MaxTime = 3
  MaxStepsBack = 1
  MaxConnections = 1
  MaxSessions = 2
INVARIANTS
  Flushable
