SPECIFICATION Spec
CONSTANTS
  Readings <- MCFewReadings
  Audits <- MCNoAudits
  Calibrations <- MCCalibrations
  MaxChannels = 3
  ExpectedChannels <- MCExpected
  FrameTarget = 2
  UINT32_MAX = 3
  MaxTime = 1
  MaxStepsBack = 0
  MaxConnections = 2
  MaxSessions = 2
INVARIANTS
  ReconnectsFlagged
