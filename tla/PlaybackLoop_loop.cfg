SPECIFICATION FairSpec
CONSTANTS
  SilenceBeforeFade = 3
  LongAbsence = 6
  Resume = 1
  Cold = 5
  MetricsEvery = 2
  MaxErrors = 2
  StallWarnAfter = 1
  BufferPeriods = 4
  DeviceDepth = 3
  Writes = 2
PROPERTIES StopEnds AbsenceIsCold PauseIsSpared
CHECK_DEADLOCK FALSE
