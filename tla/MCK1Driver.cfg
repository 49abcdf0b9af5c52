CONSTANTS
  DeadTime = 2
  MaxPulse = 3
  Durations <- MCDurations
  MaxGap = 2
  StartsMod = 2
  AgeCap = 2
  MaxTravel = 12
SPECIFICATION FairSpec
INVARIANT MotionIsAccounted
PROPERTY DriveIsInterlocked
PROPERTY RequestsSettle
