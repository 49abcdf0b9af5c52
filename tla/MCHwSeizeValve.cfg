CONSTANTS
  pump = pump
  power = power
  dir = dir
  PowerCh = power
  DirCh = dir
  Channel <- Home
  Lockable <- Pumps
  Logged <- Pumps
  Emergency <- Pumps
  Exercised <- Pumps
  LockValues <- LongLock
  AgeCap = 3
  DeadTime = 2
  MaxPulse = 3
  Durations <- Lengths
  MaxGap = 1
  StartsMod = 2
  MaxTravel = 8
  Outputs <- PumpAndValve
  Strokes <- Stroke
  Interval = 4
  Slack = 1
  SafetyNet = 1
  Duration = 1
  Timeout = 4
  K1Present = TRUE
  K1Requests <- LongRequest
  Recal = 3
  Steps <- OnePass
  SlowPeriod = 2
  Reassert = 1
  OtaUsed = TRUE
  PortFails = FALSE
  Reboots = FALSE
  Clock <- AnyClock
SPECIFICATION FairSpec
VIEW Shown
PROPERTY StrokesAreOrderly
PROPERTY ExercisesComeAndGo
