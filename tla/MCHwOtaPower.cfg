CONSTANTS
  pump = pump
  power = power
  dir = dir
  PowerCh = power
  DirCh = dir
  Channel <- Home
  Lockable <- Pumps
  Logged <- Pumps
  Emergency <- None
  Exercised <- None
  LockValues <- Lock
  AgeCap = 3
  DeadTime = 3
  MaxPulse = 3
  Durations <- Lengths
  MaxGap = 1
  StartsMod = 2
  MaxTravel = 8
  Outputs <- NoOutputs
  Strokes <- Stroke
  Interval = 4
  Slack = 1
  SafetyNet = 2
  Duration = 1
  Timeout = 3
  K1Present = TRUE
  K1Requests <- Requests
  Recal = 3
  Steps <- OnePass
  SlowPeriod = 3
  Reassert = 1
  OtaUsed = TRUE
  PortFails = FALSE
  Reboots = FALSE
  Clock <- NoClock
SPECIFICATION Spec
PROPERTY PowerWaitsForDirection
