CONSTANTS
  pump = pump
  power = power
  dir = dir
  PowerCh = power
  DirCh = dir
  Channel <- Valve
  Lockable <- None
  Logged <- None
  Emergency <- None
  Exercised <- None
  LockValues <- Lock
  AgeCap = 2
  DeadTime = 2
  MaxPulse = 3
  Durations <- Lengths
  MaxGap = 2
  StartsMod = 2
  MaxTravel = 8
  Outputs <- NoOutputs
  Strokes <- Stroke
  Interval = 4
  Slack = 1
  SafetyNet = 2
  Duration = 1
  Timeout = 3
  K1Present = TRUE
  K1Requests <- Requests
  Recal = 3
  Steps <- AnyPass
  SlowPeriod = 2
  Reassert = 3
  OtaUsed = TRUE
  PortFails = TRUE
  Reboots = TRUE
  Clock <- NoClock
SPECIFICATION Spec
INVARIANT OutputsAreRight
INVARIANT LossIsRepaired
