SPECIFICATION Spec
CONSTANTS
  None = none
  Conn = {"c1"}
  CommandBuffer = {"b1", "b2"}
  BoardSize = 2
  Depth = 1
  MaxPerTick = 2
  Source = {"k1", "k2", "k3"}
  Capacity = 3
  LogSlots = 2
  Window = 2
  MaxLogged = 6
  LogMishaps = 4
  Resync = 4
  ClockRetry = 2
  MaxPass = 1
  Wrong = 9
  MaxDrift = 1
  ClockMishaps = 2
  FirstDay = 0
  LastDay = 49709
  Seconds <- Moments
  Browser = {1, 2}
  SessionSlots = 1
  Ttl = 2
  GrantTtl = 1
  FreeFailures = 2
  Lock = 2
  NoSid = 0
  PairChanges = 2
  MaxStarts = 3
  FileBuffer = {"f1", "f2", "f3"}
  Rebuild = 2
  ReadyTtl = 2
  MaxEvents = 3
  Network = {"n1", "n2"}
  RetryFirst = 1
  RetryStep = 1
  RetryMax = 2
  ScanTimeout = 2
  ApRetry = 1
  ApLinger = 1
  ApJoinWindow = 3
  MaxOffers = 3
  Broker = {"b1", "b2"}
  Entities = 2
  Value = {"on", "off"}
  BackoffFirst = 1
  BackoffMax = 4
  AttemptTimeout = 3
  EventOutbox = 1
  EndpointChanges = 1
  Probe = {"p1", "p2"}
  Invalid = "invalid"
  Sensors = 2
  FaultCount = 2
  RecoverCount = 1
  Rows = 2
  Image = {"i1", "i2"}
  Garbage = "garbage"
  Contrast = {"dim", "full"}
  FailLimit = 3
  PanelRetry = 1
  Alarms = 3
  PerSubPage = 1
  Pages = 2
  Period = {1, 2}
  Hold = 5
  SubPage = 1
  ResetResult = 1
  SetupSlot = 3
  SlotWrap = 4
INVARIANTS
  CommandsAreAccountedFor
  LogIsOne
  TimeIsKept
  DatesAreTrue
  SessionsBelongToThePair
  GuessesAreRationed
  WrittenIsReported
  TouchedIsNotServed
  DocumentsArriveWhole
  PairIsWhole
  LinkIsPursued
  BrokerIsTold
  NoAttemptHangs
  TemperatureIsOfItsProbe
  MissingIsTold
  PanelShowsTheFrame
  AlarmsComeRound
