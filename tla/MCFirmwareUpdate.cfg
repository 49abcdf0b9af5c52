CONSTANTS
  c1 = c1
  c2 = c2
  Client <- Two
  SlowPeriod = 2
  BeginCheck = 1
  RxTimeout = 2
  Stall = 3
  RebootDelay = 3
  ConfirmAfter = 2
  Deadline = 4
  MinTicks = 2
  MinCycles = 1
  MaxCrashes = 1
  MaxUpdates = 3
SPECIFICATION FairSpec
INVARIANT OffWhileUpdating
INVARIANT SessionsExclude
INVARIANT ImageIsAccountedFor
PROPERTY UpdatesEnd
