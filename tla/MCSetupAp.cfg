SPECIFICATION Spec
CONSTANTS
  Network = {n1, n2}
  None = none
  RetryFirst = 1
  RetryStep = 1
  RetryMax = 2
  ScanTimeout = 2
  ApRetry = 1
  ApLinger = 1
  ApJoinWindow = 3
  MaxOffers = 3
INVARIANT SetupApEnds
