SPECIFICATION Spec
CONSTANTS
  Absent = absent
  Odd = odd
  NaN = nan
  Descriptor <- MCDescriptor
  Version = 2
  Renames <- MCRenames
  Entered <- MCEntered
  Files <- MCFiles
  Stored <- MCStored
  Debounce = 2
  RebootDelay = 1
  Hold = 3
  Release = 2
  MaxMishaps = 3
  DeadTime = 2
  MaxPulse = 8
  SlowPeriod = 2
  Lock = 3
  Travel = 4
  Overdrive = 2
  RecalSlack = 2
  MinPulse = 1
  MaxFeedback = 2
  Gain = 1
  Deadband = 1
  Period = 4
  FailPos = 2
  FfStep = 1
  SmallDiff = 2
  H2Set = 4
  StepPulse = 1
  MoveBand = 1
  SettleBand = 1
  H3Band = 2
  SettleTime = 8
  Observe = 12
  ValveReadings <- MCValveReadings
  MaxUpdates = 1
  ValvePlants = {"exercised", "tested"}
  HousePlants <- MCHousePlants
  HouseReadings <- MCHouseReadings
  HouseChoices <- MCHouseChoices
  Exercises <- MCExercises
  Updated = {"pump", "tank"}
  AgeCap = 3
  Steps = {1}
INVARIANTS
  SettingsSurvive
  EstimateIsTrue
  HouseTellsTheTruth
  TankIsSpared
PROPERTIES
  ChangesAreWritten
  ResultIsOfThePulse
  ValveComesToRest
