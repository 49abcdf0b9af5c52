CONSTANTS
  Plant <- Plants
  Readings <- PlantReadings
  Choices <- PlantChoices
  Exercises <- PlantExercises
  Remote = {"offers", "dump", "frost"}
  Updated = {"dump", "frost", "checks"}
  Diagnosed = {"checks"}
  AgeCap = 3
  Steps = {1, 2}
VIEW Shown
SPECIFICATION Spec
INVARIANT HotBoilerIsCooled
INVARIANT RoomDoesItsPart
PROPERTY AnswersCount
