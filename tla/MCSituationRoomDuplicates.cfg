CONSTANTS
  Raised = Raised
  NoIndex = NoValue
  NoValue = NoValue
  Unknown = Unknown
  NoAnswer = NoAnswer
  Missing = Missing
  Refused = Refused
  None = None
  Places <- Stations
  Observations <- MCObservations
  Indices <- MCIndices
  Plans <- MCPlans
  Tolerance = {"low", "medium", "high"}
  MaxRecommendations = 3
  Scores <- MCScores
  Measurements <- MCMeasurements
  NoField = NoField
  FormulaError = FormulaError
  Nodes <- MCNodes
  FactLines <- MCFactLines
  FormulaLines <- MCFormulaLines
  Shown = {"debt"}
  MaxLines = 3
  Debounce = 2
  MaxTime = 4
  writer1 = writer1
  writer2 = writer2
  ScenarioNames = {"NORMAL", "CRISIS"}
  Writers = {writer1, writer2}
  Payloads <- MCPayloads
  Tools = {"trustlog", "decision"}
  Bad = Bad
  Idle = Idle
  MaxRecords = 3
  MaxCrashes = 1
  MaxTests = 2
SPECIFICATION MCSpec
INVARIANT DuplicatesAreRefused
CHECK_DEADLOCK FALSE
