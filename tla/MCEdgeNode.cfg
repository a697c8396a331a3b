CONSTANTS
  Absent = Absent
  Torn = Torn
  None = None
  NoFrame = NoFrame
  Readings <- MCReadings
  Brightness = {0, 4}
  Voltages = {50}
  MockLevels = {0}
  MaxUpdates = 2
  MaxNonces = 2
  MaxCrashes = 1
SPECIFICATION FairSpec
INVARIANTS DecisionBelongsToInputs OneIdentity PassIsCurrent
PROPERTIES BaselinesServeAll AttestationReports
CHECK_DEADLOCK FALSE
