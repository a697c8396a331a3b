CONSTANTS
  TimeoutDefault = 1
  MaxTimeout = 1
  MaxStarts = 2
  UsedOps = {"keygen", "decaps", "encaps"}
  Configs = {}
  Discipline = "done"
SPECIFICATION IntFairSpec
INVARIANTS LogTellsTheTruth DoneMeansDone
PROPERTY NobodyIsLeftWaiting
CHECK_DEADLOCK FALSE
