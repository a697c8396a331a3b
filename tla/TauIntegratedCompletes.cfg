CONSTANTS
  TimeoutDefault = 1
  MaxTimeout = 1
  MaxStarts = 1
  UsedOps = {"keygen"}
  Configs = {}
  Discipline = "done"
SPECIFICATION IntSpec
INVARIANT InterruptedNeverCompletes
CHECK_DEADLOCK FALSE
