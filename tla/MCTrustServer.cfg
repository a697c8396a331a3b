CONSTANTS
  d1 = d1
  d2 = d2
  Devices = {d1, d2}
  good = good
  new = new
  Values = {good, new}
  Missing = Missing
  None = None
  Torn = Torn
  Ttl = 1
  AllowFirstSeen = TRUE
  OldRegistries <- MCOldRegistries
  MaxNonces = 2
  MaxTime = 1
  MaxCrashes = 1
SPECIFICATION Spec
SYMMETRY Symmetry
INVARIANTS PassesAreEarned RegistryIsKept
PROPERTY ImplementsChallenge
CHECK_DEADLOCK FALSE
