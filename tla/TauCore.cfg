CONSTANTS
  Sentinel = sentinel
  Decisions = {d1, sentinel}
  LogDepth = 2
  SeqMod = 4
  MaxWrites = 4
  Undefined = Undefined
  TimeoutDefault = 1
  MaxTimeout = 2
SPECIFICATION MonitorSpec
INVARIANTS
  RingHoldsTail
  OutputsMatchLog
  TimeoutReachesChain
  EntriesAreAttributed
PROPERTIES
  ImplementsJournal
  DegradedOnlyBySilence
  SilenceIsLogged
