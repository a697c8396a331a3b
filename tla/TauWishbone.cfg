\* Words of one bit, and a ring of one slot.
CONSTANTS
  WordCount = 2
  WordValues = {0, 1}
  Decisions <- WordVectors
  LogDepth = 1
  SeqMod = 2
  MaxWrites = 2
  Undefined = Undefined
SPECIFICATION WbSpec
INVARIANTS BusIsTruthful
CHECK_DEADLOCK FALSE
