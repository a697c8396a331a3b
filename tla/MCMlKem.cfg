CONSTANTS
  k1 = k1
  k2 = k2
  m1 = m1
  m2 = m2
  Keys = {k1, k2}
  Messages = {m1, m2}
  Inputs <- TwoInputs
  Coeffs = 2
  Entries = 2
  Undefined = Undefined
  Mixed = Mixed
  MaxStarts = 2
  MaxResets = 1
SPECIFICATION MCSpec
INVARIANTS ResultsCorrect
PROPERTIES AreOperations CallsFindRest RunsEnd
