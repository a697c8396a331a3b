CONSTANTS
  x1 = x1
  x2 = x2
  Inputs = {x1, x2}
  Fate <- TwoFates
  K = 2
  L = 2
  Coeffs = 2
  Undefined = Undefined
  Mixed = Mixed
  MaxStarts = 2
  MaxResets = 1
  N = 3
  Tau = 2
  SignBytes = 1
  XofBytes = 4
  Sampled = 2
  Candidates = 4
  Values = {v1, v2}
  TooLarge = TooLarge
SPECIFICATION MCSpec
INVARIANTS SignatureCorrect SamplesCorrect
PROPERTIES ImplementsOperation AllRunsEnd
