CONSTANTS
  Seeds = {s1, s2}
  Coeffs = 2
  Entries = 2
  Undefined = Undefined
  MaxStarts = 2
  MaxResets = 1
SPECIFICATION FairSpec
INVARIANT KeyPairCorrect
PROPERTIES ImplementsOperation RunsEnd
