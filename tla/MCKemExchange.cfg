SPECIFICATION Spec
CONSTANTS
  N = 16
  Q = 193
  ZETA = 3
  LogHalfN = 3
  CoeffBits = 8
  K_dim = 2
  ETA1 = 2
  ETA2 = 1
  DU = 6
  DV = 4
  Nibble = 6
  XofBytes = 36
  Exhausted = Exhausted
  Xof <- MCXof
  Prf <- MCPrf
  Seeds <- MCSeeds
  Rejections <- MCRejections
  Messages <- MCMessages
  Factors <- MCFactors
  MaxTerms = 2
  FlippedBits <- MCFlippedBits
  Rounds <- MCRounds
  Candidates4 <- MCCandidates4
  Inputs <- MCInputs
  StateBytes = 6
  LaneBytes = 2
  BlockBytes = 4
  Permute <- MCPermute
  HashedBytes <- MCHashedBytes
  MaxMessage = 5
  Rates = {2, 3, 4}
  DomainSuffixes = {6, 31}
  OutLengths = {0, 2, 4, 7}
INVARIANTS
  SecretsAgree
  AlteredIsRejected
  PartsAreExact
  BanksComputeTransform
CHECK_DEADLOCK FALSE
