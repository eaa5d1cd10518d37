\* Numbers and big numbers, of any length.
SPECIFICATION FairSpec
CONSTANTS
  BIGNUM = TRUE
  VALIDATE_UTF8 = TRUE
  INT_MAX = 127
  FRAC_MODULUS = 256
  Alphabet <- NumberBytes
  MaxBuffer = 2
  MaxFraction = 1
  NULL = NULL
INVARIANTS
  IntFits
  CleanAccumulators
  ExponentsInTable
  BignumChunkBytes
  ChunkPointsIntoBuffer
PROPERTIES
  FailedPushKeepsLexer
  OverflowOnlyNearLimit
  PushReturns
  LoopMakesProgress
