\* Strings, escapes, literals and numbers against the reference; UTF-8.
SPECIFICATION RSpec
CONSTANTS
  BIGNUM = FALSE
  VALIDATE_UTF8 = TRUE
  INT_MAX = 2147483647
  FRAC_MODULUS = 1000000000
  Alphabet <- AllBytes
  Inputs <- AllInputs
  MaxBuffer = 3
  MaxFraction = 8
  NULL = NULL
INVARIANTS
  TypeOK
  ChunkPointsIntoBuffer
  TokensDoNotDependOnBuffers
  AllTokensAtEnd
PROPERTY CornerCasesEnforced
