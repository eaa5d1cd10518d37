\* lexer.c, 427-437: integers on both sides of the limit of a type of 16 bits.
SPECIFICATION RSpec
CONSTANTS
  BIGNUM = TRUE
  VALIDATE_UTF8 = TRUE
  INT_MAX = 32767
  FRAC_MODULUS = 256
  Alphabet <- LimitBytes
  Inputs <- LimitInputs
  MaxBuffer = 2
  MaxFraction = 0
  NULL = NULL
INVARIANT IntegersAreDelivered
