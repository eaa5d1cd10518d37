\* lexer.c, 457 and 471: a fraction of 324 digits.
SPECIFICATION Spec
CONSTANTS
  BIGNUM = FALSE
  VALIDATE_UTF8 = TRUE
  INT_MAX = 127
  FRAC_MODULUS = 1
  Alphabet <- FractionBytes
  MaxBuffer = 1
  MaxFraction = 324
  NULL = NULL
INVARIANT PowersInTable
