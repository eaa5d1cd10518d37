\* lexer.c, 259-323: the characters of a string.
SPECIFICATION RSpec
CONSTANTS
  BIGNUM = FALSE
  VALIDATE_UTF8 = TRUE
  INT_MAX = 127
  FRAC_MODULUS = 256
  Alphabet <- CharacterBytes
  Inputs <- CharacterInputs
  MaxBuffer = 2
  MaxFraction = 0
  NULL = NULL
INVARIANT Utf8IsValidated
