\* Lexer and parser together, self-checks and big numbers on.
SPECIFICATION TSpec
CONSTANTS
  DEBUG = TRUE
  BIGNUM = TRUE
  DYNAMIC_STACK = FALSE
  VALIDATE_UTF8 = TRUE
  STATIC_STACK_SIZE = 1
  INT_MAX = 127
  FRAC_MODULUS = 256
  Alphabet <- AllBytes
  Shapes <- JsonShapes
  MaxBuffer = 2
  MaxFraction = 2
  MaxNesting = 8
  NULL = NULL
INVARIANTS
  LexerKeepsProtocol
  CallbacksSpellInput
  AcceptedIsSpelledOut
PROPERTY ImplementsParser
