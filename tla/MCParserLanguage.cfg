\* Self-checks on, no big numbers; the stack is deep enough for every input.
SPECIFICATION LSpec
CONSTANTS
  DEBUG = TRUE
  BIGNUM = FALSE
  DYNAMIC_STACK = FALSE
  STATIC_STACK_SIZE = 2
  MaxNesting = 10
  MaxTokens = 10
INVARIANTS
  AcceptsOnlyDocuments
  NoInternalError
  RefusesOnlyNonDocuments
