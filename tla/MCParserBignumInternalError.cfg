\* common.h: EMBEDJSON_INTERNAL_ERROR "should never happen".
SPECIFICATION Spec
CONSTANTS
  DEBUG = TRUE
  BIGNUM = TRUE
  DYNAMIC_STACK = FALSE
  STATIC_STACK_SIZE = 1
  MaxNesting = 3
INVARIANT NoInternalError
