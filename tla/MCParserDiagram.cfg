\* doc/syntax-parser-fsm.dot taken literally.
SPECIFICATION Spec
CONSTANTS
  DEBUG = FALSE
  BIGNUM = FALSE
  DYNAMIC_STACK = FALSE
  STATIC_STACK_SIZE = 1
  MaxNesting = 3
PROPERTY FollowsDiagram
