\* Every feature and the self-checks on; a static stack of one byte.
SPECIFICATION Spec
CONSTANTS
  DEBUG = TRUE
  BIGNUM = TRUE
  DYNAMIC_STACK = FALSE
  STATIC_STACK_SIZE = 1
  MaxNesting = 9
INVARIANTS
  TypeOK
  StackMatchesState
  DebugStopsWhenInvalid
PROPERTIES
  FollowsDiagramButEmptyArrays
  ImplementsSaxStream
