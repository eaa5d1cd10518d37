\* embedjson_lint's growth 0, 1, 3, 7, 15, 31, 63: 504 brackets fit 63 bytes.
SPECIFICATION Spec
CONSTANTS
  DYNAMIC_STACK = TRUE
  InitialCapacity = 0
  Capacities <- LintCapacities
  Brackets = {1}
  MaxDepth = 600
  Grow <- LintGrowth
  Garbage <- ZeroedMemory
INVARIANT InBounds
