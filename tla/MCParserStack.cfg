\* A dynamic stack that starts without memory and grows to two bytes.
SPECIFICATION Spec
CONSTANTS
  DYNAMIC_STACK = TRUE
  InitialCapacity = 0
  Capacities <- UpToTwoBytes
  Brackets = {0, 1}
  MaxDepth = 10
  Grow <- AnyGrowth
  Garbage <- SomeGarbage
INVARIANTS
  TypeOK
  InBounds
PROPERTY ImplementsLifo
