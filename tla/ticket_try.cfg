SPECIFICATION Spec
CONSTANTS
  Producers = {p1, p2}
  Consumers = {c1, c2}
  N = 2
  Production = 3
  Triers = {p1, c1}
INVARIANT TryIsWaitFree
CHECK_DEADLOCK FALSE
