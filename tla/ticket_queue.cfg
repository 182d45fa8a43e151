SPECIFICATION FairSpec
CONSTANTS
  Producers = {p1, p2}
  Consumers = {c1, c2}
  N = 2
  Production = 3
  Triers = {p1, c1}
INVARIANT Turns
INVARIANT SlotExclusive
PROPERTY FifoSpec
PROPERTY Terminates
\* main() ends
CHECK_DEADLOCK FALSE
