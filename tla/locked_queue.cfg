SPECIFICATION GroupSpec
CONSTANTS
  Producers = {p1, p2, p3}
  Consumers = {c1, c2, c3}
  Items = {i1, i2}
  NoItem = NoItem
  Bound = 2
  i1 = i1
  i2 = i2
  Writers = {w1, w2}
  Readers = {r1, r2}
  Batches <- Vectors
  Cap = 4
  Clients = {w1, w2}
  MaxCalls = 4
  Ids = {1, 2}
  MaxPackets = 3
INVARIANT WakeupsSuffice
INVARIANT AnsweredOnce
PROPERTY FifoSpec
PROPERTY NobodyOversleeps
PROPERTY OneQueue
PROPERTY ReaderWakes
PROPERTY RequestsAreAnswered
\* a program ended by an exception has no next step
CHECK_DEADLOCK FALSE
