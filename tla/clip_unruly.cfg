SPECIFICATION GroupSpec
CONSTANTS
  Threads = {t1, t2}
  Devices = {1, 2}
  Users = {1}
  UserOf <- OneUser
  Contents = {c1}
  MaxSeconds = 3
  Asserts = FALSE
  SendFails = TRUE
  Repeats = TRUE
  SameSecond = FALSE
  ImageSize = 2
  MaxFrames = 2
  MaxUnits = 3
  MaxBurst = 2
  MaxObjects = 3
  Senders = {"a", "b"}
  MaxSends = 2
  MaxContents = 4
  SocketObjects = {"a", "b"}
  Descriptors = {3, 4}
  Errors = {11}
  MaxSize = 2
  InputKeys = {1, 2}
  MaxQueue = 2
SYMMETRY Symmetry
INVARIANT TablesAgree
INVARIANT PendingOnlyUncached
INVARIANT StreamsAreIntact
INVARIANT OthersAreFollowed
\* a dead process has no next step
CHECK_DEADLOCK FALSE
