SPECIFICATION Spec
CONSTANTS
  Threads = {t1, t2}
  Devices = {1, 2}
  Users = {1}
  UserOf <- OneUser
  Contents = {c1}
  MaxSeconds = 4
  Asserts = FALSE
  SendFails = TRUE
  Repeats = FALSE
  SameSecond = FALSE
INVARIANT NoEndedConnections
\* a dead process has no next step
CHECK_DEADLOCK FALSE
