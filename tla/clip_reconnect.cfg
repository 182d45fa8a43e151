SPECIFICATION Spec
CONSTANTS
  Threads = {t1, t2}
  Devices = {1, 2}
  Users = {1}
  UserOf <- OneUser
  Contents = {c1}
  MaxSeconds = 4
  Asserts = FALSE
  SendFails = FALSE
  Repeats = TRUE
  SameSecond = FALSE
INVARIANT NotifyReachesConnected
\* a dead process has no next step
CHECK_DEADLOCK FALSE
