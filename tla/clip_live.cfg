SPECIFICATION FairSpec
CONSTANTS
  Threads = {t1, t2}
  Devices = {1, 2}
  Users = {1}
  UserOf <- OneUser
  Contents = {c1}
  MaxSeconds = 3
  Asserts = FALSE
  SendFails = FALSE
  Repeats = FALSE
  SameSecond = FALSE
PROPERTY LockIsReleased
PROPERTY SlotIsReused
\* a dead process has no next step
CHECK_DEADLOCK FALSE
