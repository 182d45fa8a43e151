SPECIFICATION GroupSpec
CONSTANTS
  Threads = {t1, t2}
  Devices = {1, 2}
  Users = {1}
  UserOf <- OneUser
  Contents = {c1}
  MaxSeconds = 4
  Asserts = FALSE
  SendFails = FALSE
  Repeats = FALSE
  SameSecond = FALSE
  Functions = {"f", "g"}
  MaxTargets = 2
  SignalObjects = {"s", "t"}
  SlotObjects = {"p"}
  Handles = {0, 1}
  MaxHandlers = 1
  Managers <- TypeLists
  Extends <- Extended
  Connections = {"c1", "c2"}
  Messages = {"9"}
  MaxEmitters = 2
  Holders = {"x", "y"}
  Functors = {"f", "g", "k"}
  MaxDelegates = 3
  Objects = {"0", "1"}
  Wanted <- Wishes
  NoWish = "-"
  MaxObservers = 3
  Calls = {"a", "b", "c"}
  Actors = {"s", "t"}
  Fibers = {"f", "g"}
  HostOf <- EachItsOwn
  Works = 2
  MaxPosts = 4
SYMMETRY Symmetry
INVARIANT NotifyReachesConnected
INVARIANT OnlyOfTheConnected
INVARIANT HandlersAreFound
INVARIANT CalleesAreThere
PROPERTY StuckForGood
\* a dead process has no next step
CHECK_DEADLOCK FALSE
