SPECIFICATION GroupSpec
CONSTANTS
  Receivers = {r1, r2}
  MaxFaults = 1
  MaxEvents = 2
  MaxTimers = 1
  Callers = {1, 2}
  Contents = {1}
  MaxAttempts = 2
  WindowsFaults = 2
  MaxCalls = 3
  MaxTasks = 4
  MaxQueues = 2
  QueueEvents = 2
  MaxLost = 1
  Texts = {"a", "b"}
  MaxClips = 2
  MaxMade = 3
  MaxStarts = 2
  Ids <- FourIds
  Accepted = {"Jack", "Jill", "arcticfox"}
INVARIANT ReconnectingIsKept
 
INVARIANT QueueIsShared
INVARIANT ClipsGoOneWay
INVARIANT SharedWhileInProgress
PROPERTY RecoversUnlessStuck
PROPERTY BlockedOnlyIfStuck
 
PROPERTY EventsAreFetched
PROPERTY QuitsOnceOneIsComplete
\* a crashed application has no next step
CHECK_DEADLOCK FALSE
