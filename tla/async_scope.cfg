SPECIFICATION FairSpec
CONSTANTS
  Main = main
  Tasks = {1, 2, 3, 4}
  Parent <- NestedScopes
  Workers = {w1, w2}
INVARIANT ScopesAreSafe
PROPERTY JoinReturnsUnlessMissed
PROPERTY QueuedTasksRun
PROPERTY MainEnds
\* main() may end, or wait for ever for a task that missed it
CHECK_DEADLOCK FALSE
