CONSTANTS
  NoHandle = NoHandle
  Handles = {h1}
  Deadlines = {0, 1, 9}
  MaxTicks = 3
  MaxId = 2
  MaxDepth = 2
  InitialResults = 1
  MaximumResults = 2
SPECIFICATION FairSpec
INVARIANTS
  DestroyedNotifiesAll
  NothingForgotten
PROPERTIES
  NoEarlyTimeout
  CalledAtMostOnce
  TasksEventuallyRun
