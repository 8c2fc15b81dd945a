CONSTANTS
  h1 = h1
  h2 = h2
  p1 = p1
  p2 = p2
  Handles = {h1, h2}
  ControlHandle = control
  MOJO_HANDLE_INVALID = invalid
  Ports = {p1, p2}
  ILLEGAL_PORT = noPort
  Commands <- WatchCommands
  Stoppers = {s1, s2}
  StopAllCallers = {s2}
  MaxMoves = 4
  MaxUnread = 1
  MaxQueued = 1
  MaxTime = 1
  DeadlineRange = 100
SPECIFICATION Spec
INVARIANTS PostsAreTrue
PROPERTIES DueIsReported CloseAnswered StopReturns
CHECK_DEADLOCK FALSE
