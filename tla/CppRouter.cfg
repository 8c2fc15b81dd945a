CONSTANTS
  AppMay <- Everything
  PeerSends = {"request", "one_way", "malformed"}
  PeerMayClose = TRUE
  MaxMessages = 2
  MaxRequests = 2
  MaxDepth = 3
SPECIFICATION FairSpec
INVARIANTS
  NeverRunsDestroyed
  RespondersDeletedOnce
  DropClosesPipe
PROPERTIES
  CloseIsNoticed
CHECK_DEADLOCK FALSE
