CONSTANTS
  Goroutines = {g1, g2}
  Cancellers = {g1}
  Chans = {g1, g2}
  Handles = {g1, g2}
  HandlesOf <- Own
  RequestCap = 1
  MaxWaits = 4
SPECIFICATION FairSpec
INVARIANTS
  NoLostWakeup
  ResponseIsForMyWait
PROPERTIES
  ImplementsWaiter
