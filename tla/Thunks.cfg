SPECIFICATION Spec
CONSTANTS
  Threads = {t1, t2, t3}
  NoEntry = NoEntry
SYMMETRY Symmetry
INVARIANTS
  CallsReachNamesake
CHECK_DEADLOCK FALSE
