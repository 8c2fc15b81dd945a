CONSTANTS
  MaxHandles = 4
  MaxEnds = 3
  Capacity = 1
  Isolates = {i1, i2}
  Sizes = {0, 1}
  Flags = {TRUE}
  MaxObjects = 2
  MaxMessages = 2
SPECIFICATION Spec
SYMMETRY IsolateSymmetry
VIEW state
INVARIANTS
  HandlesTold
  MemoryHasOwner
  ReadStaysInBuffer
CHECK_DEADLOCK FALSE
