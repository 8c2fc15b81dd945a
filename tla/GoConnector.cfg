CONSTANTS
  r1 = r1
  r2 = r2
  r3 = r3
  Readers = {r1, r2, r3}
  Closer = closer
  Goroutines = {r1, r2, r3, closer}
  Pipe = pipe
  Handles = {pipe}
  WaitChan = waitChan
  Chans = {waitChan}
  None = None
  RequestCap = 2
  Loads <- MCLoads
  MaxWaits = 4
SPECIFICATION FairSpec
INVARIANTS
  PipeUsedOpen
  NoSpuriousError
PROPERTIES
  ServersReturnOrBlock
