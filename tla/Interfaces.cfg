SPECIFICATION Spec
CONSTANTS
    p1 = p1
    p2 = p2
    h1 = h1
    q1 = q1
    b1 = b1
    Ptrs <- MCPtrs
    Infos <- MCInfos
    Requests <- MCRequests
    Bindings <- MCBindings
    Versions <- MCVersions
    MaxPipes = 2
    MaxMessages = 3
    MaxTogether = 4
INVARIANTS
    OneOwner
    ResponsesFindCallers
    UnsupportedCallsIgnored
SYMMETRY Symmetry
CHECK_DEADLOCK FALSE
