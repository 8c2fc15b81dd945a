SPECIFICATION LiveSpec
CONSTANTS
    App = App
    Shell = Shell
    NoConn = NoConn
    p1 = p1
    s1 = s1
    s2 = s2
    Providers <- MCProviders
    Services <- MCServices
    FallbackNames = {"strong"}
    Kinds <- MCKinds
    NameSets <- MCNameSets
    MaxCalls = 1
INVARIANTS
  WaitsMatchHandlers
  ImplsLiveWithBindings
PROPERTIES
  QuitsEventually
CHECK_DEADLOCK FALSE
