SPECIFICATION Spec
CONSTANTS
  Callables = {f, g}
  Ids = {a, b}
  NoId = NoId
  NoCallable = NoCallable
  MaxObjects = 5
  MaxDepth = 5
SYMMETRY Symmetry
INVARIANTS
  RunningCallbacksExist
  PythonReferencesCounted
