--------------------------- MODULE MCPythonWaiter ---------------------------
(* Two functions and two handler addresses, so that an address is reused    *)
(* while the other one is in use, and nested runs of the loop.              *)
EXTENDS PythonWaiter, TLC

Symmetry == Permutations(Ids) \cup Permutations(Callables)
============================================================================
