----------------------------- MODULE MCInterfaces -----------------------------
(* Instances of Interfaces: the program's variables as model values.       *)
EXTENDS Interfaces, TLC
CONSTANTS p1, p2, h1, q1, b1

MCPtrs == {p1, p2}
MCInfos == {h1}
MCRequests == {q1}
MCBindings == {b1}
MCVersions == {1}
Symmetry == Permutations(MCPtrs)
=============================================================================
