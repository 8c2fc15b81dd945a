----------------------------- MODULE MCDartNatives -----------------------------
(* Instances of DartNatives for TLC. *)
EXTENDS DartNatives, TLC

IsolateSymmetry == Permutations(Isolates)
================================================================================
