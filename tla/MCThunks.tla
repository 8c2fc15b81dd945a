------------------------------ MODULE MCThunks ------------------------------
(* The tables at their real size, in three versions on either side.         *)
EXTENDS Thunks

Symmetry == Permutations(Threads)
============================================================================
