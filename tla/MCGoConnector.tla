--------------------------- MODULE MCGoConnector --------------------
(* Instances of GoConnector for TLC. *)
EXTENDS GoConnector

CONSTANTS r1, r2, r3

\* Two servers and messages to serve, or three and none.
MCLoads ==
  {[servers |-> {r1, r2}, messages |-> 2],
   [servers |-> {r1, r2, r3}, messages |-> 0]}
=============================================================================
