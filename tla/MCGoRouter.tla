--------------------------- MODULE MCGoRouter --------------------
(* Instances of GoRouter for TLC. *)
EXTENDS GoRouter
=============================================================================
