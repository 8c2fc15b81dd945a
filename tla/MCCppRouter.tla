---------------------------- MODULE MCCppRouter ----------------------------
(* Instances of CppRouter for TLC.                                         *)
EXTENDS CppRouter

\* What the application does in each instance.
Everything == AppCalls
=============================================================================
