---------------------------- MODULE MCApplication ----------------------------
(* Instances of Application: two services of different kinds.              *)
EXTENDS Application, TLC
CONSTANTS p1, s1, s2

MCProviders == {p1}
MCServices == {s1, s2}
MCNameSets == {{"set"}, {"strong", "set", "strong_set"}}
MCKinds == {(s1 :> "strong") @@ (s2 :> "strong_set"), (s1 :> "set") @@ (s2 :> "strong_set")}
=============================================================================
