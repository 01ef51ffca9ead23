------------------------------ MODULE MCRouter ------------------------------
(* Small instances of Router for TLC. *)
EXTENDS Router, TLC

\* A single replica.
OneStable == <<"stable">>

\* Two replicas of the stable group.
TwoStable == <<"stable", "stable">>

\* Two replicas of the stable group and a canary.
TwoStableAndCanary == <<"stable", "stable", "canary">>

\* Requests are interchangeable: no definition tells one from another.
RequestSymmetry == Permutations(Requests)

=============================================================================
