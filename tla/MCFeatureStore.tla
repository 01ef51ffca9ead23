--------------------------- MODULE MCFeatureStore ---------------------------
(* A small instance of FeatureStore for TLC. *)
EXTENDS FeatureStore, TLC

CONSTANTS r1, r2, r3, p1, p2, seedUser, seedUser2, newUser

TwoSeedUsers == <<seedUser, seedUser2>>

Symmetry == Permutations(Requests) \cup Permutations(Replicas)

=============================================================================
