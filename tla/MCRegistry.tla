----------------------------- MODULE MCRegistry -----------------------------
(* Small instances of Registry for TLC. *)
EXTENDS Registry, TLC

CONSTANTS v1, v2, d1, o1, o2

\* One version names a deployment, the other was registered without one.
OneDeployed == (v1 :> d1) @@ (v2 :> NoDeployment)

\* Both versions name the same deployment.
BothDeployed == (v1 :> d1) @@ (v2 :> d1)

=============================================================================
