-------------------------- MODULE MCExecutionGate --------------------------
(* Instances of ExecutionGate for TLC. *)
EXTENDS ExecutionGate, TLC

CONSTANTS h1, g1

\* One action a human approved and one under an autonomy grant.
MCBasis == (h1 :> "human_approval") @@ (g1 :> "autonomous_grant")
MCRisk == (h1 :> "low") @@ (g1 :> "medium")

=============================================================================
