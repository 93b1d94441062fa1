--------------------------- MODULE MCAgentActions ---------------------------
(* Instances of AgentActions for TLC. *)
EXTENDS AgentActions, TLC

CONSTANTS a1, a2, a3, fan, drift, o1, o2

\* Two attempts at one sensor fault and one drift remediation.
MCFaultOf == (a1 :> fan) @@ (a2 :> fan) @@ (a3 :> drift)

\* One sensor fault.
MCFaultOfOne == (a1 :> fan)

=============================================================================
