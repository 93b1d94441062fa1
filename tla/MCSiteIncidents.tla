-------------------------- MODULE MCSiteIncidents ---------------------------
(* Two devices with a power supply each, in one power domain, behind one     *)
(* switch and of one component model.                                        *)
EXTENDS SiteIncidents

CONSTANTS n1, n2

MCUnits == {<<n1, "psu">>, <<n2, "psu">>}
MCSiteOf == [n \in Nodes |-> "site"]
MCKindOf == [c \in RuleScopes |-> CASE c = "pdu"   -> "power"
                                    [] c = "model" -> "batch"
                                    [] c = "tor"   -> "network"]
\* The rule on a switch groups silent devices, not their faults.
MCUnitsOf == [c \in RuleScopes |-> IF c = "tor" THEN {} ELSE Units]
MCNodesOf == [c \in RuleScopes |-> Nodes]

=============================================================================
