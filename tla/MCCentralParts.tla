--------------------------- MODULE MCCentralParts ---------------------------
(* Governance of actions that share no state here, checked in               *)
(* one run: the component in focus is chosen at the start and only it moves, *)
(* so the states explored are the union of what each reaches by itself.      *)
EXTENDS MCProposals, MCOperationalAgents, MCScopeGrants, MCAgentActions, SupportAccess

CONSTANTS e1, e2, tab1, tab2

VARIABLE focus

Parts == {"proposals", "agent", "grants", "node", "support"}

CentralInit ==
    /\ focus \in Parts
    /\ PInit /\ OInit /\ GInit /\ Init /\ SAInit
    \* A component that is not in focus starts in one of its initial states.
    /\ focus # "agent" => config = c1
    /\ focus # "grants" => mode = "strict"

CentralNext ==
    /\ focus' = focus
    /\ \/ focus = "proposals" /\ PNext /\ UNCHANGED <<ovars, gvars, vars, savars>>
       \/ focus = "agent" /\ ONext /\ UNCHANGED <<pvars, gvars, vars, savars>>
       \/ focus = "grants" /\ GNext /\ UNCHANGED <<pvars, ovars, vars, savars>>
       \/ focus = "node" /\ Next /\ UNCHANGED <<pvars, ovars, gvars, savars>>
       \/ focus = "support" /\ SANext /\ UNCHANGED <<pvars, ovars, gvars, vars>>

CentralSpec ==
    CentralInit /\ [][CentralNext]_<<focus, pvars, ovars, gvars, vars, savars>>

\* Requests differ in their names only, and so do the replicas' passes.
Interchangeable ==
    Permutations(Requests) \cup Permutations(Passes) \cup Permutations(Tabs)

=============================================================================
