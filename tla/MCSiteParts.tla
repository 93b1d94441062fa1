---------------------------- MODULE MCSiteParts -----------------------------
(* Components of a site and its nodes that share no state here, checked in  *)
(* one run: the component in focus is chosen at the start and only it moves, *)
(* so the states explored are the union of what each reaches by itself.      *)
EXTENDS MCSiteApprovals, MCSiteIncidents, MCSuppression, ClaimMesh, Playbooks

VARIABLE focus

Parts == {"approvals", "incidents", "suppression", "mesh", "playbooks"}

SiteInit ==
    /\ focus \in Parts
    /\ Init /\ IInit /\ SInit /\ MInit /\ YInit

SiteNext ==
    /\ focus' = focus
    /\ \/ focus = "approvals" /\ Next /\ UNCHANGED <<ivars, svars, mvars, ybvars>>
       \/ focus = "incidents" /\ INext /\ UNCHANGED <<vars, svars, mvars, ybvars>>
       \/ focus = "suppression" /\ SNext /\ UNCHANGED <<vars, ivars, mvars, ybvars>>
       \/ focus = "mesh" /\ MNext /\ UNCHANGED <<vars, ivars, svars, ybvars>>
       \/ focus = "playbooks" /\ YNext /\ UNCHANGED <<vars, ivars, svars, mvars>>

SiteSpec ==
    SiteInit /\ [][SiteNext]_<<focus, vars, ivars, svars, mvars, ybvars>>

=============================================================================
