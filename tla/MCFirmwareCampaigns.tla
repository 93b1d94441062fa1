------------------------ MODULE MCFirmwareCampaigns ------------------------
(* Instances of FirmwareCampaigns for TLC. *)
EXTENDS FirmwareCampaigns

CONSTANTS v1, v2, c1, o1

\* Two devices of one fault domain: a campaign over both has two waves.
MCOrder == <<v1, v2>>
MCDomains == {{v1, v2}}

\* Central Command dispatches nothing here.
MCNone == [r \in {} |-> r]

=============================================================================
