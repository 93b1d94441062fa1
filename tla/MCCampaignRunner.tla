-------------------------- MODULE MCCampaignRunner --------------------------
(* Two devices of one site, with two possible plans. *)
EXTENDS CampaignRunner

CONSTANTS d1, d2, s1

OneSiteOf == [d \in Devices |-> s1]
OneRank == [s \in Sites |-> 1]

\* One device after the other, or both in one wave.
InTurn == [d \in Devices |-> IF d = d2 THEN 2 ELSE 1]
Together == [d \in Devices |-> 1]
Plans == {InTurn, Together}

Permitted == {[d \in Devices |-> "permits"]}

=============================================================================
