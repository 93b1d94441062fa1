-------------------------- MODULE MCSiteApprovals --------------------------
(* Instances of SiteApprovals for TLC. *)
EXTENDS SiteApprovals, TLC

CONSTANTS a1, a2, v1, v2, o1, o2, h1

\* Two devices of one fault domain with one action each.
MCDeviceOf == (a1 :> v1) @@ (a2 :> v2)
MCDomains == {{v1, v2}}

\* One device that makes up a fault domain, with both actions: they are
\* interchangeable.
MCDeviceOfSame == (a1 :> v1) @@ (a2 :> v1)
MCDomainOfOne == {{v1}}
MCActionsAlike == Permutations({a1, a2})

\* One device outside every fault domain.
MCDeviceOfOne == (a1 :> v1)

=============================================================================
