--------------------------- MODULE MCScopeGrants ----------------------------
(* Two people, one of them the tenant's founder. *)
EXTENDS ScopeGrants

CONSTANTS ann, bob

=============================================================================
