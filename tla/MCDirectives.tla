---------------------------- MODULE MCDirectives ----------------------------
(* Instances of Directives for TLC. *)
EXTENDS Directives, TLC

CONSTANTS r1, r2, r3, r4, v1, v2, k1, reboot

\* Two sends of one proposal, a third that names another device under the
\* same proposal, and one send that belongs to no proposal.
MCReqKey == [r \in Requests |-> IF r = r4 THEN NoKey ELSE k1]
MCReqDevice == [r \in Requests |-> IF r = r3 THEN v2 ELSE v1]
MCReqKind == [r \in Requests |-> reboot]

=============================================================================
