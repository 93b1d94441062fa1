---------------------------- MODULE MCProposals ----------------------------
(* Two proposals of one agent. *)
EXTENDS Proposals, TLC

CONSTANTS p1, p2, g1, op1, op2, s1, s2, u1, u2, k1

OneAgent == [p \in Props |-> g1]

\* For two operations, which share the agent's budget, or for one.
TwoOps == [p \in Props |-> IF p = p1 THEN op1 ELSE op2]
OneOp == [p \in Props |-> op1]

=============================================================================
