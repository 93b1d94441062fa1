----------------------------- MODULE ClaimMesh -----------------------------
(***************************************************************************)
(* Ownership of the investigation of one device among its peers            *)
(* (autonomy/claim_manager.py, claim_exchange.py, peer_protocol.py): every *)
(* node judges the claims it hears by itself.                              *)
(*                                                                         *)
(* UDP and the retries of ClaimExchange deliver a broadcast claim to a     *)
(* peer never, once or several times, at any time: the inbound buffer      *)
(* forgets a claim as soon as it is processed, so a repeat is judged       *)
(* again.  Nodes are numbered in the order of their agent ids.             *)
(***************************************************************************)
EXTENDS Integers, FiniteSets

CONSTANTS
    Peers,      \* agent ids, as numbers
    MaxClaims,  \* bound on the claims of one node
    Vacant      \* no claim

ASSUME ClaimMeshAssumption ==
    /\ Peers \subseteq Nat /\ IsFiniteSet(Peers)
    /\ MaxClaims \in Nat
    /\ Vacant \notin Peers \X Nat

VARIABLES
    holds,      \* _active_claims[subject] at each node
    expired,   \* nodes whose lease on it is over, not yet seen by tick
    evidence,  \* evidence_accumulated of that lease
    heirloom,  \* _lapsed_evidence[subject]
    resolved,  \* nodes for which the subject is in _resolved
    wire,      \* claims broadcast so far
    seq,       \* _claim_seq
    \* Observations; no action reads them.
    heard,     \* the claims a node has judged
    calm,      \* nodes where no lease has lapsed and nothing was resolved
    bequest    \* the evidence of the last lapse, until a better claim evicts it

mvars == <<holds, expired, evidence, heirloom, resolved, wire, seq, heard, calm, bequest>>

Claims == Peers \X (1..MaxClaims)
Owner(c) == IF c = Vacant THEN 0 ELSE c[1]

\* Mutant: who is heard first keeps the claim.
WinsNever(c, over) == FALSE

\* deterministic_tiebreak, for a claim that arrives over an active one.
Wins(c, over) == c[1] < over[1]

\* Mutant: a takeover before the tick starts afresh.
InheritedByTick(n) == IF holds[n] = Vacant THEN heirloom[n] ELSE {}

\* What an accepted claim inherits: the evidence tick put aside, or that of a
\* lapsed lease tick has not seen; nothing from a claim it beats.
Inherited(n) ==
    IF holds[n] = Vacant THEN heirloom[n]
    ELSE IF n \in expired THEN evidence[n] ELSE {}

\* process_claim: "accepted" or "superseded".
Accepts(n, c) ==
    /\ n \notin resolved
    /\ holds[n] = Vacant \/ n \in expired \/ Wins(c, holds[n])

\* process_claim and _accept_claim.
Process(n, c) ==
    /\ heard' = [heard EXCEPT ![n] = @ \cup {c}]
    /\ IF Accepts(n, c)
       THEN /\ holds' = [holds EXCEPT ![n] = c]
            /\ expired' = expired \ {n}
            /\ evidence' = [evidence EXCEPT ![n] = {c} \cup Inherited(n)]
            /\ heirloom' = IF holds[n] = Vacant THEN [heirloom EXCEPT ![n] = {}] ELSE heirloom
            /\ bequest' = [bequest EXCEPT ![n] =
                 IF holds[n] = Vacant THEN @ ELSE IF n \in expired THEN evidence[n] ELSE {}]
       ELSE UNCHANGED <<holds, expired, evidence, heirloom, bequest>>
    /\ UNCHANGED <<resolved, calm>>

\* broadcast_claim: judged locally first; broadcast unless it lost or no peer
\* is reachable.
Broadcast(n, reachable) ==
    LET c == <<n, seq[n] + 1>> IN
    /\ seq[n] < MaxClaims /\ seq' = [seq EXCEPT ![n] = @ + 1]
    /\ Process(n, c)
    /\ wire' = IF Accepts(n, c) /\ reachable THEN wire \cup {c} ELSE wire

\* receive_claim and receive_claims.
Hear(n, c) ==
    /\ c \in wire /\ c[1] # n
    /\ Process(n, c)
    /\ UNCHANGED <<wire, seq>>

\* The lease runs out.
RunOut(n) ==
    /\ holds[n] # Vacant /\ n \notin expired
    /\ expired' = expired \cup {n} /\ calm' = calm \ {n}
    /\ UNCHANGED <<holds, evidence, heirloom, resolved, wire, seq, heard, bequest>>

\* renew_lease asks neither whose claim it is nor whether its time is over
\* already.  (Renewed in time, it just does not run out.)
Renew(n) ==
    /\ n \in expired
    /\ expired' = expired \ {n}
    /\ UNCHANGED <<holds, evidence, heirloom, resolved, wire, seq, heard, calm, bequest>>

\* tick
TickLeases(n) ==
    /\ n \in expired /\ expired' = expired \ {n}
    /\ heirloom' = [heirloom EXCEPT ![n] = evidence[n]]
    /\ bequest' = [bequest EXCEPT ![n] = evidence[n]]
    /\ holds' = [holds EXCEPT ![n] = Vacant]
    /\ evidence' = [evidence EXCEPT ![n] = {}]
    /\ UNCHANGED <<resolved, wire, seq, heard, calm>>

\* resolve
Resolve(n) ==
    /\ holds[n] # Vacant /\ holds' = [holds EXCEPT ![n] = Vacant]
    /\ expired' = expired \ {n} /\ evidence' = [evidence EXCEPT ![n] = {}]
    /\ resolved' = resolved \cup {n} /\ calm' = calm \ {n}
    /\ bequest' = [bequest EXCEPT ![n] = {}]
    /\ UNCHANGED <<heirloom, wire, seq, heard>>

MInit ==
    /\ holds = [n \in Peers |-> Vacant] /\ expired = {}
    /\ evidence = [n \in Peers |-> {}] /\ heirloom = [n \in Peers |-> {}]
    /\ resolved = {} /\ wire = {} /\ seq = [n \in Peers |-> 0]
    /\ heard = [n \in Peers |-> {}] /\ calm = Peers
    /\ bequest = [n \in Peers |-> {}]

MNext ==
    \E n \in Peers :
      \/ \E reachable \in BOOLEAN : Broadcast(n, reachable)
      \/ \E c \in Claims : Hear(n, c)
      \/ RunOut(n) \/ Renew(n) \/ TickLeases(n) \/ Resolve(n)

MSpec == MInit /\ [][MNext]_mvars

-----------------------------------------------------------------------------
(* Properties.                                                             *)

\* R-M15: nodes that have judged the same claims name the same owner, in
\* whatever order and however often they heard them; except where a lease ran
\* out or the case was resolved, which only that node knows.
SameClaimsSameOwner ==
    \A n, m \in calm : heard[n] = heard[m] => Owner(holds[n]) = Owner(holds[m])

\* R-M17: the evidence of a lapsed claim is put aside or with the claim that
\* follows it, whether the tick or a new claim notices the lapse first.
LapsedEvidenceIsKept ==
    \A n \in Peers : bequest[n] \subseteq evidence[n] \cup heirloom[n]

=============================================================================
