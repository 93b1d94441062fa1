----------------------------- MODULE SiteProofs -----------------------------
(***************************************************************************)
(* Four mechanisms of a site and its nodes, for every size: the ownership  *)
(* of an investigation among peers, the incidents the correlation engine   *)
(* keeps, the suppression of a fault domain and the playbook executor.     *)
(***************************************************************************)
EXTENDS ClaimMesh, SiteIncidents, Suppression, Playbooks, FiniteSetTheorems, TLAPS

-----------------------------------------------------------------------------
(* Ownership of an investigation                                           *)

ClaimsMade == Peers \X Nat

MTypeOK ==
    /\ holds \in [Peers -> ClaimsMade \cup {Vacant}]
    /\ evidence \in [Peers -> SUBSET ClaimsMade]
    /\ heirloom \in [Peers -> SUBSET ClaimsMade]
    /\ bequest \in [Peers -> SUBSET ClaimsMade]
    /\ heard \in [Peers -> SUBSET ClaimsMade]
    /\ seq \in [Peers -> Nat]
    /\ wire \in SUBSET ClaimsMade
    /\ calm \in SUBSET Peers

\* Where no lease has lapsed and nothing was resolved, a node holds the claim
\* of the smallest id among all it has judged.
SmallestHeld ==
    \A n \in calm :
        /\ n \notin expired /\ n \notin resolved
        /\ holds[n] = Vacant => heard[n] = {}
        /\ holds[n] # Vacant => holds[n] \in heard[n] /\ \A c \in heard[n] : holds[n][1] <= c[1]

\* A node without a claim has accumulated nothing.
VacantHasNothing == \A n \in Peers : holds[n] = Vacant => evidence[n] = {}

MeshInv == MTypeOK /\ SmallestHeld /\ VacantHasNothing /\ LapsedEvidenceIsKept

\* The smallest id among the same claims is the same.
LEMMA SmallestIsShared == MTypeOK /\ SmallestHeld => SameClaimsSameOwner
  <1> SUFFICES ASSUME MTypeOK, SmallestHeld, NEW n \in calm, NEW m \in calm, heard[n] = heard[m]
               PROVE  Owner(holds[n]) = Owner(holds[m])
    BY DEF SameClaimsSameOwner
  <1>0. n \in Peers /\ m \in Peers
    BY DEF MTypeOK
  <1>1. CASE holds[n] = Vacant \/ holds[m] = Vacant
    <2>1. holds[n] = Vacant /\ holds[m] = Vacant
      BY <1>1 DEF SmallestHeld
    <2> QED
      BY <2>1 DEF Owner
  <1>2. CASE holds[n] # Vacant /\ holds[m] # Vacant
    <2>1. holds[n][1] <= holds[m][1] /\ holds[m][1] <= holds[n][1]
      BY <1>2 DEF SmallestHeld
    <2>2. holds[n][1] \in Nat /\ holds[m][1] \in Nat
      BY <1>0, <1>2, ClaimMeshAssumption DEF MTypeOK, ClaimsMade
    <2> QED
      BY <1>2, <2>1, <2>2 DEF Owner
  <1> QED
    BY <1>1, <1>2

\* process_claim and _accept_claim, of any claim.
LEMMA ProcessKeeps ==
    ASSUME MeshInv, NEW n \in Peers, NEW c \in ClaimsMade, Process(n, c),
           seq' \in [Peers -> Nat], wire' \in SUBSET ClaimsMade
    PROVE  MeshInv'
  <1>1. heard' = [heard EXCEPT ![n] = heard[n] \cup {c}] /\ calm' = calm /\ resolved' = resolved
    BY DEF Process
  <1>2. CASE ~Accepts(n, c)
    <2>1. UNCHANGED <<holds, expired, evidence, heirloom, bequest>>
      BY <1>2 DEF Process
    <2>2. MTypeOK'
      BY <1>1, <2>1 DEF MeshInv, MTypeOK
    <2>3. SmallestHeld'
      <3> SUFFICES ASSUME NEW m \in calm
                   PROVE  /\ m \notin expired /\ m \notin resolved
                          /\ holds[m] = Vacant => heard'[m] = {}
                          /\ holds[m] # Vacant => /\ holds[m] \in heard'[m]
                                                  /\ \A d \in heard'[m] : holds[m][1] <= d[1]
        BY <1>1, <2>1 DEF SmallestHeld
      <3>1. m \in Peers
        BY DEF MeshInv, MTypeOK
      <3>2. CASE m # n
        BY <1>1, <3>1, <3>2 DEF MeshInv, MTypeOK, SmallestHeld
      <3>3. CASE m = n
        <4>1. holds[n] # Vacant /\ ~Wins(c, holds[n]) /\ n \notin resolved /\ n \notin expired
          BY <1>2, <3>3 DEF Accepts, MeshInv, SmallestHeld
        <4>2. holds[n][1] \in Nat /\ c[1] \in Nat
          BY <4>1, ClaimMeshAssumption DEF MeshInv, MTypeOK, ClaimsMade
        <4>3. holds[n][1] <= c[1]
          BY <4>1, <4>2 DEF Wins
        <4>4. heard'[n] = heard[n] \cup {c}
          BY <1>1 DEF MeshInv, MTypeOK
        <4> QED
          BY <3>3, <4>1, <4>3, <4>4 DEF MeshInv, SmallestHeld
      <3> QED
        BY <3>2, <3>3
    <2> QED
      BY <2>1, <2>2, <2>3 DEF MeshInv, VacantHasNothing, LapsedEvidenceIsKept
  <1>3. CASE Accepts(n, c)
    <2>1. /\ holds' = [holds EXCEPT ![n] = c]
          /\ expired' = expired \ {n}
          /\ evidence' = [evidence EXCEPT ![n] = {c} \cup Inherited(n)]
          /\ heirloom' = IF holds[n] = Vacant THEN [heirloom EXCEPT ![n] = {}] ELSE heirloom
          /\ bequest' = [bequest EXCEPT ![n] = IF holds[n] = Vacant THEN bequest[n]
                                               ELSE IF n \in expired THEN evidence[n] ELSE {}]
      BY <1>3 DEF Process
    <2>0. Inherited(n) \in SUBSET ClaimsMade
      BY DEF Inherited, MeshInv, MTypeOK
    <2>2. MTypeOK'
      BY <1>1, <2>0, <2>1 DEF MeshInv, MTypeOK
    <2>3. SmallestHeld'
      <3> SUFFICES ASSUME NEW m \in calm
                   PROVE  /\ m \notin expired' /\ m \notin resolved
                          /\ holds'[m] = Vacant => heard'[m] = {}
                          /\ holds'[m] # Vacant => /\ holds'[m] \in heard'[m]
                                                   /\ \A d \in heard'[m] : holds'[m][1] <= d[1]
        BY <1>1 DEF SmallestHeld
      <3>1. m \in Peers
        BY DEF MeshInv, MTypeOK
      <3>2. CASE m # n
        BY <1>1, <2>1, <3>1, <3>2 DEF MeshInv, MTypeOK, SmallestHeld
      <3>3. CASE m = n
        <4>1. holds'[n] = c /\ heard'[n] = heard[n] \cup {c} /\ n \notin expired'
          BY <1>1, <2>1 DEF MeshInv, MTypeOK
        <4>2. \A d \in ClaimsMade : d[1] \in Nat
          BY ClaimMeshAssumption DEF ClaimsMade
        <4>3. \A d \in heard[n] : d \in ClaimsMade
          BY DEF MeshInv, MTypeOK
        <4>4. ASSUME NEW d \in heard[n] PROVE c[1] <= d[1]
          <5>1. /\ holds[n] # Vacant /\ c[1] < holds[n][1] /\ holds[n][1] <= d[1]
                /\ holds[n] \in heard[n]
            BY <1>3, <3>3, <4>4 DEF MeshInv, SmallestHeld, Accepts, Wins
          <5>2. c[1] \in Nat /\ d[1] \in Nat /\ holds[n][1] \in Nat
            BY <4>2, <4>3, <4>4, <5>1
          <5> QED
            BY <5>1, <5>2
        <4>5. c # Vacant
          BY ClaimMeshAssumption DEF ClaimsMade
        <4>6. n \notin resolved
          BY <3>3 DEF MeshInv, SmallestHeld
        <4>7. \A d \in heard'[n] : c[1] <= d[1]
          BY <4>1, <4>2, <4>4
        <4> QED
          BY <3>3, <4>1, <4>5, <4>6, <4>7
      <3> QED
        BY <3>2, <3>3
    <2>4. VacantHasNothing'
      BY <2>1, ClaimMeshAssumption DEF MeshInv, MTypeOK, VacantHasNothing, ClaimsMade
    <2>5. LapsedEvidenceIsKept'
      <3> SUFFICES ASSUME NEW m \in Peers PROVE bequest'[m] \subseteq evidence'[m] \cup heirloom'[m]
        BY DEF LapsedEvidenceIsKept
      <3>1. CASE m # n
        BY <2>1, <3>1 DEF MeshInv, MTypeOK, LapsedEvidenceIsKept
      <3>2. CASE m = n
        <4>1. evidence'[n] = {c} \cup Inherited(n)
          BY <2>1 DEF MeshInv, MTypeOK
        <4>2. bequest'[n] = IF holds[n] = Vacant THEN bequest[n]
                            ELSE IF n \in expired THEN evidence[n] ELSE {}
          BY <2>1 DEF MeshInv, MTypeOK
        <4>3. CASE holds[n] = Vacant
          BY <3>2, <4>1, <4>2, <4>3 DEF Inherited, MeshInv, VacantHasNothing, LapsedEvidenceIsKept
        <4>4. CASE holds[n] # Vacant
          BY <3>2, <4>1, <4>2, <4>4 DEF Inherited
        <4> QED
          BY <4>3, <4>4
      <3> QED
        BY <3>1, <3>2
    <2> QED
      BY <2>2, <2>3, <2>4, <2>5 DEF MeshInv
  <1> QED
    BY <1>2, <1>3

\* Every step of the mesh keeps its invariant.
LEMMA MeshStep == MeshInv /\ [MNext]_mvars => MeshInv'
  <1> SUFFICES ASSUME MeshInv, [MNext]_mvars PROVE MeshInv'
    OBVIOUS
  <1>1. ASSUME NEW n \in Peers, NEW reachable \in BOOLEAN, Broadcast(n, reachable)
        PROVE  MeshInv'
    <2> DEFINE c == <<n, seq[n] + 1>>
    <2>1. c \in ClaimsMade
      BY DEF ClaimsMade, MeshInv, MTypeOK
    <2>2. /\ Process(n, c) /\ seq' = [seq EXCEPT ![n] = seq[n] + 1]
          /\ wire' = wire \/ wire' = wire \cup {c}
      BY <1>1 DEF Broadcast
    <2>3. seq' \in [Peers -> Nat] /\ wire' \in SUBSET ClaimsMade
      BY <2>1, <2>2 DEF MeshInv, MTypeOK
    <2> HIDE DEF c
    <2> QED
      BY <2>1, <2>2, <2>3, ProcessKeeps
  <1>2. ASSUME NEW n \in Peers, NEW c \in Claims, Hear(n, c) PROVE MeshInv'
    <2>1. c \in ClaimsMade /\ Process(n, c) /\ UNCHANGED <<wire, seq>>
      BY <1>2 DEF Hear, MeshInv, MTypeOK
    <2> QED
      BY <2>1, ProcessKeeps DEF MeshInv, MTypeOK
  <1> USE DEF MeshInv, MTypeOK, SmallestHeld, VacantHasNothing, LapsedEvidenceIsKept
  <1>3. ASSUME NEW n \in Peers, RunOut(n) PROVE MeshInv'
    BY <1>3 DEF RunOut
  <1>4. ASSUME NEW n \in Peers, Renew(n) PROVE MeshInv'
    BY <1>4 DEF Renew
  <1>5. ASSUME NEW n \in Peers, TickLeases(n) PROVE MeshInv'
    BY <1>5 DEF TickLeases
  <1>6. ASSUME NEW n \in Peers, Resolve(n) PROVE MeshInv'
    BY <1>6 DEF Resolve
  <1>7. CASE UNCHANGED mvars
    BY <1>7 DEF mvars
  <1> QED
    BY <1>1, <1>2, <1>3, <1>4, <1>5, <1>6, <1>7 DEF MNext

\* The mesh's inductive invariant holds in every reachable state.
LEMMA MeshInvariant == MSpec => []MeshInv
  <1>1. MInit => MeshInv
    BY DEF MInit, MeshInv, MTypeOK, SmallestHeld, VacantHasNothing, LapsedEvidenceIsKept
  <1> QED
    BY <1>1, MeshStep, PTL DEF MSpec

\* R-M15: peers that heard the same claims name the same owner, for any number
\* of peers and claims, heard in any order and any number of times.
THEOREM MeshAgrees == MSpec => []SameClaimsSameOwner
  <1>1. MeshInv => SameClaimsSameOwner
    BY SmallestIsShared DEF MeshInv
  <1> QED
    BY <1>1, MeshInvariant, PTL

\* R-M17: a lapsed claim's evidence is never lost to its successor, for any
\* number of peers and claims.
THEOREM EvidenceIsKept == MSpec => []LapsedEvidenceIsKept
  <1>1. MeshInv => LapsedEvidenceIsKept
    BY DEF MeshInv
  <1> QED
    BY <1>1, MeshInvariant, PTL

-----------------------------------------------------------------------------
(* Incidents                                                               *)

Parents == [open : BOOLEAN, site : Sites \cup {""}, closedKid : BOOLEAN]
Tables == [child : [Units -> RuleScopes \cup {None, Alone}], parent : [RuleScopes -> Parents]]
Grouped(t) == \A u \in Units : t.child[u] \in RuleScopes => t.parent[t.child[u]].open

\* What the sweep read as recovered and is faulty again has its hook waiting,
\* because the hook needs the lock the sweep holds, or has lost it.
ReadIsStillTrue ==
    sweep.pc = "closing" => \A u \in sweep.ok : u \in fault => u \in hooks \/ u \in missed

TableTyped ==
    /\ child \in [Units -> RuleScopes \cup {None, Alone}]
    /\ parent \in [RuleScopes -> Parents]
    /\ fault \in SUBSET Units

SweepTyped ==
    /\ sweep \in [pc : {"idle", "rules", "closing"}, todo : SUBSET Sites,
                  ok : SUBSET Units, back : SUBSET Nodes]
    /\ unsure \in SUBSET Nodes

IncidentInv == TableTyped /\ SweepTyped /\ ReadIsStillTrue /\ FaultHasIncident /\ ParentStaysOpen

\* No rule scope is confused with the two markers of an ungrouped fault.
LEMMA ScopesAreNames == None \notin RuleScopes /\ Alone \notin RuleScopes
  BY IncidentsAssumption DEF None, Alone

\* The rules close nothing, group a child only under an open parent and leave
\* no child without an incident.
LEMMA RulesGroup ==
    ASSUME NEW t \in Tables, Grouped(t), NEW kind, NEW site \in Sites
    PROVE  /\ Rules(t, kind, site) \in Tables
           /\ Grouped(Rules(t, kind, site))
           /\ \A u \in Units : t.child[u] # None => Rules(t, kind, site).child[u] # None
  <1> DEFINE open == {c \in ScopesAt(site) :
                        KindOf[c] = kind /\ (t.parent[c].open \/ Correlated(c))}
             joined == [u \in Units |-> {c \in open : u \in Joins(c)}]
             fresh == [NoParent EXCEPT !.open = TRUE, !.site = site]
             ch == [u \in Units |-> IF joined[u] = {} THEN t.child[u]
                                    ELSE CHOOSE c \in joined[u] : TRUE]
             pa == [c \in RuleScopes |-> IF c \in open /\ ~t.parent[c].open THEN fresh
                                         ELSE t.parent[c]]
  <1>1. Rules(t, kind, site) = [child |-> ch, parent |-> pa]
    BY DEF Rules
  <1>2. open \in SUBSET RuleScopes
    BY DEF ScopesAt
  <1>3. \A u \in Units : joined[u] \in SUBSET open
    OBVIOUS
  <1>4. fresh \in Parents /\ fresh.open
    BY DEF NoParent, Parents
  <1>5. /\ t.child \in [Units -> RuleScopes \cup {None, Alone}]
        /\ t.parent \in [RuleScopes -> Parents]
    BY DEF Tables
  <1> HIDE DEF open, joined, fresh
  <1>6. \A u \in Units : IF joined[u] = {} THEN ch[u] = t.child[u] ELSE ch[u] \in open
    BY <1>3
  <1>7. \A c \in RuleScopes : /\ pa[c] \in Parents
                              /\ c \in open \/ t.parent[c].open => pa[c].open
    BY <1>4, <1>5
  <1>8. ch \in [Units -> RuleScopes \cup {None, Alone}] /\ pa \in [RuleScopes -> Parents]
    BY <1>2, <1>5, <1>6, <1>7
  <1> HIDE DEF ch, pa
  <1>9. [child |-> ch, parent |-> pa] \in Tables
    BY <1>8 DEF Tables
  <1>10. Grouped([child |-> ch, parent |-> pa])
    BY <1>2, <1>6, <1>7 DEF Grouped
  <1>11. \A u \in Units : t.child[u] # None => ch[u] # None
    BY <1>2, <1>6, ScopesAreNames
  <1> QED
    BY <1>1, <1>9, <1>10, <1>11

\* What a sweep has read stays well typed while it works.
LEMMA SweepIsTyped == SweepTyped /\ [INext]_ivars => SweepTyped'
  <1> SUFFICES ASSUME SweepTyped, [INext]_ivars PROVE SweepTyped'
    OBVIOUS
  <1>1. ASSUME UNCHANGED <<sweep, unsure>> PROVE SweepTyped'
    BY <1>1 DEF SweepTyped
  <1>2. Idle \in [pc : {"idle", "rules", "closing"}, todo : SUBSET Sites,
                 ok : SUBSET Units, back : SUBSET Nodes]
    BY DEF Idle
  <1>3. ASSUME NEW u \in Units, NEW bad \in BOOLEAN,
               Heartbeat(u, bad) \/ Verdict(u, bad) \/ Forget(u) \/ ServeHook(u) \/ HookFails(u)
        PROVE  SweepTyped'
    BY <1>1, <1>3 DEF Heartbeat, Verdict, Forget, ServeHook, HookFails
  <1>4. CASE BeginSweep
    <2>1. sweep' = [pc |-> "rules", todo |-> Sites, ok |-> {}, back |-> {}]
      BY <1>4 DEF BeginSweep, Idle
    <2> QED
      BY <1>4, <2>1 DEF BeginSweep, SweepTyped
  <1>5. ASSUME NEW site \in Sites, SweepSite(site) PROVE SweepTyped'
    <2>1. Ambiguous(site) \in SUBSET Nodes
      BY DEF Ambiguous
    <2> QED
      BY <1>5, <2>1 DEF SweepSite, SweepTyped
  <1>6. CASE ReadRecoveries
    <2>1. sweep' = [pc |-> "closing", todo |-> sweep.todo,
                    ok |-> {u \in Units : child[u] # None /\ u \notin fault},
                    back |-> {n \in unsure : Observed(n)}]
      BY <1>6 DEF ReadRecoveries, SweepTyped
    <2> QED
      BY <1>6, <2>1 DEF ReadRecoveries, SweepTyped
  <1>7. CASE EndSweep \/ SweepFails \/ RestartManager
    BY <1>2, <1>7 DEF EndSweep, SweepFails, RestartManager, SweepTyped
  <1>8. CASE Elapse \/ UNCHANGED ivars
    BY <1>1, <1>8 DEF Elapse, ivars
  <1> QED
    BY <1>3, <1>4, <1>5, <1>6, <1>7, <1>8 DEF INext

\* A step that leaves the incidents alone.
LEMMA TableUntouched ==
    ASSUME IncidentInv, UNCHANGED <<child, parent>>, fault' \in SUBSET Units
    PROVE  TableTyped' /\ ParentStaysOpen'
  BY DEF IncidentInv, TableTyped, ParentStaysOpen

\* Ingest: a fault that begins calls its hook, one that ends needs none.
LEMMA ApplyKeeps ==
    ASSUME IncidentInv, SweepTyped', NEW u \in Units, NEW bad \in BOOLEAN, Apply(u, bad),
           UNCHANGED <<child, parent, sweep>>
    PROVE  IncidentInv'
  <1>1. fault' \in SUBSET Units
    BY DEF Apply, IncidentInv, TableTyped
  <1>2. FaultHasIncident'
    BY DEF Apply, Onset, IncidentInv, FaultHasIncident
  <1>3. ReadIsStillTrue'
    BY DEF Apply, Onset, IncidentInv, ReadIsStillTrue
  <1> QED
    BY <1>1, <1>2, <1>3, TableUntouched DEF IncidentInv

\* on_onset, under the engine's lock.
LEMMA HookKeeps ==
    ASSUME IncidentInv, SweepTyped', NEW u \in Units, ServeHook(u)
    PROVE  IncidentInv'
  <1> DEFINE site == SiteOf[u[1]]
             t0 == [child |-> EnsureChild(u), parent |-> parent]
             t1 == IF u[2] = "interface" THEN t0 ELSE Rules(t0, "power", site)
             t == Rules(t1, "batch", site)
  <1>1. /\ ~Locked /\ u \in hooks /\ hooks' = hooks \ {u}
        /\ child' = t.child /\ parent' = t.parent
        /\ UNCHANGED <<fault, sweep, missed>>
    BY DEF ServeHook
  <1>2. site \in Sites
    BY IncidentsAssumption DEF Sites
  <1>3. /\ EnsureChild(u) \in [Units -> RuleScopes \cup {None, Alone}]
        /\ EnsureChild(u)[u] # None
        /\ \A v \in Units : /\ child[v] # None => EnsureChild(u)[v] # None
                            /\ EnsureChild(u)[v] \in RuleScopes => EnsureChild(u)[v] = child[v]
    BY ScopesAreNames DEF EnsureChild, IncidentInv, TableTyped, None, Alone
  <1>4. t0 \in Tables /\ Grouped(t0)
    BY <1>3 DEF Tables, Grouped, IncidentInv, TableTyped, ParentStaysOpen
  <1>5. t0.child[u] # None /\ \A v \in Units : child[v] # None => t0.child[v] # None
    BY <1>3
  <1> HIDE DEF site, t0
  <1>6. t1 \in Tables /\ Grouped(t1) /\ \A v \in Units : t0.child[v] # None => t1.child[v] # None
    BY <1>2, <1>4, RulesGroup
  <1> HIDE DEF t1
  <1>7. t \in Tables /\ Grouped(t) /\ \A v \in Units : t1.child[v] # None => t.child[v] # None
    BY <1>2, <1>6, RulesGroup
  <1> HIDE DEF t
  <1>8. TableTyped'
    BY <1>1, <1>7 DEF Tables, IncidentInv, TableTyped
  <1>9. ParentStaysOpen'
    BY <1>1, <1>7 DEF Grouped, ParentStaysOpen
  <1>10. FaultHasIncident'
    <2>1. child'[u] # None /\ \A v \in Units : child[v] # None => child'[v] # None
      BY <1>1, <1>5, <1>6, <1>7
    <2> QED
      BY <1>1, <2>1 DEF IncidentInv, TableTyped, FaultHasIncident
  <1>11. ReadIsStillTrue'
    BY <1>1 DEF Locked, ReadIsStillTrue
  <1> QED
    BY <1>8, <1>9, <1>10, <1>11 DEF IncidentInv

\* The pass of one site.
LEMMA PassKeeps ==
    ASSUME IncidentInv, SweepTyped', NEW site \in Sites, SweepSite(site)
    PROVE  IncidentInv'
  <1> DEFINE t0 == [child |-> child, parent |-> parent]
             t1 == Rules(t0, "power", site)
             t2 == Rules(t1, "batch", site)
             t == Rules(t2, "network", site)
  <1>1. /\ child' = t.child /\ parent' = t.parent /\ UNCHANGED <<fault, hooks, missed>>
        /\ sweep.pc = "rules" /\ sweep' = [sweep EXCEPT !.todo = @ \ {site}]
    BY DEF SweepSite
  <1>2. t0 \in Tables /\ Grouped(t0)
    BY DEF Tables, Grouped, IncidentInv, TableTyped, ParentStaysOpen
  <1>3. \A v \in Units : child[v] = t0.child[v]
    OBVIOUS
  <1> HIDE DEF t0
  <1>4. t1 \in Tables /\ Grouped(t1) /\ \A v \in Units : t0.child[v] # None => t1.child[v] # None
    BY <1>2, RulesGroup
  <1> HIDE DEF t1
  <1>5. t2 \in Tables /\ Grouped(t2) /\ \A v \in Units : t1.child[v] # None => t2.child[v] # None
    BY <1>4, RulesGroup
  <1> HIDE DEF t2
  <1>6. t \in Tables /\ Grouped(t) /\ \A v \in Units : t2.child[v] # None => t.child[v] # None
    BY <1>5, RulesGroup
  <1> HIDE DEF t
  <1>7. TableTyped'
    BY <1>1, <1>6 DEF Tables, IncidentInv, TableTyped
  <1>8. ParentStaysOpen'
    BY <1>1, <1>6 DEF Grouped, ParentStaysOpen
  <1>9. FaultHasIncident'
    <2>1. \A v \in Units : child[v] # None => child'[v] # None
      BY <1>1, <1>3, <1>4, <1>5, <1>6
    <2> QED
      BY <1>1, <2>1 DEF IncidentInv, TableTyped, FaultHasIncident
  <1>10. sweep'.pc # "closing"
    BY <1>1 DEF IncidentInv, SweepTyped
  <1> QED
    BY <1>7, <1>8, <1>9, <1>10 DEF IncidentInv, ReadIsStillTrue

\* resolve_recovered_children and auto_resolve_parents, committed together.
LEMMA EndSweepKeeps ==
    ASSUME IncidentInv, SweepTyped', EndSweep
    PROVE  IncidentInv'
  <1>1. /\ sweep.pc = "closing" /\ child' = ChildrenLeft
        /\ parent' = [c \in RuleScopes |-> IF c \in Closing THEN NoParent ELSE ParentsLeft[c]]
        /\ sweep' = Idle /\ UNCHANGED <<fault, hooks, missed>>
    BY DEF EndSweep
  <1>2. \A u \in Units : ChildrenLeft[u] = IF u \in sweep.ok THEN None ELSE child[u]
    BY DEF ChildrenLeft
  <1>3. \A c \in RuleScopes : ParentsLeft[c] \in Parents /\ ParentsLeft[c].open = parent[c].open
    BY DEF ParentsLeft, IncidentInv, TableTyped, Parents
  <1>4. NoParent \in Parents
    BY DEF NoParent, Parents
  <1>5. TableTyped'
    BY <1>1, <1>2, <1>3, <1>4 DEF IncidentInv, TableTyped, ChildrenLeft
  <1>6. ParentStaysOpen'
    <2> SUFFICES ASSUME NEW u \in Units, ChildrenLeft[u] \in RuleScopes
                 PROVE  parent'[ChildrenLeft[u]].open
      BY <1>1 DEF ParentStaysOpen
    <2>1. child[u] = ChildrenLeft[u] /\ parent[ChildrenLeft[u]].open
      BY <1>2, ScopesAreNames DEF IncidentInv, ParentStaysOpen
    <2>2. ChildrenLeft[u] \notin Closing
      BY DEF Closing, Calm
    <2> QED
      BY <1>1, <1>3, <2>1, <2>2
  <1>7. FaultHasIncident'
    BY <1>1, <1>2 DEF IncidentInv, TableTyped, FaultHasIncident, ReadIsStillTrue
  <1>8. ReadIsStillTrue'
    BY <1>1 DEF ReadIsStillTrue, Idle
  <1> QED
    BY <1>5, <1>6, <1>7, <1>8 DEF IncidentInv

\* Every step on the incident table keeps its invariant.
LEMMA IncidentStep == IncidentInv /\ [INext]_ivars => IncidentInv'
  <1> SUFFICES ASSUME IncidentInv, [INext]_ivars PROVE IncidentInv'
    OBVIOUS
  <1>0. SweepTyped'
    BY SweepIsTyped DEF IncidentInv
  <1>1. ASSUME NEW u \in Units, NEW bad \in BOOLEAN, Heartbeat(u, bad) \/ Verdict(u, bad)
        PROVE  IncidentInv'
    BY <1>0, <1>1, ApplyKeeps DEF Heartbeat, Verdict
  <1>2. ASSUME UNCHANGED <<fault, hooks, child, parent, sweep, missed>> PROVE IncidentInv'
    BY <1>0, <1>2 DEF IncidentInv, TableTyped, ReadIsStillTrue, FaultHasIncident, ParentStaysOpen
  <1>3. ASSUME UNCHANGED <<fault, child, parent>>, sweep'.pc # "closing",
               \A u \in fault : u \in hooks \cup missed => u \in hooks' \cup missed'
        PROVE  IncidentInv'
    BY <1>0, <1>3 DEF IncidentInv, TableTyped, ReadIsStillTrue, FaultHasIncident, ParentStaysOpen
  <1>4. ASSUME NEW u \in Units, Forget(u) PROVE IncidentInv'
    BY <1>2, <1>4 DEF Forget
  <1>5. ASSUME NEW u \in Units, HookFails(u) PROVE IncidentInv'
    <2>1. /\ UNCHANGED <<fault, child, parent, sweep>>
          /\ \A v \in fault : v \in hooks \cup missed => v \in hooks' \cup missed'
      BY <1>5 DEF HookFails
    <2> QED
      BY <1>0, <2>1 DEF IncidentInv, TableTyped, ReadIsStillTrue, FaultHasIncident, ParentStaysOpen
  <1>6. CASE BeginSweep
    BY <1>3, <1>6 DEF BeginSweep, Idle
  <1>7. CASE ReadRecoveries
    <2>1. /\ UNCHANGED <<fault, hooks, child, parent, missed>>
          /\ sweep'.ok = {u \in Units : child[u] # None /\ u \notin fault}
      BY <1>7 DEF ReadRecoveries, IncidentInv, SweepTyped
    <2> QED
      BY <1>0, <2>1 DEF IncidentInv, TableTyped, ReadIsStillTrue, FaultHasIncident, ParentStaysOpen
  <1>8. CASE SweepFails
    BY <1>3, <1>8 DEF SweepFails, Idle
  <1>9. CASE RestartManager
    BY <1>3, <1>9 DEF RestartManager, Idle
  <1>10. CASE Elapse
    BY <1>2, <1>10 DEF Elapse
  <1>11. CASE UNCHANGED ivars
    BY <1>2, <1>11 DEF ivars
  <1> QED
    BY <1>0, <1>1, <1>4, <1>5, <1>6, <1>7, <1>8, <1>9, <1>10, <1>11,
       HookKeeps, PassKeeps, EndSweepKeeps DEF INext

\* The incidents' inductive invariant holds in every reachable state.
LEMMA IncidentInvariant == ISpec => []IncidentInv
  <1>1. ASSUME IInit PROVE IncidentInv
    <2>1. TableTyped
      <3>1. NoParent \in Parents
        BY DEF NoParent, Parents
      <3> QED
        BY <1>1, <3>1 DEF IInit, TableTyped
    <2>2. ReadIsStillTrue /\ SweepTyped
      BY <1>1 DEF IInit, ReadIsStillTrue, SweepTyped, Idle
    <2>3. FaultHasIncident /\ ParentStaysOpen
      BY <1>1, ScopesAreNames DEF IInit, FaultHasIncident, ParentStaysOpen
    <2> QED
      BY <2>1, <2>2, <2>3 DEF IncidentInv
  <1> QED
    BY <1>1, IncidentStep, PTL DEF ISpec

\* A stored fault keeps its incident until it clears, for every topology,
\* number of devices, rules and windows, over sweeps that overlap with onsets,
\* failing hooks and sweeps, and restarts.
THEOREM IncidentsAreKept == ISpec => []FaultHasIncident
  <1>1. IncidentInv => FaultHasIncident
    BY DEF IncidentInv
  <1> QED
    BY <1>1, IncidentInvariant, PTL

\* An incident that is grouped has an open parent, over the same behaviours:
\* neither the sweep nor the rules leave a child under a closed one.
THEOREM ParentsAreKept == ISpec => []ParentStaysOpen
  <1>1. IncidentInv => ParentStaysOpen
    BY DEF IncidentInv
  <1> QED
    BY <1>1, IncidentInvariant, PTL

-----------------------------------------------------------------------------
(* Suppression                                                             *)

Devs == {u[1] : u \in Watched}
Events == [device : Devs, at : Int]

STypeOK ==
    /\ clock \in Nat
    /\ waiting \in SUBSET Watched
    /\ recent \in [Families -> SUBSET Events]
    /\ hairAt \in Int
    /\ served \in [Watched -> Int]
    /\ active \in BOOLEAN

\* The members of u's family that were served in the window that ends with u.
ServedWith(u) ==
    {w \in Watched : /\ w[2] = u[2] /\ served[w] # Unset /\ served[w] <= served[u]
                     /\ served[w] > served[u] - Span[u[2]]}

\* _recent still has every onset it was served that can count again.
RecentIsWhole ==
    ~active => \A u \in Watched : (served[u] # Unset /\ u[2] \in Governed
                                     /\ served[u] > clock - Span[u[2]]) =>
                 [device |-> u[1], at |-> served[u]] \in recent[u[2]]

\* No onset is served in the future, and a release is not in the future.
ServedIsPast == hairAt <= clock /\ \A u \in Watched : served[u] <= clock

CalmWasRight ==
    ~active => \A u \in Watched : served[u] # Unset =>
        /\ hairAt = Unset \/ served[u] < hairAt \/ served[u] - hairAt >= HairTrigger
        /\ u[2] \in Governed => Cardinality({v[1] : v \in ServedWith(u)}) < Threshold[u[2]]

SuppressInv == STypeOK /\ ServedIsPast /\ RecentIsWhole /\ CalmWasRight

\* The inductive form of the property implies the property.
LEMMA CalmIsProperty == CalmWasRight => CorrelatedIsSuppressed
  <1> SUFFICES ASSUME CalmWasRight, NEW u \in Watched, served[u] # Unset, ~active
               PROVE  /\ hairAt = Unset \/ served[u] < hairAt \/ served[u] - hairAt >= HairTrigger
                      /\ u[2] \in Governed =>
                           Cardinality({v[1] : v \in ServedWith(u)}) < Threshold[u[2]]
    BY DEF CorrelatedIsSuppressed, ServedWith
  <1> QED
    BY DEF CalmWasRight

\* There are finitely many devices to count.
LEMMA DevsFinite == IsFiniteSet(Devs)
  <1> DEFINE f == [u \in Watched |-> u[1]]
  <1>1. f \in [Watched -> Devs]
    BY DEF Devs
  <1>2. \A d \in Devs : \E u \in Watched : f[u] = d
    BY DEF Devs
  <1> HIDE DEF f
  <1>3. f \in Surjection(Watched, Devs)
    BY <1>1, <1>2 DEF Surjection
  <1> QED
    BY <1>3, FS_Surjection, SuppressionAssumption

\* Fewer devices than a set that is below the threshold are below it too.
LEMMA FewerDevices ==
    ASSUME NEW A, NEW B, A \in SUBSET B, B \in SUBSET Devs, NEW k \in Nat, Cardinality(B) < k
    PROVE  Cardinality(A) < k
  <1>1. IsFiniteSet(B)
    BY DevsFinite, FS_Subset
  <1>2. IsFiniteSet(A) /\ Cardinality(A) <= Cardinality(B)
    BY <1>1, FS_Subset
  <1>3. Cardinality(A) \in Nat /\ Cardinality(B) \in Nat
    BY <1>1, <1>2, FS_CardinalityType
  <1> QED
    BY <1>2, <1>3

\* A step after which the served onsets are those of before, or none.
LEMMA NothingServed ==
    ASSUME SuppressInv, STypeOK', ServedIsPast',
           \/ served' = NoneServed
           \/ /\ UNCHANGED <<served, active, hairAt, recent>>
              /\ clock' >= clock
    PROVE  SuppressInv'
  <1>1. CASE served' = NoneServed
    <2>1. \A u \in Watched : served'[u] = Unset
      BY <1>1 DEF NoneServed
    <2> QED
      BY <2>1 DEF SuppressInv, RecentIsWhole, CalmWasRight
  <1>2. CASE UNCHANGED <<served, active, hairAt, recent>> /\ clock' >= clock
    <2>1. \A u \in Watched : ServedWith(u)' = ServedWith(u)
      BY <1>2 DEF ServedWith
    <2>2. CalmWasRight'
      BY <1>2, <2>1 DEF SuppressInv, CalmWasRight
    <2>3. RecentIsWhole'
      <3>1. ASSUME NEW u \in Watched, u[2] \in Governed, served[u] > clock' - Span[u[2]]
            PROVE  served[u] > clock - Span[u[2]]
        BY <1>2, <3>1, SuppressionAssumption DEF SuppressInv, STypeOK
      <3> QED
        BY <1>2, <3>1 DEF SuppressInv, RecentIsWhole
    <2> QED
      BY <2>2, <2>3 DEF SuppressInv
  <1> QED
    BY <1>1, <1>2

\* evaluate: what it keeps and counts covers every onset of the window.
LEMMA EvaluateKeeps ==
    ASSUME SuppressInv, NEW u \in Watched, Evaluate(u)
    PROVE  SuppressInv'
  <1> DEFINE f == u[2]
             event == [device |-> u[1], at |-> clock]
             kept == Trim(recent[f] \cup {event}, f)
             hair == hairAt # Unset /\ clock - hairAt < HairTrigger
             counts == ~active /\ ~hair /\ f \in Governed
             trigger == ~active /\ (hair \/ (counts /\ Cardinality(Distinct(kept)) >= Threshold[f]))
  <1>1. /\ waiting' = waiting \ {u}
        /\ recent' = IF counts THEN [recent EXCEPT ![f] = kept] ELSE recent
        /\ active' = (active \/ trigger)
        /\ served' = [served EXCEPT ![u] = clock]
        /\ UNCHANGED <<clock, hairAt>>
    BY DEF Evaluate, world
  <1>2. f \in Families /\ event \in Events /\ clock \in Int
    BY DEF Families, Events, Devs, SuppressInv, STypeOK
  <1>3. /\ kept = {e \in recent[f] \cup {event} : e.at > clock - Span[f]}
        /\ kept \in SUBSET Events
    BY <1>2 DEF Trim, SuppressInv, STypeOK
  <1> HIDE DEF event, kept, hair
  <1>4. STypeOK'
    BY <1>1, <1>2, <1>3 DEF SuppressInv, STypeOK
  <1>5. \A v \in Watched : served'[v] = IF v = u THEN clock ELSE served[v]
    BY <1>1 DEF SuppressInv, STypeOK
  <1>6. ServedIsPast'
    BY <1>1, <1>2, <1>5 DEF SuppressInv, ServedIsPast
  <1>7. CASE active'
    BY <1>4, <1>6, <1>7 DEF SuppressInv, RecentIsWhole, CalmWasRight
  <1>8. CASE ~active'
    <2>1. ~active /\ ~hair /\ (f \in Governed => Cardinality(Distinct(kept)) < Threshold[f])
      <3>1. ~active /\ ~trigger
        BY <1>1, <1>8 DEF SuppressInv, STypeOK
      <3>2. f \in Governed => Cardinality(Distinct(kept)) \in Nat /\ Threshold[f] \in Nat
        <4>1. Distinct(kept) \in SUBSET Devs
          BY <1>3 DEF Distinct, Events
        <4>2. IsFiniteSet(Distinct(kept))
          BY <4>1, DevsFinite, FS_Subset
        <4> QED
          BY <4>2, FS_CardinalityType, SuppressionAssumption
      <3> QED
        BY <3>1, <3>2
    <2>2. f \in Governed => recent' = [recent EXCEPT ![f] = kept]
      BY <1>1, <2>1
    <2>3. f \notin Governed => recent' = recent
      BY <1>1
    <2>4. \A v \in Watched : (served[v] # Unset /\ v[2] \in Governed /\ served[v] > clock - Span[v[2]])
            => [device |-> v[1], at |-> served[v]] \in recent[v[2]]
      BY <2>1 DEF SuppressInv, RecentIsWhole
    <2>5. ASSUME NEW v \in Watched, v[2] = f, f \in Governed, served'[v] # Unset,
                 served'[v] > clock - Span[f]
          PROVE  [device |-> v[1], at |-> served'[v]] \in kept
      <3>1. CASE v = u
        <4>1. [device |-> v[1], at |-> served'[v]] = event /\ event.at = served'[v]
          BY <1>5, <3>1 DEF event
        <4> QED
          BY <1>3, <2>5, <4>1
      <3>2. CASE v # u
        <4> DEFINE e == [device |-> v[1], at |-> served[v]]
        <4>1. e \in recent[f] /\ e.at = served[v] /\ served'[v] = served[v]
          BY <1>5, <2>4, <2>5, <3>2
        <4> HIDE DEF e
        <4>2. e \in kept
          BY <1>3, <2>5, <4>1
        <4> QED
          BY <4>1, <4>2 DEF e
      <3> QED
        BY <3>1, <3>2
    <2>6. RecentIsWhole'
      <3> SUFFICES ASSUME NEW v \in Watched, served'[v] # Unset, v[2] \in Governed,
                          served'[v] > clock - Span[v[2]]
                   PROVE  [device |-> v[1], at |-> served'[v]] \in recent'[v[2]]
        BY <1>1 DEF RecentIsWhole
      <3>1. CASE v[2] = f
        <4>1. recent'[f] = kept
          BY <1>2, <2>2, <3>1 DEF SuppressInv, STypeOK
        <4> QED
          BY <2>5, <3>1, <4>1
      <3>2. CASE v[2] # f
        <4>1. recent'[v[2]] = recent[v[2]] /\ served'[v] = served[v]
          BY <1>2, <1>5, <2>2, <2>3, <3>2 DEF SuppressInv, STypeOK, Families
        <4> QED
          BY <2>4, <4>1
      <3> QED
        BY <3>1, <3>2
    <2>7. ASSUME NEW v \in Watched, served'[v] # Unset, v[2] \in Governed
          PROVE  Cardinality({w[1] : w \in ServedWith(v)'}) < Threshold[v[2]]
      <3>1. ServedWith(v)' = {w \in Watched : /\ w[2] = v[2] /\ served'[w] # Unset
                                              /\ served'[w] <= served'[v]
                                              /\ served'[w] > served'[v] - Span[v[2]]}
        BY DEF ServedWith
      <3>2. Threshold[v[2]] \in Nat /\ Span[v[2]] \in Nat
        BY <2>7, SuppressionAssumption
      <3>3. CASE served'[v] = clock /\ v[2] = f
        <4>1. ASSUME NEW w \in ServedWith(v)' PROVE w[1] \in Distinct(kept)
          <5>1. [device |-> w[1], at |-> served'[w]] \in kept
            BY <2>5, <2>7, <3>1, <3>3
          <5> QED
            BY <5>1 DEF Distinct
        <4>2. {w[1] : w \in ServedWith(v)'} \in SUBSET Distinct(kept)
          BY <4>1
        <4>3. Distinct(kept) \in SUBSET Devs
          BY <1>3 DEF Distinct, Events
        <4> QED
          BY <2>1, <2>7, <3>2, <3>3, <4>2, <4>3, FewerDevices
      <3>4. CASE ~(served'[v] = clock /\ v[2] = f)
        <4>1. v # u /\ served'[v] = served[v] /\ served[v] <= clock /\ served[v] \in Int
          BY <1>5, <3>4 DEF SuppressInv, ServedIsPast, STypeOK
        <4>2. ASSUME NEW w \in ServedWith(v)' PROVE w \in ServedWith(v)
          <5>1. w # u
            BY <1>2, <1>5, <3>1, <3>4, <4>1
          <5> QED
            BY <1>5, <3>1, <4>1, <5>1 DEF ServedWith
        <4>3. {w[1] : w \in ServedWith(v)'} \in SUBSET {w[1] : w \in ServedWith(v)}
          BY <4>2
        <4>4. {w[1] : w \in ServedWith(v)} \in SUBSET Devs
          BY DEF ServedWith, Devs
        <4>5. Cardinality({w[1] : w \in ServedWith(v)}) < Threshold[v[2]]
          BY <2>1, <2>7, <4>1 DEF SuppressInv, CalmWasRight
        <4> QED
          BY <3>2, <4>3, <4>4, <4>5, FewerDevices
      <3> QED
        BY <3>3, <3>4
    <2>8. ASSUME NEW v \in Watched, served'[v] # Unset
          PROVE  hairAt = Unset \/ served'[v] < hairAt \/ served'[v] - hairAt >= HairTrigger
      <3>1. CASE v = u
        BY <1>2, <1>5, <2>1, <3>1, SuppressionAssumption DEF hair, SuppressInv, STypeOK
      <3>2. CASE v # u
        BY <1>5, <2>1, <2>8, <3>2 DEF SuppressInv, CalmWasRight
      <3> QED
        BY <3>1, <3>2
    <2>9. CalmWasRight'
      BY <1>1, <2>7, <2>8 DEF CalmWasRight
    <2> QED
      BY <1>4, <1>6, <2>6, <2>9 DEF SuppressInv
  <1> QED
    BY <1>7, <1>8

\* Every step of the suppression engine keeps its invariant.
LEMMA SuppressStep == SuppressInv /\ [SNext]_svars => SuppressInv'
  <1> SUFFICES ASSUME SuppressInv, [SNext]_svars PROVE SuppressInv'
    OBVIOUS
  <1>0. STypeOK /\ ServedIsPast /\ Unset \in Int /\ Unset <= clock
    BY DEF SuppressInv, STypeOK, Unset
  <1>1. ASSUME UNCHANGED <<engine, served>>, waiting' \in SUBSET Watched,
               clock' \in Nat, clock' >= clock
        PROVE  SuppressInv'
    <2>1. UNCHANGED <<recent, active, hairAt, served>>
      BY <1>1 DEF engine
    <2>2. STypeOK'
      BY <1>0, <1>1, <2>1 DEF STypeOK
    <2>3. ServedIsPast'
      BY <1>0, <1>1, <2>1 DEF STypeOK, ServedIsPast
    <2> QED
      BY <1>1, <2>1, <2>2, <2>3, NothingServed
  <1>2. ASSUME NEW u \in Watched, FallIll(u) \/ GetWell(u) PROVE SuppressInv'
    BY <1>0, <1>1, <1>2 DEF FallIll, GetWell, STypeOK
  <1>3. CASE SweepReads \/ Pass \/ UNCHANGED svars
    BY <1>0, <1>1, <1>3 DEF SweepReads, Pass, svars, engine, world, STypeOK
  <1>4. \A u \in Watched : NoneServed[u] = Unset
    BY DEF NoneServed
  <1>5. CASE SweepChecks
    <2> DEFINE release == active /\ reading = "healthy" /\ clearAt # Unset
                            /\ clock - clearAt >= Stability
    <2>1. /\ active' = (active /\ ~release)
          /\ hairAt' = IF release THEN clock ELSE hairAt
          /\ served' = IF release THEN NoneServed ELSE served
          /\ UNCHANGED <<clock, waiting, recent>>
      BY <1>5 DEF SweepChecks, world
    <2> HIDE DEF release
    <2>2. CASE release
      <3>1. STypeOK' /\ served' = NoneServed
        BY <1>0, <2>1, <2>2 DEF STypeOK, NoneServed
      <3>2. ServedIsPast'
        BY <1>0, <1>4, <2>1, <2>2 DEF STypeOK, ServedIsPast
      <3> QED
        BY <3>1, <3>2, NothingServed
    <2>3. CASE ~release
      BY <1>0, <2>1, <2>3, NothingServed DEF STypeOK, ServedIsPast
    <2> QED
      BY <2>2, <2>3
  <1>6. CASE ReEnable \/ RestartEngine
    <2>1. /\ served' = NoneServed /\ clock' = clock /\ active' \in BOOLEAN
          /\ hairAt' = hairAt \/ hairAt' = Unset
          /\ waiting' = waiting \/ waiting' = {}
          /\ recent' = recent \/ recent' = [f \in Families |-> {}]
      BY <1>6 DEF ReEnable, RestartEngine, world
    <2>2. STypeOK'
      BY <1>0, <2>1 DEF STypeOK, NoneServed
    <2>3. ServedIsPast'
      BY <1>0, <1>4, <2>1 DEF ServedIsPast
    <2> QED
      BY <2>1, <2>2, <2>3, NothingServed
  <1> QED
    BY <1>2, <1>3, <1>5, <1>6, EvaluateKeeps DEF SNext

\* Enough onsets within a policy's window, or one within the hair-trigger
\* window of a release, leave the domain suppressed until it is released or
\* the process restarts: for any devices, policies, thresholds and windows,
\* whatever the sweep had read when the onset came.
THEOREM SuppressionHolds == SSpec => []CorrelatedIsSuppressed
  <1>1. SInit => SuppressInv
    <2> SUFFICES ASSUME SInit PROVE SuppressInv
      OBVIOUS
    <2>1. \A u \in Watched : served[u] = Unset
      BY DEF SInit, NoneServed
    <2>2. STypeOK
      <3>1. served \in [Watched -> Int]
        BY DEF SInit, NoneServed, Unset
      <3>2. recent \in [Families -> SUBSET Events] /\ waiting \subseteq Watched
        BY DEF SInit
      <3>3. hairAt \in Int /\ clock \in Nat
        BY DEF SInit, Unset
      <3>4. active \in BOOLEAN
        BY Zenon DEF SInit
      <3> QED
        BY <3>1, <3>2, <3>3, <3>4, Zenon DEF STypeOK
    <2>3. ServedIsPast
      BY <2>1 DEF SInit, ServedIsPast, Unset
    <2> QED
      BY <2>1, <2>2, <2>3 DEF SuppressInv, RecentIsWhole, CalmWasRight
  <1>2. SuppressInv => CorrelatedIsSuppressed
    BY CalmIsProperty DEF SuppressInv
  <1> QED
    BY <1>1, <1>2, SuppressStep, PTL DEF SSpec

-----------------------------------------------------------------------------
(* Playbooks.                                                              *)

\* The step on which r rests has an outcome, or is one of the cut ones.
Seen(r, k) == r.idx \in r.recorded \cup k

\* r, started from step f, has passed no step without an outcome.
Sound(r, f, k) ==
    /\ f <= r.idx
    /\ \A s \in f..(r.idx - 1) : s \in r.recorded \cup k
    /\ r.status = "COMPLETED" => \A s \in f..(StepCount - 1) : s \in r.recorded \cup k

\* A row of the table: only a run that never got further than its first
\* write rests on a step without an outcome.
SoundRow(r, f, k) ==
    Sound(r, f, k) /\ (Seen(r, k) \/ (r.idx = f /\ r.status = "RUNNING"))

YTypeOK ==
    /\ exec \in [Execs -> ExecRecords \cup {NoExec}]
    /\ stored \in [Execs -> ExecRecords \cup {NoExec}]
    /\ driver \in [Drivers -> [exec : 0..MaxExecs, parent : 0..MaxExecs,
                               at : {"idle", "step", "rollback", "merge"}]]
    /\ created \in 0..MaxExecs
    /\ handed \subseteq {e \in Execs : exec[e] # NoExec}
    /\ from \in [Execs -> PlaySteps]
    /\ cut \subseteq PlaySteps
    /\ \A e \in Execs : e > created => exec[e] = NoExec /\ stored[e] = NoExec

RowsAreSound ==
    \A e \in Execs : stored[e] # NoExec => SoundRow(stored[e], from[e], cut)

\* What a person can resume, and what no longer runs, rests on a step that
\* is accounted for.
ObjectsAreSound ==
    \A e \in Execs : exec[e] # NoExec =>
      /\ Sound(exec[e], from[e], cut)
      /\ e \in handed \/ exec[e].status # "RUNNING" => Seen(exec[e], cut)

\* A coroutine drives an execution nobody else has; what it resumes is
\* RUNNING, hence out of reach of other resumptions, and its run begins right
\* after it.
DrivesItsOwn(d) ==
    /\ d.exec \in Execs \ handed /\ exec[d.exec] # NoExec
    /\ d.at = "step" => exec[d.exec].status = "RUNNING"
    /\ d.at = "rollback" => exec[d.exec].status = "PAUSED"
    /\ d.at = "merge" => d.parent # 0
    /\ d.parent # 0 => /\ d.parent \in handed /\ exec[d.parent].status = "RUNNING"
                       /\ from[d.exec] = exec[d.parent].idx + 1

DriversAreApart ==
    /\ \A c \in Drivers : driver[c].at # "idle" => DrivesItsOwn(driver[c])
    /\ \A b, c \in Drivers :
         b # c /\ driver[b].at # "idle" /\ driver[c].at # "idle" =>
           /\ driver[b].exec # driver[c].exec
           /\ driver[b].parent = 0 \/ driver[b].parent # driver[c].parent

PlayInv == YTypeOK /\ RowsAreSound /\ ObjectsAreSound /\ DriversAreApart

\* The fields of an execution record, one by one.
LEMMA RecordFields ==
  ASSUME NEW r \in ExecRecords
  PROVE  /\ r.idx \in Nat /\ r.idx \in PlaySteps /\ r.recorded \subseteq PlaySteps
         /\ r # NoExec
  BY PlaybooksAssumption DEF ExecRecords, PlaySteps

\* _persist: whether or not a write fails, the row is one that was written or
\* the one that was there.
LEMMA RowsKept ==
  ASSUME YTypeOK, RowsAreSound, NEW e \in Execs, NEW W, NEW final,
         Persist(e, W, final), cut' = cut, from' \in [Execs -> PlaySteps],
         \A x \in Execs \ {e} : from'[x] = from[x],
         stored[e] # NoExec => from'[e] = from[e],
         \A r \in W \cup {final} : r \in ExecRecords /\ SoundRow(r, from'[e], cut)
  PROVE  /\ stored' \in [Execs -> ExecRecords \cup {NoExec}]
         /\ \A x \in Execs \ {e} : stored'[x] = stored[x]
         /\ RowsAreSound'
  <1>1. PICK r \in W \cup {final, stored[e]} : stored' = [stored EXCEPT ![e] = r]
    BY DEF Persist
  <1>2. stored[e] \in ExecRecords \cup {NoExec}
    BY DEF YTypeOK
  <1>3. r \in ExecRecords \cup {NoExec} /\ (r # NoExec => SoundRow(r, from'[e], cut))
    BY <1>2 DEF RowsAreSound
  <1>4. stored' \in [Execs -> ExecRecords \cup {NoExec}]
    BY <1>1, <1>3 DEF YTypeOK
  <1>5. stored'[e] = r /\ \A x \in Execs \ {e} : stored'[x] = stored[x]
    BY <1>1 DEF YTypeOK
  <1>6. ASSUME NEW x \in Execs, stored'[x] # NoExec
        PROVE  SoundRow(stored'[x], from'[x], cut')
    <2>1. CASE x = e
      BY <2>1, <1>3, <1>5, <1>6
    <2>2. CASE x # e
      BY <2>2, <1>5, <1>6 DEF RowsAreSound
    <2> QED
      BY <2>1, <2>2
  <1> QED
    BY <1>4, <1>5, <1>6 DEF RowsAreSound

\* A coroutine changes the execution it drives: others' are not touched.
LEMMA OwnStep ==
  ASSUME PlayInv, NEW c \in Drivers, NEW r \in ExecRecords,
         driver[c].at # "idle",
         exec' = [exec EXCEPT ![driver[c].exec] = r],
         created' = created, from' = from, cut' = cut,
         stored' \in [Execs -> ExecRecords \cup {NoExec}],
         \A x \in Execs \ {driver[c].exec} : stored'[x] = stored[x],
         Sound(r, from[driver[c].exec], cut),
         r.status # "RUNNING" => Seen(r, cut),
         \/ /\ driver' = driver /\ handed' = handed /\ driver[c].at = "step"
            /\ r.status = "RUNNING"
         \/ /\ driver' = [driver EXCEPT ![c].at = "rollback"] /\ handed' = handed
            /\ r.status = "PAUSED"
         \/ Leave(c) /\ r.status # "RUNNING"
  PROVE  YTypeOK' /\ ObjectsAreSound' /\ DriversAreApart'
  <1> DEFINE e == driver[c].exec
  <1>1. /\ e \in Execs \ handed /\ exec[e] # NoExec /\ e <= created
        /\ DrivesItsOwn(driver[c])
    BY DEF PlayInv, DriversAreApart, DrivesItsOwn, YTypeOK, Execs
  <1>2. exec'[e] = r /\ \A x \in Execs \ {e} : exec'[x] = exec[x]
    BY <1>1 DEF PlayInv, YTypeOK
  <1>3. r # NoExec
    BY RecordFields
  <1>4. handed' = handed \/ (handed' = handed \cup {e} /\ r.status # "RUNNING"
                             /\ driver' = [driver EXCEPT ![c] = resting])
    BY DEF Leave
  <1>5. \A b \in Drivers \ {c} : driver'[b] = driver[b]
    BY DEF Leave, PlayInv, YTypeOK
  <1>6. \/ driver'[c].at = "idle"
        \/ /\ handed' = handed
           /\ driver'[c].exec = driver[c].exec /\ driver'[c].parent = driver[c].parent
           /\ driver'[c].at = "step" => r.status = "RUNNING"
           /\ driver'[c].at = "rollback" => r.status = "PAUSED"
           /\ driver'[c].at = "merge" => driver[c].parent # 0
    <2>1. driver[c] \in [exec : 0..MaxExecs, parent : 0..MaxExecs,
                         at : {"idle", "step", "rollback", "merge"}]
      BY DEF PlayInv, YTypeOK
    <2> QED
      BY <2>1, <1>4 DEF Leave, resting, PlayInv, YTypeOK
  <1>7. driver' \in [Drivers -> [exec : 0..MaxExecs, parent : 0..MaxExecs,
                                 at : {"idle", "step", "rollback", "merge"}]]
    <2>1. 0 \in 0..MaxExecs
      BY PlaybooksAssumption
    <2> QED
      BY <2>1 DEF Leave, resting, PlayInv, YTypeOK
  <1>8. YTypeOK'
    <2>1. exec' \in [Execs -> ExecRecords \cup {NoExec}]
      BY DEF PlayInv, YTypeOK
    <2>2. handed' \subseteq {x \in Execs : exec'[x] # NoExec}
      BY <1>1, <1>2, <1>3, <1>4 DEF PlayInv, YTypeOK
    <2>3. \A x \in Execs : x > created => x # e
      BY <1>1 DEF Execs, PlayInv, YTypeOK
    <2>4. \A x \in Execs : x > created' => exec'[x] = NoExec /\ stored'[x] = NoExec
      BY <1>2, <2>3 DEF PlayInv, YTypeOK
    <2> QED
      BY <1>7, <2>1, <2>2, <2>4 DEF PlayInv, YTypeOK
  <1>9. ObjectsAreSound'
    BY <1>1, <1>2, <1>4 DEF ObjectsAreSound, PlayInv
  <1>10. ASSUME NEW b \in Drivers, driver'[b].at # "idle" PROVE DrivesItsOwn(driver[b])' 
    <2>1. CASE b = c
      <3>1. /\ driver'[c].exec = e /\ driver'[c].parent = driver[c].parent
            /\ handed' = handed
        BY <1>10, <2>1, <1>6
      <3>2. driver[c].parent # 0 => driver[c].parent \in Execs \ {e}
        BY <1>1 DEF DrivesItsOwn, PlayInv, YTypeOK
      <3> QED
        BY <1>1, <1>2, <1>3, <1>6, <1>10, <2>1, <3>1, <3>2 DEF DrivesItsOwn
    <2>2. CASE b # c
      <3>1. driver'[b] = driver[b] /\ DrivesItsOwn(driver[b])
        BY <1>5, <1>10, <2>2 DEF PlayInv, DriversAreApart
      <3>2. driver[b].exec # e
        BY <1>5, <1>10, <2>2 DEF PlayInv, DriversAreApart
      <3>3. driver[b].parent # 0 => driver[b].parent \in Execs \ {e}
        BY <1>1, <3>1 DEF DrivesItsOwn, PlayInv, YTypeOK
      <3>4. driver[b].exec \in Execs \ handed'
        BY <1>4, <3>1, <3>2 DEF DrivesItsOwn
      <3>5. handed \subseteq handed'
        BY <1>4
      <3> QED
        BY <1>2, <3>1, <3>2, <3>3, <3>4, <3>5 DEF DrivesItsOwn
    <2> QED
      BY <2>1, <2>2
  <1>11. \A b \in Drivers : driver'[b].at # "idle" =>
            /\ driver[b].at # "idle" /\ driver'[b].exec = driver[b].exec
            /\ driver'[b].parent = driver[b].parent
    BY <1>5, <1>6
  <1> QED
    BY <1>8, <1>9, <1>10, <1>11 DEF DriversAreApart, PlayInv

\* A step that succeeds is recorded before the index moves past it.
LEMMA StepSucceedsKeeps ==
  ASSUME PlayInv, NEW c \in Drivers, StepSucceeds(c) PROVE PlayInv'
  <1> DEFINE e == driver[c].exec
             s == exec[e].idx
             r == [exec[e] EXCEPT !.recorded = @ \cup {s}]
             next == [r EXCEPT !.idx = s + 1]
             done == [r EXCEPT !.status = "COMPLETED"]
  <1>1. driver[c].at = "step" /\ created' = created /\ from' = from /\ cut' = cut
    BY DEF StepSucceeds
  <1>2. /\ e \in Execs /\ exec[e] \in ExecRecords /\ exec[e].status = "RUNNING"
        /\ Sound(exec[e], from[e], cut) /\ from[e] \in Nat
    <2>1. e \in Execs /\ exec[e] # NoExec /\ exec[e].status = "RUNNING"
      BY <1>1 DEF PlayInv, DriversAreApart, DrivesItsOwn
    <2> QED
      BY <2>1 DEF PlayInv, YTypeOK, ObjectsAreSound, PlaySteps
  <1>3. s \in Nat /\ s <= StepCount - 1 /\ s \in PlaySteps /\ from[e] <= s
    BY <1>2, PlaybooksAssumption DEF ExecRecords, PlaySteps, Sound
  <1>4. /\ r \in ExecRecords /\ r.idx = s /\ r.recorded = exec[e].recorded \cup {s}
        /\ r.status = "RUNNING"
    BY <1>2, <1>3 DEF ExecRecords
  <1>5. /\ done \in ExecRecords /\ done.idx = s /\ done.recorded = r.recorded
        /\ done.status = "COMPLETED"
    BY <1>4 DEF ExecRecords
  <1>6. s + 1 < StepCount =>
          /\ next \in ExecRecords /\ next.idx = s + 1 /\ next.recorded = r.recorded
          /\ next.status = "RUNNING"
    <2>1. s + 1 < StepCount => s + 1 \in PlaySteps
      BY <1>3, PlaybooksAssumption DEF PlaySteps
    <2> HIDE DEF r, s
    <2> QED
      BY <1>4, <2>1 DEF ExecRecords
  <1>7. \A t \in from[e]..s : t \in r.recorded \cup cut
    <2> SUFFICES ASSUME NEW t \in from[e]..s PROVE t \in r.recorded \cup cut
      OBVIOUS
    <2>1. t = s \/ t \in from[e]..(s - 1)
      BY <1>2, <1>3
    <2> QED
      BY <2>1, <1>2, <1>4 DEF Sound
  <1> HIDE DEF r, next, done
  <1>8. SoundRow(r, from[e], cut)
    BY <1>2, <1>3, <1>4, <1>7 DEF SoundRow, Sound, Seen
  <1>9. CASE s + 1 < StepCount
    <2>1. /\ exec' = [exec EXCEPT ![e] = next] /\ Persist(e, {}, r)
          /\ driver' = driver /\ handed' = handed
      BY <1>9 DEF StepSucceeds, r, next
    <2>2. Sound(next, from[e], cut)
      BY <1>2, <1>3, <1>6, <1>7, <1>9 DEF Sound
    <2>3. /\ stored' \in [Execs -> ExecRecords \cup {NoExec}] /\ RowsAreSound'
          /\ \A x \in Execs \ {e} : stored'[x] = stored[x]
      BY <1>1, <1>2, <1>4, <1>8, <2>1, RowsKept DEF PlayInv, YTypeOK
    <2> QED
      BY <1>1, <1>6, <1>9, <2>1, <2>2, <2>3, OwnStep DEF PlayInv
  <1>10. CASE ~(s + 1 < StepCount)
    <2>1. exec' = [exec EXCEPT ![e] = done] /\ Persist(e, {r}, done) /\ Leave(c)
      BY <1>10 DEF StepSucceeds, r, done
    <2>2. s = StepCount - 1
      BY <1>3, <1>10, PlaybooksAssumption
    <2>3. SoundRow(done, from[e], cut) /\ Seen(done, cut)
      BY <1>2, <1>3, <1>4, <1>5, <1>7, <2>2 DEF SoundRow, Sound, Seen
    <2>4. /\ stored' \in [Execs -> ExecRecords \cup {NoExec}] /\ RowsAreSound'
          /\ \A x \in Execs \ {e} : stored'[x] = stored[x]
      BY <1>1, <1>2, <1>4, <1>5, <1>8, <2>1, <2>3, RowsKept DEF PlayInv, YTypeOK
    <2> QED
      BY <1>1, <1>5, <2>1, <2>3, <2>4, OwnStep DEF PlayInv, SoundRow
  <1> QED
    BY <1>9, <1>10

\* A step that fails leaves the index where the failure was recorded.
LEMMA StepFailsKeeps ==
  ASSUME PlayInv, NEW c \in Drivers, StepFails(c) PROVE PlayInv'
  <1> DEFINE e == driver[c].exec
             s == exec[e].idx
             r == [exec[e] EXCEPT !.recorded = @ \cup {s}, !.status = "PAUSED"]
  <1>1. /\ driver[c].at = "step" /\ created' = created /\ from' = from /\ cut' = cut
        /\ exec' = [exec EXCEPT ![e] = r] /\ Persist(e, {}, r)
        /\ \/ driver' = [driver EXCEPT ![c].at = "rollback"] /\ handed' = handed
           \/ Leave(c)
    BY DEF StepFails
  <1>2. /\ e \in Execs /\ exec[e] \in ExecRecords
        /\ Sound(exec[e], from[e], cut) /\ from[e] \in Nat
    <2>1. e \in Execs /\ exec[e] # NoExec
      BY <1>1 DEF PlayInv, DriversAreApart, DrivesItsOwn
    <2> QED
      BY <2>1 DEF PlayInv, YTypeOK, ObjectsAreSound, PlaySteps
  <1>3. /\ r \in ExecRecords /\ r.idx = s /\ r.recorded = exec[e].recorded \cup {s}
        /\ r.status = "PAUSED"
    BY <1>2 DEF ExecRecords
  <1> HIDE DEF r
  <1>4. SoundRow(r, from[e], cut) /\ Seen(r, cut)
    BY <1>2, <1>3 DEF SoundRow, Sound, Seen
  <1>5. /\ stored' \in [Execs -> ExecRecords \cup {NoExec}] /\ RowsAreSound'
        /\ \A x \in Execs \ {e} : stored'[x] = stored[x]
    BY <1>1, <1>2, <1>3, <1>4, RowsKept DEF PlayInv, YTypeOK
  <1> QED
    BY <1>1, <1>3, <1>4, <1>5, OwnStep DEF PlayInv, SoundRow

\* The end of a rollback is no completion, so it owes no account of the steps.
LEMMA RollbackKeeps ==
  ASSUME PlayInv, NEW c \in Drivers, NEW st \in {"ROLLED_BACK", "FAILED"},
         RollbackEnds(c, st)
  PROVE  PlayInv'
  <1> DEFINE e == driver[c].exec
             r == [exec[e] EXCEPT !.status = st]
  <1>1. /\ driver[c].at = "rollback" /\ created' = created /\ from' = from
        /\ cut' = cut /\ exec' = [exec EXCEPT ![e] = r] /\ Persist(e, {}, r) /\ Leave(c)
    BY DEF RollbackEnds
  <1>2. /\ e \in Execs /\ exec[e] \in ExecRecords /\ Seen(exec[e], cut)
        /\ Sound(exec[e], from[e], cut) /\ from[e] \in Nat
    <2>1. e \in Execs /\ exec[e] # NoExec /\ exec[e].status = "PAUSED"
      BY <1>1 DEF PlayInv, DriversAreApart, DrivesItsOwn
    <2> QED
      BY <2>1 DEF PlayInv, YTypeOK, ObjectsAreSound, PlaySteps
  <1>3. /\ r \in ExecRecords /\ r.idx = exec[e].idx /\ r.recorded = exec[e].recorded
        /\ r.status = st
    BY <1>2 DEF ExecRecords
  <1> HIDE DEF r
  <1>4. SoundRow(r, from[e], cut) /\ Seen(r, cut)
    BY <1>2, <1>3 DEF SoundRow, Sound, Seen
  <1>5. /\ stored' \in [Execs -> ExecRecords \cup {NoExec}] /\ RowsAreSound'
        /\ \A x \in Execs \ {e} : stored'[x] = stored[x]
    BY <1>1, <1>2, <1>3, <1>4, RowsKept DEF PlayInv, YTypeOK
  <1> QED
    BY <1>1, <1>3, <1>4, <1>5, OwnStep DEF PlayInv, SoundRow

\* resume puts the run's outcomes into the execution it resumed: between them
\* they have every step from the one's start to the other's.
LEMMA MergeKeeps ==
  ASSUME PlayInv, NEW c \in Drivers, Merge(c) PROVE PlayInv'
  <1> DEFINE e == driver[c].parent
             run == exec[driver[c].exec]
             r == [exec[e] EXCEPT !.recorded = @ \cup run.recorded, !.status = run.status]
  <1>1. /\ driver[c].at = "merge" /\ created' = created /\ from' = from /\ cut' = cut
        /\ handed' = handed /\ exec' = [exec EXCEPT ![e] = r] /\ Persist(e, {}, r)
        /\ driver' = [driver EXCEPT ![c] = resting]
    BY DEF Merge
  <1>2. /\ e \in handed /\ e \in Execs /\ exec[e] # NoExec /\ e # 0
        /\ driver[c].exec \in Execs /\ run # NoExec
        /\ from[driver[c].exec] = exec[e].idx + 1
    BY <1>1 DEF PlayInv, YTypeOK, DriversAreApart, DrivesItsOwn
  <1>3. /\ exec[e] \in ExecRecords /\ run \in ExecRecords
        /\ from[e] \in Nat /\ e <= created
    BY <1>2 DEF PlayInv, YTypeOK, PlaySteps, Execs
  <1>4. /\ Sound(exec[e], from[e], cut) /\ Seen(exec[e], cut)
        /\ Sound(run, exec[e].idx + 1, cut)
    BY <1>2 DEF PlayInv, ObjectsAreSound
  <1>5. /\ r \in ExecRecords /\ r.idx = exec[e].idx /\ r.status = run.status
        /\ r.recorded = exec[e].recorded \cup run.recorded
    BY <1>3 DEF ExecRecords
  <1>6. exec[e].idx \in Nat /\ run.idx \in Nat
    BY <1>3, RecordFields
  <1> HIDE DEF r, run, e
  <1>7. SoundRow(r, from[e], cut) /\ Seen(r, cut)
    <2>1. \A s \in from[e]..(StepCount - 1) :
             \/ s \in from[e]..(exec[e].idx - 1) \/ s = exec[e].idx
             \/ s \in (exec[e].idx + 1)..(StepCount - 1)
      BY <1>3, <1>6, PlaybooksAssumption
    <2> QED
      BY <1>4, <1>5, <2>1 DEF SoundRow, Sound, Seen
  <1>8. /\ stored' \in [Execs -> ExecRecords \cup {NoExec}] /\ RowsAreSound'
        /\ \A x \in Execs \ {e} : stored'[x] = stored[x]
    BY <1>1, <1>2, <1>5, <1>7, RowsKept DEF PlayInv, YTypeOK
  <1>9. r # NoExec /\ exec'[e] = r /\ \A x \in Execs \ {e} : exec'[x] = exec[x]
    BY <1>1, <1>2, <1>5, RecordFields DEF PlayInv, YTypeOK
  <1>10. YTypeOK'
    <2>1. exec' \in [Execs -> ExecRecords \cup {NoExec}]
      BY <1>1, <1>5 DEF PlayInv, YTypeOK
    <2>2. resting \in [exec : 0..MaxExecs, parent : 0..MaxExecs,
                       at : {"idle", "step", "rollback", "merge"}]
      BY PlaybooksAssumption DEF resting
    <2>3. driver' \in [Drivers -> [exec : 0..MaxExecs, parent : 0..MaxExecs,
                                   at : {"idle", "step", "rollback", "merge"}]]
      BY <1>1, <2>2 DEF PlayInv, YTypeOK
    <2>4. handed' \subseteq {x \in Execs : exec'[x] # NoExec}
      BY <1>1, <1>9 DEF PlayInv, YTypeOK
    <2>5. \A x \in Execs : x > created' => exec'[x] = NoExec /\ stored'[x] = NoExec
      BY <1>1, <1>3, <1>8, <1>9 DEF PlayInv, YTypeOK, Execs
    <2> QED
      BY <1>1, <1>8, <2>1, <2>3, <2>4, <2>5 DEF PlayInv, YTypeOK
  <1>11. ObjectsAreSound'
    BY <1>1, <1>7, <1>9 DEF ObjectsAreSound, PlayInv, SoundRow
  <1>12. driver'[c].at = "idle" /\ \A b \in Drivers \ {c} : driver'[b] = driver[b]
    BY <1>1 DEF PlayInv, YTypeOK, resting
  <1>13. ASSUME NEW b \in Drivers, driver'[b].at # "idle" PROVE DrivesItsOwn(driver[b])'
    <2>1. b # c /\ driver'[b] = driver[b] /\ DrivesItsOwn(driver[b])
      BY <1>12, <1>13 DEF PlayInv, DriversAreApart
    <2>2. driver[b].exec \in Execs \ {e}
      BY <1>2, <2>1 DEF DrivesItsOwn
    <2>3. driver[b].parent # 0 => driver[b].parent \in Execs \ {e}
      BY <1>1, <1>2, <1>13, <2>1 DEF DrivesItsOwn, PlayInv, YTypeOK, DriversAreApart, e
    <2> QED
      BY <1>1, <1>9, <2>1, <2>2, <2>3 DEF DrivesItsOwn
  <1>14. DriversAreApart'
    BY <1>12, <1>13 DEF DriversAreApart, PlayInv
  <1> QED
    BY <1>8, <1>10, <1>11, <1>14 DEF PlayInv

\* A run starts, on its own or as the resumption of a paused execution that
\* nobody else resumes.
LEMMA StartRunKeeps ==
  ASSUME PlayInv, NEW c \in Drivers, NEW was \in 0..MaxExecs, NEW step \in PlaySteps,
         was # 0 => /\ was \in handed /\ exec[was].status = "PAUSED"
                    /\ step = exec[was].idx + 1,
         StartRun(c, was, step)
  PROVE  PlayInv'
  <1> DEFINE e == created + 1
             r == [idx |-> step, recorded |-> {}, status |-> "RUNNING"]
             back == [exec[was] EXCEPT !.status = "RUNNING"]
             d == [exec |-> e, parent |-> was, at |-> "step"]
  <1>1. /\ driver[c] = resting /\ created < MaxExecs /\ created' = e
        /\ from' = [from EXCEPT ![e] = step] /\ Persist(e, {}, r)
        /\ driver' = [driver EXCEPT ![c] = d] /\ handed' = handed /\ cut' = cut
        /\ exec' = [x \in Execs |-> IF x = e THEN r ELSE IF x = was THEN back
                                    ELSE exec[x]]
    BY DEF StartRun
  <1>2. /\ created \in Nat /\ e \in Execs /\ exec[e] = NoExec /\ stored[e] = NoExec
        /\ e \notin handed /\ e # 0
    BY <1>1, PlaybooksAssumption DEF PlayInv, YTypeOK, Execs
  <1>3. step \in Nat
    BY DEF PlaySteps
  <1>4. /\ r \in ExecRecords /\ r.idx = step /\ r.recorded = {} /\ r.status = "RUNNING"
        /\ r # NoExec
    BY PlaybooksAssumption DEF ExecRecords
  <1>5. was # 0 =>
          /\ was \in Execs /\ was # e /\ exec[was] \in ExecRecords
          /\ exec[was] # NoExec
    BY <1>2 DEF PlayInv, YTypeOK
  <1>6. was # 0 =>
          /\ back \in ExecRecords /\ back.idx = exec[was].idx /\ back # NoExec
          /\ back.recorded = exec[was].recorded /\ back.status = "RUNNING"
    BY <1>5, PlaybooksAssumption DEF ExecRecords
  <1>7. d.exec = e /\ d.parent = was /\ d.at = "step"
    OBVIOUS
  <1>8. /\ exec'[e] = r
        /\ was # 0 => exec'[was] = back
        /\ \A x \in Execs \ {e, was} : exec'[x] = exec[x]
    BY <1>1, <1>2, <1>5
  <1>9. exec' \in [Execs -> ExecRecords \cup {NoExec}]
    <2>1. \A x \in Execs : x = was => was # 0
      BY DEF Execs
    <2> QED
      BY <1>1, <1>4, <1>6, <2>1 DEF PlayInv, YTypeOK
  <1>10. driver' \in [Drivers -> [exec : 0..MaxExecs, parent : 0..MaxExecs,
                                  at : {"idle", "step", "rollback", "merge"}]]
    <2>1. e \in 0..MaxExecs
      BY <1>2 DEF Execs
    <2>2. d \in [exec : 0..MaxExecs, parent : 0..MaxExecs,
                 at : {"idle", "step", "rollback", "merge"}]
      BY <2>1
    <2> QED
      BY <1>1, <2>2 DEF PlayInv, YTypeOK
  <1>11. driver'[c] = d /\ \A b \in Drivers \ {c} : driver'[b] = driver[b]
    BY <1>1 DEF PlayInv, YTypeOK
  <1> HIDE DEF r, back, d
  <1>12. /\ from' \in [Execs -> PlaySteps] /\ from'[e] = step
         /\ \A x \in Execs \ {e} : from'[x] = from[x]
    BY <1>1, <1>2 DEF PlayInv, YTypeOK
  <1>13. Sound(r, step, cut) /\ SoundRow(r, step, cut)
    BY <1>3, <1>4 DEF SoundRow, Sound
  <1> HIDE DEF e
  <1>14. /\ stored' \in [Execs -> ExecRecords \cup {NoExec}] /\ RowsAreSound'
         /\ \A x \in Execs \ {e} : stored'[x] = stored[x]
    BY <1>1, <1>2, <1>4, <1>12, <1>13, RowsKept DEF PlayInv
  <1>15. YTypeOK'
    <2>1. handed' \subseteq {x \in Execs : exec'[x] # NoExec}
      <3>1. \A x \in handed : x \in Execs \ {0, e} /\ exec[x] # NoExec
        BY <1>2 DEF PlayInv, YTypeOK, Execs
      <3>2. \A x \in handed : exec'[x] # NoExec
        BY <1>6, <1>8, <3>1
      <3> QED
        BY <1>1, <3>1, <3>2
    <2>2. created' \in 0..MaxExecs
      BY <1>1, <1>2, PlaybooksAssumption DEF Execs, e
    <2>3. \A x \in Execs : x > created' => x \in Execs \ {e} /\ x > created
      BY <1>1, <1>2 DEF Execs, e
    <2>4. \A x \in Execs : x > created => exec[x] = NoExec
      BY DEF PlayInv, YTypeOK
    <2>5. ASSUME NEW x \in Execs, x > created'
          PROVE  exec'[x] = NoExec /\ stored'[x] = NoExec
      <3>1. x \in Execs \ {e, was}
        BY <1>5, <2>3, <2>4, <2>5 DEF Execs
      <3> QED
        BY <1>8, <1>14, <2>3, <2>5, <3>1 DEF PlayInv, YTypeOK
    <2> QED
      BY <1>1, <1>9, <1>10, <1>12, <1>14, <2>1, <2>2, <2>5 DEF PlayInv, YTypeOK
  <1>16. ObjectsAreSound'
    <2> SUFFICES ASSUME NEW x \in Execs, exec'[x] # NoExec
                 PROVE  /\ Sound(exec'[x], from'[x], cut')
                        /\ x \in handed' \/ exec'[x].status # "RUNNING"
                             => Seen(exec'[x], cut')
      BY DEF ObjectsAreSound
    <2>1. CASE x = e
      BY <2>1, <1>1, <1>2, <1>4, <1>8, <1>12, <1>13
    <2>2. CASE x = was
      <3>1. was # 0 /\ x # e
        BY <2>2, <1>5 DEF Execs
      <3>2. Sound(exec[x], from[x], cut) /\ Seen(exec[x], cut)
        BY <2>2, <3>1, <1>5 DEF PlayInv, ObjectsAreSound
      <3>3. Sound(back, from[x], cut) /\ Seen(back, cut)
        BY <2>2, <3>1, <3>2, <1>6 DEF Sound, Seen
      <3> QED
        BY <2>2, <3>1, <3>3, <1>1, <1>8, <1>12
    <2>3. CASE x \notin {e, was}
      BY <2>3, <1>1, <1>8, <1>12 DEF PlayInv, ObjectsAreSound
    <2> QED
      BY <2>1, <2>2, <2>3
  <1>17. \A b \in Drivers \ {c} : driver[b].at # "idle" =>
           /\ driver[b].exec \in Execs \ {e, was}
           /\ driver[b].parent # 0 => driver[b].parent \in Execs \ {e, was}
    <2> SUFFICES ASSUME NEW b \in Drivers \ {c}, driver[b].at # "idle"
                 PROVE  /\ driver[b].exec \in Execs \ {e, was}
                        /\ driver[b].parent # 0 => driver[b].parent \in Execs \ {e, was}
      OBVIOUS
    <2>1. DrivesItsOwn(driver[b])
      BY DEF PlayInv, DriversAreApart
    <2>2. driver[b].exec \in Execs \ {e, was}
      <3>1. driver[b].exec # 0
        BY <2>1 DEF DrivesItsOwn, Execs
      <3> QED
        BY <1>2, <2>1, <3>1 DEF DrivesItsOwn
    <2>3. driver[b].parent # 0 => driver[b].parent \in Execs \ {e, was}
      BY <1>2, <2>1 DEF DrivesItsOwn, PlayInv, YTypeOK
    <2> QED
      BY <2>2, <2>3
  <1>18. ASSUME NEW b \in Drivers, driver'[b].at # "idle" PROVE DrivesItsOwn(driver[b])'
    <2>1. CASE b = c
      <3>1. was # 0 => from'[e] = exec'[was].idx + 1
        BY <1>6, <1>8, <1>12
      <3> QED
        BY <2>1, <3>1, <1>1, <1>2, <1>4, <1>6, <1>7, <1>8, <1>11 DEF DrivesItsOwn
    <2>2. CASE b # c
      <3>1. driver'[b] = driver[b] /\ DrivesItsOwn(driver[b])
        BY <1>11, <1>18, <2>2 DEF PlayInv, DriversAreApart
      <3>2. /\ driver[b].exec \in Execs \ {e, was}
            /\ driver[b].parent # 0 => driver[b].parent \in Execs \ {e, was}
        BY <1>17, <1>18, <2>2, <3>1
      <3> QED
        BY <1>1, <1>8, <1>12, <3>1, <3>2 DEF DrivesItsOwn
    <2> QED
      BY <2>1, <2>2
  <1>19. DriversAreApart'
    BY <1>7, <1>11, <1>17, <1>18 DEF DriversAreApart, PlayInv
  <1> QED
    BY <1>14, <1>15, <1>16, <1>19 DEF PlayInv

\* Resuming an execution whose steps are all done completes it with every step recorded.
LEMMA ResumeAtEndKeeps ==
  ASSUME PlayInv, NEW c \in Drivers, NEW e \in Execs, ResumeAtEnd(c, e)
  PROVE  PlayInv'
  <1> DEFINE r == [exec[e] EXCEPT !.status = "COMPLETED"]
  <1>1. /\ e \in handed /\ exec[e].status = "PAUSED" /\ exec[e].idx + 1 >= StepCount
        /\ exec' = [exec EXCEPT ![e] = r] /\ stored' = stored /\ driver' = driver
        /\ created' = created /\ handed' = handed /\ from' = from /\ cut' = cut
    BY DEF ResumeAtEnd
  <1>2. /\ exec[e] # NoExec /\ exec[e] \in ExecRecords /\ from[e] \in Nat
        /\ e <= created
    BY <1>1 DEF PlayInv, YTypeOK, PlaySteps, Execs
  <1>3. exec[e].idx \in Nat /\ exec[e].idx = StepCount - 1
    BY <1>1, <1>2, PlaybooksAssumption DEF ExecRecords, PlaySteps
  <1>4. Sound(exec[e], from[e], cut) /\ Seen(exec[e], cut)
    BY <1>1, <1>2 DEF PlayInv, ObjectsAreSound
  <1>5. /\ r \in ExecRecords /\ r.idx = exec[e].idx /\ r.status = "COMPLETED"
        /\ r.recorded = exec[e].recorded /\ r # NoExec
    BY <1>2, PlaybooksAssumption DEF ExecRecords
  <1> HIDE DEF r
  <1>6. Sound(r, from[e], cut) /\ Seen(r, cut)
    <2>1. \A s \in from[e]..(StepCount - 1) :
             s \in from[e]..(exec[e].idx - 1) \/ s = exec[e].idx
      BY <1>2, <1>3
    <2> QED
      BY <1>4, <1>5, <2>1 DEF Sound, Seen
  <1>7. exec'[e] = r /\ \A x \in Execs \ {e} : exec'[x] = exec[x]
    BY <1>1 DEF PlayInv, YTypeOK
  <1>8. YTypeOK'
    <2>1. exec' \in [Execs -> ExecRecords \cup {NoExec}]
      BY <1>1, <1>5 DEF PlayInv, YTypeOK
    <2>2. \A x \in Execs : exec'[x] = NoExec <=> exec[x] = NoExec
      BY <1>2, <1>5, <1>7
    <2>3. handed' \subseteq {x \in Execs : exec'[x] # NoExec}
      BY <1>1, <2>2 DEF PlayInv, YTypeOK
    <2> QED
      BY <1>1, <2>1, <2>2, <2>3 DEF PlayInv, YTypeOK
  <1>9. RowsAreSound'
    BY <1>1 DEF PlayInv, RowsAreSound
  <1>10. ObjectsAreSound'
    BY <1>1, <1>6, <1>7 DEF ObjectsAreSound, PlayInv
  <1>11. DriversAreApart'
    <2>1. ASSUME NEW b \in Drivers, driver[b].at # "idle" PROVE DrivesItsOwn(driver[b])'
      <3>1. DrivesItsOwn(driver[b])
        BY <2>1 DEF PlayInv, DriversAreApart
      <3>2. /\ driver[b].exec \in Execs \ {e}
            /\ driver[b].parent # 0 => driver[b].parent \in Execs \ {e}
        BY <1>1, <3>1 DEF DrivesItsOwn, PlayInv, YTypeOK
      <3> QED
        BY <1>1, <1>7, <3>1, <3>2 DEF DrivesItsOwn
    <2> QED
      BY <1>1, <2>1 DEF PlayInv, DriversAreApart
  <1> QED
    BY <1>8, <1>9, <1>10, <1>11 DEF PlayInv

\* load_playbook_executions: what was RUNNING comes back PAUSED on the step of
\* its last write, which is accounted for or is the first step, now cut.
LEMMA RestartKeeps ==
  ASSUME PlayInv, NodeRestart PROVE PlayInv'
  <1> DEFINE lost == {x \in Execs : stored[x] # NoExec /\ from[x] \notin stored[x].recorded}
             loaded(e) == IF stored[e] # NoExec /\ stored[e].status = "RUNNING"
                          THEN [stored[e] EXCEPT !.status = "PAUSED"] ELSE stored[e]
  <1>1. /\ stored' = [e \in Execs |-> loaded(e)] /\ exec' = stored'
        /\ handed' = {e \in Execs : stored[e] # NoExec}
        /\ driver' = [c \in Drivers |-> resting]
        /\ cut' = cut \cup {from[e] : e \in lost}
        /\ created' = created /\ from' = from
    BY DEF NodeRestart
  <1>2. /\ stored \in [Execs -> ExecRecords \cup {NoExec}]
        /\ from \in [Execs -> PlaySteps] /\ cut \subseteq PlaySteps
        /\ created \in 0..MaxExecs
        /\ \A e \in Execs : e > created => stored[e] = NoExec
    BY DEF PlayInv, YTypeOK
  <1>3. \A e \in Execs : stored[e] # NoExec =>
          /\ loaded(e) \in ExecRecords /\ loaded(e).idx = stored[e].idx
          /\ loaded(e).recorded = stored[e].recorded /\ loaded(e).status # "RUNNING"
          /\ loaded(e).status = "COMPLETED" => stored[e].status = "COMPLETED"
    BY <1>2 DEF ExecRecords
  <1>4. \A e \in Execs : stored[e] = NoExec => loaded(e) = NoExec
    OBVIOUS
  <1> HIDE DEF loaded
  <1>5. \A e \in Execs : stored'[e] = loaded(e) /\ exec'[e] = loaded(e)
    BY <1>1
  <1>6. YTypeOK'
    <2>1. stored' \in [Execs -> ExecRecords \cup {NoExec}]
      BY <1>1, <1>3, <1>4
    <2>2. resting \in [exec : 0..MaxExecs, parent : 0..MaxExecs,
                       at : {"idle", "step", "rollback", "merge"}]
      BY PlaybooksAssumption DEF resting
    <2>3. driver' \in [Drivers -> [exec : 0..MaxExecs, parent : 0..MaxExecs,
                                   at : {"idle", "step", "rollback", "merge"}]]
      BY <1>1, <2>2
    <2>4. handed' \subseteq {x \in Execs : exec'[x] # NoExec}
      BY <1>1, <1>3, <1>5, RecordFields
    <2>5. cut' \subseteq PlaySteps
      BY <1>1, <1>2
    <2>6. \A e \in Execs : e > created' => exec'[e] = NoExec /\ stored'[e] = NoExec
      BY <1>1, <1>2, <1>4, <1>5
    <2> QED
      BY <1>1, <1>2, <2>1, <2>3, <2>4, <2>5, <2>6 DEF YTypeOK
  <1>7. ASSUME NEW e \in Execs, stored[e] # NoExec
        PROVE  Sound(loaded(e), from'[e], cut') /\ Seen(loaded(e), cut')
    <2>1. SoundRow(stored[e], from[e], cut) /\ cut \subseteq cut'
      BY <1>1, <1>7 DEF PlayInv, RowsAreSound
    <2>2. Sound(loaded(e), from[e], cut')
      BY <1>3, <1>7, <2>1 DEF SoundRow, Sound
    <2>3. from[e] \in stored[e].recorded \cup cut'
      BY <1>1, <1>7
    <2>4. Seen(loaded(e), cut')
      BY <1>3, <1>7, <2>1, <2>3 DEF SoundRow, Seen
    <2> QED
      BY <1>1, <2>2, <2>4
  <1>8. ObjectsAreSound' /\ RowsAreSound'
    BY <1>4, <1>5, <1>7 DEF ObjectsAreSound, RowsAreSound, SoundRow
  <1>9. DriversAreApart'
    BY <1>1 DEF DriversAreApart, resting
  <1> QED
    BY <1>6, <1>8, <1>9 DEF PlayInv

\* A playbook reported COMPLETED has an outcome on record for every step from
\* where it was started, over pauses, concurrent resumptions, restarts and
\* failed writes, except first steps whose outcome never reached the table:
\* for playbooks of any length and any number of executions and coroutines.
THEOREM CompletionIsAccounted == YSpec => []CompletedIsAccounted
  <1>1. YInit => PlayInv
    <2> SUFFICES ASSUME YInit PROVE PlayInv
      OBVIOUS
    <2>1. resting \in [exec : 0..MaxExecs, parent : 0..MaxExecs,
                       at : {"idle", "step", "rollback", "merge"}]
      BY PlaybooksAssumption DEF resting
    <2>2. 0 \in PlaySteps /\ 0 \in 0..MaxExecs
      BY PlaybooksAssumption DEF PlaySteps
    <2>3. \A e \in Execs : exec[e] = NoExec /\ stored[e] = NoExec
      BY DEF YInit
    <2>4. YTypeOK
      BY <2>1, <2>2, <2>3 DEF YInit, YTypeOK
    <2>5. \A c \in Drivers : driver[c].at = "idle"
      BY DEF YInit, resting
    <2> QED
      BY <2>3, <2>4, <2>5 DEF PlayInv, RowsAreSound, ObjectsAreSound, DriversAreApart
  <1>2. PlayInv /\ [YNext]_ybvars => PlayInv'
    <2> SUFFICES ASSUME PlayInv, [YNext]_ybvars PROVE PlayInv'
      OBVIOUS
    <2>1. ASSUME NEW c \in Drivers, ExecutePlaybook(c) PROVE PlayInv'
      <3>1. 0 \in PlaySteps /\ 0 \in 0..MaxExecs
        BY PlaybooksAssumption DEF PlaySteps
      <3> QED
        BY <2>1, <3>1, StartRunKeeps DEF ExecutePlaybook
    <2>2. ASSUME NEW c \in Drivers, NEW e \in Execs, ResumeFrom(c, e) PROVE PlayInv'
      <3>1. e \in handed /\ exec[e].status = "PAUSED" /\ exec[e] \in ExecRecords
        BY <2>2 DEF ResumeFrom, PlayInv, YTypeOK
      <3>2. exec[e].idx + 1 \in PlaySteps /\ e \in 0..MaxExecs
        BY <2>2, <3>1, PlaybooksAssumption DEF ResumeFrom, ExecRecords, PlaySteps, Execs
      <3> QED
        BY <2>2, <3>1, <3>2, StartRunKeeps DEF ResumeFrom
    <2>3. CASE UNCHANGED ybvars
      BY <2>3 DEF ybvars, PlayInv, YTypeOK, RowsAreSound, ObjectsAreSound,
                  DriversAreApart, DrivesItsOwn
    <2> QED
      BY <2>1, <2>2, <2>3, ResumeAtEndKeeps, StepSucceedsKeeps, StepFailsKeeps,
         MergeKeeps, RollbackKeeps, RestartKeeps DEF YNext
  <1>3. PlayInv => CompletedIsAccounted
    BY DEF PlayInv, RowsAreSound, ObjectsAreSound, SoundRow, Sound, CompletedIsAccounted
  <1> QED
    BY <1>1, <1>2, <1>3, PTL DEF YSpec

=============================================================================
