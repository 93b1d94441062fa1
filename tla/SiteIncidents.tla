--------------------------- MODULE SiteIncidents ---------------------------
(***************************************************************************)
(* From telemetry to incidents at a Site Manager (ingest.py, correlation/  *)
(* engine.py and rules.py, incidents.py).                                  *)
(*                                                                         *)
(* An ingested report commits the subsystem's new state and, on a change   *)
(* from OK to a fault, calls the onset hook after the commit.  The hook    *)
(* and the periodic sweep share one lock: both consolidate the fault into  *)
(* the single open incident of its device and subsystem (a child) and let  *)
(* the rules group children under the open parent of a scope: a power or   *)
(* cooling domain, a component model, a network domain.                    *)
(*                                                                         *)
(* A child or a parent is created once per episode and never reopens, and  *)
(* a scope has at most one open parent, so an incident is named by what it *)
(* is about; of the closed children of an open parent only their existence *)
(* matters.  The suppression engine is fed by the same hook and checked by *)
(* the same sweep; its state is that of Suppression.                       *)
(***************************************************************************)
EXTENDS Integers, FiniteSets, FiniteSetsExt

CONSTANTS
    Nodes,        \* devices with an agent
    Units,        \* <<device, subsystem>> pairs that report a state
    SiteOf,       \* the site of a device
    RuleScopes,   \* domains and component models the rules group by
    KindOf,       \* "power" (cooling is the same rule), "batch" or "network"
    UnitsOf,      \* the units of a scope that may become its children
    NodesOf,      \* the member devices of a scope
    Quorum,       \* the least number of devices a rule groups
    CorrelationWindow,   \* in ticks
    StaleAfter,   \* silence after which a device is no longer observed
    LastMoment,   \* bound on the clock
    MaxSlips      \* bound on restarts, failing hooks and failing sweeps

ASSUME IncidentsAssumption ==
    /\ Units \subseteq Nodes \X {"psu", "thermal", "interface"}
    /\ RuleScopes \cap {"none", "alone"} = {}
    /\ KindOf \in [RuleScopes -> {"power", "batch", "network"}]
    /\ UnitsOf \in [RuleScopes -> SUBSET Units]
    /\ NodesOf \in [RuleScopes -> SUBSET Nodes]
    /\ CorrelationWindow \in Nat /\ StaleAfter \in Nat \ {0}
    /\ LastMoment \in Nat /\ MaxSlips \in Nat

Sites == {SiteOf[n] : n \in Nodes}
Never == -1
None == "none"    \* no open child
Alone == "alone"  \* an open child without a parent

VARIABLES
    moment,   \* the Site Manager's clock
    fault,    \* units whose stored severity is not OK
    onset,    \* the stored onset time of a unit, Never while it is OK
    verdict,  \* units with a fault verdict inside the batch rule's look-back
    beat,     \* the time of a device's last heartbeat
    hooks,    \* onset hooks called and not yet served
    child,    \* None, Alone or the parent of a unit's open device incident
    parent,   \* the open parents and what is left of their closed children
    unsure,   \* devices with an open network_ambiguity incident
    hold,     \* IncidentService._holddown, in memory
    sweep,    \* where the sweep is; it keeps the lock from start to end
    slips,    \* restarts and failures so far
    \* Observations; no action reads them.
    missed    \* units whose last onset hook was lost or failed

ivars == <<moment, fault, onset, verdict, beat, hooks, child, parent, unsure, hold,
           sweep, slips, missed>>

Idle == [pc |-> "idle", todo |-> {}, ok |-> {}, back |-> {}]
NoParent == [open |-> FALSE, site |-> "", closedKid |-> FALSE]

ITypeOK ==
    /\ moment \in 0 .. LastMoment
    /\ fault \subseteq Units
    /\ onset \in [Units -> Never .. LastMoment]
    /\ verdict \subseteq Units
    /\ beat \in [Nodes -> 0 .. LastMoment]
    /\ hooks \subseteq Units
    /\ child \in [Units -> RuleScopes \cup {None, Alone}]
    /\ parent \in [RuleScopes -> [open : BOOLEAN, site : Sites \cup {""},
                              closedKid : BOOLEAN]]
    /\ unsure \subseteq Nodes
    /\ hold \in [RuleScopes -> 0 .. 1]
    /\ sweep.pc \in {"idle", "rules", "closing"}
    /\ slips \in 0 .. MaxSlips
    /\ missed \subseteq Units

-----------------------------------------------------------------------------
(* Ingest.                                                                 *)

\* _apply_subsystem reports an onset when the stored state was OK.
Onset(u) == u \notin fault

\* A report of one subsystem: the stored state moves and the hook is called
\* after the commit.
Apply(u, bad) ==
    /\ fault' = IF bad THEN fault \cup {u} ELSE fault \ {u}
    /\ onset' = [onset EXCEPT ![u] = IF ~bad THEN Never
                                     ELSE IF u \notin fault THEN moment ELSE @]
    /\ hooks' = IF bad /\ Onset(u) THEN hooks \cup {u} ELSE hooks
    /\ missed' = IF ~bad \/ Onset(u) THEN missed \ {u} ELSE missed

\* heartbeat: also the sign of life the observation state is read from.
Heartbeat(u, bad) ==
    /\ Apply(u, bad)
    /\ beat' = [beat EXCEPT ![u[1]] = moment]
    /\ UNCHANGED <<moment, verdict, child, parent, unsure, hold, sweep, slips>>

\* verdict: the fault verdicts are kept for the batch rule.
Verdict(u, bad) ==
    /\ Apply(u, bad)
    /\ verdict' = IF bad THEN verdict \cup {u} ELSE verdict
    /\ UNCHANGED <<moment, beat, child, parent, unsure, hold, sweep, slips>>

\* The unit's last fault verdict leaves the look-back of 24 hours.
Forget(u) ==
    /\ u \in verdict
    /\ verdict' = verdict \ {u}
    /\ UNCHANGED <<moment, fault, onset, beat, hooks, child, parent, unsure, hold,
                   sweep, slips, missed>>

-----------------------------------------------------------------------------
(* The rules, on a table t of children and parents.                        *)

Spread(times) == Max(times) - Min(times)

\* observation_state.
Observed(n) == moment - beat[n] < StaleAfter

Faulted(c) == UnitsOf[c] \cap fault

Reported(c) == UnitsOf[c] \cap verdict

Lost(c) == {n \in NodesOf[c] : ~Observed(n)}

\* Does the rule of c find its quorum?  The batch rule counts the reports of
\* every site.
Correlated(c) ==
    CASE KindOf[c] = "power" ->
           /\ Cardinality(Faulted(c)) >= Quorum
           /\ Spread({onset[u] : u \in Faulted(c)}) <= CorrelationWindow
      [] KindOf[c] = "batch" -> Cardinality(Reported(c)) >= Quorum
      [] KindOf[c] = "network" ->
           /\ Cardinality(Lost(c)) >= Quorum
           /\ Spread({beat[n] : n \in Lost(c)}) <= CorrelationWindow

\* The units a rule attaches to its open parent; a late one needs no window.
Joins(c) == IF KindOf[c] = "batch" THEN Reported(c) \cap fault ELSE Faulted(c)

\* The scopes the pass of one site looks at: its own domains, and every model.
ScopesAt(site) ==
    {c \in RuleScopes : KindOf[c] = "batch" \/ \E n \in NodesOf[c] : SiteOf[n] = site}

\* _domain_rule, batch_component, tor_connectivity over the scopes of one kind:
\* at most one open parent per scope; _attach moves a child that already has
\* another parent, and of two scopes of one kind the one listed last keeps it.
Rules(t, kind, site) ==
    LET open == {c \in ScopesAt(site) :
                    KindOf[c] = kind /\ (t.parent[c].open \/ Correlated(c))}
        joined == [u \in Units |-> {c \in open : u \in Joins(c)}]
    IN
    [child  |-> [u \in Units |-> IF joined[u] = {} THEN t.child[u]
                                 ELSE CHOOSE c \in joined[u] : TRUE],
     parent |-> [c \in RuleScopes |-> IF c \in open /\ ~t.parent[c].open
                                  THEN [NoParent EXCEPT !.open = TRUE, !.site = site]
                                  ELSE t.parent[c]]]

\* network_ambiguity: a silent device some observed neighbour votes on.
Ambiguous(site) ==
    {n \in Nodes : /\ SiteOf[n] = site /\ ~Observed(n)
                   /\ \E v \in Nodes \ {n} : SiteOf[v] = site /\ Observed(v)}

\* ensure_device_incident: repeats attach to the open child.
EnsureChild(u) == [child EXCEPT ![u] = IF @ = None THEN Alone ELSE @]

\* Variant for mutation: the hook does not wait for the sweep's lock.
LockTaken == FALSE

\* CorrelationEngine._lock.
Locked == sweep.pc # "idle"

\* on_onset: consolidate, then the rules of the unit's subsystem.
ServeHook(u) ==
    LET site == SiteOf[u[1]]
        t0 == [child |-> EnsureChild(u), parent |-> parent]
        t1 == IF u[2] = "interface" THEN t0 ELSE Rules(t0, "power", site)
        t == Rules(t1, "batch", site)
    IN
    /\ ~Locked
    /\ u \in hooks
    /\ hooks' = hooks \ {u}
    /\ child' = t.child /\ parent' = t.parent
    /\ UNCHANGED <<moment, fault, onset, verdict, beat, unsure, hold, sweep, slips,
                   missed>>

\* The hook raised: _fire logs it and nobody calls it again.
HookFails(u) ==
    /\ slips < MaxSlips /\ slips' = slips + 1
    /\ u \in hooks
    /\ hooks' = hooks \ {u}
    /\ missed' = IF u \in fault THEN missed \cup {u} ELSE missed
    /\ UNCHANGED <<moment, fault, onset, verdict, beat, child, parent, unsure, hold,
                   sweep>>

-----------------------------------------------------------------------------
(* The sweep.                                                              *)

BeginSweep ==
    /\ ~Locked
    /\ sweep' = [Idle EXCEPT !.pc = "rules", !.todo = Sites]
    /\ UNCHANGED <<moment, fault, onset, verdict, beat, hooks, child, parent, unsure,
                   hold, slips, missed>>

\* The pass of one site, committed on its own.
SweepSite(site) ==
    LET t0 == [child |-> child, parent |-> parent]
        t == Rules(Rules(Rules(t0, "power", site), "batch", site), "network", site)
    IN
    /\ sweep.pc = "rules" /\ site \in sweep.todo
    /\ child' = t.child /\ parent' = t.parent
    /\ unsure' = unsure \cup Ambiguous(site)
    /\ sweep' = [sweep EXCEPT !.todo = @ \ {site}]
    /\ UNCHANGED <<moment, fault, onset, verdict, beat, hooks, hold, slips, missed>>

\* The states and the signs of life are read; the commit comes later.
ReadRecoveries ==
    /\ sweep.pc = "rules" /\ sweep.todo = {}
    /\ sweep' = [sweep EXCEPT !.pc = "closing",
                              !.ok = {u \in Units : child[u] # None /\ u \notin fault},
                              !.back = {n \in unsure : Observed(n)}]
    /\ UNCHANGED <<moment, fault, onset, verdict, beat, hooks, child, parent, unsure,
                   hold, slips, missed>>

\* resolve_recovered_children.
ChildrenLeft == [u \in Units |-> IF u \in sweep.ok THEN None ELSE child[u]]

ParentsLeft ==
    [c \in RuleScopes |-> [parent[c] EXCEPT !.closedKid =
                          @ \/ \E u \in sweep.ok : child[u] = c]]

\* Variant for mutation: the children are those the sweep found recovered.
CalmBySome(c) == ParentsLeft[c].open /\ ParentsLeft[c].closedKid

\* All children are closed, and there is one.
Calm(c) ==
    /\ ParentsLeft[c].open /\ ParentsLeft[c].closedKid
    /\ \A u \in Units : ChildrenLeft[u] # c

\* auto_resolve_parents: the second calm sweep in a row closes the parent;
\* parents of a network domain are not among them.
Closing == {c \in RuleScopes : KindOf[c] # "network" /\ Calm(c) /\ hold[c] = 1}

HoldNext ==
    [c \in RuleScopes |-> IF KindOf[c] # "network" /\ Calm(c) /\ hold[c] = 0
                      THEN 1 ELSE 0]

EndSweep ==
    /\ sweep.pc = "closing"
    /\ child' = ChildrenLeft
    /\ parent' = [c \in RuleScopes |-> IF c \in Closing THEN NoParent ELSE ParentsLeft[c]]
    /\ unsure' = unsure \ sweep.back
    /\ hold' = HoldNext
    /\ sweep' = Idle
    /\ UNCHANGED <<moment, fault, onset, verdict, beat, hooks, slips, missed>>

\* The last commit raised: the rows are rolled back, the counters are not.
SweepFails ==
    /\ slips < MaxSlips /\ slips' = slips + 1
    /\ sweep.pc = "closing"
    /\ hold' = HoldNext
    /\ sweep' = Idle
    /\ UNCHANGED <<moment, fault, onset, verdict, beat, hooks, child, parent, unsure,
                   missed>>

-----------------------------------------------------------------------------
\* The Site Manager restarts: hooks, counters and the sweep are gone.
RestartManager ==
    /\ slips < MaxSlips /\ slips' = slips + 1
    /\ hooks' = {}
    /\ missed' = missed \cup (hooks \cap fault)
    /\ hold' = [c \in RuleScopes |-> 0]
    /\ sweep' = Idle
    /\ UNCHANGED <<moment, fault, onset, verdict, beat, child, parent, unsure>>

Elapse ==
    /\ moment < LastMoment
    /\ moment' = moment + 1
    /\ UNCHANGED <<fault, onset, verdict, beat, hooks, child, parent, unsure, hold,
                   sweep, slips, missed>>

IInit ==
    /\ moment = 0
    /\ fault = {} /\ onset = [u \in Units |-> Never]
    /\ verdict = {}
    /\ beat = [n \in Nodes |-> 0]
    /\ hooks = {}
    /\ child = [u \in Units |-> None]
    /\ parent = [c \in RuleScopes |-> NoParent]
    /\ unsure = {} /\ hold = [c \in RuleScopes |-> 0]
    /\ sweep = Idle
    /\ slips = 0 /\ missed = {}

INext ==
    \/ \E u \in Units, bad \in BOOLEAN : Heartbeat(u, bad) \/ Verdict(u, bad)
    \/ \E u \in Units : Forget(u) \/ ServeHook(u) \/ HookFails(u)
    \/ BeginSweep
    \/ \E site \in Sites : SweepSite(site)
    \/ ReadRecoveries
    \/ EndSweep
    \/ SweepFails
    \/ RestartManager
    \/ Elapse

ISpec == IInit /\ [][INext]_ivars

-----------------------------------------------------------------------------
(* Properties.                                                             *)

\* A fault the Site Manager stores has an open incident of its own, unless its
\* hook is still waiting or was lost in a restart or a failure.  A recovery
\* read by the sweep must not close the incident of the fault that came back
\* before the commit (on_onset and sweep share the lock).
FaultHasIncident ==
    \A u \in fault : u \in hooks \/ u \in missed \/ child[u] # None

\* A device incident that is grouped under a parent has that parent open, over
\* late joins, faults that return, failed sweeps and restarts: nobody closes
\* the cause while one of its effects is still open.
ParentStaysOpen ==
    \A u \in Units : child[u] \in RuleScopes => parent[child[u]].open

=============================================================================
