----------------------------- MODULE Proposals -----------------------------
(***************************************************************************)
(* Central Command's proposals of Operational Agents: admission (proposal_ *)
(* admission.py), external submission (api/operational_agents.py), the     *)
(* human decision (api/approvals.py), and the dispatch to the Site Manager *)
(* (agent_runtime.py), by the background passes of several replicas and by *)
(* the approvers' own requests.                                            *)
(*                                                                         *)
(* A proposal is named by its dedupe key, so one key is one row, for ever. *)
(* The Site Manager is a register that binds a proposal to at most one     *)
(* directive (WorkRegister, implemented by Directives).  The claim lease   *)
(* (60 s) outlives the call's deadline (20 s): the claim of a live sender  *)
(* is never taken over, that of a dead one is after a while.               *)
(***************************************************************************)
EXTENDS Integers, FiniteSets

CONSTANTS
    Props,       \* proposals, named by their dedupe keys
    Agents,      \* operational agents
    AgentOf,     \* who proposes it
    OpOf,        \* the physical operation (operation_key)
    Passes,      \* replicas' background dispatch passes
    Approvers,   \* people
    Needed,      \* approvals the governing policy asks for
    AdmitLimit,  \* max_proposals_per_day
    Budget,      \* max_unattended_executions of an agent
    SubKeys,     \* idempotency keys of external submissions
    AttemptMax,  \* ingress attempts per window
    MaxLoss,     \* bound on failed calls and crashes
    Nobody, Gone, Idle, NoSub, Refused

Senders == Passes \cup Approvers
Bases == {"human", "autonomous"}
Task == [at : {"read", "gated", "sending", "accepted", "refused"},
         prop : Props, basis : Bases]
OpenStatus == {"awaiting", "approved", "dispatched"}
Final == {"denied", "blocked", "completed", "failed"}

ASSUME ProposalsAssumption ==
    /\ AgentOf \in [Props -> Agents]
    /\ Passes \cap Approvers = {}
    /\ Nobody \notin Senders /\ Gone \notin Senders /\ Nobody # Gone
    /\ Idle \notin Task
    /\ Refused \notin Props
    /\ IsFiniteSet(Props) /\ IsFiniteSet(Approvers)
    /\ Needed \in Nat \ {0} /\ AdmitLimit \in Nat /\ Budget \in Nat \ {0}
    /\ AttemptMax \in Nat /\ MaxLoss \in Nat

VARIABLES
    status,     \* CCAgentProposal.status ("none": no row)
    basis,      \* authorization_basis
    claim,      \* dispatch_claimed_at, with the sender that set it
    answered,   \* rows with dispatched_at and directive_id
    records,    \* CCApprovalRecord, per approver
    sub,        \* CCAgentSubmission
    attempts,   \* CCAgentIngressAttempt rows of the window
    authority,  \* what the dispatch gates say of an agent now
    task,       \* what each sender is doing
    directive,  \* the Site Manager's directive: its authorization
    late,       \* requests still under way although their caller gave up
    outcome,    \* the outcome ingested for the directive
    unheard,    \* proposals whose directive no recorded answer names (history)
    failures    \* failed calls and crashes so far

rowVars == <<status, basis, claim, answered, records>>
ingressVars == <<sub, attempts>>
siteVars == <<directive, late, outcome>>
pvars == <<rowVars, ingressVars, authority, task, siteVars, unheard, failures>>

PTypeOK ==
    /\ status \in [Props -> {"none"} \cup OpenStatus \cup Final]
    /\ basis \in [Props -> Bases]
    /\ claim \in [Props -> Senders \cup {Nobody, Gone}]
    /\ answered \in SUBSET Props
    /\ records \in [Props -> [Approvers -> {"none", "approved", "denied"}]]
    /\ sub \in [SubKeys -> [cand : Props, result : Props \cup {Refused}] \cup {NoSub}]
    /\ attempts \in [Agents -> 0..AttemptMax]
    /\ authority \in [Agents -> {"all", "attended", "none"}]
    /\ task \in [Senders -> Task \cup {Idle}]
    /\ directive \in [Props -> Bases \cup {"none"}]
    /\ late \in SUBSET (Props \X Bases)
    /\ outcome \in [Props -> {"none", "SUCCESS", "FAILURE"}]
    /\ unheard \in SUBSET Props
    /\ failures \in 0..MaxLoss

Of(a) == {p \in Props : AgentOf[p] = a}

-----------------------------------------------------------------------------
(* Admission.  One tenant lock is held from the count to the commit.       *)

\* count_admitted_since: every row of the agent that is not blocked.
Admitted(a) == {p \in Of(a) : status[p] \notin {"none", "blocked"}}

\* Variant for mutation: work already sent is no longer in the way.
OperationFreeUnsent(p) ==
    \A q \in Props \ {p} : OpOf[q] = OpOf[p] => status[q] \notin {"awaiting", "approved"}

\* find_open_operation: nobody's proposal for the operation is in flight.
OperationFree(p) ==
    \A q \in Props \ {p} : OpOf[q] = OpOf[p] => status[q] \notin OpenStatus

\* The refusals of admit_proposal.
Admissible(p, v) ==
    /\ v # "blocked" => Cardinality(Admitted(AgentOf[p])) < AdmitLimit
    /\ status[p] = "none"
    /\ OperationFree(p)

\* repo.create with the governance verdict's status and basis.
Create(p, v) ==
    /\ status' = [status EXCEPT ![p] = v]
    /\ basis' = [basis EXCEPT ![p] = IF v = "approved" THEN "autonomous" ELSE "human"]
    /\ UNCHANGED <<claim, answered, records>>

Verdicts == {"awaiting", "approved", "blocked"}

\* evaluate_agents, one candidate at a time.
Evaluate(p, v) ==
    /\ Admissible(p, v)
    /\ Create(p, v)
    /\ UNCHANGED <<ingressVars, authority, task, siteVars, unheard, failures>>

\* submit_proposal, under the agent's ingress lock: the attempt is metered
\* first; a known key is replayed, or refused if it named other work; a new
\* one is admitted, or refused, and recorded either way.
Submit(k, p, v) ==
    /\ attempts[AgentOf[p]] < AttemptMax
    /\ attempts' = [attempts EXCEPT ![AgentOf[p]] = @ + 1]
    /\ IF authority[AgentOf[p]] # "none" /\ sub[k] = NoSub
       THEN IF Admissible(p, v)
            THEN Create(p, v) /\ sub' = [sub EXCEPT ![k] = [cand |-> p, result |-> p]]
            ELSE /\ sub' = [sub EXCEPT ![k] = [cand |-> p, result |-> Refused]]
                 /\ UNCHANGED rowVars
       ELSE UNCHANGED <<rowVars, sub>>
    /\ UNCHANGED <<authority, task, siteVars, unheard, failures>>

-----------------------------------------------------------------------------
(* The gates and the claim.                                                *)

\* revalidate_dispatch: identity, activation, pause, scope, binding, stop
\* switch; on the autonomous basis the site's own autonomy as well.
Permits(p, b) ==
    authority[AgentOf[p]] = "all" \/ (b = "human" /\ authority[AgentOf[p]] = "attended")

\* count_unattended: committed and reserved.
Unattended(a) ==
    {p \in Of(a) : /\ basis[p] = "autonomous"
                   /\ p \in answered \/ (status[p] = "approved" /\ claim[p] # Nobody)}

\* Variant for mutation: a claim excludes nobody.
ClaimableAlways(p, b) == status[p] = "approved" /\ basis[p] = b

\* The WHERE clause of claim_dispatch.
Claimable(p, b) ==
    /\ status[p] = "approved"
    /\ basis[p] = b
    /\ claim[p] \in {Nobody, Gone}

Sending(p, b) == [at |-> "sending", prop |-> p, basis |-> b]

\* dispatch_decided: a page is a copy of the approved rows.
Pick(s, p) ==
    /\ task[s] = Idle /\ status[p] = "approved"
    /\ task' = [task EXCEPT ![s] = [at |-> "read", prop |-> p, basis |-> basis[p]]]
    /\ UNCHANGED <<rowVars, ingressVars, authority, siteVars, unheard, failures>>

\* _dispatch_one, the gates.
Gate(s) ==
    LET t == task[s] IN
    /\ t # Idle /\ t.at = "read"
    /\ task' = [task EXCEPT ![s] =
                  IF Permits(t.prop, t.basis) THEN [t EXCEPT !.at = "gated"] ELSE Idle]
    /\ UNCHANGED <<rowVars, ingressVars, authority, siteVars, unheard, failures>>

\* _dispatch_one: unattended work is withheld, and claimed for that, under the
\* agent's lock.  unattended_permitted asks for the budget and for the agent's
\* own settings (paused, a human for every action, a ceiling of zero), which an
\* operator may have changed at any time.
Withhold(s) ==
    LET t == task[s] p == t.prop IN
    /\ t # Idle /\ t.at = "gated" /\ t.basis = "autonomous"
    /\ task' = [task EXCEPT ![s] = Idle]
    /\ IF Claimable(p, t.basis)
       THEN /\ status' = [status EXCEPT ![p] = "awaiting"]
            /\ basis' = [basis EXCEPT ![p] = "human"]
            /\ claim' = [claim EXCEPT ![p] = Nobody]
            /\ UNCHANGED <<answered, records>>
       ELSE UNCHANGED rowVars
    /\ UNCHANGED <<ingressVars, authority, siteVars, unheard, failures>>

\* Variant for mutation: the budget was counted when the gates were asked.
ClaimUncounted(s) ==
    LET t == task[s] p == t.prop IN
    /\ t # Idle /\ t.at = "gated"
    /\ IF Claimable(p, t.basis)
       THEN /\ claim' = [claim EXCEPT ![p] = s]
            /\ task' = [task EXCEPT ![s] = Sending(p, t.basis)]
            /\ UNCHANGED <<status, basis, answered, records>>
       ELSE task' = [task EXCEPT ![s] = Idle] /\ UNCHANGED rowVars
    /\ UNCHANGED <<ingressVars, authority, siteVars, unheard, failures>>

\* _dispatch_one: the claim, committed before the Site Manager is called, or a
\* failure if the site is no longer the tenant's.
Claim(s) ==
    LET t == task[s] p == t.prop IN
    /\ t # Idle /\ t.at = "gated"
    /\ t.basis = "autonomous" => Cardinality(Unattended(AgentOf[p])) < Budget
    /\ IF Claimable(p, t.basis)
       THEN \/ /\ claim' = [claim EXCEPT ![p] = s]
               /\ task' = [task EXCEPT ![s] = Sending(p, t.basis)]
               /\ UNCHANGED status
            \/ /\ status' = [status EXCEPT ![p] = "failed"]
               /\ claim' = [claim EXCEPT ![p] = Nobody]
               /\ task' = [task EXCEPT ![s] = Idle]
       ELSE task' = [task EXCEPT ![s] = Idle] /\ UNCHANGED <<status, claim>>
    /\ UNCHANGED <<basis, answered, records, ingressVars, authority, siteVars, unheard, failures>>

-----------------------------------------------------------------------------
(* The human decision.                                                     *)

Approvals(r) == {u \in Approvers : r[u] = "approved"}

\* Variant for mutation: enough decisions decide, whatever they say.
CompletionByCount(r) ==
    IF Cardinality({u \in Approvers : r[u] # "none"}) >= Needed THEN "approved"
    ELSE "awaiting"

\* evaluate_completion: any denial denies; enough distinct approvals approve.
Completion(r) ==
    IF \E u \in Approvers : r[u] = "denied" THEN "denied"
    ELSE IF Cardinality(Approvals(r)) >= Needed THEN "approved" ELSE "awaiting"

\* _decide_agent_proposal, under the row lock: record, decide, ask the gates
\* again, and claim in the same commit.
DecideProposal(u, p, d) ==
    LET r == [records[p] EXCEPT ![u] = d] c == Completion(r) IN
    /\ task[u] = Idle /\ status[p] = "awaiting" /\ records[p][u] = "none"
    /\ records' = [records EXCEPT ![p] = r]
    /\ \/ /\ c # "approved"
          /\ status' = [status EXCEPT ![p] = c]
          /\ UNCHANGED <<claim, task>>
       \/ /\ c = "approved" /\ Permits(p, "human")
          /\ status' = [status EXCEPT ![p] = "approved"]
          /\ claim' = [claim EXCEPT ![p] = u]
          /\ task' = [task EXCEPT ![u] = Sending(p, "human")]
       \/ \* a gate refuses, or the site is no longer the tenant's
          /\ c = "approved"
          /\ status' = [status EXCEPT ![p] = "failed"]
          /\ UNCHANGED <<claim, task>>
    /\ UNCHANGED <<basis, answered, ingressVars, authority, siteVars, unheard, failures>>

-----------------------------------------------------------------------------
(* The call to the Site Manager.                                           *)

\* Variant for mutation: the request's key is not looked up.
SmAnswerUnkeyed(s) ==
    LET t == task[s] p == t.prop IN
    /\ t # Idle /\ t.at = "sending"
    /\ directive' = [directive EXCEPT ![p] = t.basis]
    /\ task' = [task EXCEPT ![s].at = "accepted"]
    /\ UNCHANGED <<rowVars, ingressVars, authority, late, outcome, unheard, failures>>

\* DispatchAction under the proposal's key: the directive it already holds,
\* before its own safety is asked; otherwise a new one, or a refusal.
SmAnswer(s) ==
    LET t == task[s] p == t.prop IN
    /\ t # Idle /\ t.at = "sending"
    /\ \/ /\ directive' = [directive EXCEPT ![p] = IF @ = "none" THEN t.basis ELSE @]
          /\ task' = [task EXCEPT ![s].at = "accepted"]
       \/ /\ directive[p] = "none"
          /\ task' = [task EXCEPT ![s].at = "refused"]
          /\ UNCHANGED directive
    /\ UNCHANGED <<rowVars, ingressVars, authority, late, outcome, unheard, failures>>

\* _send_claimed, the answer: mark_dispatched or mark_failed.
Record(s) ==
    LET t == task[s] p == t.prop IN
    /\ t # Idle /\ t.at \in {"accepted", "refused"}
    /\ status' = [status EXCEPT ![p] = IF t.at = "accepted" THEN "dispatched" ELSE "failed"]
    /\ answered' = IF t.at = "accepted" THEN answered \cup {p} ELSE answered
    /\ unheard' = IF t.at = "accepted" THEN unheard \ {p} ELSE unheard
    /\ claim' = [claim EXCEPT ![p] = Nobody]
    /\ task' = [task EXCEPT ![s] = Idle]
    /\ UNCHANGED <<basis, records, ingressVars, authority, siteVars, failures>>

\* The request may still arrive after its caller stopped waiting.
GiveUp(s, arrives) ==
    LET t == task[s] IN
    /\ t # Idle
    /\ failures < MaxLoss /\ failures' = failures + 1
    /\ arrives => t.at = "sending"
    /\ late' = IF arrives THEN late \cup {<<t.prop, t.basis>>} ELSE late
    /\ unheard' = IF t.at = "accepted" THEN unheard \cup {t.prop} ELSE unheard
    /\ task' = [task EXCEPT ![s] = Idle]

\* Variant for mutation: the failed caller gives its proposal up for lost.
CallFailsForGood(s, arrives) ==
    LET p == task[s].prop IN
    /\ GiveUp(s, arrives) /\ task[s].at \in {"sending", "accepted", "refused"}
    /\ UNCHANGED <<rowVars, ingressVars, authority, directive, outcome>>

\* _send_claimed, no answer: the claim is released, if it is still this
\* caller's and the row still approved.
CallFails(s, arrives) ==
    LET p == task[s].prop IN
    /\ GiveUp(s, arrives) /\ task[s].at \in {"sending", "accepted", "refused"}
    /\ claim' = IF claim[p] = s /\ status[p] = "approved"
                THEN [claim EXCEPT ![p] = Nobody] ELSE claim
    /\ UNCHANGED <<status, basis, answered, records, ingressVars, authority, directive, outcome>>

\* The replica dies: its claim stays until the lease is over.
PassDies(s, arrives) ==
    /\ GiveUp(s, arrives)
    /\ claim' = [p \in Props |-> IF claim[p] = s THEN Gone ELSE claim[p]]
    /\ UNCHANGED <<status, basis, answered, records, ingressVars, authority, directive, outcome>>

\* A late request is processed, or refused, like any other.
LateArrival(p, b) ==
    /\ <<p, b>> \in late
    /\ late' = late \ {<<p, b>>}
    /\ \/ /\ directive[p] = "none"
          /\ directive' = [directive EXCEPT ![p] = b]
          /\ unheard' = IF p \in answered THEN unheard ELSE unheard \cup {p}
       \/ UNCHANGED <<directive, unheard>>
    /\ UNCHANGED <<rowVars, ingressVars, authority, task, outcome, failures>>

-----------------------------------------------------------------------------
(* Outcomes and the world.                                                 *)

\* The directive runs and its outcome is ingested by the fleet poller.
Ingest(p, o) ==
    /\ directive[p] # "none" /\ outcome[p] = "none"
    /\ outcome' = [outcome EXCEPT ![p] = o]
    /\ UNCHANGED <<rowVars, ingressVars, authority, task, directive, late, unheard, failures>>

\* settle_outcomes: the exact join on the directive id.
Settle(p) ==
    /\ status[p] = "dispatched" /\ p \in answered /\ outcome[p] # "none"
    /\ status' = [status EXCEPT ![p] = IF outcome[p] = "SUCCESS" THEN "completed" ELSE "failed"]
    /\ UNCHANGED <<basis, claim, answered, records, ingressVars, authority, task, siteVars,
                   unheard, failures>>

\* Administrators, the stop switch and the site's autonomy change what the
\* gates will say.
SetAuthority(a, v) ==
    /\ v # authority[a]
    /\ authority' = [authority EXCEPT ![a] = v]
    /\ UNCHANGED <<rowVars, ingressVars, task, siteVars, unheard, failures>>

-----------------------------------------------------------------------------
PInit ==
    /\ status = [p \in Props |-> "none"]
    /\ basis = [p \in Props |-> "human"]
    /\ claim = [p \in Props |-> Nobody]
    /\ answered = {}
    /\ records = [p \in Props |-> [u \in Approvers |-> "none"]]
    /\ sub = [k \in SubKeys |-> NoSub]
    /\ attempts = [a \in Agents |-> 0]
    /\ authority = [a \in Agents |-> "all"]
    /\ task = [s \in Senders |-> Idle]
    /\ directive = [p \in Props |-> "none"]
    /\ late = {}
    /\ outcome = [p \in Props |-> "none"]
    /\ unheard = {}
    /\ failures = 0

Admission ==
    \E p \in Props, v \in Verdicts : Evaluate(p, v) \/ \E k \in SubKeys : Submit(k, p, v)

Dispatcher(s) ==
    \/ \E p \in Props : Pick(s, p)
    \/ Gate(s) \/ Withhold(s) \/ Claim(s)

Call(s) ==
    \/ SmAnswer(s) \/ Record(s)
    \/ \E arrives \in BOOLEAN : CallFails(s, arrives) \/ PassDies(s, arrives)

Site(p) ==
    \/ \E b \in Bases : LateArrival(p, b)
    \/ \E o \in {"SUCCESS", "FAILURE"} : Ingest(p, o)
    \/ Settle(p)

PNext ==
    \/ Admission
    \/ \E s \in Passes : Dispatcher(s)
    \/ \E u \in Approvers, p \in Props, d \in {"approved", "denied"} : DecideProposal(u, p, d)
    \/ \E s \in Senders : Call(s)
    \/ \E p \in Props : Site(p)
    \/ \E a \in Agents, v \in {"all", "attended", "none"} : SetAuthority(a, v)

PSpec == PInit /\ [][PNext]_pvars

\* A pass walks every page, so it meets every approved proposal again and
\* again; a call ends (deadline), and its answer is recorded; outcomes are
\* polled and settled.
PFairness ==
    /\ \A s \in Passes, p \in Props : SF_pvars(Pick(s, p))
    /\ \A s \in Passes : WF_pvars(Gate(s) \/ Withhold(s) \/ Claim(s))
    /\ \A s \in Senders : WF_pvars(SmAnswer(s) \/ Record(s))
    /\ \A p \in Props : WF_pvars(\E o \in {"SUCCESS", "FAILURE"} : Ingest(p, o)) /\ WF_pvars(Settle(p))

PFairSpec == PSpec /\ PFairness

-----------------------------------------------------------------------------
(* Properties.                                                             *)

\* PB-0: one dispatcher at a time.  However passes of several replicas,
\* approvers, failed calls and crashes interleave, at most one live caller is
\* sending a proposal, and only while the row is approved and claimed by it.
OneSender ==
    \A s \in Senders : (task[s] # Idle /\ task[s].at \in {"sending", "accepted", "refused"}) =>
        /\ claim[task[s].prop] = s
        /\ status[task[s].prop] = "approved" /\ basis[task[s].prop] = task[s].basis

\* A24.12: one physical operation is in flight at most once, whoever proposed
\* it; on the devices too, unless an answer of the Site Manager was lost.
OneRunPerOperation ==
    \A p, q \in Props : (p # q /\ OpOf[p] = OpOf[q]) =>
        /\ ~(status[p] \in OpenStatus /\ status[q] \in OpenStatus)
        /\ (directive[p] # "none" /\ outcome[p] = "none" /\ directive[q] # "none"
              /\ outcome[q] = "none") => p \in unheard \/ q \in unheard

\* PB-1: the delegated allowance.  No interleaving of replicas reserves or
\* commits more unattended dispatches than the agent's budget.
ChargedWithinBudget == \A a \in Agents : Cardinality(Unattended(a)) <= Budget

\* D16 and the approval ledger: a directive on a human's authority was approved
\* by enough people and denied by none, and a denied proposal has a directive
\* only if the answer to an earlier, unattended, send was lost.
DecisionGoverns ==
    \A p \in Props : directive[p] # "none" =>
        /\ directive[p] = "human" => /\ Cardinality(Approvals(records[p])) >= Needed
                                     /\ \A u \in Approvers : records[p][u] # "denied"
        /\ status[p] \in {"denied", "awaiting", "blocked"} => p \in unheard

\* PB-0: once the gates stay open an approved proposal does not stay approved:
\* it is delivered, refused, or handed to the human queue.
ApprovedIsDelivered ==
    \A p \in Props : (<>[](authority[AgentOf[p]] = "all")) =>
        [](status[p] = "approved" => <>(status[p] # "approved"))

Register == INSTANCE WorkRegister WITH
    WorkKeys <- Props, WorkItems <- Bases, Nothing <- "none",
    accepted <- directive,
    executed <- [p \in Props |-> IF outcome[p] = "none" THEN 0 ELSE 1]

\* Seen from Central Command the Site Manager is the at-most-once register of
\* the dispatch contract: through failed calls, late arrivals, dead passes and
\* claims taken over, a proposal is bound to one basis and runs once.
RegisterSpec == Register!WSpec

=============================================================================
