------------------------- MODULE OperationalAgents -------------------------
(***************************************************************************)
(* The life of one Operational Agent in Central Command: configuration,    *)
(* activation preflight, acknowledgement, activation approval, lifecycle   *)
(* transitions (api/operational_agents.py, agent_lifecycle.py, agent_      *)
(* activation.py, api/approvals.py).                                       *)
(*                                                                         *)
(* A request loads the agent's row, awaits, and at its commit writes only  *)
(* the columns it changed, computed from what it loaded: requests of       *)
(* several people overlap.  A preflight row is superseded by the next one, *)
(* so the current row is the last.                                         *)
(***************************************************************************)
EXTENDS Integers, Sequences, FiniteSets

CONSTANTS
    Configs,      \* configurations: bindings, ceiling, budget
    RunsUnattended,   \* the classes a configuration runs unattended, by ladder level
    Warned,       \* configurations whose preflight carries warnings
    MaxVersion, MaxPreflights,   \* bounds
    Requests,     \* requests under way at a time
    Editors,      \* ... of which configuration changes
    NoReq, NoSubject

Levels == {0, 1}
NoPreflight == [ver |-> 0, cfg |-> NoSubject, set |-> {}]

ASSUME OperationalAgentsAssumption ==
    /\ MaxVersion \in Nat \ {0} /\ MaxPreflights \in Nat /\ Editors \in Nat
    /\ NoSubject \notin Configs
    /\ IsFiniteSet(Requests)
    /\ \A l \in Levels, c \in Configs : IsFiniteSet(RunsUnattended[l][c])

VARIABLES
    astatus,    \* status
    version,
    config,     \* the configuration columns and binding rows
    pre,        \* CCAgentPreflight rows, oldest first
    ackVersion, \* activation_acknowledged_version
    subject,    \* activation_subject_ref: a digest of version and classes
    approval,   \* the approval ledger's verdict on each subject
    activated,  \* activated_version and activated_at, the latter as the
                \* number of preflights stored by then
    scoped,     \* the agent holds scope rows
    level,      \* the tenant's configured ladder level
    req         \* the requests under way

ovars == <<astatus, version, config, pre, ackVersion, subject, approval,
           activated, scoped, level, req>>
configuration == <<version, config>>
readiness == <<pre, ackVersion, subject, approval>>
lifecycle == <<astatus, activated, scoped>>

Classes == UNION {RunsUnattended[l][c] : l \in Levels, c \in Configs}
Subjects == [ver : 1..MaxVersion, set : (SUBSET Classes) \ {{}}]
Current == IF pre = <<>> THEN NoPreflight ELSE pre[Len(pre)]

\* A request begins: it has the row as it is now (the columns it will use).
LoadAgent(r, row) ==
    /\ req[r] = NoReq
    /\ req' = [req EXCEPT ![r] = row]
    /\ UNCHANGED <<configuration, readiness, lifecycle, level>>

Ends(r, op) == req[r] # NoReq /\ req[r].op = op /\ req' = [req EXCEPT ![r] = NoReq]
UnderWay(op) == {r \in Requests : req[r] # NoReq /\ req[r].op = op}

\* update_agent, replace_bindings: refused to a retired agent.
BeginEdit(r) ==
    /\ astatus # "retired" /\ version < MaxVersion
    /\ Cardinality(UnderWay("edit")) < Editors
    /\ LoadAgent(r, [op |-> "edit", ver |-> version])

\* bump_version: the version it loaded plus one.
CommitEdit(r, c) ==
    /\ Ends(r, "edit") /\ c # config
    /\ config' = c
    /\ version' = req[r].ver + 1
    /\ UNCHANGED <<readiness, lifecycle, level>>

BeginPreflight(r) ==
    /\ Len(pre) + Cardinality(UnderWay("preflight")) < MaxPreflights
    /\ LoadAgent(r, [op |-> "preflight", ver |-> version, cfg |-> config])

\* Mutant: the row is stamped with the version at the end of the request.
CommitPreflightLate(r, seen) ==
    LET row == [ver |-> version, cfg |-> seen, set |-> RunsUnattended[level][seen]]
    IN /\ Ends(r, "preflight") /\ seen = req[r].cfg
       /\ pre' = Append(pre, row)
       /\ ackVersion' = 0
       /\ subject' = IF row.set = {} THEN NoSubject
                     ELSE [ver |-> row.ver, set |-> row.set]
       /\ UNCHANGED <<configuration, approval, lifecycle, level>>

\* run_preflight + preflight_agent: the bindings are read at some time after
\* the agent's row; the row is stored for the version that was loaded, the
\* acknowledgement is cleared and the approval subject raised or withdrawn.
CommitPreflight(r, seen) ==
    LET row == [ver |-> req[r].ver, cfg |-> seen, set |-> RunsUnattended[level][seen]]
    IN /\ Ends(r, "preflight") /\ seen \in {req[r].cfg, config}
       /\ pre' = Append(pre, row)
       /\ ackVersion' = 0
       /\ subject' = IF row.set = {} THEN NoSubject
                     ELSE [ver |-> row.ver, set |-> row.set]
       /\ UNCHANGED <<configuration, approval, lifecycle, level>>

BeginAcknowledge(r) == LoadAgent(r, [op |-> "acknowledge", ver |-> version])

\* acknowledge_preflight
CommitAcknowledge(r) ==
    /\ Ends(r, "acknowledge")
    /\ Current.ver = req[r].ver
    /\ ackVersion' = req[r].ver
    /\ UNCHANGED <<configuration, pre, subject, approval, lifecycle, level>>

\* _decide_agent_activation: on the subject the agent carries now, in any
\* status; a denial is terminal.
DecideActivation(verdict) ==
    /\ subject # NoSubject
    /\ approval[subject] = "none" \/ (approval[subject] = "approved" /\ verdict = "denied")
    /\ approval' = [approval EXCEPT ![subject] = verdict]
    /\ UNCHANGED <<configuration, pre, ackVersion, subject, lifecycle, level, req>>

BeginActivate(r) ==
    /\ astatus \in {"draft", "paused"}
    /\ LoadAgent(r, [op |-> "activate", ver |-> version, ack |-> ackVersion,
                     subject |-> subject])

\* may_activate, and the activation approval where the row requires one: of
\* the acknowledgement and the subject the request loaded.
MayActivate(ver, ack, subj) ==
    /\ pre # <<>>
    /\ Current.ver = ver
    /\ Current.cfg \in Warned => ack = ver
    /\ Current.set # {} => subj # NoSubject /\ approval[subj] = "approved"

\* transition_agent("activate"): the checks pass, and set_status stamps the
\* version it loaded and the time, before the skills are installed.
CheckActivate(r) ==
    /\ req[r] # NoReq /\ req[r].op = "activate"
    /\ MayActivate(req[r].ver, req[r].ack, req[r].subject)
    /\ req' = [req EXCEPT ![r] = [op |-> "activating", ver |-> req[r].ver, at |-> Len(pre)]]
    /\ UNCHANGED <<configuration, readiness, lifecycle, level>>

\* ... and the commit after them, which checks nothing again.
CommitActivate(r) ==
    /\ Ends(r, "activating")
    /\ astatus' = "active"
    /\ activated' = [ver |-> req[r].ver, at |-> req[r].at]
    /\ UNCHANGED <<configuration, readiness, scoped, level>>

\* transition_agent("pause")
Pause ==
    /\ astatus = "active" /\ astatus' = "paused"
    /\ UNCHANGED <<configuration, readiness, activated, scoped, level, req>>

\* transition_agent("retire"): the agent keeps no scope.
Retire ==
    /\ astatus # "retired" /\ astatus' = "retired"
    /\ scoped' = FALSE
    /\ UNCHANGED <<configuration, readiness, activated, level, req>>

\* A request is refused by a check of its own, or fails.
RefuseActivation(r) ==
    /\ req[r] # NoReq /\ req' = [req EXCEPT ![r] = NoReq]
    /\ UNCHANGED <<configuration, readiness, lifecycle, level>>

\* The tenant's ladder level is set.
SetLevel ==
    /\ level' \in Levels \ {level}
    /\ UNCHANGED <<configuration, readiness, lifecycle, req>>

\* create_agent: a draft, and nothing about its readiness.
OInit ==
    /\ astatus = "draft" /\ version = 1 /\ config \in Configs
    /\ pre = <<>> /\ ackVersion = 0 /\ subject = NoSubject
    /\ approval = [s \in Subjects |-> "none"]
    /\ activated = [ver |-> 0, at |-> 0]
    /\ scoped = TRUE /\ level = 0
    /\ req = [r \in Requests |-> NoReq]

ONext ==
    \/ \E r \in Requests :
         \/ BeginEdit(r) \/ BeginPreflight(r) \/ BeginAcknowledge(r)
         \/ BeginActivate(r)
         \/ \E c \in Configs : CommitEdit(r, c) \/ CommitPreflight(r, c)
         \/ CommitAcknowledge(r) \/ CheckActivate(r) \/ CommitActivate(r)
         \/ RefuseActivation(r)
    \/ \E verdict \in {"approved", "denied"} : DecideActivation(verdict)
    \/ Pause \/ Retire \/ SetLevel

OSpec == OInit /\ [][ONext]_ovars

-----------------------------------------------------------------------------
(* What may run unattended                                                 *)

\* Mutant: the approval looked up is that of the subject the agent carries.
RecoveredOfSubject ==
    IF astatus = "active" /\ subject # NoSubject /\ approval[subject] = "approved"
    THEN subject.set ELSE {}

\* activation_approved_unattended: the classes of the preflight that was in
\* force at the activation, for the activated version, if they were approved.
Recovered ==
    LET row == IF activated.at = 0 THEN NoPreflight ELSE pre[activated.at]
    IN IF /\ astatus = "active" /\ row.ver = activated.ver /\ row.set # {}
          /\ approval[[ver |-> row.ver, set |-> row.set]] = "approved"
       THEN row.set ELSE {}

-----------------------------------------------------------------------------
(* Properties                                                              *)

\* An active agent whose configuration has not drifted (activated_version =
\* version) runs the very configuration that a preflight of that version
\* reviewed, however an edit, preflights and activations overlap.
ActiveWasReviewed ==
    astatus = "active" /\ activated.ver = version =>
      \E i \in 1..Len(pre) : pre[i].ver = version /\ pre[i].cfg = config

\* Without drift, what the runtime takes for approved to run unattended is
\* what the running configuration was approved for: never the classes of a
\* later preflight or of an earlier version.
UnattendedWasApproved ==
    Recovered # {} =>
      /\ activated.ver = version => \E l \in Levels : Recovered = RunsUnattended[l][config]
      /\ approval[[ver |-> activated.ver, set |-> Recovered]] = "approved"
=============================================================================
