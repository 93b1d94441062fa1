---------------------------- MODULE SiteApprovals ----------------------------
(***************************************************************************)
(* Approval brokering of the Site Manager (harkeniq_sm/approvals.py) and   *)
(* the agents it brokers for.  The Site Manager keeps one row per reported *)
(* action; agents report status changes, poll for decisions and may be     *)
(* decided locally.  Requests and answers can be lost, and a request whose *)
(* caller gave up (deadline) can still be served later.                    *)
(*                                                                         *)
(* Every handler reads its rows in one statement and commits in another,   *)
(* with awaits in between and no lock on the rows it read, so it is two    *)
(* steps: an operator's approve/deny, a report, a poll.  A commit writes   *)
(* the columns the handler changed over whatever the row has become.       *)
(***************************************************************************)
EXTENDS Integers, FiniteSets

CONSTANTS
    Actions,    \* agent actions
    Devices,    \* devices (one agent each)
    DeviceOf,   \* the device an action belongs to
    Domains,    \* fault domains: sets of devices
    Operators,  \* concurrent approve/deny requests
    Pollers,    \* concurrent poll_decisions handlers
    MaxLosses,  \* bound on lost requests, lost answers and agent restarts
    MaxReports, \* bound on ReportAction requests under way at a time
    NoAction    \* a value outside Actions

ASSUME ApprovalsAssumption ==
    /\ DeviceOf \in [Actions -> Devices]
    /\ Domains \subseteq SUBSET Devices
    /\ NoAction \notin Actions
    /\ MaxLosses \in Nat /\ MaxReports \in Nat \ {0}

AgentStatus == {"PENDING", "APPROVED", "DENIED", "EXECUTING", "COMPLETED", "FAILED"}
RowStatus == {"pending", "approved", "delivered", "denied", "superseded",
              "completed", "failed"}
Decision == {"approved", "denied"}
InFlight == {"approved", "delivered"}           \* _IN_FLIGHT_STATUSES
Closed == {"denied", "superseded", "completed", "failed"}

VARIABLES
    row,     \* ActionRow: status, decision, decided_by, delivered_at set
    agent,   \* the agent's own status of the action
    acked,   \* whether Agent._reported_action_status is the present status
    reports, \* ReportAction requests on their way
    serving, \* per device: the report_action between its read and its commit
    polling, \* devices whose agent awaits a PollActionDecisions answer
    poll,    \* poll_decisions handlers between their read and their commit
    answers, \* decisions in the answers of committed polls
    op,      \* operators between their read and their commit
    losses,  \* messages lost, failed handlers and agent restarts so far
    reopened \* observation: actions whose closed row a report or a poll put
             \* back in flight; no action reads it

handlers == <<serving, polling, poll, answers, op>>
vars == <<row, agent, acked, reports, handlers, losses, reopened>>

NoRow == [status |-> "none", decision |-> "none", by |-> "none", delivered |-> FALSE]
NoServe == [id |-> NoAction, status |-> "PENDING", read |-> NoRow]
NoPoll == [out |-> {}, heard |-> FALSE]
OpIdle == [id |-> NoAction, decision |-> "denied"]

Rows == [status : RowStatus \cup {"none"}, decision : Decision \cup {"none"},
         by : {"none", "operator", "agent-local"}, delivered : BOOLEAN]

TypeOK ==
    /\ row \in [Actions -> Rows]
    /\ agent \in [Actions -> AgentStatus \cup {"NEW"}]
    /\ acked \in [Actions -> BOOLEAN]
    /\ reports \in SUBSET (Actions \X AgentStatus)
    /\ serving \in [Devices -> [id : Actions \cup {NoAction}, status : AgentStatus,
                               read : Rows]]
    /\ polling \in SUBSET Devices
    /\ poll \in [Pollers -> [out : SUBSET (Actions \X Decision), heard : BOOLEAN]]
    /\ answers \in SUBSET (Actions \X Decision)
    /\ op \in [Operators -> [id : Actions \cup {NoAction}, decision : Decision]]
    /\ losses \in Nat
    /\ reopened \in SUBSET Actions

-----------------------------------------------------------------------------
(* ReportAction.                                                           *)

\* _initial_status.
InitialStatus == [PENDING |-> "pending", APPROVED |-> "delivered",
                  DENIED |-> "denied", EXECUTING |-> "delivered",
                  COMPLETED |-> "completed", FAILED |-> "failed"]

LocalDecision(s) == IF s = "APPROVED" THEN "approved" ELSE "denied"

\* A row for an action the Site Manager hears of for the first time.  A
\* decision taken locally before that is recorded as the agent's.
NewRow(s) ==
    IF s \in {"APPROVED", "DENIED"}
    THEN [status |-> InitialStatus[s], decision |-> LocalDecision(s),
          by |-> "agent-local", delivered |-> TRUE]
    ELSE [status |-> InitialStatus[s], decision |-> "none", by |-> "none",
          delivered |-> FALSE]

\* A decision taken at the agent meets the row.
ApplyLocal(r, d) ==
    IF r.status = "pending"
    THEN [status |-> IF d = "approved" THEN "delivered" ELSE "denied",
          decision |-> d, by |-> "agent-local", delivered |-> TRUE]
    ELSE IF r.status \notin {"approved", "denied"}
    THEN r
    ELSE [r EXCEPT !.delivered = TRUE,
                   !.status = IF r.decision # d THEN "superseded"
                              ELSE IF d = "approved" THEN "delivered" ELSE @]

\* Variant for mutation: a late EXECUTING report takes any row back in flight.
ApplyAgentStatusReopening(r, s) ==
    IF s \in {"COMPLETED", "FAILED"}
    THEN [r EXCEPT !.status = InitialStatus[s]]
    ELSE IF s = "EXECUTING"
    THEN [r EXCEPT !.status = "delivered", !.delivered = TRUE]
    ELSE IF s = "PENDING" THEN r ELSE ApplyLocal(r, LocalDecision(s))

\* Variant for mutation: a terminal report only closes a delivered row.
ApplyAgentStatusDelivered(r, s) ==
    IF s \in {"COMPLETED", "FAILED"} /\ r.status = "delivered"
    THEN [r EXCEPT !.status = InitialStatus[s]]
    ELSE r

\* _apply_agent_status: what a report makes of an existing row.
ApplyAgentStatus(r, s) ==
    IF s \in {"COMPLETED", "FAILED"}
    THEN [r EXCEPT !.status = InitialStatus[s]]
    ELSE IF s = "EXECUTING"
    THEN IF r.status \in {"approved", "delivered", "pending"}
         THEN [r EXCEPT !.status = "delivered", !.delivered = TRUE]
         ELSE r
    ELSE IF s = "PENDING" THEN r ELSE ApplyLocal(r, LocalDecision(s))

\* The session writes the columns the handler changed, over the row as it is.
Written(now, read, new) ==
    LET Column(n, r, w) == IF w # r THEN w ELSE n IN
    [status |-> Column(now.status, read.status, new.status),
     decision |-> Column(now.decision, read.decision, new.decision),
     by |-> Column(now.by, read.by, new.by),
     delivered |-> Column(now.delivered, read.delivered, new.delivered)]

Reopens(a) == row[a].status \in Closed /\ row'[a].status \in InFlight

\* The agent sends a status it has not had accepted yet.  Its report loop
\* awaits one call at a time.
SendReport(a) ==
    /\ agent[a] # "NEW" /\ ~acked[a]
    /\ DeviceOf[a] \notin polling
    /\ <<a, agent[a]>> \notin reports /\ Cardinality(reports) < MaxReports
    /\ reports' = reports \cup {<<a, agent[a]>>}
    /\ UNCHANGED <<row, agent, acked, handlers, losses, reopened>>

\* report_action up to the commit: the device's row is touched (and so locked
\* until the commit: reports of one device are served one after the other),
\* then the action's row is read.
ReadReport(a, s) ==
    /\ <<a, s>> \in reports
    /\ serving[DeviceOf[a]] = NoServe
    /\ reports' = reports \ {<<a, s>>}
    /\ serving' = [serving EXCEPT ![DeviceOf[a]] =
                      [id |-> a, status |-> s, read |-> row[a]]]
    /\ UNCHANGED <<row, agent, acked, polling, poll, answers, op, losses, reopened>>

\* The commit of the upsert.  The acknowledgement may be lost; a request served
\* after its caller gave up acknowledges nothing.
CommitReport(v, heard) ==
    LET a == serving[v].id
        s == serving[v].status
        read == serving[v].read
    IN
    /\ a # NoAction
    /\ serving' = [serving EXCEPT ![v] = NoServe]
    /\ row' = [row EXCEPT ![a] =
                 Written(@, read, IF read.status = "none" THEN NewRow(s)
                                  ELSE ApplyAgentStatus(read, s))]
    /\ reopened' = IF Reopens(a) THEN reopened \cup {a} ELSE reopened
    /\ IF heard
       THEN acked' = [acked EXCEPT ![a] = agent[a] = s] /\ UNCHANGED losses
       ELSE losses < MaxLosses /\ losses' = losses + 1 /\ UNCHANGED acked
    /\ UNCHANGED <<agent, reports, polling, poll, answers, op>>

\* The handler's transaction is rolled back.
ReportFails(v) ==
    /\ serving[v] # NoServe
    /\ losses < MaxLosses /\ losses' = losses + 1
    /\ serving' = [serving EXCEPT ![v] = NoServe]
    /\ UNCHANGED <<row, agent, acked, reports, polling, poll, answers, op, reopened>>

ReportLost(a, s) ==
    /\ <<a, s>> \in reports
    /\ losses < MaxLosses /\ losses' = losses + 1
    /\ reports' = reports \ {<<a, s>>}
    /\ UNCHANGED <<row, agent, acked, handlers, reopened>>

-----------------------------------------------------------------------------
(* PollActionDecisions.                                                    *)

\* undelivered_decisions of a device.
Undelivered(v) ==
    {a \in Actions : /\ DeviceOf[a] = v
                     /\ row[a].status \in {"approved", "denied"}
                     /\ ~row[a].delivered}

\* poll_decisions up to the commit: the undelivered rows are read and the
\* answer is made of them.
PollRead(h, v) ==
    /\ v \notin polling /\ poll[h] = NoPoll
    /\ Undelivered(v) # {}
    /\ polling' = polling \cup {v}
    /\ poll' = [poll EXCEPT ![h] =
                  [out |-> {<<a, row[a].decision>> : a \in Undelivered(v)},
                   heard |-> TRUE]]
    /\ UNCHANGED <<row, agent, acked, reports, serving, answers, op, losses, reopened>>

\* The commit marks what was read as delivered, whatever it has become since;
\* an agent that still waits gets the answer.
PollCommit(h) ==
    LET out == poll[h].out IN
    /\ out # {}
    /\ row' = [a \in Actions |->
                 [row[a] EXCEPT
                   !.delivered = (@ \/ \E d \in Decision : <<a, d>> \in out),
                   !.status = IF <<a, "approved">> \in out THEN "delivered" ELSE @]]
    /\ reopened' = reopened \cup {a \in Actions : Reopens(a)}
    /\ answers' = IF poll[h].heard THEN answers \cup out ELSE answers
    /\ poll' = [poll EXCEPT ![h] = NoPoll]
    /\ UNCHANGED <<agent, acked, reports, serving, polling, op, losses>>

\* The handler's transaction is rolled back and its caller, if any, is told.
PollFails(h) ==
    /\ poll[h] # NoPoll
    /\ losses < MaxLosses /\ losses' = losses + 1
    /\ poll' = [poll EXCEPT ![h] = NoPoll]
    /\ polling' = IF poll[h].heard THEN polling \ {DeviceOf[x[1]] : x \in poll[h].out}
                                   ELSE polling
    /\ UNCHANGED <<row, agent, acked, reports, serving, answers, op, reopened>>

Mine(v) == {x \in answers : DeviceOf[x[1]] = v}

\* The agent applies the decisions on actions that are still PENDING.
ApplyDecisions(v) ==
    /\ v \in polling /\ Mine(v) # {}
    /\ agent' = [a \in Actions |->
                   IF agent[a] # "PENDING" THEN agent[a]
                   ELSE IF <<a, "approved">> \in Mine(v) THEN "APPROVED"
                   ELSE IF <<a, "denied">> \in Mine(v) THEN "DENIED" ELSE "PENDING"]
    /\ acked' = [a \in Actions |-> acked[a] /\ agent'[a] = agent[a]]
    /\ polling' = polling \ {v}
    /\ answers' = answers \ Mine(v)
    /\ UNCHANGED <<row, reports, serving, poll, op, losses, reopened>>

\* The agent of `v` no longer waits: an answer is lost, and a handler that is
\* still to commit commits for nobody.
StopsWaiting(v) ==
    /\ polling' = polling \ {v}
    /\ answers' = answers \ Mine(v)
    /\ poll' = [h \in Pollers |->
                  [poll[h] EXCEPT !.heard = @ /\ \A x \in poll[h].out : DeviceOf[x[1]] # v]]

DecisionsLost(v) ==
    /\ v \in polling
    /\ losses < MaxLosses /\ losses' = losses + 1
    /\ StopsWaiting(v)
    /\ UNCHANGED <<row, agent, acked, reports, serving, op, reopened>>

-----------------------------------------------------------------------------
(* Operators.                                                              *)

Members(v) == UNION {d \in Domains : v \in d}

\* Variant for mutation: a delivered action no longer counts as in flight.
WaveGuardApprovedOnly(a) ==
    \A b \in Actions \ {a} :
        DeviceOf[b] \in Members(DeviceOf[a]) => row[b].status # "approved"

\* _wave_guard: no other action of the fault domain is in flight.
WaveGuard(a) ==
    \A b \in Actions \ {a} :
        DeviceOf[b] \in Members(DeviceOf[a]) => row[b].status \notin InFlight

\* approve / deny up to the commit: the checks.
ApproveRead(o, a) ==
    /\ op[o] = OpIdle
    /\ row[a].status = "pending"
    /\ WaveGuard(a)
    /\ op' = [op EXCEPT ![o] = [id |-> a, decision |-> "approved"]]
    /\ UNCHANGED <<row, agent, acked, reports, serving, polling, poll, answers, losses,
                   reopened>>

DenyRead(o, a) ==
    /\ op[o] = OpIdle
    /\ row[a].status = "pending"
    /\ op' = [op EXCEPT ![o] = [id |-> a, decision |-> "denied"]]
    /\ UNCHANGED <<row, agent, acked, reports, serving, polling, poll, answers, losses,
                   reopened>>

\* The commit writes status, decision and decided_by of the row it read.
Commit(o) ==
    LET a == op[o].id
        d == op[o].decision
    IN
    /\ a # NoAction
    /\ row' = [row EXCEPT ![a] = [@ EXCEPT !.status = d, !.decision = d,
                                           !.by = "operator"]]
    /\ op' = [op EXCEPT ![o] = OpIdle]
    /\ UNCHANGED <<agent, acked, reports, serving, polling, poll, answers, losses,
                   reopened>>

-----------------------------------------------------------------------------
(* The agents' own steps: the pipeline of AgentActions seen from outside.  *)

\* The action takes a status that is still to be reported.
Becomes(a, s) ==
    /\ agent' = [agent EXCEPT ![a] = s]
    /\ acked' = [acked EXCEPT ![a] = FALSE]
    /\ UNCHANGED <<row, reports, handlers, losses, reopened>>

Propose(a) == agent[a] = "NEW" /\ Becomes(a, "PENDING")

LocalDecide(a, s) == agent[a] = "PENDING" /\ Becomes(a, s)

Execute(a) == agent[a] = "APPROVED" /\ Becomes(a, "EXECUTING")

Finish(a, s) ==
    /\ agent[a] \in {"APPROVED", "EXECUTING"}
    /\ agent[a] = "APPROVED" => s = "FAILED"      \* refused by the gate
    /\ Becomes(a, s)

\* An agent dies and comes back with its checkpoint: what it had reported is
\* forgotten, an answer on its way is lost, an interrupted action is APPROVED
\* again.
Restart(v) ==
    LET own == {a \in Actions : DeviceOf[a] = v} IN
    /\ losses < MaxLosses /\ losses' = losses + 1
    /\ acked' = [a \in Actions |-> acked[a] /\ a \notin own]
    /\ agent' = [a \in Actions |-> IF a \in own /\ agent[a] = "EXECUTING"
                                   THEN "APPROVED" ELSE agent[a]]
    /\ StopsWaiting(v)
    /\ UNCHANGED <<row, reports, serving, op, reopened>>

-----------------------------------------------------------------------------
Init ==
    /\ row = [a \in Actions |-> NoRow]
    /\ agent = [a \in Actions |-> "NEW"]
    /\ acked = [a \in Actions |-> FALSE]
    /\ reports = {} /\ polling = {} /\ answers = {}
    /\ serving = [v \in Devices |-> NoServe]
    /\ poll = [h \in Pollers |-> NoPoll]
    /\ op = [o \in Operators |-> OpIdle]
    /\ losses = 0 /\ reopened = {}

AgentStep(a) ==
    \/ Propose(a)
    \/ \E s \in {"APPROVED", "DENIED"} : LocalDecide(a, s)
    \/ Execute(a)
    \/ \E s \in {"COMPLETED", "FAILED"} : Finish(a, s)

\* A request reaches its handler; a handler that has read its rows commits.
Serve(a) == \E s \in AgentStatus : ReadReport(a, s)
Answer(v) == \E heard \in BOOLEAN : CommitReport(v, heard)
StartPoll(v) == \E h \in Pollers : PollRead(h, v)

Next ==
    \/ \E a \in Actions : AgentStep(a) \/ SendReport(a) \/ Serve(a)
    \/ \E a \in Actions, s \in AgentStatus : ReportLost(a, s)
    \/ \E v \in Devices :
          \/ Answer(v) \/ ReportFails(v)
          \/ StartPoll(v) \/ ApplyDecisions(v) \/ DecisionsLost(v) \/ Restart(v)
    \/ \E h \in Pollers : PollCommit(h) \/ PollFails(h)
    \/ \E o \in Operators, a \in Actions : ApproveRead(o, a) \/ DenyRead(o, a)
    \/ \E o \in Operators : Commit(o)

Spec == Init /\ [][Next]_vars

\* The report loop runs for ever and repeats what was not accepted; the
\* service answers, messages are lost and handlers fail a bounded number of
\* times; a request that read its row commits; an agent executes what was
\* approved.  Nobody is obliged to decide anything.
Fairness ==
    /\ \A a \in Actions :
          /\ WF_vars(SendReport(a))
          /\ WF_vars(Serve(a))
          /\ WF_vars(Execute(a) \/ \E s \in {"COMPLETED", "FAILED"} : Finish(a, s))
    /\ \A v \in Devices :
          WF_vars(Answer(v)) /\ WF_vars(StartPoll(v)) /\ WF_vars(ApplyDecisions(v))
    /\ \A h \in Pollers : WF_vars(PollCommit(h))
    /\ \A o \in Operators : WF_vars(Commit(o))

FairSpec == Spec /\ Fairness

-----------------------------------------------------------------------------
(* Properties.                                                             *)

SameDomain(a, b) == DeviceOf[b] \in Members(DeviceOf[a])

\* The wave guard: of two actions in flight in one fault domain at most one
\* was approved by an operator of the Site Manager (the agents' own deciders
\* do not ask the guard), leaving aside a row that was closed, so that the
\* guard let the next one through, and that a report or a poll which had read
\* it before then put back in flight.
OneWavePerDomain ==
    \A a, b \in Actions \ reopened :
        /\ a # b /\ SameDomain(a, b)
        /\ row[a].status \in InFlight /\ row[a].by = "operator"
        => ~(row[b].status \in InFlight /\ row[b].by = "operator")

\* A closed row goes back in flight only by the commit of a request that read
\* it before it was closed.  A report, however late, repeated or reordered,
\* that finds the row closed leaves it closed, and so does a poll.
OnlyStaleCommitsReopen ==
    [][\A a \in Actions :
         row[a].status \in Closed /\ row'[a].status \in InFlight
         => \/ \E o \in Operators : op[o].id = a /\ op'[o].id # a
            \/ \E v \in Devices : /\ serving[v].id = a /\ serving'[v].id # a
                                  /\ serving[v].read.status \notin Closed
            \/ \E h \in Pollers : /\ <<a, "approved">> \in poll[h].out
                                  /\ <<a, "approved">> \notin poll'[h].out]_vars

\* An outcome that is still to be reported, for an action that has left
\* `pending` at the Site Manager and whose row no operator's request and no
\* report has read without committing, is what the Site Manager shows from
\* some moment on, whatever reports and answers are lost or late: the fault
\* domain is free for the next approval.
\* The exception is a poll that read the row before it was closed and commits
\* after: it leaves the row `delivered` for good.
OutcomeReachesSite ==
    \A a \in Actions :
        LET settled == /\ row[a].status \notin {"none", "pending"}
                       /\ ~acked[a]
                       /\ \A o \in Operators : op[o].id # a
                       /\ serving[DeviceOf[a]].id # a
            Shown(status) == row[a].status = status \/ a \in reopened
        IN  /\ agent[a] = "COMPLETED" /\ settled ~> []Shown("completed")
            /\ agent[a] = "FAILED" /\ settled ~> []Shown("failed")

=============================================================================
