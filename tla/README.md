# A TLA+ model of HarkenIQ

HarkenIQ repairs hardware: agents ("Harken Nodes") watch devices, propose
actions, and execute them after a human approved them or under a revocable
grant of autonomy. What must be right is the path from a decision to device
I/O and back to the evidence: who approved, how often a thing ran, how much of
a fault domain is touched at once, and how fast a stop takes hold, although
the decision, the execution and the record live in different processes that
crash, restart and talk over lossy calls. This project models that path,
model-checks it on small instances with TLC and proves its main properties for
all instances with TLAPS. Around that path it models what feeds and governs it:
proposals and their approval, operational agents, campaigns, scope grants,
incidents, suppression, the claims peers exchange, playbooks, and in the console
the tenants' billing and support access.

Contents: 1 the system, 2 modules and code, 3 runs, 4 fairness, 5 proofs,
6 disagreements with the code, 7 what is not modelled, 8 plan.

## 1. The system

Four layers. An upper layer never dials an agent: agents poll, report and
heartbeat.

| layer | code | state | operations that matter |
|---|---|---|---|
| Agent | `src/src/harkeniq` | approval queue and FSM in memory; SQLite checkpoint; in-flight directives and the last lease in memory | poll cycle, execution, report loop, decision poll, directive poll, heartbeat, restart; `harken action` CLI and terminal UI |
| Site Manager (SM) | `src/services/site_manager/src/harkeniq_sm` | rows for actions, directives, campaigns, halts, outcomes; stop flag, policies, suppressions in memory | ReportAction, PollActionDecisions, approve/deny, DispatchAction, PollDirectives, ReportDirectiveResult, Heartbeat, PushPolicy, firmware campaigns |
| Central Command (CC) | `src/services/central_command/src/harkeniq_cc` | proposals with dispatch claims, approval records, operational agents and their preflights, campaigns with plans, waves and a dispatch ledger, scope grants, tenant stop, policies, fleet cache | admission, decision, gates, claim and send of a proposal; preflight and activation of an agent; campaign passes; grants and the last-administrator guard; policy push, fleet poll |
| Console | `src/services/console/src/harkeniq_console` | tenants and their delinquency status, licences, invoices, users, support-access log | true-ups, payments, delinquency reconciler; request, approval and revocation of support access |

How they interact:

* **Approval.** The agent reports each action (`ReportAction`); an operator
  decides at the SM, which remembers the decision until the agent asks
  (`PollActionDecisions`). CLI and terminal UI decide the same action locally.
* **Direction.** CC calls `DispatchAction`; the SM stores a directive; the
  agent polls it, runs it in a background task, reports once.
* **Proposals.** An operational agent's evaluation, or an external submission,
  admits a proposal; a person or the autonomy ladder approves it; one of the
  replicas' passes, or the last approver's own request, claims it, calls the SM
  under the proposal's idempotency key and settles it from the polled outcomes.
* **Campaigns.** A pass of the background loop, or of an operator's request,
  settles waves from outcomes, asks the SM for the plan again, checks
  authority and eligibility, and dispatches the next wave of each site.
* **Incidents.** Ingest at the SM commits a subsystem's state and calls the
  correlation engine, which shares a lock with its own periodic sweep and feeds
  the suppression engine.
* **Firmware.** An `advance` call of the SM runs one wave of a campaign through
  directives and waits for each device up to a deadline.
* **Stopping.** A tenant stop is pushed from CC to the SM on each flip and each
  fleet poll; the SM keeps halt rows for three scopes and one flag in memory;
  the lease in the heartbeat answer carries the halt and the error budget's
  verdict to the node, whose gate chain consults its last lease.

What is hard:

* *Interleaving and stale reads.* Queue entries are read before an await and
  used after it; the SM reads rows in one statement and commits in another
  without a row lock; checkpoint writers are three processes.
* *Crash and restart.* Status `EXECUTING` exists only in memory; directive
  tasks, leases, rate-limit history, the stop flag and policies are forgotten.
* *Concurrent transactions.* CC runs several replicas and requests: a claim, a
  budget, a last administrator and a campaign's rows are read in one statement
  and written in another, under a lock or without one.
* *Loss.* Rows are marked delivered before the agent has received them; reports
  are repeated or arrive late; immediate pushes race the poller's.
* *Time.* A waiter gives up while its directive is still deliverable; a lease
  is used until it expires though the permission behind it has gone.

What would make each part correct is what its module states (section 3).
`PROJECT.json` lists every part, modelled or not, and the hazards with the
line at which each bites.

## 2. Modules and the code they model

`PROJECT.json` "map" names the source lines of each definition. Throughout, an
action is one *atomic segment* of the code: for asyncio code the stretch
between two awaits that really suspend, for database code one transaction.

**`AgentActions`**: one agent's queue (`queue`), its checkpoint (`db`), the
poll cycle's program counter (`pollPc`), the list of approved actions the cycle
took (`held`), the tasks of the event loop, the SM's decisions and the answer
under way (`sm`, `resp`), and the copies other actors hold (`tui`, CLI
processes). `Agent._poll_loop` with `poll_and_evaluate` is BeginPoll, PollFails, Decide, StartAction /
RefuseAction, FinishAction, EndActing, SaveCycle and CycleFails; a segment with
two SQLite transactions is two steps, because the CLI is another process and
can get in between; `loop` names the task that keeps the event loop meanwhile.
Sensor verdicts and the gate chain are free choices here (a refusal is always
possible). `runs`, `lost` and `approvedBy` are history variables: device
executions, occasions on which an outcome was forgotten, ids a human approved.

**`SiteApprovals`**: the SM's row per action (`row`), the agents' own statuses,
and the reports and answers under way. Every handler is two steps, because each
reads its rows in one statement and commits in another, with awaits in between
and no lock on what it read: an operator's request (`op`: read and wave guard,
then commit), a report (`serving`: ReadReport, CommitReport) and a poll (`poll`:
PollRead, PollCommit). A commit writes the columns the handler changed over
whatever the row has become (Written). Reports of one device are served one
after the other, because report_action writes the device's row first. A
report may be lost, may lose its acknowledgement, may be served after its caller
gave up, and a handler may fail; an agent that stopped waiting does not stop the
handler. `reopened` is an observation: actions whose closed row a report or a
poll put back in flight.

**`Directives`**: the directive rows (`dir`), the `DispatchAction` requests
as three transactions (Lookup, SafetyDecision, Insert, the last with the unique
index on the idempotency key), the agent's poll (marks delivered, then the
answer travels), task, report, and the agent's restart.

**`FirmwareCampaigns`** extends `Directives`: PlanWaves is the greedy planner, a
recursive function over the devices in sorted order (Place puts one device into
the earliest wave with room); AdvanceBegin, QueueUpdate, UpdateDone, UpdateFails, Halt and
WaveDone are the segments of `advance` between its awaits; `version` is the
firmware on the device; SmCrash kills every call under way.

**`StopSwitches`**: the tenant's stop at CC (`ccStop`), pushes under way, the SM
flag, the handlers between flag and commit (`writing`), and the halt rows.
Pushes and commits of equal value are idempotent, so those under way are a set.

**`ExecutionGate`** extends `StopSwitches`: a clock, the error budget (`tally`,
`dropped`), one heartbeat (`hb`) whose handler reads the drop-back, the halt and
then signs in separate steps, the node's lease, the gate chain
`Agent._authorize_execution` and the rate limit, whose history `record` cuts
down to HistoryKept entries when it exceeds HistoryMax (50 and 100 in the code).
One node, one action class; clocks of node and SM are taken to agree. `ran`
remembers every success, for the property, also what `hist` has forgotten. `lastOpen` and `lastGranted` record
the last moment at which the site was open and the class was granted.

**`WorkRegister`**: the abstract specification of the dispatch contract: a key
is bound to one piece of work, once, and the work is begun at most once.
`Directives` implements it with the rows of the queue and the runs on the
device (ImplementsRegister), `Proposals` with what CC knows of the SM
(RegisterSpec). The two refinements meet in it: what `Proposals` assumes of
`DispatchAction` is what `Directives` provides.

**`Proposals`**: CC's proposal rows (`status`, `basis`, `claim`, `answered`),
the approval records, submissions and metered attempts, and what each sender is
doing (`task`): a replica's pass reads a page, asks the gates, then under the
agent's lock counts the budget and claims or withholds; an approver's request
does it in one transaction. The claim is committed before the SM is called. The
call may be refused, answered, fail before or after the SM acted, arrive after
its caller gave up, and its caller may die. The lease on a claim (60 s) is
longer than the deadline of the call (20 s), so a live sender's claim is never
taken over; this is the one place where time is abstracted to an order.

**`OperationalAgents`**: one agent's configuration, its preflight rows, the
acknowledgement, the activation subject and its approval, and its status. A
request loads the row and commits later, from what it loaded. An activation is
three steps: it loads the agent, checks the current preflight and the approval
(CheckActivate, which is also when the activation is stamped), and commits after
the skills have been installed, without checking again.

**`CampaignRunner`**: one campaign. A pass is one database transaction: it
works on the rows it loaded (`tx[p].base`), calls the SMs as it goes, and at its
commit writes the rows it changed over whatever they hold by then. A pass of the
loop whose `advance_campaign` raises commits what it had come to (CommitPartly).
What a pass asked of an SM survives its death, its rows do not. The sites a pass has still to look
at are a set, taken in the order `Rank`. `asked`, `lost` and `reported` count
runs; `lost`, `skipped` and `revived` (sites where a decision was written over a
wave no longer pending) are there for the properties.

**`ScopeGrants`**: the grants of a tenant by principal and scope, the posture,
the tenant's lock, and requests that load, take the lock and count, and write;
a write touches the columns that differ from what was loaded, as SQLAlchemy's
does. Under the lock the guard reads the table again, but for the rows the
request already holds its session returns the objects as they were loaded (View).
`overtaken` records that a row had changed between load and write.

**`SiteIncidents`**: stored subsystem states, the onset hooks not yet served,
open device incidents with their parents, the hold-down counters in memory and
the sweep as three steps under the engine's lock. Rules are predicates over
onsets (power, cooling), verdicts (batch) or signs of life (network).

**`Suppression`**: one fault domain: event windows, the suppression with its
stability clock, the hair trigger, all in memory. It is fed by the same hook and
the same sweep as `SiteIncidents` and shares no state with it.

**`ClaimMesh`**: claims for one device among its peers; a broadcast claim
reaches a peer never, once or several times. The library is not called by
`agent.py` at this commit: the module models what it does when it is. A lease is
renewed by whoever asks: `renew_lease` looks only at whether there is a claim.

**`Playbooks`**: the executions of one playbook on one device, in memory
(`exec`) and in the checkpoint (`stored`), and the coroutines that drive them.
A coroutine's writes between two device calls are one step, of which a prefix
may reach the table. `cut` records first steps whose outcome never did.

**`Billing`**: one tenant's usage peak, invoices and delinquency status, with
payments and the hourly reconciler as transactions that read, judge, write and
commit in separate steps and take the audit chain's lock and the tenant's row
in opposite orders; BreakDeadlock is the database's victim choice.

**`SupportAccess`**: the rows of support access to one tenant, requests to the
API that read now and commit later, and a clock. A write touches only the
columns it sets, which is what keeps `revoked_at` when a stale approval sets the
status back. `consents` and `ended` are observations for the property.

`MC*` modules give the constants their values; `*Proofs` modules hold the
theorems. Operators named like `SaveIgnore`, `InsertTwice` or `ClaimableAlways`
that no specification uses are *mutations*: a plausible bug of the definition
that follows them, used to show that a property notices it
(`PROJECT.json` "mutants").

## 3. Runs

Passing runs:

| run | states | what it shows |
|---|---|---|
| `agent_site_manager` | 366 k | SM as only decider. ExecutedWasApproved; OneOpenPerSensorFault (duplicate suppression survives restarts); ApprovedIsSettled (an approved action ends in a terminal status and stays there) |
| `site_parts` | 1.1 M | approvals: OneWavePerDomain with one operator process, reports and polls split at their awaits; incidents: FaultHasIncident, ParentStaysOpen; suppression: CorrelatedIsSuppressed; claims: SameClaimsSameOwner, LapsedEvidenceIsKept; playbooks: CompletedIsAccounted |
| `central_parts` | 1.1 M | proposals: OneSender, ChargedWithinBudget, DecisionGoverns, RegisterSpec; operational agents: ActiveWasReviewed, UnattendedWasApproved; grants: LastAdminIsGuarded; support access: AdmittedWasApproved; the agent's queue with two CLI processes and the terminal UI: ReexecutionHasACause (an action runs again only when its outcome was lost) |
| `convergence` | 187 k | liveness: ApprovedIsDelivered, OutcomeReachesSite, StopConverges, StandingConverges; OneRunPerOperation for two proposals of one operation; OnlyStaleCommitsReopen with late, lost and repeated reports and polls |
| `dispatch` | 251 k | OneRunPerProposal, AckNamesOwnWork, CompletedRan, PendingIsSettled, ImplementsRegister |
| `firmware` | 444 k | WavePlanSafe, OneUpdatingPerDomain, WavesInOrder (a halt being final included), AdvanceReturns |
| `execution_gate` | 5.4 M | HaltFences, DropBackFences, RateLimitHolds |
| `campaigns` | 1.3 M | NoRepeatedRun, ExcludedNeverRuns, EarlierWavesSucceeded |

Runs that end in a counterexample (section 6): `site_wave_race`,
`firmware_late_update`, `stop_lift_lost`, `last_admin_race`.

*Components side by side.* `site_parts`, `central_parts` and `convergence` check
several components that share no variable in one run. A variable `focus` is
chosen in the initial state and never changes; only the component it names takes
steps, the others stay in one of their initial states. The reachable states are
thus the disjoint union of what each component reaches by itself, every
invariant is evaluated on all of them, and a component's property is neither
helped nor hindered by another's. It is a way to run them together, not a claim
about their interaction; what does interact is composed by EXTENDS
(`FirmwareCampaigns` over `Directives`, `ExecutionGate` over `StopSwitches`) or
through `WorkRegister`.

Bounds and why they are enough:

* *Agent.* Three ids: two attempts at one sensor fault and one drift
  remediation; at most two crashes or raising cycles. Two faults are
  needed for "crash, repeat, crash"; a third repeats a state. The operators'
  instance (in `central_parts`) has one id, on which all the deciders meet.
* *Approvals.* Two actions of one fault domain are the least on which the wave
  guard can fail; they are interchangeable, and on one device here, which the
  guard does not tell from two devices of the domain. One operator, one poll
  handler, one report under way besides the one being served, no loss: what the
  guard depends on is who commits over what, and the proof covers any number of
  each with losses and restarts. `convergence` has one action, two reports under
  way besides the one being served, a poll handler and two losses or failed
  handlers: a loss, its retry and a late original.
* *Dispatch.* Four requests: two sends of one proposal, one for another device
  under the same proposal, one without a proposal; three ids; one loss or
  restart, at any point.
* *Firmware.* Two devices of one domain, hence two waves; one advance call at a
  time; five directives (two updates and two rollbacks, and an update repeated
  after an SM restart); one agent fault and one SM restart. PlannerIsSafe is
  evaluated on every input with up to four devices, every family of fault
  domains over them and every cap up to four.
* *Stop switches.* Three operations and two faults: a flip, a counter-flip and
  a local switch with a lost push and a restart.
* *Proposals.* Two proposals: of two operations, under two passes, two
  approvers with two approvals needed and a budget of one (`central_parts`); of
  one operation, with one pass, one approver and a submission key
  (`convergence`). One failed call or crash, at any point: the claim's takeover
  and the resend need one. Budget and admission are reached and refused.
* *Operational agents.* Two configurations, two versions, two preflights, two
  requests at a time of which one edits. With two concurrent edits
  ActiveWasReviewed fails: both commit the same version over different
  configurations (section 6).
* *Campaigns.* One site with two devices in one or two waves, both passes, one
  mishap: a dying pass, or a change of plan, policy, gates or stop switch. The
  same properties hold with one of each (4.6 M states, too long for a run that
  is repeated often). Branches of different sites share only the site
  concurrency and the terminal state; the proofs of section 5 cover any number
  of sites and of mishaps.
* *Grants.* Two people, the tenant and one site, two requests at a time and
  three in all: create, revoke and a third that meets their leftovers.
* *Incidents.* Two devices, a power and a network domain, a clock of two
  moments, one slip. The same properties hold with a component model added to
  the scopes (7.5 M states, too long for a run that is repeated often).
* *Suppression.* Two devices of one family, periods of two ticks and a clock
  to four, one restart: a window, a release and a relapse fit.
* *Claims.* Two nodes with two claims each, so a node's second claim meets its
  first and its peer's. With three nodes and one claim each the result is the
  same.
* *Playbooks.* Three steps, the second with a rollback: a first, a middle and a
  last one. A run and three resumptions, two callers at a time, three restarts
  or failed writes in all.
* *Billing.* Two invoices, one payment at a time beside the reconciler, one
  failure besides deadlocks. A day is two units of the clock, so an invoice can
  be overdue by less than a day; terms are one unit and the grace is two days.
* *Support access.* Two engineers, two rows, two requests to the API at a time
  and a lifetime of two hours on a clock to three: an approval, its revocation
  and a stale second approval fit, and so does an expiry.
* *Gate.* Lease, grace and reply time of one tick and a clock to three: the
  latest permitted start and the first forbidden one are both on the clock. The
  limit is one per window and the limiter keeps one entry, so that it forgets as
  early as it can without losing the limit. One
  approved and one granted action, one switch operation or recovery and one
  fault (a lost push or a restart of either side); heartbeats fail freely. Times are comparisons of
  sums, so longer leases add states and no new orders; the proofs of section 5
  cover all lengths.

Deadlock is checked in the agent's runs, where the loops never end. Elsewhere
the bounded inputs run out (`CHECK_DEADLOCK FALSE`). Symmetry is used in
two runs, which have safety properties only: `central_parts`, over the
interchangeable requests of `OperationalAgents`, the passes of `Proposals` and
the API requests of `SupportAccess`, and `site_parts`, over the two actions of
`SiteApprovals`.

Qualifications that the properties state themselves: OneWavePerDomain speaks
of operator approvals (local deciders do not ask the guard) and leaves out a row
that was closed and that a report or a poll which had read it before put back in
flight; without this exception one operator is enough to violate it (section 6);
OutcomeReachesSite makes the same exception, for a poll that commits `delivered`
over the outcome;
OneUpdatingPerDomain holds until the SM restarts under a running call;
RateLimitHolds excludes overlapping executions and node restarts (the check
precedes the device call, the record follows it, the history is in memory), and
is claimed for limits up to HistoryKept only (section 5);
HaltFences and DropBackFences speak of a node that holds a lease;
OneRunPerOperation and DecisionGoverns excuse directives whose answer was lost;
NoRepeatedRun grants one run more for each pass that died after asking the SM;
EarlierWavesSucceeded leaves out sites where a decision was written over a wave
that was no longer pending (section 6);
LastAdminIsGuarded speaks of tenants in which no request wrote a row that had
changed since it was loaded (`last_admin_race` shows why);
CorrelatedIsSuppressed ends with a restart, which forgets suppressions;
FaultHasIncident excuses a hook that failed or was lost in a restart;
CompletedIsAccounted excuses the first step of a run that a restart cut short;
StandingConverges speaks of invoices and a clock that come to rest, as the
bounds make them.

## 4. Fairness

* *Agent.* Weak fairness on the steps of its own loops, which run as long as the
  process does, on finishing a device call (each has a timeout) and on Restart
  (systemd, `Restart=on-failure`, `docs/requirements/06-agent-runtime-architecture.md`). Strong fairness on Decide: a failing
  sensor poll disables it, so a weakly fair agent could fail every poll for
  ever; the assumption is that polls do not fail for ever. No decider need
  decide, and faults are bounded by MaxFaults.
* *Approvals.* The report loop repeats what was not accepted, the service
  answers, a request that read its row commits, an agent executes what was
  approved. Operators need not act.
* *Directives.* Agents poll for ever, tasks end, a request that began is
  answered. PendingIsSettled is claimed only from the last fault on: what an
  earlier loss stranded stays stranded.
* *Firmware.* Only CallStep: the wait of an advance call ends at its deadline,
  with or without the agents.
* *Stop switches.* The fleet poller goes on, a push that is not lost is served, a
  handler that is not killed commits.
* *Proposals.* Strong fairness on Pick: every pass walks all pages, so it meets
  each approved proposal again and again, though other work may keep it busy in
  between. Weak fairness on the gates and the claim, on the end of a call (it has
  a deadline), on ingest and settlement. Nobody need decide, propose or open a
  gate: ApprovedIsDelivered is claimed for gates that stay open in the end.
* *Billing.* The reconciler's loop catches every exception and goes on, a request
  that has taken a lock runs to its end, a free lock is granted, and PostgreSQL
  ends a deadlock. Nobody need pay or ask for a true-up.
* *`convergence`.* The same conditions, each for the component in focus.
* *Gate, campaigns, incidents, suppression, claims, playbooks, agents, grants,
  support access.* None: they have safety properties only.

## 5. Proofs

Eight modules, some 9 700 obligations, all checked by TLAPS. A theorem holds for
every value of the constants that satisfies the named assumption of its module
(`IdsAssumption`, `ApprovalsAssumption`, ... each beside the CONSTANTS), which
TLC evaluates in the runs. They say that parameter functions are well typed,
that bounds are natural numbers, that values standing for "nothing" (`NoId`,
`NoDirective`, `NoRequest`, `NoExec`, `Vacant`, the names "none" and "alone" of
`SiteIncidents`) lie outside the sets they complement, that sets which are
counted are finite (requests of an agent, watched units, peers), that sites are
visited in a fixed order (`Rank` is injective), and that `Order` lists every
device once.

| module | theorem | states | by |
|---|---|---|---|
| `AgentActionsProofs` | `TypeCorrect` | `Spec => []TypeOK` | lemmas on queue and checkpoint |
| | `OnlyApprovedRun` | `[]ExecutedWasApproved` | ApprovalInv |
| | `RestartsAreAccounted` | `[]ReexecutionHasACause`, with any deciders | ReexecInv |
| | `SuppressionSurvives` | SM the only decider: `[]OneOpenPerSensorFault` | OpenInv |
| `SiteApprovalsProofs` | `SiteTypes` | `[]BrokerInv` | one case per action |
| | `WaveGuardSuffices` | one operator: `[]OneWavePerDomain` | WaveInv |
| | `ReopeningIsStale` | `OnlyStaleCommitsReopen` | BrokerInv |
| `DirectivesProofs` | `AtMostOneRun`, `AcksAreHonest`, `EvidenceIsTrue` | `[]` OneRunPerProposal, AckNamesOwnWork, CompletedRan | DirInv |
| | `QueueIsRegister` | `DSpec => ImplementsRegister` | step simulation |
| | `PlansAreSafe` | `[]WavePlanSafe` | PlannerSafe |
| | `WavesKeepOrder` | calls do not overlap: `WavesInOrder` | RowInv, AdvanceInv |
| | `OneUpdateAtATime` | one campaign, calls do not overlap: `[]OneUpdatingPerDomain` | LooseInv |
| `ExecutionGateProofs` | `HaltIsAFence`, `DropBackIsAFence` | `HaltFences`, `DropBackFences` | FenceInv |
| | `LimitIsKept` | limit at most HistoryKept: `[]RateLimitHolds` | RateInv |
| | `LargeLimitRefusesNothing` | limit above HistoryMax: the window never refuses | ShortHistory |
| `ProposalsProofs` | `ProposalTypes`, `OneSenderAtATime`, `BudgetIsKept`, `DirectivesWereDecided`, `OperationsDoNotOverlap` | `[]` PTypeOK, OneSender, ChargedWithinBudget, DecisionGoverns, OneRunPerOperation | PInv |
| | `SiteIsRegister` | `PSpec => RegisterSpec` | step simulation |
| `GovernanceProofs` | `SupportWasApproved` | `[]AdmittedWasApproved` | SupportInv |
| | `LastAdminHolds` | `LastAdminIsGuarded` | GrantInv |
| | `ActivationWasReviewed`, `UnattendedIsApproved` | `Editors <= 1`: `[]` ActiveWasReviewed, UnattendedWasApproved | ReviewInv |
| `SiteProofs` | `MeshAgrees`, `EvidenceIsKept` | `[]` SameClaimsSameOwner, LapsedEvidenceIsKept | MeshInv |
| | `IncidentsAreKept`, `ParentsAreKept` | `[]` FaultHasIncident, ParentStaysOpen | IncidentInv |
| | `SuppressionHolds` | `[]CorrelatedIsSuppressed` | SuppressInv |
| | `CompletionIsAccounted` | `[]CompletedIsAccounted` | PlayInv |
| `CampaignRunnerProofs` | `DeviceRunsOnce`, `ExcludedStaysOut` | `[]` NoRepeatedRun, ExcludedNeverRuns | RunInv |
| | `WavesRunInOrder` | `EarlierWavesSucceeded` | OrderInv |

None of the properties is inductive as stated. What each needs besides (every
invariant was an invariant of a TLC run before it was proved):

* **ApprovalInv.** A start reads the cycle's list, which came from the queue,
  which came from the checkpoint, a decision of the SM, a CLI process or a key
  press. The invariant says of *every* place from which an approval can still
  be read that the id is one a human approved.
* **ReexecInv.** Books for each id: the runs begun are covered by the losses
  counted and at most one credit, and a copy that would start the action again
  (row, list, task, CLI or terminal copy) exists only while a credit is left.
  PhaseInv ties what the cycle's list may hold to where the cycle is.
* **OpenInv.** Of two open actions of one sensor fault at most one can be in any
  of the places the queue is rebuilt from. A late write of the CLI or the
  terminal UI takes a closed row back to a decided one, hence the hypotheses
  `Operators = {}` and `Console = FALSE`; TLC finds a counterexample when either
  is dropped.
* **BrokerInv, WaveInv.** BrokerInv says what a handler between its read and its
  commit knows (HandlersAgree): the row it read is there, and a row that a report
  did not find is still not there, because reports of one device follow one
  another. A row's decision columns agree with its status (Decided), so a report
  or a poll puts an operator's decision in flight only where it was already, or
  over a closed row, which is `reopened`. An operator who has passed the guard and
  not yet committed still finds no other approved action of the domain in flight
  (GuardHolds). A second operator's commit breaks it: `site_wave_race` shows that
  the hypothesis of one operator cannot be dropped.
* **DirInv.** KeysUnique; OneWay (a directive moves from row to answer to task
  to device and never back, so neither a repeated poll nor a restart starts it
  twice); Evidence (a task that runs or succeeded was started).
* **FenceInv, RateInv.** FenceInv follows a permission from where it is read to
  where it is used: what a heartbeat has read was true at some moment after it
  was sent, so a lease without a stop is at most ReplyTime younger than the last
  open moment, and the gate adds the lease's length and grace. RateInv adds
  SlotFree (what the limiter found before the device call still holds when the
  call ends and is recorded) and RemembersNewest (the history is the newest part
  of what ran, all of it or at least HistoryKept entries). A limit up to
  HistoryKept is therefore judged on enough entries. One above HistoryMax can
  never be reached by the history at all: four action classes have a default
  limit of 999 per window, and for them LargeLimitRefusesNothing holds. In between (51 to
  100 in the code, no default) the limit holds until the first cut and can be
  exceeded after it.
* **PInv.** Wherever a human's authority can still be read from (the row, a
  request under way or late, the directive) the people have given it; a claim
  belongs to the one live sender; an answer that was recorded settles the row; a
  directive is known to its row, to the caller about to record it or counts as
  unheard; count and claim are one step under the agent's lock.
* **Both refinements of `WorkRegister`.** Every step binds a free key to one
  piece of work, begins that work for the first time, or changes neither. For
  the queue, Insert is the binding and Begin the execution, and the work is a
  set of at most one row by KeysUnique; for CC it is the arrival of the call at
  the SM. Cardinalities of the mapped sets are computed from FiniteSetTheorems.
* **SupportInv, GrantInv.** An entry that admits carries its own approval, and
  revocation survives a stale approval because they are different columns. What
  the guard counted stays while the lock is held, unless a row is overwritten
  behind its back (CountStays); `overtaken` marks exactly those behaviours.
* **ReviewInv.** With one edit at a time an edit has the row's version
  (EditIsCurrent), so whatever bears the row's version bears its configuration
  (NothingAhead), and an activation that has been checked and not committed has
  the row it was checked on (ActivatedOnRow). `Editors <= 1` cannot be dropped (section 6).
* **MeshInv.** While no lease has lapsed a node holds the smallest claim it has
  judged, whatever the order and the repetitions; a vacant node has gathered
  nothing.
* **IncidentInv.** What the sweep read as recovered and is faulty again has its
  hook waiting for the lock, or has lost it.
* **SuppressInv.** The window in memory still has every onset that can count
  again, and every judgement "not correlated" was right when it was made.
* **PlayInv.** Rows, objects and coroutines: no execution has passed a step
  without an outcome, and two coroutines never drive or resume the same one.
* **RunInv, OrderInv.** RunInv: the passes' locked devices are disjoint and
  every run is in the ledger, in an open transaction, or lost with its pass.
  OrderInv: a pass's view is behind the rows in one direction only (authority
  is lost, never gained, `revived` sites apart), so a closed wave has either no
  authorised later wave or nothing bad in it and nothing more to come.
* **The planner.** plan_waves is a recursion over the sorted devices. That the
  recursive function exists and what it computes are both proved by looking at
  the least prefix for which the claim would fail (LeastNat, from the
  well-foundedness of the natural numbers). The invariant of the loop is
  Compact: with n devices placed every wave is below n, so wave n is free and
  the search ends; the earliest wave with room leaves no wave empty. PlannerSafe
  is for any devices, order, fault domains and positive cap, not only PlanSize.
* **RowInv, AdvanceInv, LooseInv.** A failed target means a halted campaign, the
  waves behind the current one are complete, and the one call has still to do
  exactly the devices of its wave not completed. Until the SM restarts at most
  one update can still reach a device: the one waited for, the one being rolled
  back, or the one the campaign halted on. With two calls, or for
  OneUpdatingPerDomain two campaigns, TLC finds counterexamples (section 6).

Only model-checked: liveness (ApprovedIsSettled, PendingIsSettled,
AdvanceReturns, ApprovedIsDelivered, OutcomeReachesSite, StopConverges,
StandingConverges), which is out of the prover's reach. Every safety property of
a passing run is a theorem. `StopSwitches` and `Billing` have liveness
properties only, so they have no proofs of their own; the former's steps are part of the proofs
about `ExecutionGate`. The type invariants SwitchTypeOK, GateTypeOK and ITypeOK
are stated for readers: the proofs use the parts of them they need.

## 6. Where code and documents disagree

Shown by a run:

* `site_wave_race`: two concurrent approvals of one fault domain both pass the
  wave guard, which reads the rows without locking them.
* `firmware_late_update`: an update that missed its deadline is not withdrawn;
  it may flash the device after the rollback, and the target is recorded as
  `rolled_back` while it runs the new firmware.
* `stop_lift_lost`: `PushPolicy` compares the pushed value with the in-memory
  flag. After a restart the flag is FALSE and the tenant's row still TRUE, so a
  pushed lift is no news and the row is never lifted; the poller's comment says
  that a restart heals.
* `last_admin_race`: the rows a grant request is about are found before the
  tenant's lock is taken and are not read again. A create whose row did not exist
  overwrites the administrator's grant made meanwhile, without excluding it from
  the count; a revoke of a grant that was already revoked when it was loaded
  skips the guard and revokes the row that another request has revived. The
  tenant is left without an administrator.
Found with TLC while proving: the hypotheses of theorems that cannot be dropped.
Each is the passing run's configuration with one constant changed:

* overlapping `advance` calls (`firmware` with a second caller): `advance` reads
  the campaign's status and the wave's pending targets once, without a lock, and
  goes on with its list after another call has halted the campaign, although
  `firmware_orchestrator.py` (16-18) says it "never auto-continues past a
  failure". The overlap, or a second campaign over the same domain, also breaks
  OneUpdatingPerDomain;
* overlapping edits of an agent (`central_parts` with `Editors = 2`):
  `bump_version` adds one to the version the request loaded and the commit does
  not compare it, so two edits write the same version, the second over a
  configuration that may already have been reviewed, although `repos.py` (4249)
  says "Any configuration change is a new version.";
* a decision on a voided wave (`campaigns` without the exemption of `revived`
  sites and with `MaxMishaps = 2`, a plan that changes and changes back):
  `_decide_campaign_wave` checks the status of the row it loaded and assigns it
  several awaits later. A pass that voids the site's waves in between is
  overwritten, and the wave runs on a decision that had lapsed, before the wave
  ahead of it has an outcome. The theorem, for any `MaxMishaps`, therefore needs
  the exemption; the run with one mishap passes with or without it;
* local deciders and duplicate suppression (`agent_site_manager` with an operator
  or the terminal UI): a late write takes a closed row back to a decided one, and
  a sensor fault has two open actions.

Seen while modelling; the models take these steps or state the exclusion, but
no run is devoted to them:

* agent: `EXECUTING` is set in memory only, so an action interrupted by a crash
  is loaded as APPROVED and runs again, while
  `docs/requirements/06-agent-runtime-architecture.md` (lines 479, 681) promises
  outcome UNKNOWN;
* agent: a denied row can be overwritten by the stale save of a CLI or TUI
  approval;
* approvals: a lost `PollActionDecisions` answer strands the decision (rows are
  marked delivered first); an approve can overwrite a deny committed between its
  read and its commit; a local denial after delivery is ignored by
  `_apply_agent_status` and the row stays in flight; a report that read a row
  pending, or a poll that read it approved, commits `delivered` over a row that
  was denied, superseded or completed in between, and the row stays in flight
  although the action is over. While it was closed, the guard may have let the
  operator approve another action of the domain: both are then in flight with
  one operator (TLC's counterexample to OneWavePerDomain without `reopened`);
* directives: a repeated dispatch can be refused by a halt though its directive
  is queued; a directive whose answer, report or task is lost after delivery is
  never settled, though `agent.py` says it never leaves one unsettled;
* firmware: an SM restart leaves an update running beside the next call's;
  `max_wave_size <= 0` makes the planner loop for ever;
* stop: the break-glass flag is not persisted; the commits of two PushPolicy
  handlers can reorder, leaving the flag set and the row lifted;
* proposals: `docs/requirements/00-platform-spec.md` (6587-6591) has the
  unattended budget released only if the SM refuses before queueing; the code
  releases it whenever the answer is lost, so directives beyond the budget are
  possible (ChargedWithinBudget is about what is reserved or committed), and two
  proposals of one operation may both be on the devices (OneRunPerOperation
  excuses it);
* operational agents: an activation or a new identity that loaded the row before
  a retirement commits after it, and so does an activation checked before a later
  preflight, an edit or a denial; an acknowledgement may be stored for a preflight that has been
  replaced; an activation is judged on the subject it loaded;
* campaigns: `dispatch_wave` says that every dispatch is written to the ledger
  first, but the SM is asked first and without an idempotency key, so a pass
  that dies repeats its wave; a changed plan "requires a fresh decision", yet
  the site's waves are voided and the next pass completes the branch; a stale
  pass can overwrite a dispatched wave by completed, and a cancellation by
  running; a site whose planning call failed is completed by the first pass;
* incidents: the batch rule counts the devices of every site although `sweep`
  says one site's devices must not form a quorum with another's; a fault that
  returns and goes between two sweeps defeats the hold-down; a batch parent made
  again without children and network parents are never closed by themselves; an
  onset hook that fails is never called again;
* suppression: the condition on incident severity that the docstring names is
  not implemented; a relapse between two sweeps does not restart the stability
  clock; a restart forgets every suppression;
* claims: `renew_lease` renews any claim a node still holds, also a peer's or a
  lapsed one, while its docstring (`claim_manager.py`, 121-125) says that it
  returns False when the lease is not ours or has lapsed; a node that reaches no
  peer keeps its own claim; a claim evicted by the tiebreak takes inherited
  evidence with it; renewals are known to the owner only;
* playbooks: resume goes on after the stored index, so if the agent stops during
  the first step of a run that step is passed over, although the constructor's
  comment promises a resumable record; the paused object is marked RUNNING in memory only, and a
  failed last step that is resumed is reported COMPLETED, in memory only;
* billing: `generate_all_trueups` makes another invoice for the same month each
  time it is asked; two manual payments of one invoice both pass the status
  check; credit notes are compared with the invoice one by one, not in sum;
  a tenant that has paid can be restricted for an hour by a stale pass;
  `pay_invoice` declares `state=Depends(lambda r: ...)`, whose argument FastAPI
  takes for a query parameter, so no payment through a provider can be started
  and the webhooks find no row;
* support access: two administrators who settle one request both pass the gate on
  `requested`, so a denied request can be approved, against the transitions that
  the comment in `SupportAccessLog` lists; a request that was read before an
  approval and inserted after it gives one engineer two grants, of which a
  revocation ends one;
* gate: a node without a lease (after a restart, until the next heartbeat)
  checks neither stop nor lease; the rate limit is checked before and recorded
  after the call, and its history is cut to 50 entries beyond 100 although limits
  of 999 are declared; `budget.allows` is never called by the gate; an SM restart
  forgets policies and windows; a repeated COMPLETED report draws the window
  down twice, directed work not at all; gate refusals count as failures in the
  error budget.

## 7. Not modelled

* *Data.* Sensor readings, skills and their expressions, knowledge look-ups and language-model reasoning: inputs of the models, always
  nondeterministic. Formatting, logging, audit rows, names of actors, metrics.
* *Cryptography and identity.* Signed leases are taken as authentic; hash
  chains, OIDC, enrolment and licences are not modelled.
* *Device protocols.* A call succeeds, fails or is interrupted.
* *Inside the modelled parts.* Budget windows, allow lists and preconditions of
  the gate are a refusal that is always possible, and an agent's settings
  (paused, approval always, ceiling zero) may withhold an unattended dispatch at
  any time; several action classes are
  one; clock skew between node and SM is zero; a lease's signature check cannot
  fail; the fleet snapshot part of the poller is left out; SQLite and Postgres
  transactions are atomic and durable. Proposals: which policy governs a
  target, the ranking of candidates, read windows and receipts. Agents:
  identities, skills, discovery, dry runs. Campaigns: editing, scopes, reading.
  Grants: roles, realms and organisation units are the permission role.manage.
* *Whole parts left out:* listed with their reasons in `PROJECT.json`
  "components". The console's user management calls an identity provider; peer
  liveness and partition fence are libraries the running agent does not reach.
  Billing leaves out amounts, credit notes and the payment providers; playbook
  steps are verdicts; support tickets are CRUD over rows.
* *Most of the lines.* The repository has some 89 000 lines of implementation.
  By far the largest part reads rows and renders them (list and detail
  endpoints, evidence and attention views, receipts, dashboards, repository
  queries), or is schema, configuration, command-line and terminal rendering,
  protocol drivers, prompts and reports. It changes no state that a behaviour of
  several steps could get wrong, so no definition here stands for it and the map
  stays far below a third of the lines. The map names the lines of the decisions
  and transitions themselves.

## 8. Plan

Done: the modules of section 2, the runs of section 3, the work register with
its two refinements, and a theorem for every safety property a run checks.

Next:

1. Type invariants as theorems where only parts of them are proved so far: the
   gate and the switches, incidents.
2. Fewer hypotheses where the code justifies it: OneUpdatingPerDomain for several
   campaigns over disjoint fault domains; RateLimitHolds for restarts after a
   full window.
3. A composition of `Proposals` with `Directives` in which the register is
   replaced by the queue itself; at present each implements it separately.
4. Safety properties for `Billing` (what a stale pass may and may not write) and
   for `StopSwitches` (which rows a lift may leave behind), with their proofs.

Further modules, if the code grows there: peer liveness with the partition
fence, payments through providers, budget windows of the gate, editing and
re-planning of campaigns.
