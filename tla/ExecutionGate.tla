---------------------------- MODULE ExecutionGate ----------------------------
(***************************************************************************)
(* From a halt or a drop-back at the Site Manager to the device: which     *)
(* actions may still start.                                                *)
(*                                                                         *)
(* The Site Manager withdraws the autonomy of a failing action class       *)
(* (ErrorBudgetRepo) and writes that and the site's halt into the lease it *)
(* answers heartbeats with.  The node keeps the last lease and runs every  *)
(* action through one gate chain (Agent._authorize_execution) before       *)
(* device I/O.                                                             *)
(*                                                                         *)
(* One node of one site, one action class.  Clocks are taken to agree.     *)
(***************************************************************************)
EXTENDS StopSwitches, Integers, Sequences, FiniteSets

CONSTANTS
    Works,         \* actions that reach the gate
    Basis,         \* what an action's authorization rests on
    Risk,          \* ACTION_RISK of the action
    LeaseTime, GraceTime,
    ReplyTime,     \* request_timeout of a heartbeat
    MaxPerWindow, Window, Cooldown,   \* the class's RateLimit
    HistoryMax, HistoryKept,          \* record() cuts the history down beyond 100 to 50
    MinOutcomes,   \* MIN_OUTCOMES_TO_JUDGE
    NoLease,
    MaxTime        \* bound on the clock

Leases == [stop : BOOLEAN, budget : BOOLEAN, at : Nat]

ASSUME GateAssumption ==
    /\ Basis \in [Works -> {"human_approval", "autonomous_grant"}]
    /\ Risk \in [Works -> {"low", "medium"}]
    /\ {LeaseTime, GraceTime, ReplyTime, Window, Cooldown} \subseteq Nat
    /\ {MaxPerWindow, HistoryMax, MinOutcomes, MaxTime} \subseteq Nat
    /\ HistoryKept \in 1..HistoryMax
    /\ NoLease \notin Leases

VARIABLES
    now,        \* the time
    dropped,    \* ErrorBudgetRow.dropped_back
    tally,      \* its success_count and total_count
    hb,         \* the heartbeat the node awaits
    lease,      \* Agent.current_lease
    connected,  \* Agent._sm_connected
    work,       \* where each action stands
    hist,       \* BlastRadiusLimiter._history
    lastOpen,    \* history: the last moment the site was not halted
    lastGranted, \* history: the last moment the class was not dropped back
    ran,         \* history: all times at which actions succeeded, until excused
    excused      \* history: two actions overlapped, or the node forgot some

budgetVars == <<dropped, tally>>
nodeVars == <<lease, connected, work, hist>>
gateVars == <<switchVars, now, budgetVars, hb, nodeVars, lastOpen, lastGranted, ran,
             excused>>

NoCall == [pc |-> "idle", sent |-> 0, budget |-> FALSE, stop |-> TRUE, lease |-> NoLease]

GateTypeOK ==
    /\ SwitchTypeOK
    /\ now \in Nat /\ lastOpen \in Nat /\ lastGranted \in Nat
    /\ dropped \in BOOLEAN /\ connected \in BOOLEAN /\ excused \in BOOLEAN
    /\ tally \in [ok : Nat, total : Nat]
    /\ hb \in [pc : {"idle", "sent", "budget", "halt", "answered", "broken"},
               sent : Nat,
               budget : BOOLEAN, stop : BOOLEAN, lease : Leases \cup {NoLease}]
    /\ lease \in Leases \cup {NoLease}
    /\ work \in [Works -> {"new", "queued", "running", "succeeded", "failed", "done"}]
    /\ hist \in Seq(Nat) /\ ran \in Seq(Nat)

-----------------------------------------------------------------------------
(* The error budget.                                                       *)

\* ErrorBudgetState.should_drop_back, min_success_rate 0.95.
DropsBack(t) == t.total >= MinOutcomes /\ 20 * t.ok < 19 * t.total

\* report_result and record_action_outcome: an outcome counts once; refusals
\* are failures.  Only a failure withdraws autonomy.
ReportOutcome(w) ==
    LET good == work[w] = "succeeded"
        t == [ok |-> tally.ok + (IF good THEN 1 ELSE 0), total |-> tally.total + 1]
    IN
    /\ work[w] \in {"succeeded", "failed"}
    /\ work' = [work EXCEPT ![w] = "done"]
    /\ tally' = t
    /\ dropped' = (dropped \/ (~good /\ DropsBack(t)))
    /\ UNCHANGED <<switchVars, now, hb, lease, connected, hist>>

\* An operator restores the class.
RecoverGrant ==
    /\ dropped
    /\ Operate("recovery")
    /\ dropped' = FALSE /\ tally' = [ok |-> 0, total |-> 0]
    /\ UNCHANGED <<ccStop, pushes, flag, writing, rows, disruptions, now, hb, nodeVars>>

-----------------------------------------------------------------------------
(* Heartbeats and leases.                                                  *)

HeartbeatSend ==
    /\ hb.pc = "idle"
    /\ hb' = [NoCall EXCEPT !.pc = "sent", !.sent = now]
    /\ UNCHANGED <<switchVars, now, budgetVars, nodeVars>>

\* The handler reads the drop-back and the site's window, ...
ReadBudget(exhausted) ==
    /\ hb.pc = "sent"
    /\ hb' = [hb EXCEPT !.pc = "budget", !.budget = ~(dropped \/ exhausted)]
    /\ UNCHANGED <<switchVars, now, budgetVars, nodeVars>>

\* ... then the halt; one that cannot be read is a halt.
ReadHalt(unreadable) ==
    /\ hb.pc = "budget"
    /\ hb' = [hb EXCEPT !.pc = "halt", !.stop = Halted \/ unreadable]
    /\ UNCHANGED <<switchVars, now, budgetVars, nodeVars>>

\* issue_lease, or an answer without a lease when it fails.
Issue(fails) ==
    /\ hb.pc = "halt"
    /\ hb' = [NoCall EXCEPT !.pc = "answered", !.sent = hb.sent,
                !.lease = IF fails THEN NoLease
                          ELSE [stop |-> hb.stop, budget |-> hb.budget, at |-> now]]
    /\ UNCHANGED <<switchVars, now, budgetVars, nodeVars>>

\* _process_heartbeat_ack: within the call's deadline the lease is taken over.
LeaseArrives ==
    /\ hb.pc = "answered" /\ now <= hb.sent + ReplyTime
    /\ connected' = TRUE
    /\ lease' = IF hb.lease = NoLease THEN lease ELSE hb.lease
    /\ hb' = NoCall
    /\ UNCHANGED <<switchVars, now, budgetVars, work, hist>>

\* The heartbeat failed or ran into its deadline.
HeartbeatFails ==
    /\ hb.pc # "idle"
    /\ connected' = FALSE
    /\ hb' = NoCall
    /\ UNCHANGED <<switchVars, now, budgetVars, lease, work, hist>>

-----------------------------------------------------------------------------
(* The node.                                                               *)

Expired == now >= lease.at + LeaseTime
FullyExpired == now >= lease.at + LeaseTime + GraceTime

\* AuthorizationLease.allows_action says "execute".
LeaseExecutes(w) ==
    /\ ~lease.stop /\ ~Expired
    /\ lease.budget
    /\ connected \/ Risk[w] = "low"

\* Variant for mutation: a carried approval satisfies any lease.
LeaseGateApproval(w) ==
    \/ lease = NoLease
    \/ Basis[w] = "human_approval"
    \/ lease # NoLease /\ LeaseExecutes(w)

\* Variant for mutation: an autonomy grant passes like an approval.
LeaseGateGrant(w) ==
    lease = NoLease \/ (lease # NoLease /\ ~lease.stop /\ ~FullyExpired)

\* The stop switch and the lease in _authorize_execution.  A human's approval
\* satisfies a lease that would only propose; nothing passes a stop or an
\* expired grace.  A node without a lease has neither check.
LeaseGate(w) ==
    \/ lease = NoLease
    \/ /\ lease # NoLease /\ ~lease.stop /\ ~FullyExpired
       /\ LeaseExecutes(w) \/ Basis[w] = "human_approval"

\* Variant for mutation: only the cooldown is looked at.
BlastAllowsCooldown == hist # <<>> => now - hist[Len(hist)] >= Cooldown

\* BlastRadiusLimiter.allows.
BlastAllows ==
    /\ hist # <<>> => now - hist[Len(hist)] >= Cooldown
    /\ Cardinality({i \in DOMAIN hist : hist[i] > now - Window}) < MaxPerWindow

Running == {w \in Works : work[w] = "running"}

\* Work reaches the node: approved by a human, or dispatched under a grant by
\* the Site Manager, which looks at its own halts and drop-backs first.
Arrive(w) ==
    /\ work[w] = "new"
    /\ Basis[w] = "autonomous_grant" => ~Halted /\ ~dropped
    /\ work' = [work EXCEPT ![w] = "queued"]
    /\ UNCHANGED <<switchVars, now, budgetVars, hb, lease, connected, hist>>

\* _execute_gated: every gate passes and device I/O begins.
Start(w) ==
    /\ work[w] = "queued"
    /\ LeaseGate(w) /\ BlastAllows
    /\ work' = [work EXCEPT ![w] = "running"]
    /\ UNCHANGED <<switchVars, now, budgetVars, hb, lease, connected, hist>>

\* ... or one refuses (the preconditions always may).
Refuse(w) ==
    /\ work[w] = "queued"
    /\ work' = [work EXCEPT ![w] = "failed"]
    /\ UNCHANGED <<switchVars, now, budgetVars, hb, lease, connected, hist>>

\* BlastRadiusLimiter.record: a history that has grown too long keeps its
\* newest entries.
Recorded(h) ==
    LET all == Append(h, now) IN
    IF Len(all) > HistoryMax
    THEN SubSeq(all, Len(all) - HistoryKept + 1, Len(all)) ELSE all

\* The device call ends; only a success counts against the rate limit.
Finish(w, good) ==
    /\ work[w] = "running"
    /\ work' = [work EXCEPT ![w] = IF good THEN "succeeded" ELSE "failed"]
    /\ hist' = IF good THEN Recorded(hist) ELSE hist
    /\ UNCHANGED <<switchVars, now, budgetVars, hb, lease, connected>>

\* A restart forgets the lease, the history and what was running.
NodeRestart ==
    /\ Fault
    /\ lease' = NoLease /\ connected' = FALSE /\ hist' = <<>>
    /\ work' = [w \in Works |-> IF work[w] = "running" THEN "done" ELSE work[w]]
    /\ hb' = NoCall
    /\ UNCHANGED <<ccStop, pushes, flag, writing, rows, ops, now, budgetVars>>

\* A Site Manager restart breaks the heartbeat its handler was serving.
SmRestartBreaks ==
    /\ SmRestart
    /\ hb' = IF hb.pc \in {"budget", "halt"} THEN [NoCall EXCEPT !.pc = "broken"] ELSE hb
    /\ UNCHANGED <<now, budgetVars, nodeVars>>

Tick ==
    /\ now < MaxTime /\ now' = now + 1
    /\ UNCHANGED <<switchVars, budgetVars, hb, nodeVars>>

-----------------------------------------------------------------------------
GateInit ==
    /\ SwitchInit
    /\ now = 0
    /\ dropped = FALSE /\ tally = [ok |-> 0, total |-> 0]
    /\ hb = NoCall /\ lease = NoLease /\ connected = FALSE
    /\ work = [w \in Works |-> "new"] /\ hist = <<>>
    /\ lastOpen = 0 /\ lastGranted = 0 /\ ran = <<>> /\ excused = FALSE

SiteManager ==
    \/ Switching /\ UNCHANGED <<now, budgetVars, hb, nodeVars>>
    \/ SmRestartBreaks \/ RecoverGrant

Heartbeats ==
    \/ HeartbeatSend \/ LeaseArrives \/ HeartbeatFails
    \/ \E b \in BOOLEAN : ReadBudget(b) \/ ReadHalt(b) \/ Issue(b)

Node ==
    \/ \E w \in Works : Arrive(w) \/ Start(w) \/ Refuse(w) \/ ReportOutcome(w)
    \/ \E w \in Works, good \in BOOLEAN : Finish(w, good)
    \/ NodeRestart

Step == SiteManager \/ Heartbeats \/ Node \/ Tick

\* What the histories record of a step.
Record ==
    /\ lastOpen' = IF Halted' THEN lastOpen ELSE now'
    /\ lastGranted' = IF dropped' THEN lastGranted ELSE now'
    /\ excused' = (excused \/ Cardinality(Running') > 1 \/ (hist # <<>> /\ hist' = <<>>))
    /\ ran' = IF excused' THEN <<>>
              ELSE IF \E w \in Works : work[w] = "running" /\ work'[w] = "succeeded"
              THEN Append(ran, now) ELSE ran

GateNext == Step /\ Record

GateSpec == GateInit /\ [][GateNext]_gateVars

-----------------------------------------------------------------------------
(* Properties.                                                             *)

Starts(w) == work[w] = "queued" /\ work'[w] = "running"

\* "All agents will drop to observe-only once their current lease expires":
\* however pushes, heartbeats and restarts fall, a node that holds a lease
\* starts nothing, approved or not, later than one lease, its grace and one
\* heartbeat after the site was last open.
HaltFences ==
    [][\A w \in Works : Starts(w) /\ lease # NoLease =>
         now < lastOpen + ReplyTime + LeaseTime + GraceTime]_gateVars

\* Work that carries only an autonomy grant stops earlier: one lease and one
\* heartbeat after the error budget withdrew its class.
DropBackFences ==
    [][\A w \in Works :
         Starts(w) /\ lease # NoLease /\ Basis[w] = "autonomous_grant" =>
         now < lastGranted + ReplyTime + LeaseTime]_gateVars

\* The rate limit, on the actions that succeeded, those the limiter has
\* forgotten included: it holds unless two of them were on the device at once
\* (the check comes before the call, the record after it) or the node restarted
\* and forgot all.
RateLimitHolds ==
    ~excused => \A i, j \in DOMAIN ran : i < j =>
        /\ ran[j] - ran[i] >= Cooldown
        /\ j - i >= MaxPerWindow => ran[j] - ran[i] >= Window

=============================================================================
