----------------------------- MODULE Directives -----------------------------
(***************************************************************************)
(* SM -> agent directed work (harkeniq_sm/directives.py, DispatchAction of *)
(* grpc_server.py) and the agents that execute it (Agent._process_         *)
(* directives).  The Site Manager never dials an agent: work is a row, the *)
(* agent polls it, runs it in a background task and reports once.          *)
(*                                                                         *)
(* A DispatchAction request looks the proposal's key up, takes the safety  *)
(* decision and inserts in three transactions; requests interleave.        *)
(***************************************************************************)
EXTENDS Integers, FiniteSets

CONSTANTS
    Devices,    \* devices, one agent each
    Kinds,      \* classes of work (action types, skill_install)
    Ids,        \* directive ids
    NoId,       \* no directive
    Requests,   \* DispatchAction calls of Central Command
    ReqKey,     \* their idempotency keys (or NoKey)
    ReqDevice,  \* the device they name
    ReqKind,    \* the work they ask for
    NoKey,      \* not proposal-driven
    NoDirective,\* no row
    MaxFaults   \* bound on lost messages and agent restarts

Keys == {ReqKey[r] : r \in Requests} \cup {NoKey}
Settled == {"completed", "failed"}
Directive == [status : {"pending", "delivered"} \cup Settled,
              dev : Devices, kind : Kinds, key : Keys]

ASSUME DirectivesAssumption ==
    /\ NoId \notin Ids
    /\ NoDirective \notin Directive
    /\ ReqDevice \in [Requests -> Devices]
    /\ ReqKind \in [Requests -> Kinds]
    /\ MaxFaults \in Nat

VARIABLES
    dir,      \* DirectedDirective rows
    outcome,  \* sm_action_outcomes of directives
    call,     \* where each DispatchAction call stands
    ack,      \* the directive its accepted ack names
    halted,   \* the halt in force for the site
    polled,   \* directives in PollDirectives answers on their way
    known,    \* Agent._directives_in_flight
    task,     \* Agent._directive_tasks
    started,  \* device executions begun (history)
    faults    \* messages lost and agents restarted so far

smVars == <<dir, outcome>>
dispatchVars == <<call, ack, halted>>
agentVars == <<polled, known, task, started>>
dvars == <<smVars, dispatchVars, agentVars, faults>>

Live == {i \in Ids : dir[i] # NoDirective}

TypeOK ==
    /\ dir \in [Ids -> Directive \cup {NoDirective}]
    /\ outcome \in [Ids -> {"none", "SUCCESS", "FAILURE"}]
    /\ call \in [Requests -> {"new", "unkeyed", "absent", "permitted",
                              "accepted", "refused", "other"}]
    /\ ack \in [Requests -> Ids \cup {NoId}]
    /\ halted \in BOOLEAN
    /\ polled \in SUBSET Ids /\ known \in SUBSET Ids
    /\ task \in [Ids -> {"none", "queued", "running", "success", "failure"}]
    /\ started \in [Ids -> Nat]
    /\ faults \in 0..MaxFaults

-----------------------------------------------------------------------------
(* Queueing.                                                               *)

ByKey(k) == {i \in Live : dir[i].key = k /\ k # NoKey}

Row(v, w, k) == [status |-> "pending", dev |-> v, kind |-> w, key |-> k]

\* enqueue: a new row under a new id.
Enqueue(i, v, w, k) ==
    /\ i \notin Live
    /\ dir' = [dir EXCEPT ![i] = Row(v, w, k)]

\* The part of _replay_dispatch that answers: the directive the key names, if
\* it is the work asked for, a refusal otherwise.
Replay(r, i) ==
    IF dir[i].dev = ReqDevice[r] /\ dir[i].kind = ReqKind[r]
    THEN call' = [call EXCEPT ![r] = "accepted"] /\ ack' = [ack EXCEPT ![r] = i]
    ELSE call' = [call EXCEPT ![r] = "other"] /\ UNCHANGED ack

\* DispatchAction up to the lookup of its key.
Lookup(r) ==
    /\ call[r] = "new"
    /\ IF ReqKey[r] = NoKey
       THEN call' = [call EXCEPT ![r] = "unkeyed"] /\ UNCHANGED ack
       ELSE IF ByKey(ReqKey[r]) = {}
       THEN call' = [call EXCEPT ![r] = "absent"] /\ UNCHANGED ack
       ELSE \E i \in ByKey(ReqKey[r]) : Replay(r, i)
    /\ UNCHANGED <<smVars, halted, agentVars, faults>>

\* _sm_execution_decision: only the site's halt varies here.
SafetyDecision(r) ==
    /\ call[r] \in {"absent", "unkeyed"}
    /\ call' = [call EXCEPT ![r] = IF halted THEN "refused" ELSE "permitted"]
    /\ UNCHANGED <<smVars, ack, halted, agentVars, faults>>

\* Variant for mutation: the insert relies on the lookup made earlier.
InsertTwice(r, i) ==
    /\ call[r] = "permitted"
    /\ Enqueue(i, ReqDevice[r], ReqKind[r], ReqKey[r])
    /\ call' = [call EXCEPT ![r] = "accepted"]
    /\ ack' = [ack EXCEPT ![r] = i]
    /\ UNCHANGED <<outcome, halted, agentVars, faults>>

\* Variant for mutation: the loser of the race is handed the winner's row.
InsertUnchecked(r, i) ==
    /\ call[r] = "permitted"
    /\ IF ByKey(ReqKey[r]) # {}
       THEN \E j \in ByKey(ReqKey[r]) : ack' = [ack EXCEPT ![r] = j] /\ UNCHANGED dir
       ELSE /\ Enqueue(i, ReqDevice[r], ReqKind[r], ReqKey[r])
            /\ ack' = [ack EXCEPT ![r] = i]
    /\ call' = [call EXCEPT ![r] = "accepted"]
    /\ UNCHANGED <<outcome, halted, agentVars, faults>>

\* enqueue_action / enqueue_action_once: the unique index on the key decides.
Insert(r, i) ==
    /\ call[r] = "permitted"
    /\ IF ByKey(ReqKey[r]) # {}
       THEN (\E j \in ByKey(ReqKey[r]) : Replay(r, j)) /\ UNCHANGED dir
       ELSE /\ Enqueue(i, ReqDevice[r], ReqKind[r], ReqKey[r])
            /\ call' = [call EXCEPT ![r] = "accepted"]
            /\ ack' = [ack EXCEPT ![r] = i]
    /\ UNCHANGED <<outcome, halted, agentVars, faults>>

\* StopSwitch.set_halt / clear_halt for the site.
SetHalt ==
    /\ halted' = ~halted
    /\ UNCHANGED <<smVars, call, ack, agentVars, faults>>

-----------------------------------------------------------------------------
(* Delivery.                                                               *)

Pending(v) == {i \in Live : dir[i].dev = v /\ dir[i].status = "pending"}
Of(v) == {i \in Live : dir[i].dev = v}

\* Variant for mutation: a directive stays pending until its result is in.
PollKeepsPending(v) ==
    /\ Pending(v) # {} /\ polled \cap Of(v) = {}
    /\ polled' = polled \cup Pending(v)
    /\ UNCHANGED <<smVars, dispatchVars, known, task, started, faults>>

\* poll: hands the device's pending directives over and marks them delivered.
Poll(v) ==
    /\ Pending(v) # {} /\ polled \cap Of(v) = {}
    /\ polled' = polled \cup Pending(v)
    /\ dir' = [i \in Ids |-> IF i \in Pending(v)
                             THEN [dir[i] EXCEPT !.status = "delivered"] ELSE dir[i]]
    /\ UNCHANGED <<outcome, dispatchVars, known, task, started, faults>>

\* _process_directives: a background task for each directive not yet known.
Receive(v) ==
    LET fresh == (polled \cap Of(v)) \ known IN
    /\ polled \cap Of(v) # {}
    /\ polled' = polled \ Of(v)
    /\ known' = known \cup fresh
    /\ task' = [i \in Ids |-> IF i \in fresh THEN "queued" ELSE task[i]]
    /\ UNCHANGED <<smVars, dispatchVars, started, faults>>

AnswerLost(v) ==
    /\ polled \cap Of(v) # {}
    /\ faults < MaxFaults /\ faults' = faults + 1
    /\ polled' = polled \ Of(v)
    /\ UNCHANGED <<smVars, dispatchVars, known, task, started>>

\* _execute_directive up to the device call ...
Begin(i) ==
    /\ task[i] = "queued"
    /\ task' = [task EXCEPT ![i] = "running"]
    /\ started' = [started EXCEPT ![i] = @ + 1]
    /\ UNCHANGED <<smVars, dispatchVars, polled, known, faults>>

\* ... or refused by the gate chain, or raising before it.
Refuse(i) ==
    /\ task[i] = "queued"
    /\ task' = [task EXCEPT ![i] = "failure"]
    /\ UNCHANGED <<smVars, dispatchVars, polled, known, started, faults>>

End(i, result) ==
    /\ task[i] = "running"
    /\ task' = [task EXCEPT ![i] = result]
    /\ UNCHANGED <<smVars, dispatchVars, polled, known, started, faults>>

\* Variant for mutation: a failure is reported like a success.
ReportOptimistic(i) ==
    /\ task[i] \in {"success", "failure"}
    /\ task' = [task EXCEPT ![i] = "none"]
    /\ dir' = [dir EXCEPT ![i].status = "completed"]
    /\ outcome' = [outcome EXCEPT ![i] = "SUCCESS"]
    /\ UNCHANGED <<dispatchVars, polled, known, started, faults>>

\* Variant for mutation: only a directive that was never polled is settled.
ReportPendingOnly(i) ==
    /\ task[i] \in {"success", "failure"}
    /\ task' = [task EXCEPT ![i] = "none"]
    /\ IF dir[i].status = "pending"
       THEN /\ dir' = [dir EXCEPT ![i].status = "completed"]
            /\ outcome' = [outcome EXCEPT ![i] = "SUCCESS"]
       ELSE UNCHANGED smVars
    /\ UNCHANGED <<dispatchVars, polled, known, started, faults>>

\* report_result: settles an open directive and records its outcome.
Report(i) ==
    /\ task[i] \in {"success", "failure"}
    /\ task' = [task EXCEPT ![i] = "none"]
    /\ IF dir[i].status \in {"delivered", "pending"}
       THEN /\ dir' = [dir EXCEPT ![i].status =
                         IF task[i] = "success" THEN "completed" ELSE "failed"]
            /\ outcome' = [outcome EXCEPT ![i] =
                         IF task[i] = "success" THEN "SUCCESS" ELSE "FAILURE"]
       ELSE UNCHANGED smVars
    /\ UNCHANGED <<dispatchVars, polled, known, started, faults>>

\* report_directive_result failed or was dropped in the reporter's backoff:
\* the task ends all the same.
ReportLost(i) ==
    /\ task[i] \in {"success", "failure"}
    /\ faults < MaxFaults /\ faults' = faults + 1
    /\ task' = [task EXCEPT ![i] = "none"]
    /\ UNCHANGED <<smVars, dispatchVars, polled, known, started>>

\* The agent process dies and restarts: its tasks and its in-flight set were
\* in memory only.
Restart(v) ==
    /\ known \cap Of(v) # {} \/ polled \cap Of(v) # {}
    /\ faults < MaxFaults /\ faults' = faults + 1
    /\ polled' = polled \ Of(v)
    /\ known' = known \ Of(v)
    /\ task' = [i \in Ids |-> IF i \in Of(v) THEN "none" ELSE task[i]]
    /\ UNCHANGED <<smVars, dispatchVars, started>>

-----------------------------------------------------------------------------
DInit ==
    /\ dir = [i \in Ids |-> NoDirective]
    /\ outcome = [i \in Ids |-> "none"]
    /\ call = [r \in Requests |-> "new"]
    /\ ack = [r \in Requests |-> NoId]
    /\ halted = FALSE
    /\ polled = {} /\ known = {}
    /\ task = [i \in Ids |-> "none"]
    /\ started = [i \in Ids |-> 0]
    /\ faults = 0

Dispatch(r) == Lookup(r) \/ SafetyDecision(r) \/ \E i \in Ids : Insert(r, i)

Transport(v) == Poll(v) \/ Receive(v) \/ AnswerLost(v) \/ Restart(v)

Work(i) ==
    \/ Begin(i) \/ Refuse(i)
    \/ \E result \in {"success", "failure"} : End(i, result)
    \/ Report(i) \/ ReportLost(i)

DNext ==
    \/ \E r \in Requests : Dispatch(r)
    \/ SetHalt
    \/ \E v \in Devices : Transport(v)
    \/ \E i \in Ids : Work(i)

DSpec == DInit /\ [][DNext]_dvars

\* Agents poll for ever; a task runs to its end (every protocol call has a
\* timeout); the Site Manager answers a request it has begun.
DFairness ==
    /\ \A v \in Devices : WF_dvars(Poll(v)) /\ WF_dvars(Receive(v))
    /\ \A i \in Ids : /\ WF_dvars(Begin(i) \/ Refuse(i))
                      /\ WF_dvars(\E result \in {"success", "failure"} : End(i, result))
                      /\ WF_dvars(Report(i))
    /\ \A r \in Requests : WF_dvars(Dispatch(r))

DFairSpec == DSpec /\ DFairness

-----------------------------------------------------------------------------
(* Properties.                                                             *)

\* dispatch_idempotency.py: one proposal, at most one directive, at most one
\* execution, however requests repeat or race, answers are lost or agents
\* restart.
OneRunPerProposal ==
    /\ \A i, j \in Live : i # j => dir[i].key = NoKey \/ dir[i].key # dir[j].key
    /\ \A i \in Ids : started[i] <= 1

\* _replay_dispatch: an accepted ack names a directive for the very work that
\* was asked for.
AckNamesOwnWork ==
    \A r \in Requests : call[r] = "accepted" =>
        /\ ack[r] \in Live
        /\ dir[ack[r]].dev = ReqDevice[r] /\ dir[ack[r]].kind = ReqKind[r]
        /\ dir[ack[r]].key = ReqKey[r]

\* The evidence the Site Manager keeps is true: a completed directive ran on
\* its device, and the recorded outcome is the row's.
CompletedRan ==
    \A i \in Live :
        /\ dir[i].status = "completed" => started[i] = 1 /\ outcome[i] = "SUCCESS"
        /\ dir[i].status = "failed" => outcome[i] = "FAILURE"
        /\ dir[i].status \notin Settled => outcome[i] = "none"

\* Once nothing more is lost, what is still pending is polled, run, reported
\* and settled, and every accepted request's directive with it unless an
\* earlier loss stranded it.
PendingIsSettled ==
    \A i \in Ids : (i \in Live /\ dir[i].status = "pending" /\ faults = MaxFaults)
                   ~> (i \in Live /\ dir[i].status \in Settled)

-----------------------------------------------------------------------------
(* The rows of a key are the work it names, the executions of its rows the *)
(* executions of that work.                                                *)

WorkOf(i) == <<i, dir[i].dev, dir[i].kind>>

Attempts(k) == {a \in ByKey(k) \X (1 .. 2) : a[2] <= started[a[1]]}

Register == INSTANCE WorkRegister WITH
    WorkKeys <- Keys \ {NoKey},
    WorkItems <- {{w} : w \in Ids \X Devices \X Kinds},
    Nothing <- {},
    accepted <- [k \in Keys \ {NoKey} |-> {WorkOf(i) : i \in ByKey(k)}],
    executed <- [k \in Keys \ {NoKey} |-> Cardinality(Attempts(k))]

\* The queue is an at-most-once register: whatever is lost, repeated or
\* restarted, every step binds a new key to one piece of work, begins that
\* work for the first time, or leaves both alone.
ImplementsRegister == Register!WSpec

=============================================================================
