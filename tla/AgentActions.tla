---------------------------- MODULE AgentActions ----------------------------
(***************************************************************************)
(* The action pipeline of one Harken Node: the in-memory approval queue,   *)
(* the SQLite checkpoint it survives in, the tasks of the agent's event    *)
(* loop that work on the queue (poll cycle, report loop, compliance loop,  *)
(* terminal UI) and the actors outside the process that work on the        *)
(* checkpoint or hand it decisions (the `harken action` command line, the  *)
(* Site Manager).                                                          *)
(*                                                                         *)
(* An asyncio task keeps the event loop until it really suspends.  The     *)
(* checkpoint coroutines never suspend, so a segment between two network   *)
(* awaits is atomic for the other tasks; the command line is another       *)
(* process and can slip in between two SQLite transactions of one segment. *)
(* Segments with two transactions are therefore two steps, and `loop`      *)
(* names the task that keeps the event loop between them.                  *)
(***************************************************************************)
EXTENDS Integers, Sequences, FiniteSets

CONSTANTS
    Ids,          \* action ids the agent may hand out (a bound on proposals)
    SensorFaults, \* (sensor_id, action type) pairs the skills recommend on
    ConfigFaults, \* (config:policy, CONFIG_RESTORE) pairs of the drift check
    FaultOf,      \* the pair an action id is proposed for
    Operators,    \* concurrent `harken action approve|deny` processes
    Console,      \* TRUE when the terminal UI is attached to the agent
    MaxFaults,    \* bound on crashes and on cycles that raise
    NoId          \* "no action": a value outside Ids

ASSUME IdsAssumption ==
    /\ FaultOf \in [Ids -> SensorFaults \cup ConfigFaults]
    /\ SensorFaults \cap ConfigFaults = {}
    /\ NoId \notin Ids
    /\ Console \in BOOLEAN
    /\ MaxFaults \in Nat

Absent == "ABSENT"                        \* no entry in the dict, no row
Decided == {"APPROVED", "DENIED"}
ActionStatus == {"PENDING", "APPROVED", "DENIED", "EXECUTING", "COMPLETED",
                 "FAILED"}
Terminal == {"COMPLETED", "FAILED", "DENIED"}

\* ActionQueue._BLOCKING_STATUSES: an entry that keeps its fault from being
\* proposed again.
Blocking == {"PENDING", "APPROVED", "EXECUTING", "DENIED"}

AgentState == {"BOOTING", "OBSERVING", "EVALUATING", "DECIDING",
               "AWAITING_AUTH", "ACTING", "REPORTING"}

VARIABLES
    up,         \* the agent process is running
    agentState, \* StateMachine._state
    queue,      \* ActionQueue._actions: status of the entry of each id
    db,         \* the checkpoint's `actions` table: status of each row
    pollPc,     \* where the poll task is suspended or which step is next
    held,       \* the cycle's `approved` list: status of each object in it
    alias,      \* ids whose held object is still the queue's entry
    current,    \* the action whose device I/O is in flight
    reportPc,   \* where the report task is
    resp,       \* decisions of the PollActionDecisions answer on its way
    loop,       \* the task that keeps the event loop between two steps
    tui,        \* _persist_decision tasks that have not run yet
    cli,        \* command-line processes between their load and their save
    sm,         \* what the Site Manager knows of each action
    born,       \* ids handed out so far (uuid4: never handed out again)
    faults,     \* crashes and raising cycles so far
    \* Observations; no action reads them.
    approvedBy, \* actions some human approved, at any of the three places
    runs,       \* how many times device I/O was started for an action
    lost        \* how many events dropped or overwrote an action's outcome

agentVars == <<up, agentState, queue, pollPc, held, alias, current, reportPc,
               resp, loop, tui>>
history == <<approvedBy, runs, lost>>
vars == <<up, agentState, queue, db, pollPc, held, alias, current, reportPc,
          resp, loop, tui, cli, sm, born, faults, approvedBy, runs, lost>>

Nothing == [i \in Ids |-> Absent]

CliIdle == [id |-> NoId, decision |-> "DENIED"]

TypeOK ==
    /\ up \in BOOLEAN
    /\ agentState \in AgentState
    /\ queue \in [Ids -> ActionStatus \cup {Absent}]
    /\ db \in [Ids -> ActionStatus \cup {Absent}]
    /\ pollPc \in {"idle", "polling", "acting", "executing", "saving"}
    /\ held \in [Ids -> {"APPROVED", "EXECUTING", "COMPLETED", "FAILED", Absent}]
    /\ alias \in SUBSET Ids
    /\ current \in Ids \cup {NoId}
    /\ reportPc \in {"idle", "polled", "saving"}
    /\ resp \in [Ids -> Decided \cup {Absent}]
    /\ loop \in {"free", "poll", "report"}
    /\ tui \in [Ids -> ActionStatus \cup {"live", Absent}]
    /\ cli \in [Operators -> [id : Ids \cup {NoId}, decision : Decided]]
    /\ sm \in [Ids -> {"unknown", "pending", "closed"} \cup Decided]
    /\ born \in SUBSET Ids
    /\ faults \in Nat
    /\ approvedBy \in SUBSET Ids
    /\ runs \in [Ids -> Nat]
    /\ lost \in [Ids -> Nat]

-----------------------------------------------------------------------------
(* The state machine (state/machine.py) and the recovery walk of agent.py. *)

Transitions ==
    [s \in AgentState |->
       CASE s = "BOOTING"       -> {"OBSERVING"}
         [] s = "OBSERVING"     -> {"EVALUATING"}
         [] s = "EVALUATING"    -> {"DECIDING"}
         [] s = "DECIDING"      -> {"OBSERVING", "AWAITING_AUTH"}
         [] s = "AWAITING_AUTH" -> {"ACTING", "REPORTING"}
         [] s = "ACTING"        -> {"REPORTING"}
         [] s = "REPORTING"     -> {"OBSERVING"}]

RecoveryPath ==
    [s \in AgentState |->
       CASE s = "EVALUATING"    -> "DECIDING"
         [] s = "DECIDING"      -> "OBSERVING"
         [] s = "AWAITING_AUTH" -> "REPORTING"
         [] s = "ACTING"        -> "REPORTING"
         [] s = "REPORTING"     -> "OBSERVING"
         [] OTHER               -> s]

\* A run of transition() calls within one segment, from the current state to
\* the last of `path`.  transition() raises on a step outside the table.
Walk(path) ==
    /\ agentState = path[1]
    /\ \A k \in 1 .. (Len(path) - 1) : path[k + 1] \in Transitions[path[k]]
    /\ agentState' = path[Len(path)]

\* _recover_to_observing: the walk ends after at most two hops.
Recover(s) == RecoveryPath[RecoveryPath[s]]

-----------------------------------------------------------------------------
(* The queue (actions/queue.py) and its checkpoint (state/checkpoint.py).  *)

\* load_actions: rows found EXECUTING come back, and are stored, as FAILED.
Load(rows) == [i \in Ids |-> IF rows[i] = "EXECUTING" THEN "FAILED" ELSE rows[i]]

\* Variant for mutation: INSERT OR IGNORE, a stored row is never updated.
SaveIgnore(rows, q) == [i \in Ids |-> IF rows[i] # Absent THEN rows[i] ELSE q[i]]

\* save_actions(queue.all()): INSERT OR REPLACE, one transaction.
Save(rows, q) == [i \in Ids |-> IF q[i] # Absent THEN q[i] ELSE rows[i]]

\* Variant for mutation: setdefault, a loaded row never replaces an entry.
RestoreKeep(q, rows) == [i \in Ids |-> IF q[i] # Absent THEN q[i] ELSE rows[i]]

\* restore: every loaded row replaces the entry with its id by a new object.
Restore(q, rows) == [i \in Ids |-> IF rows[i] # Absent THEN rows[i] ELSE q[i]]

\* The persist tasks whose object restore() takes out of the queue keep it
\* with the status it had.
Detach(tasks, q, rows) ==
    [i \in Ids |-> IF tasks[i] = "live" /\ rows[i] # Absent THEN q[i] ELSE tasks[i]]

\* Variant for mutation: only a PENDING entry suppresses a proposal.
BlockedByPending(q, f) == \E i \in Ids : FaultOf[i] = f /\ q[i] = "PENDING"

\* enqueue refuses a proposal while an entry for the same pair blocks it.
Blocked(q, f) == \E i \in Ids : FaultOf[i] = f /\ q[i] \in Blocking

\* A set of entries enqueue can create one after the other.
Proposable(q, new) ==
    /\ new \subseteq Ids \ born
    /\ \A i \in new : ~Blocked(q, FaultOf[i])
    /\ \A i, j \in new : FaultOf[i] = FaultOf[j] => i = j

Enqueue(q, new) == [i \in Ids |-> IF i \in new THEN "PENDING" ELSE q[i]]

\* Variant for mutation: the cycle also picks up what is still undecided.
ApprovedOrPending(q) == {i \in Ids : q[i] \in {"PENDING", "APPROVED"}}

\* approved(): what a cycle executes.
Approved(q) == {i \in Ids : q[i] = "APPROVED"}

-----------------------------------------------------------------------------
(* The poll task: poll_and_evaluate and the loop around it.                *)

pollFrame == <<reportPc, resp, cli, sm, faults, approvedBy>>

\* poll_and_evaluate up to the await on poll_sensors.
BeginPoll ==
    /\ up /\ loop = "free" /\ pollPc = "idle"
    /\ agentState = "OBSERVING"
    /\ pollPc' = "polling"
    /\ UNCHANGED <<up, agentState, queue, db, held, alias, current, loop, tui,
                   born, runs, lost>>
    /\ UNCHANGED pollFrame

\* poll_sensors raised: nothing was transitioned yet.
PollFails ==
    /\ up /\ loop = "free" /\ pollPc = "polling"
    /\ agentState' = Recover(agentState)
    /\ pollPc' = "idle"
    /\ UNCHANGED <<up, queue, db, held, alias, current, loop, tui, born, runs, lost>>
    /\ UNCHANGED pollFrame

\* The segment after poll_sensors: evaluate, pick up out-of-band decisions,
\* propose `new`, collect the approved entries.
Decide(new) ==
    LET rows == Load(db)
        q == Restore(queue, rows)
        q2 == Enqueue(q, new)
        approved == Approved(q2)
    IN
    /\ up /\ loop = "free" /\ pollPc = "polling"
    /\ Proposable(q, new)
    /\ \A i \in new : FaultOf[i] \in SensorFaults
    /\ db' = rows
    /\ queue' = q2
    /\ born' = born \cup new
    /\ tui' = Detach(tui, queue, rows)
    /\ \/ /\ new = {} /\ approved = {}
          /\ Walk(<<"OBSERVING", "EVALUATING", "DECIDING", "OBSERVING">>)
          /\ pollPc' = "idle" /\ loop' = "free"
          /\ UNCHANGED <<held, alias>>
       \/ /\ new # {} /\ approved = {}
          /\ Walk(<<"OBSERVING", "EVALUATING", "DECIDING", "AWAITING_AUTH",
                    "REPORTING">>)
          /\ pollPc' = "saving" /\ loop' = "poll"
          /\ UNCHANGED <<held, alias>>
       \/ /\ approved # {}
          /\ Walk(<<"OBSERVING", "EVALUATING", "DECIDING", "AWAITING_AUTH",
                    "ACTING">>)
          /\ pollPc' = "acting" /\ loop' = "poll"
          /\ held' = [i \in Ids |-> IF i \in approved THEN "APPROVED" ELSE Absent]
          /\ alias' = approved
    /\ UNCHANGED <<up, current, runs, lost>>
    /\ UNCHANGED pollFrame

\* Assigning the status of a held object: the queue sees it only while its
\* entry is that object.
SetHeld(i, s) ==
    /\ held' = [held EXCEPT ![i] = s]
    /\ queue' = IF i \in alias THEN [queue EXCEPT ![i] = s] ELSE queue

\* _execute_gated, gate passed, up to the device I/O.  executor.execute marks
\* the action EXECUTING; the CONFIG_RESTORE playbook leaves it APPROVED.
StartAction(i) ==
    /\ up /\ loop = "poll" /\ pollPc = "acting"
    /\ held[i] = "APPROVED"
    /\ IF FaultOf[i] \in ConfigFaults
       THEN UNCHANGED <<held, queue>>
       ELSE SetHeld(i, "EXECUTING")
    /\ current' = i
    /\ runs' = [runs EXCEPT ![i] = @ + 1]
    /\ pollPc' = "executing" /\ loop' = "free"
    /\ UNCHANGED <<up, agentState, db, alias, tui, born, lost>>
    /\ UNCHANGED pollFrame

\* _refuse_action, and the executor's own allow-list refusal: FAILED, no I/O.
RefuseAction(i) ==
    /\ up /\ loop = "poll" /\ pollPc = "acting"
    /\ held[i] = "APPROVED"
    /\ SetHeld(i, "FAILED")
    /\ UNCHANGED <<up, agentState, db, pollPc, alias, current, loop, tui, born,
                   runs, lost>>
    /\ UNCHANGED pollFrame

\* The device answered (or the executor turned its error into an outcome).
FinishAction(s) ==
    /\ up /\ loop = "free" /\ pollPc = "executing"
    /\ SetHeld(current, s)
    /\ current' = NoId
    /\ pollPc' = "acting" /\ loop' = "poll"
    /\ UNCHANGED <<up, agentState, db, alias, tui, born, runs, lost>>
    /\ UNCHANGED pollFrame

\* The loop over `approved` is over.
EndActing ==
    /\ up /\ loop = "poll" /\ pollPc = "acting"
    /\ Approved(held) = {}
    /\ Walk(<<"ACTING", "REPORTING">>)
    /\ pollPc' = "saving"
    /\ UNCHANGED <<up, queue, db, held, alias, current, loop, tui, born, runs, lost>>
    /\ UNCHANGED pollFrame

\* save_actions(queue.all()) and the end of the cycle.
SaveCycle ==
    /\ up /\ loop = "poll" /\ pollPc = "saving"
    /\ db' = Save(db, queue)
    /\ Walk(<<"REPORTING", "OBSERVING">>)
    /\ pollPc' = "idle" /\ loop' = "free"
    /\ held' = Nothing /\ alias' = {}
    /\ UNCHANGED <<up, queue, current, tui, born, runs, lost>>
    /\ UNCHANGED pollFrame

\* An exception the poll loop catches (a checkpoint write that fails, a
\* RuntimeError of the device layer): no save, walk back to OBSERVING.
CycleFails ==
    /\ up /\ pollPc \in {"acting", "executing", "saving"}
    /\ loop = IF pollPc = "executing" THEN "free" ELSE "poll"
    /\ faults < MaxFaults
    /\ faults' = faults + 1
    /\ agentState' = Recover(agentState)
    /\ pollPc' = "idle" /\ loop' = "free"
    /\ held' = Nothing /\ alias' = {} /\ current' = NoId
    /\ lost' = [i \in Ids |-> IF held[i] # Absent THEN lost[i] + 1 ELSE lost[i]]
    /\ UNCHANGED <<up, queue, db, tui, born, runs, reportPc, resp, cli, sm,
                   approvedBy>>

-----------------------------------------------------------------------------
(* The other tasks of the event loop.                                      *)

\* check_compliance: proposes CONFIG_RESTORE into the queue, saves nothing.
CheckCompliance(i) ==
    /\ up /\ loop = "free"
    /\ FaultOf[i] \in ConfigFaults
    /\ Proposable(queue, {i})
    /\ queue' = Enqueue(queue, {i})
    /\ born' = born \cup {i}
    /\ UNCHANGED <<up, agentState, db, pollPc, held, alias, current, reportPc,
                   resp, loop, tui, cli, sm, faults>>
    /\ UNCHANGED history

\* _sync_actions, first part: one status report reaches the Site Manager.
\* A report of anything but PENDING settles what the Site Manager knows.
ReportAction(i) ==
    /\ up /\ loop = "free" /\ reportPc = "idle"
    /\ queue[i] # Absent
    /\ sm' = [sm EXCEPT ![i] =
                 CASE queue[i] = "PENDING" -> IF @ = "unknown" THEN "pending" ELSE @
                   [] queue[i] = "EXECUTING" /\ @ = "DENIED" -> @
                   [] OTHER -> "closed"]
    /\ sm' # sm
    /\ UNCHANGED agentVars
    /\ UNCHANGED <<db, cli, born, faults>>
    /\ UNCHANGED history

\* PollActionDecisions: the Site Manager marks what it hands over delivered.
PollDecisions ==
    /\ up /\ loop = "free" /\ reportPc = "idle"
    /\ resp' = [i \in Ids |-> IF sm[i] \in Decided THEN sm[i] ELSE Absent]
    /\ resp' # Nothing
    /\ sm' = [i \in Ids |-> IF sm[i] \in Decided THEN "closed" ELSE sm[i]]
    /\ reportPc' = "polled"
    /\ UNCHANGED <<up, agentState, queue, db, pollPc, held, alias, current, loop,
                   tui, cli, born, faults>>
    /\ UNCHANGED history

\* The answer never arrives: poll_decisions returns [].
DecisionsLost ==
    /\ up /\ loop = "free" /\ reportPc = "polled"
    /\ reportPc' = "idle" /\ resp' = Nothing
    /\ UNCHANGED <<up, agentState, queue, db, pollPc, held, alias, current, loop,
                   tui, cli, sm, born, faults>>
    /\ UNCHANGED history

\* The answer arrives: reload the queue, apply the decisions on entries that
\* are still PENDING, save when one was applied.
ApplyDecisions ==
    LET rows == Load(db)
        q == Restore(queue, rows)
        q2 == [i \in Ids |-> IF q[i] = "PENDING" /\ resp[i] # Absent
                             THEN resp[i] ELSE q[i]]
        applied == q2 # q
    IN
    /\ up /\ loop = "free" /\ reportPc = "polled"
    /\ db' = rows
    /\ queue' = q2
    /\ tui' = Detach(tui, queue, rows)
    /\ alias' = {i \in alias : rows[i] = Absent}
    /\ lost' = [i \in Ids |-> IF i \in alias /\ rows[i] # Absent
                              THEN lost[i] + 1 ELSE lost[i]]
    /\ resp' = Nothing
    /\ reportPc' = IF applied THEN "saving" ELSE "idle"
    /\ loop' = IF applied THEN "report" ELSE "free"
    /\ UNCHANGED <<up, agentState, pollPc, held, current, cli, sm, born, faults,
                   approvedBy, runs>>

SaveDecisions ==
    /\ up /\ loop = "report" /\ reportPc = "saving"
    /\ db' = Save(db, queue)
    /\ reportPc' = "idle" /\ loop' = "free"
    /\ UNCHANGED <<up, agentState, queue, pollPc, held, alias, current, resp, tui,
                   cli, sm, born, faults>>
    /\ UNCHANGED history

\* The entries the terminal UI shows, if there is one.
Shown == IF Console THEN Ids ELSE {}

\* The terminal UI's `a` / `D` key on a pending entry; the write to the
\* checkpoint is a task of its own.
TuiDecide(i, d) ==
    /\ up /\ loop = "free"
    /\ queue[i] = "PENDING"
    /\ queue' = [queue EXCEPT ![i] = d]
    /\ tui' = [tui EXCEPT ![i] = "live"]
    /\ approvedBy' = IF d = "APPROVED" THEN approvedBy \cup {i} ELSE approvedBy
    /\ UNCHANGED <<up, agentState, db, pollPc, held, alias, current, reportPc,
                   resp, loop, cli, sm, born, faults, runs, lost>>

\* _persist_decision writes the object the key press decided.
TuiPersist(i) ==
    LET s == IF tui[i] = "live" THEN queue[i] ELSE tui[i] IN
    /\ up /\ loop = "free"
    /\ tui[i] # Absent
    /\ db' = [db EXCEPT ![i] = s]
    /\ lost' = IF db[i] \notin {Absent, "PENDING"}
               THEN [lost EXCEPT ![i] = @ + 1] ELSE lost
    /\ tui' = [tui EXCEPT ![i] = Absent]
    /\ UNCHANGED <<up, agentState, queue, pollPc, held, alias, current, reportPc,
                   resp, loop, cli, sm, born, faults, approvedBy, runs>>

-----------------------------------------------------------------------------
(* Actors outside the process.                                             *)

\* `harken action approve|deny <id>`: load the checkpoint, decide in memory.
\* An id that is not PENDING ends the command with an error.
CliLoad(o, i, d) ==
    /\ cli[o] = CliIdle
    /\ db' = Load(db)
    /\ cli' = IF db[i] = "PENDING"
              THEN [cli EXCEPT ![o] = [id |-> i, decision |-> d]]
              ELSE cli
    /\ db[i] # Absent
    /\ UNCHANGED agentVars
    /\ UNCHANGED <<sm, born, faults>>
    /\ UNCHANGED history

\* save_actions([act]): the row is replaced whatever it is by now.
CliSave(o) ==
    LET i == cli[o].id
        d == cli[o].decision
    IN
    /\ i # NoId
    /\ db' = [db EXCEPT ![i] = d]
    /\ lost' = IF db[i] # "PENDING" THEN [lost EXCEPT ![i] = @ + 1] ELSE lost
    /\ approvedBy' = IF d = "APPROVED" THEN approvedBy \cup {i} ELSE approvedBy
    /\ cli' = [cli EXCEPT ![o] = CliIdle]
    /\ UNCHANGED agentVars
    /\ UNCHANGED <<sm, born, faults, runs>>

\* A Site Manager operator decides a pending row.
SmDecide(i, d) ==
    /\ sm[i] = "pending"
    /\ sm' = [sm EXCEPT ![i] = d]
    /\ approvedBy' = IF d = "APPROVED" THEN approvedBy \cup {i} ELSE approvedBy
    /\ UNCHANGED agentVars
    /\ UNCHANGED <<db, cli, born, faults, runs, lost>>

\* The process dies, or a task of its TaskGroup raises: memory is gone.
Crash ==
    /\ up /\ faults < MaxFaults
    /\ faults' = faults + 1
    /\ up' = FALSE /\ agentState' = "BOOTING"
    /\ queue' = Nothing /\ held' = Nothing /\ alias' = {} /\ current' = NoId
    /\ pollPc' = "idle" /\ reportPc' = "idle" /\ loop' = "free"
    /\ resp' = Nothing /\ tui' = Nothing
    /\ lost' = [i \in Ids |-> IF held[i] # Absent THEN lost[i] + 1 ELSE lost[i]]
    /\ UNCHANGED <<db, cli, sm, born, approvedBy, runs>>

\* start(): restore the queue, enter OBSERVING.
Restart ==
    /\ ~up
    /\ up' = TRUE
    /\ db' = Load(db)
    /\ queue' = Restore(queue, Load(db))
    /\ Walk(<<"BOOTING", "OBSERVING">>)
    /\ UNCHANGED <<pollPc, held, alias, current, reportPc, resp, loop, tui, cli,
                   sm, born, faults>>
    /\ UNCHANGED history

-----------------------------------------------------------------------------
Init ==
    /\ up = FALSE /\ agentState = "BOOTING"
    /\ queue = Nothing /\ db = Nothing
    /\ pollPc = "idle" /\ held = Nothing /\ alias = {} /\ current = NoId
    /\ reportPc = "idle" /\ resp = Nothing /\ loop = "free" /\ tui = Nothing
    /\ cli = [o \in Operators |-> CliIdle]
    /\ sm = [i \in Ids |-> "unknown"]
    /\ born = {} /\ faults = 0
    /\ approvedBy = {}
    /\ runs = [i \in Ids |-> 0] /\ lost = [i \in Ids |-> 0]

PollTask ==
    \/ BeginPoll
    \/ PollFails
    \/ \E new \in SUBSET Ids : Decide(new)
    \/ \E i \in Ids : StartAction(i) \/ RefuseAction(i)
    \/ \E s \in {"COMPLETED", "FAILED"} : FinishAction(s)
    \/ EndActing
    \/ SaveCycle
    \/ CycleFails

ReportTask ==
    \/ \E i \in Ids : ReportAction(i)
    \/ PollDecisions
    \/ DecisionsLost
    \/ ApplyDecisions
    \/ SaveDecisions

Environment ==
    \/ \E o \in Operators, i \in Ids, d \in Decided : CliLoad(o, i, d)
    \/ \E o \in Operators : CliSave(o)
    \/ \E i \in Ids, d \in Decided : SmDecide(i, d)
    \/ Crash
    \/ Restart

Next ==
    \/ PollTask
    \/ ReportTask
    \/ \E i \in Ids : CheckCompliance(i)
    \/ \E i \in Shown : TuiPersist(i) \/ \E d \in Decided : TuiDecide(i, d)
    \/ Environment

Spec == Init /\ [][Next]_vars

\* The tasks run as long as the process does, systemd restarts it
\* (Restart=on-failure), and every device call ends by a timeout.  The device
\* answers some poll again and again: poll_sensors may fail any number of
\* times but not from some point on always.
Fairness ==
    /\ WF_vars(BeginPoll)
    /\ SF_vars(\E new \in SUBSET Ids : Decide(new))
    /\ WF_vars(\E i \in Ids : StartAction(i) \/ RefuseAction(i))
    /\ WF_vars(\E s \in {"COMPLETED", "FAILED"} : FinishAction(s))
    /\ WF_vars(EndActing)
    /\ WF_vars(SaveCycle)
    /\ WF_vars(PollDecisions)
    /\ WF_vars(ApplyDecisions \/ DecisionsLost)
    /\ WF_vars(SaveDecisions)
    /\ WF_vars(Restart)

FairSpec == Spec /\ Fairness

-----------------------------------------------------------------------------
(* Properties.                                                             *)

\* Device I/O is only ever started for an action that some human approved, at
\* the command line, in the terminal UI or at the Site Manager, whatever
\* reloads, lost answers, overwritten rows and restarts came in between.
ExecutedWasApproved == \A i \in Ids : runs[i] > 0 => i \in approvedBy

\* An action is started again only after an event that lost its outcome: a
\* crash or a raising cycle while the cycle held it, a reload of the queue
\* under the running cycle (_sync_actions), or a late write of a human's
\* decision over a row that had already moved on.
ReexecutionHasACause == \A i \in Ids : runs[i] <= 1 + lost[i]

\* With the Site Manager as the only decider, a sensor fault never has two
\* open actions in the queue (ActionQueue.enqueue's suppression survives
\* reloads and restarts).
OneOpenPerSensorFault ==
    \A i, j \in Ids : /\ FaultOf[i] = FaultOf[j]
                      /\ FaultOf[i] \in SensorFaults
                      /\ queue[i] \in Blocking
                      /\ queue[j] \in Blocking
                      => i = j

\* Every approval that reached the checkpoint is settled in the end and stays
\* so: the action's row becomes final, though crashes, raising cycles and
\* reloads under a running cycle may have dropped its outcome before, and no
\* late write takes a final row back.
ApprovedIsSettled == \A i \in Ids : db[i] = "APPROVED" ~> [](db[i] \in Terminal)

=============================================================================
