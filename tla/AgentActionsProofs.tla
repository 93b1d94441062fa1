------------------------- MODULE AgentActionsProofs -------------------------
(***************************************************************************)
(* Proofs about the agent's action pipeline, for every set of action ids,  *)
(* faults and operators, with or without the terminal UI, and for any      *)
(* number of crashes.                                                      *)
(***************************************************************************)
EXTENDS AgentActions, TLAPS

Row == ActionStatus \cup {Absent}

-----------------------------------------------------------------------------
(* What the helpers on the queue and the checkpoint return.                *)

\* load_actions, save_actions(all) and restore map well-formed tables to
\* well-formed tables.
LEMMA HelperTypes ==
    ASSUME NEW q \in [Ids -> Row], NEW rows \in [Ids -> Row],
           NEW new \in SUBSET Ids,
           NEW tasks \in [Ids -> Row \cup {"live"}]
    PROVE  /\ Load(rows) \in [Ids -> Row]
           /\ Save(rows, q) \in [Ids -> Row]
           /\ Restore(q, rows) \in [Ids -> Row]
           /\ Enqueue(q, new) \in [Ids -> Row]
           /\ Detach(tasks, q, rows) \in [Ids -> Row \cup {"live"}]
BY DEF Load, Save, Restore, Enqueue, Detach, Row, ActionStatus, Absent

\* A fold of TypeOK over the three tables the helpers work on.
LEMMA TypeTables ==
    TypeOK => /\ queue \in [Ids -> Row]
              /\ db \in [Ids -> Row]
              /\ tui \in [Ids -> Row \cup {"live"}]
BY DEF TypeOK, Row

\* Assigning a status to a held object keeps both tables well formed.
LEMMA SetHeldType ==
    ASSUME TypeOK, NEW i, NEW s \in {"EXECUTING", "COMPLETED", "FAILED"},
           SetHeld(i, s)
    PROVE  /\ held' \in [Ids -> {"APPROVED", "EXECUTING", "COMPLETED", "FAILED",
                                 Absent}]
           /\ queue' \in [Ids -> Row]
BY DEF TypeOK, SetHeld, Row, ActionStatus

\* The walk along the recovery table stays within the agent's states.
LEMMA RecoverType == ASSUME NEW s \in AgentState PROVE Recover(s) \in AgentState
<1>1. \A t \in AgentState : RecoveryPath[t] \in AgentState
  BY DEF RecoveryPath, AgentState
<1> QED BY <1>1 DEF Recover

-----------------------------------------------------------------------------
(* Type correctness.                                                       *)

\* The pipeline's state stays well typed, whatever the tasks, the command
\* line, the terminal UI and the Site Manager do and whenever the agent dies.
THEOREM TypeCorrect == Spec => []TypeOK
<1>1. Init => TypeOK
  <2> SUFFICES ASSUME Init PROVE TypeOK
    OBVIOUS
  <2>1. CliIdle \in [id : Ids \cup {NoId}, decision : Decided]
    BY DEF CliIdle, Decided
  <2>2. cli \in [Operators -> [id : Ids \cup {NoId}, decision : Decided]]
    BY <2>1 DEF Init
  <2>3. /\ runs \in [Ids -> Nat] /\ lost \in [Ids -> Nat]
        /\ sm \in [Ids -> {"unknown", "pending", "closed"} \cup Decided]
    BY DEF Init
  <2> QED BY <2>2, <2>3 DEF Init, TypeOK, Nothing, AgentState
<1>2. TypeOK /\ [Next]_vars => TypeOK'
  <2> SUFFICES ASSUME TypeOK, [Next]_vars PROVE TypeOK'
    OBVIOUS
  <2> USE DEF Row
  <2>1. CASE BeginPoll
    BY <2>1 DEF BeginPoll, pollFrame, TypeOK
  <2>2. CASE PollFails
    BY <2>2, RecoverType DEF PollFails, pollFrame, TypeOK
  <2>3. ASSUME NEW new \in SUBSET Ids, Decide(new) PROVE TypeOK'
    <3> DEFINE rows == Load(db)
    <3>0. rows \in [Ids -> Row] /\ Restore(queue, rows) \in [Ids -> Row]
      BY TypeTables, HelperTypes
    <3>1. /\ db' \in [Ids -> Row] /\ queue' \in [Ids -> Row]
          /\ tui' \in [Ids -> Row \cup {"live"}]
      <4> HIDE DEF Row
      <4>1. db' = rows /\ queue' = Enqueue(Restore(queue, rows), new)
            /\ tui' = Detach(tui, queue, rows)
        BY <2>3 DEF Decide
      <4> HIDE DEF rows
      <4> QED BY <3>0, <4>1, TypeTables, HelperTypes
    <3>2. /\ agentState' \in AgentState
          /\ pollPc' \in {"idle", "saving", "acting"}
          /\ loop' \in {"free", "poll"}
      BY <2>3 DEF Decide, Walk, AgentState
    <3>3. held' \in [Ids -> {"APPROVED", "EXECUTING", "COMPLETED", "FAILED", Absent}]
      BY <2>3 DEF Decide, TypeOK
    <3>4. alias' \in SUBSET Ids
      BY <2>3 DEF Decide, TypeOK, Approved
    <3>5. born' \in SUBSET Ids
      BY <2>3 DEF Decide, TypeOK
    <3>6. UNCHANGED <<up, current, runs, lost, reportPc, resp, cli, sm, faults,
                      approvedBy>>
      BY <2>3 DEF Decide, pollFrame
    <3> QED BY <3>1, <3>2, <3>3, <3>4, <3>5, <3>6 DEF TypeOK
  <2>4. ASSUME NEW i \in Ids, StartAction(i) PROVE TypeOK'
    <3>1. /\ held' \in [Ids -> {"APPROVED", "EXECUTING", "COMPLETED", "FAILED",
                                 Absent}]
          /\ queue' \in [Ids -> Row]
      BY <2>4, SetHeldType, TypeTables DEF StartAction, TypeOK
    <3>2. runs' \in [Ids -> Nat]
      BY <2>4 DEF StartAction, TypeOK
    <3> QED BY <2>4, <3>1, <3>2 DEF StartAction, pollFrame, TypeOK
  <2>5. ASSUME NEW i \in Ids, RefuseAction(i) PROVE TypeOK'
    BY <2>5, SetHeldType DEF RefuseAction, pollFrame, TypeOK
  <2>6. ASSUME NEW s \in {"COMPLETED", "FAILED"}, FinishAction(s) PROVE TypeOK'
    BY <2>6, SetHeldType DEF FinishAction, pollFrame, TypeOK
  <2>7. CASE EndActing
    BY <2>7 DEF EndActing, pollFrame, TypeOK, Walk, AgentState
  <2>8. CASE SaveCycle
    <3>1. db' \in [Ids -> Row]
      BY <2>8, TypeTables, HelperTypes DEF SaveCycle
    <3>2. agentState' \in AgentState
      BY <2>8 DEF SaveCycle, Walk, AgentState
    <3> QED BY <2>8, <3>1, <3>2 DEF SaveCycle, pollFrame, TypeOK, Nothing
  <2>9. CASE CycleFails
    BY <2>9, RecoverType DEF CycleFails, TypeOK, Nothing
  <2>10. ASSUME NEW i \in Ids, ReportAction(i) PROVE TypeOK'
    <3>1. sm' \in [Ids -> {"unknown", "pending", "closed"} \cup Decided]
      BY <2>10 DEF ReportAction, TypeOK, Decided
    <3> QED BY <2>10, <3>1 DEF ReportAction, agentVars, history, TypeOK
  <2>11. CASE PollDecisions
    BY <2>11 DEF PollDecisions, history, TypeOK, Decided
  <2>12. CASE DecisionsLost
    BY <2>12 DEF DecisionsLost, history, TypeOK, Nothing
  <2>13. CASE ApplyDecisions
    <3> DEFINE q == Restore(queue, Load(db))
    <3>1. q \in [Ids -> Row] /\ Load(db) \in [Ids -> Row]
      BY TypeTables, HelperTypes
    <3>2. db' \in [Ids -> Row] /\ tui' \in [Ids -> Row \cup {"live"}]
      BY <2>13, <3>1, TypeTables, HelperTypes DEF ApplyDecisions
    <3>3. queue' \in [Ids -> Row]
      BY <2>13, <3>1 DEF ApplyDecisions, TypeOK, Decided, ActionStatus
    <3>4. lost' \in [Ids -> Nat]
      BY <2>13 DEF ApplyDecisions, TypeOK
    <3>5. alias' \in SUBSET Ids
      BY <2>13 DEF ApplyDecisions, TypeOK
    <3> QED BY <2>13, <3>2, <3>3, <3>4, <3>5 DEF ApplyDecisions, TypeOK, Nothing
  <2>14. CASE SaveDecisions
    BY <2>14, TypeTables, HelperTypes DEF SaveDecisions, history, TypeOK
  <2>15. ASSUME NEW i \in Ids, CheckCompliance(i) PROVE TypeOK'
    <3>1. queue' \in [Ids -> Row]
      BY <2>15, TypeTables, HelperTypes DEF CheckCompliance
    <3> QED BY <2>15, <3>1 DEF CheckCompliance, history, TypeOK
  <2>16. ASSUME NEW i \in Ids, TuiPersist(i) PROVE TypeOK'
    BY <2>16 DEF TuiPersist, TypeOK
  <2>17. ASSUME NEW i \in Ids, NEW d \in Decided, TuiDecide(i, d) PROVE TypeOK'
    BY <2>17 DEF TuiDecide, TypeOK, Decided, ActionStatus
  <2>18. ASSUME NEW o \in Operators, NEW i \in Ids, NEW d \in Decided,
                CliLoad(o, i, d)
         PROVE  TypeOK'
    <3>1. db' \in [Ids -> Row]
      BY <2>18, TypeTables, HelperTypes DEF CliLoad
    <3>2. cli' \in [Operators -> [id : Ids \cup {NoId}, decision : Decided]]
      BY <2>18 DEF CliLoad, TypeOK
    <3> QED BY <2>18, <3>1, <3>2 DEF CliLoad, agentVars, history, TypeOK
  <2>19. ASSUME NEW o \in Operators, CliSave(o) PROVE TypeOK'
    <3>1. cli[o].id \in Ids /\ cli[o].decision \in Decided
      BY <2>19 DEF CliSave, TypeOK
    <3>2. db' \in [Ids -> Row] /\ lost' \in [Ids -> Nat] /\ approvedBy' \in SUBSET Ids
      BY <2>19, <3>1 DEF CliSave, TypeOK, Decided, ActionStatus
    <3>3. cli' \in [Operators -> [id : Ids \cup {NoId}, decision : Decided]]
      BY <2>19 DEF CliSave, TypeOK, CliIdle, Decided
    <3> QED BY <2>19, <3>2, <3>3 DEF CliSave, agentVars, TypeOK
  <2>20. ASSUME NEW i \in Ids, NEW d \in Decided, SmDecide(i, d) PROVE TypeOK'
    BY <2>20 DEF SmDecide, agentVars, TypeOK
  <2>21. CASE Crash
    <3>1. lost' \in [Ids -> Nat]
      BY <2>21 DEF Crash, TypeOK
    <3>2. Nothing \in [Ids -> {Absent}]
      BY DEF Nothing
    <3>3. /\ queue' \in [Ids -> Row] /\ tui' \in [Ids -> Row \cup {"live"}]
          /\ resp' \in [Ids -> Decided \cup {Absent}]
          /\ held' \in [Ids -> {"APPROVED", "EXECUTING", "COMPLETED", "FAILED",
                                 Absent}]
      BY <2>21, <3>2 DEF Crash
    <3>4. faults' \in Nat
      BY <2>21 DEF Crash, TypeOK
    <3>5. /\ up' \in BOOLEAN /\ agentState' \in AgentState
          /\ alias' \in SUBSET Ids /\ current' \in Ids \cup {NoId}
      BY <2>21, Zenon DEF Crash, AgentState
    <3>6. /\ pollPc' = "idle" /\ reportPc' = "idle" /\ loop' = "free"
          /\ UNCHANGED <<db, cli, sm, born, approvedBy, runs>>
      BY <2>21 DEF Crash
    <3> QED BY <3>1, <3>3, <3>4, <3>5, <3>6 DEF TypeOK
  <2>22. CASE Restart
    <3>1. db' \in [Ids -> Row] /\ queue' \in [Ids -> Row]
      BY <2>22, TypeTables, HelperTypes DEF Restart
    <3> QED BY <2>22, <3>1 DEF Restart, history, TypeOK, Walk, AgentState
  <2>23. CASE UNCHANGED vars
    BY <2>23 DEF vars, TypeOK
  <2> QED
    BY <2>1, <2>2, <2>3, <2>4, <2>5, <2>6, <2>7, <2>8, <2>9, <2>10, <2>11, <2>12,
       <2>13, <2>14, <2>15, <2>16, <2>17, <2>18, <2>19, <2>20, <2>21, <2>22, <2>23
    DEF Next, PollTask, ReportTask, Environment, Shown
<1> QED BY <1>1, <1>2, PTL DEF Spec

-----------------------------------------------------------------------------
(* Only approved actions run.                                              *)

\* The statuses an action has only after an approval.
Granted == {"APPROVED", "EXECUTING", "COMPLETED"}

\* ExecutedWasApproved is not inductive: a start reads the cycle's list,
\* which came from the queue, which came from the checkpoint, a decision of
\* the Site Manager or a key press.  Every place such a status can be read
\* from later is covered, and the action in flight is one the cycle holds.
ApprovalInv ==
    /\ \A i \in Ids :
          /\ db[i] \in Granted => i \in approvedBy
          /\ queue[i] \in Granted => i \in approvedBy
          /\ tui[i] \in Granted => i \in approvedBy
          /\ held[i] # Absent => i \in approvedBy
          /\ resp[i] = "APPROVED" => i \in approvedBy
          /\ sm[i] = "APPROVED" => i \in approvedBy
          /\ runs[i] > 0 => i \in approvedBy
    /\ current # NoId => pollPc = "executing" /\ current \in Ids
                         /\ held[current] # Absent

\* Loading, restoring and saving bring no approval into being.
LEMMA HelpersGrantNothing ==
    ASSUME NEW q \in [Ids -> Row], NEW rows \in [Ids -> Row], NEW i \in Ids
    PROVE  /\ Load(rows)[i] \in Granted => rows[i] \in Granted
           /\ Restore(q, rows)[i] \in Granted => q[i] \in Granted \/ rows[i] \in Granted
           /\ Save(rows, q)[i] \in Granted => q[i] \in Granted \/ rows[i] \in Granted
           /\ \A new \in SUBSET Ids : Enqueue(q, new)[i] \in Granted => q[i] \in Granted
           /\ \A tasks \in [Ids -> Row \cup {"live"}] :
                 Detach(tasks, q, rows)[i] \in Granted =>
                    q[i] \in Granted \/ tasks[i] \in Granted
BY DEF Load, Restore, Save, Enqueue, Detach, Granted

\* Device I/O is started only for actions a human approved, for every set of
\* ids, every number of command-line processes and every crash schedule.
THEOREM OnlyApprovedRun == Spec => []ExecutedWasApproved
<1>1. Init => ApprovalInv
  BY DEF Init, ApprovalInv, Nothing, Granted, Absent
<1>2. TypeOK /\ ApprovalInv /\ [Next]_vars => ApprovalInv'
  <2> SUFFICES ASSUME TypeOK, ApprovalInv, [Next]_vars PROVE ApprovalInv'
    OBVIOUS
  <2>0. approvedBy \subseteq approvedBy'
    BY DEF Next, PollTask, ReportTask, Environment, Shown, BeginPoll, PollFails, Decide,
       StartAction, RefuseAction, FinishAction, EndActing, SaveCycle, CycleFails,
       ReportAction, PollDecisions, DecisionsLost, ApplyDecisions, SaveDecisions,
       CheckCompliance, TuiPersist, TuiDecide, CliLoad, CliSave, SmDecide, Crash,
       Restart, pollFrame, history, vars
  <2>1. CASE BeginPoll
    BY <2>1 DEF BeginPoll, pollFrame, ApprovalInv
  <2>2. CASE PollFails
    BY <2>2 DEF PollFails, pollFrame, ApprovalInv
  <2>3. ASSUME NEW new \in SUBSET Ids, Decide(new) PROVE ApprovalInv'
    <3> DEFINE rows == Load(db)
               q == Restore(queue, rows)
    <3>1. rows \in [Ids -> Row] /\ q \in [Ids -> Row]
      BY TypeTables, HelperTypes
    <3>2. /\ db' = rows /\ queue' = Enqueue(q, new) /\ tui' = Detach(tui, queue, rows)
          /\ UNCHANGED <<current, runs, resp, sm, approvedBy>>
          /\ pollPc = "polling"
      BY <2>3 DEF Decide, pollFrame
    <3>3. \/ held' = held
          \/ held' = [i \in Ids |-> IF i \in Approved(queue') THEN "APPROVED"
                                                               ELSE Absent]
      BY <2>3 DEF Decide
    <3>4. ASSUME NEW i \in Ids
          PROVE  /\ rows[i] \in Granted => i \in approvedBy
                 /\ q[i] \in Granted => i \in approvedBy
      BY <3>1, TypeTables, HelpersGrantNothing DEF ApprovalInv
    <3> HIDE DEF rows, q
    <3>5. ASSUME NEW i \in Ids
          PROVE  /\ db'[i] \in Granted => i \in approvedBy'
                 /\ queue'[i] \in Granted => i \in approvedBy'
                 /\ tui'[i] \in Granted => i \in approvedBy'
      BY <3>1, <3>2, <3>4, TypeTables, HelpersGrantNothing DEF ApprovalInv
    <3>6. ASSUME NEW i \in Ids PROVE held'[i] # Absent => i \in approvedBy'
      BY <3>2, <3>3, <3>5 DEF ApprovalInv, Approved, Granted
    <3> QED BY <3>2, <3>5, <3>6 DEF ApprovalInv
  <2>4. ASSUME NEW i \in Ids, StartAction(i) PROVE ApprovalInv'
    <3>1. i \in approvedBy /\ held[i] # Absent
      BY <2>4 DEF StartAction, ApprovalInv, Absent
    <3> QED BY <2>4, <3>1 DEF StartAction, SetHeld, pollFrame, ApprovalInv, TypeOK,
                              Absent
  <2>5. ASSUME NEW i \in Ids, RefuseAction(i) PROVE ApprovalInv'
    <3>1. i \in approvedBy
      BY <2>5 DEF RefuseAction, ApprovalInv, Absent
    <3> QED BY <2>5, <3>1 DEF RefuseAction, SetHeld, pollFrame, ApprovalInv, TypeOK,
                              Absent
  <2>6. ASSUME NEW s \in {"COMPLETED", "FAILED"}, FinishAction(s) PROVE ApprovalInv'
    <3>1. current \in Ids => current \in approvedBy
      BY IdsAssumption DEF ApprovalInv
    <3> QED BY <2>6, <3>1 DEF FinishAction, SetHeld, pollFrame, ApprovalInv, TypeOK
  <2>7. CASE EndActing
    BY <2>7 DEF EndActing, pollFrame, ApprovalInv
  <2>8. CASE SaveCycle
    <3>1. \A i \in Ids : db'[i] \in Granted => i \in approvedBy
      BY <2>8, TypeTables, HelpersGrantNothing DEF SaveCycle, ApprovalInv
    <3> QED BY <2>8, <3>1 DEF SaveCycle, pollFrame, ApprovalInv, Nothing
  <2>9. CASE CycleFails
    BY <2>9 DEF CycleFails, ApprovalInv, Nothing
  <2>10. ASSUME NEW i \in Ids, ReportAction(i) PROVE ApprovalInv'
    <3>1. \A j \in Ids : sm'[j] = "APPROVED" => sm[j] = "APPROVED"
      BY <2>10 DEF ReportAction, TypeOK
    <3> QED BY <2>10, <3>1 DEF ReportAction, agentVars, history, ApprovalInv
  <2>11. CASE PollDecisions
    BY <2>11 DEF PollDecisions, history, ApprovalInv, Decided, Absent
  <2>12. CASE DecisionsLost
    BY <2>12 DEF DecisionsLost, history, ApprovalInv, Nothing, Absent
  <2>13. CASE ApplyDecisions
    <3> DEFINE rows == Load(db)
               q == Restore(queue, rows)
    <3>1. rows \in [Ids -> Row] /\ q \in [Ids -> Row]
      BY TypeTables, HelperTypes
    <3>2. /\ db' = rows /\ tui' = Detach(tui, queue, rows)
          /\ queue' = [i \in Ids |-> IF q[i] = "PENDING" /\ resp[i] # Absent
                                     THEN resp[i] ELSE q[i]]
          /\ resp' = Nothing
          /\ UNCHANGED <<current, pollPc, held, runs, sm, approvedBy>>
      BY <2>13 DEF ApplyDecisions
    <3>3. ASSUME NEW i \in Ids
          PROVE  /\ rows[i] \in Granted => i \in approvedBy
                 /\ q[i] \in Granted => i \in approvedBy
      BY <3>1, TypeTables, HelpersGrantNothing DEF ApprovalInv
    <3> HIDE DEF rows, q
    <3>4. ASSUME NEW i \in Ids
          PROVE  /\ db'[i] \in Granted => i \in approvedBy'
                 /\ tui'[i] \in Granted => i \in approvedBy'
      BY <3>1, <3>2, <3>3, TypeTables, HelpersGrantNothing DEF ApprovalInv
    <3>5. ASSUME NEW i \in Ids PROVE queue'[i] \in Granted => i \in approvedBy'
      BY <3>2, <3>3 DEF ApprovalInv, TypeOK, Decided, Granted
    <3> QED BY <3>2, <3>4, <3>5 DEF ApprovalInv, Nothing, Absent
  <2>14. CASE SaveDecisions
    <3>1. \A i \in Ids : db'[i] \in Granted => i \in approvedBy
      BY <2>14, TypeTables, HelpersGrantNothing DEF SaveDecisions, ApprovalInv
    <3> QED BY <2>14, <3>1 DEF SaveDecisions, history, ApprovalInv
  <2>15. ASSUME NEW i \in Ids, CheckCompliance(i) PROVE ApprovalInv'
    <3>1. \A j \in Ids : queue'[j] \in Granted => j \in approvedBy
      BY <2>15, TypeTables, HelpersGrantNothing DEF CheckCompliance, ApprovalInv
    <3> QED BY <2>15, <3>1 DEF CheckCompliance, history, ApprovalInv
  <2>16. ASSUME NEW i \in Ids, TuiPersist(i) PROVE ApprovalInv'
    BY <2>16 DEF TuiPersist, ApprovalInv, TypeOK, Granted, Absent
  <2>17. ASSUME NEW i \in Ids, NEW d \in Decided, TuiDecide(i, d) PROVE ApprovalInv'
    BY <2>17 DEF TuiDecide, ApprovalInv, TypeOK, Decided, Granted
  <2>18. ASSUME NEW o \in Operators, NEW i \in Ids, NEW d \in Decided,
                CliLoad(o, i, d)
         PROVE  ApprovalInv'
    <3>1. \A j \in Ids : db'[j] \in Granted => j \in approvedBy
      BY <2>18, TypeTables, HelpersGrantNothing DEF CliLoad, ApprovalInv
    <3> QED BY <2>18, <3>1 DEF CliLoad, agentVars, history, ApprovalInv
  <2>19. ASSUME NEW o \in Operators, CliSave(o) PROVE ApprovalInv'
    <3>1. cli[o].id \in Ids /\ cli[o].decision \in Decided
      BY <2>19 DEF CliSave, TypeOK
    <3> QED BY <2>19, <3>1 DEF CliSave, agentVars, ApprovalInv, TypeOK, Decided, Granted
  <2>20. ASSUME NEW i \in Ids, NEW d \in Decided, SmDecide(i, d) PROVE ApprovalInv'
    BY <2>20 DEF SmDecide, agentVars, ApprovalInv, TypeOK, Decided
  <2>21. CASE Crash
    BY <2>21 DEF Crash, ApprovalInv, Nothing, Granted, Absent
  <2>22. CASE Restart
    <3>1. \A i \in Ids : /\ db'[i] \in Granted => i \in approvedBy
                         /\ queue'[i] \in Granted => i \in approvedBy
      <4>1. Load(db) \in [Ids -> Row]
        BY TypeTables, HelperTypes
      <4> QED BY <2>22, <4>1, TypeTables, HelpersGrantNothing DEF Restart, ApprovalInv
    <3> QED BY <2>22, <3>1 DEF Restart, history, ApprovalInv
  <2>23. CASE UNCHANGED vars
    BY <2>23 DEF vars, ApprovalInv
  <2> QED
    BY <2>1, <2>2, <2>3, <2>4, <2>5, <2>6, <2>7, <2>8, <2>9, <2>10, <2>11, <2>12,
       <2>13, <2>14, <2>15, <2>16, <2>17, <2>18, <2>19, <2>20, <2>21, <2>22, <2>23
    DEF Next, PollTask, ReportTask, Environment, Shown
<1>3. ApprovalInv => ExecutedWasApproved
  BY DEF ApprovalInv, ExecutedWasApproved
<1> QED BY <1>1, <1>2, <1>3, TypeCorrect, PTL DEF Spec

-----------------------------------------------------------------------------
(* Nothing is started again without a cause.                               *)

\* The statuses from which an action can still come to be started.
Startable == {"PENDING", "APPROVED"}

\* The books of an action the cycle does not hold: what can still be started
\* has a start to its credit, that is, each earlier start was lost.
CreditInv(i) ==
    held[i] = Absent /\ (queue[i] \in Startable \/ db[i] \in Startable)
        => runs[i] <= lost[i]

\* The books of an action the cycle holds.  While the queue's entry is the
\* held object, its outcome will be saved over a row that is no longer
\* PENDING; once a reload has put another object there, a loss was counted.
HeldInv(i) ==
    /\ i \in alias => /\ held[i] # Absent /\ queue[i] = held[i]
                      /\ db[i] # "PENDING"
    /\ held[i] # Absent /\ i \notin alias => runs[i] <= lost[i]
    /\ held[i] = "APPROVED" /\ current # i =>
          /\ runs[i] <= lost[i]
          /\ i \notin alias => runs[i] < lost[i]
    /\ held[i] = "EXECUTING" => current = i

\* A terminal-UI task writes a decided object, and one that was taken out of
\* the queue was taken out by a row.
TaskInv(i) ==
    /\ tui[i] # "PENDING"
    /\ tui[i] = "live" => queue[i] \notin {"PENDING", Absent}
    /\ tui[i] \in ActionStatus => db[i] # Absent

\* An id that was never handed out is nowhere.
UnbornInv(i) ==
    i \notin born => /\ runs[i] = 0 /\ held[i] = Absent
                     /\ queue[i] = Absent /\ db[i] = Absent /\ tui[i] = Absent

\* What the poll task's place says of the list it holds.
PhaseInv ==
    /\ pollPc \in {"idle", "polling"} => \A i \in Ids : held[i] = Absent
    /\ pollPc = "saving" => \A i \in Ids : held[i] # "APPROVED"
    /\ pollPc = "executing" => current \in Ids
    /\ current # NoId => pollPc = "executing" /\ held[current] # Absent
    /\ ~up => pollPc = "idle" /\ \A i \in Ids : tui[i] = Absent

\* All that is said of one action.
BookInv(i) ==
    /\ runs[i] <= 1 + lost[i]
    /\ CreditInv(i)
    /\ HeldInv(i)
    /\ TaskInv(i)
    /\ UnbornInv(i)

ReexecInv ==
    /\ \A i \in Ids : BookInv(i)
    /\ \A o \in Operators : cli[o].id # NoId => cli[o].id \in born
    /\ PhaseInv

\* Sensor faults with an open action, in the queue or in a row that the next
\* reload brings back.
Open(i) == queue[i] \in Blocking \/ db[i] \in Blocking

OpenInv ==
    \A i, j \in Ids : /\ FaultOf[i] = FaultOf[j] /\ FaultOf[i] \in SensorFaults
                      /\ Open(i) /\ Open(j)
                      => i = j

\* What the tables hold after a reload, an entry, a save: per id, the row if
\* there is one and the entry if there is none, and nothing else.
LEMMA HelperValues ==
    ASSUME NEW q \in [Ids -> Row], NEW rows \in [Ids -> Row], NEW i \in Ids
    PROVE  /\ Load(rows)[i] = rows[i] \/ (rows[i] = "EXECUTING" /\ Load(rows)[i] = "FAILED")
           /\ Restore(q, rows)[i] = IF rows[i] # Absent THEN rows[i] ELSE q[i]
           /\ Save(rows, q)[i] = IF q[i] # Absent THEN q[i] ELSE rows[i]
           /\ \A new \in SUBSET Ids :
                 Enqueue(q, new)[i] = IF i \in new THEN "PENDING" ELSE q[i]
           /\ \A tasks \in [Ids -> Row \cup {"live"}] :
                 Detach(tasks, q, rows)[i] =
                    IF tasks[i] = "live" /\ rows[i] # Absent THEN q[i] ELSE tasks[i]
<1>1. Load(rows)[i] = rows[i] \/ (rows[i] = "EXECUTING" /\ Load(rows)[i] = "FAILED")
  BY DEF Load
<1>2. /\ Restore(q, rows)[i] = IF rows[i] # Absent THEN rows[i] ELSE q[i]
      /\ Save(rows, q)[i] = IF q[i] # Absent THEN q[i] ELSE rows[i]
  BY DEF Restore, Save
<1>3. ASSUME NEW new \in SUBSET Ids
      PROVE  Enqueue(q, new)[i] = IF i \in new THEN "PENDING" ELSE q[i]
  BY DEF Enqueue
<1>4. ASSUME NEW tasks \in [Ids -> Row \cup {"live"}]
      PROVE  Detach(tasks, q, rows)[i] =
                IF tasks[i] = "live" /\ rows[i] # Absent THEN q[i] ELSE tasks[i]
  BY DEF Detach
<1> QED BY <1>1, <1>2, <1>3, <1>4

\* The books stay right: no step starts an action without a start to its
\* credit, for every set of ids and faults, every number of command-line
\* processes, with or without the terminal UI, and any number of crashes.
LEMMA BooksBalance == Spec => []ReexecInv
<1> USE DEF Absent
<1>1. Init => ReexecInv
  BY DEF Init, ReexecInv, BookInv, CreditInv, HeldInv, TaskInv, UnbornInv, PhaseInv, Nothing,
         Startable, CliIdle, ActionStatus
<1>2. TypeOK /\ ReexecInv /\ [Next]_vars => ReexecInv'
  <2> SUFFICES ASSUME TypeOK, ReexecInv, [Next]_vars PROVE ReexecInv'
    OBVIOUS
  <2> USE DEF ReexecInv, BookInv, CreditInv, HeldInv, TaskInv, UnbornInv
  <2>1. CASE BeginPoll
    BY <2>1 DEF BeginPoll, pollFrame, PhaseInv
  <2>2. CASE PollFails
    BY <2>2 DEF PollFails, pollFrame, PhaseInv
  <2>3. ASSUME NEW new \in SUBSET Ids, Decide(new) PROVE ReexecInv'
    <3> DEFINE rows == Load(db)
               q == Restore(queue, rows)
    <3>1. rows \in [Ids -> Row] /\ q \in [Ids -> Row]
      BY TypeTables, HelperTypes
    <3>2. /\ db' = rows /\ queue' = Enqueue(q, new) /\ tui' = Detach(tui, queue, rows)
          /\ new \subseteq Ids \ born /\ born' = born \cup new
          /\ UNCHANGED <<up, current, runs, lost, cli>>
          /\ pollPc = "polling" /\ up
      BY <2>3 DEF Decide, pollFrame, Proposable
    <3>3. \/ /\ held' = held /\ alias' = alias /\ pollPc' \in {"idle", "saving"}
          \/ /\ held' = [i \in Ids |-> IF i \in Approved(queue') THEN "APPROVED"
                                                                 ELSE Absent]
             /\ alias' = Approved(queue') /\ pollPc' = "acting"
      BY <2>3 DEF Decide
    <3>4. ASSUME NEW i \in Ids
          PROVE  /\ db'[i] = db[i] \/ (db[i] = "EXECUTING" /\ db'[i] = "FAILED")
                 /\ queue'[i] = IF i \in new THEN "PENDING"
                                ELSE IF db'[i] # Absent THEN db'[i] ELSE queue[i]
                 /\ tui'[i] = IF tui[i] = "live" /\ db'[i] # Absent THEN queue[i]
                              ELSE tui[i]
      <4> HIDE DEF q
      <4>1. /\ rows[i] = db[i] \/ (db[i] = "EXECUTING" /\ rows[i] = "FAILED")
        BY TypeTables, HelperValues
      <4> HIDE DEF rows
      <4>2. q[i] = IF rows[i] # Absent THEN rows[i] ELSE queue[i]
        BY <3>1, TypeTables, HelperValues DEF q
      <4>3. Enqueue(q, new)[i] = IF i \in new THEN "PENDING" ELSE q[i]
        BY <3>1, HelperValues
      <4>4. Detach(tui, queue, rows)[i] =
               IF tui[i] = "live" /\ rows[i] # Absent THEN queue[i] ELSE tui[i]
        BY <3>1, TypeTables, HelperValues
      <4> QED BY <3>2, <4>1, <4>2, <4>3, <4>4
    <3> HIDE DEF rows, q
    <3>5. ASSUME NEW i \in Ids
          PROVE  /\ held[i] = Absent /\ i \notin alias
                 /\ queue'[i] \in Startable \/ db'[i] \in Startable => runs[i] <= lost[i]
                 /\ queue'[i] = "APPROVED" => db'[i] # "PENDING"
      <4>1. held[i] = Absent /\ i \notin alias
        BY <3>2 DEF PhaseInv
      <4> QED BY <3>2, <3>4, <4>1 DEF Startable, TypeOK
    <3>6. ASSUME NEW i \in Ids PROVE CreditInv(i)' /\ HeldInv(i)'
      BY <3>2, <3>3, <3>5 DEF Startable, Approved
    <3>7. ASSUME NEW i \in Ids PROVE TaskInv(i)' /\ UnbornInv(i)'
      <4>1. TaskInv(i)'
        BY <3>2, <3>4 DEF TypeOK, ActionStatus
      <4>2. UnbornInv(i)'
        BY <3>2, <3>3, <3>4, <3>5 DEF Approved
      <4> QED BY <4>1, <4>2
    <3>8. PhaseInv'
      <4>1. current = NoId
        BY <3>2 DEF PhaseInv
      <4> QED BY <3>2, <3>3, <3>5, <4>1 DEF PhaseInv
    <3> QED BY <3>2, <3>6, <3>7, <3>8
  <2>4. ASSUME NEW i \in Ids, StartAction(i) PROVE ReexecInv'
    <3>1. /\ current = NoId /\ held[i] = "APPROVED" /\ i \in born /\ up
          /\ runs[i] <= lost[i]
          /\ i \notin alias => runs[i] < lost[i]
      BY <2>4, IdsAssumption DEF StartAction, PhaseInv
    <3>2. /\ runs' = [runs EXCEPT ![i] = @ + 1] /\ current' = i
          /\ pollPc' = "executing"
          /\ UNCHANGED <<up, db, alias, tui, born, lost, cli>>
      BY <2>4 DEF StartAction, pollFrame
    <3>3. \A j \in Ids \ {i} : held'[j] = held[j] /\ queue'[j] = queue[j]
      BY <2>4 DEF StartAction, SetHeld, TypeOK
    <3>4. /\ held'[i] \in {"APPROVED", "EXECUTING"}
          /\ i \in alias => queue'[i] = held'[i]
          /\ i \notin alias => queue'[i] = queue[i]
      BY <2>4 DEF StartAction, SetHeld, TypeOK
    <3>5. ASSUME NEW j \in Ids, j # i
          PROVE  BookInv(j)'
      <4>1. runs'[j] = runs[j]
        BY <3>2, <3>5 DEF TypeOK
      <4>2. held[j] # "EXECUTING" /\ current # j /\ current' # j
        BY <3>1, <3>2, <3>5, IdsAssumption
      <4> QED BY <3>2, <3>3, <3>5, <4>1, <4>2
    <3>6. BookInv(i)'
      <4>1. runs'[i] = runs[i] + 1 /\ runs[i] \in Nat /\ lost[i] \in Nat
        BY <3>2 DEF TypeOK
      <4>2. TaskInv(i)'
        BY <3>1, <3>2, <3>4
      <4> QED BY <3>1, <3>2, <3>4, <4>1, <4>2
    <3>7. PhaseInv'
      BY <3>1, <3>2, <3>4 DEF PhaseInv
    <3> QED BY <3>2, <3>5, <3>6, <3>7
  <2>5. ASSUME NEW i \in Ids, RefuseAction(i) PROVE ReexecInv'
    <3>1. /\ held[i] = "APPROVED" /\ i \in born
          /\ UNCHANGED <<up, db, alias, tui, born, lost, runs, cli, current, pollPc>>
          /\ pollPc = "acting"
      BY <2>5 DEF RefuseAction, pollFrame
    <3>2. /\ \A j \in Ids \ {i} : held'[j] = held[j] /\ queue'[j] = queue[j]
          /\ held'[i] = "FAILED"
          /\ queue'[i] = IF i \in alias THEN "FAILED" ELSE queue[i]
      BY <2>5 DEF RefuseAction, SetHeld, TypeOK
    <3>3. ASSUME NEW j \in Ids PROVE BookInv(j)'
      <4>1. CASE j = i
        BY <3>1, <3>2, <4>1
      <4>2. CASE j # i
        BY <3>1, <3>2, <4>2
      <4> QED BY <4>1, <4>2
    <3>4. PhaseInv'
      BY <3>1, <3>2 DEF PhaseInv
    <3> QED BY <3>1, <3>3, <3>4
  <2>6. ASSUME NEW s \in {"COMPLETED", "FAILED"}, FinishAction(s) PROVE ReexecInv'
    <3>1. /\ current \in Ids /\ held[current] # Absent /\ current \in born
          /\ UNCHANGED <<up, db, alias, tui, born, lost, runs, cli>>
          /\ pollPc = "executing" /\ pollPc' = "acting" /\ current' = NoId
          /\ up
      BY <2>6, IdsAssumption DEF FinishAction, pollFrame, PhaseInv
    <3>2. /\ \A j \in Ids \ {current} : held'[j] = held[j] /\ queue'[j] = queue[j]
          /\ held'[current] = s
          /\ queue'[current] = IF current \in alias THEN s ELSE queue[current]
      BY <2>6, <3>1 DEF FinishAction, SetHeld, TypeOK
    <3>3. ASSUME NEW j \in Ids PROVE BookInv(j)'
      <4>1. CASE j = current
        BY <3>1, <3>2, <4>1
      <4>2. CASE j # current
        BY <3>1, <3>2, <4>2, IdsAssumption
      <4> QED BY <4>1, <4>2
    <3>4. PhaseInv'
      BY <3>1 DEF PhaseInv
    <3> QED BY <3>1, <3>3, <3>4
  <2>7. CASE EndActing
    <3>1. \A i \in Ids : held[i] # "APPROVED"
      BY <2>7 DEF EndActing, Approved
    <3> QED BY <2>7, <3>1 DEF EndActing, pollFrame, PhaseInv
  <2>8. CASE SaveCycle
    <3>1. /\ db' = Save(db, queue) /\ held' = Nothing /\ alias' = {}
          /\ UNCHANGED <<up, queue, current, tui, born, runs, lost, cli>>
          /\ pollPc = "saving" /\ pollPc' = "idle"
      BY <2>8 DEF SaveCycle, pollFrame
    <3>2. current = NoId
      BY <3>1 DEF PhaseInv
    <3>3. ASSUME NEW i \in Ids PROVE BookInv(i)'
      <4>1. db'[i] = IF queue[i] # Absent THEN queue[i] ELSE db[i]
        BY <3>1, TypeTables, HelperValues
      <4>2. held[i] \in {"COMPLETED", "FAILED", Absent}
        BY <3>1, <3>2, IdsAssumption DEF PhaseInv, TypeOK
      <4>3. held'[i] = Absent /\ i \notin alias'
        BY <3>1 DEF Nothing
      <4>4. queue[i] \in Startable \/ db'[i] \in Startable => runs[i] <= lost[i]
        BY <4>1, <4>2 DEF Startable
      <4> QED BY <3>1, <4>1, <4>3, <4>4
    <3>4. PhaseInv'
      BY <3>1, <3>2 DEF PhaseInv, Nothing
    <3> QED BY <3>1, <3>3, <3>4
  <2>9. CASE CycleFails
    <3>1. /\ held' = Nothing /\ alias' = {} /\ current' = NoId /\ pollPc' = "idle"
          /\ lost' = [i \in Ids |-> IF held[i] # Absent THEN lost[i] + 1 ELSE lost[i]]
          /\ UNCHANGED <<up, queue, db, tui, born, runs, cli>>
      BY <2>9 DEF CycleFails
    <3>2. ASSUME NEW i \in Ids PROVE BookInv(i)'
      <4>1. held'[i] = Absent /\ i \notin alias'
        BY <3>1 DEF Nothing
      <4>2. runs[i] \in Nat /\ lost[i] \in Nat
        BY DEF TypeOK
      <4> QED BY <3>1, <4>1, <4>2
    <3>3. PhaseInv'
      BY <3>1 DEF PhaseInv, Nothing
    <3> QED BY <3>1, <3>2, <3>3
  <2>10. ASSUME NEW i \in Ids, ReportAction(i) PROVE ReexecInv'
    BY <2>10 DEF ReportAction, agentVars, history, PhaseInv
  <2>11. CASE PollDecisions
    BY <2>11 DEF PollDecisions, history, PhaseInv
  <2>12. CASE DecisionsLost
    BY <2>12 DEF DecisionsLost, history, PhaseInv
  <2>13. CASE ApplyDecisions
    <3> DEFINE rows == Load(db)
               q == Restore(queue, rows)
    <3>1. rows \in [Ids -> Row] /\ q \in [Ids -> Row]
      BY TypeTables, HelperTypes
    <3>2. /\ db' = rows /\ tui' = Detach(tui, queue, rows)
          /\ queue' = [i \in Ids |-> IF q[i] = "PENDING" /\ resp[i] # Absent
                                     THEN resp[i] ELSE q[i]]
          /\ alias' = {i \in alias : rows[i] = Absent}
          /\ lost' = [i \in Ids |-> IF i \in alias /\ rows[i] # Absent
                                    THEN lost[i] + 1 ELSE lost[i]]
          /\ UNCHANGED <<up, pollPc, held, current, cli, born, runs>>
          /\ up
      BY <2>13 DEF ApplyDecisions
    <3>3. ASSUME NEW i \in Ids
          PROVE  /\ db'[i] = db[i] \/ (db[i] = "EXECUTING" /\ db'[i] = "FAILED")
                 /\ LET e == IF db'[i] # Absent THEN db'[i] ELSE queue[i]
                    IN  queue'[i] = e \/ (e = "PENDING" /\ queue'[i] \in Decided)
                 /\ tui'[i] = IF tui[i] = "live" /\ db'[i] # Absent THEN queue[i]
                              ELSE tui[i]
      <4> HIDE DEF q
      <4>1. rows[i] = db[i] \/ (db[i] = "EXECUTING" /\ rows[i] = "FAILED")
        BY TypeTables, HelperValues
      <4> HIDE DEF rows
      <4>2. q[i] = IF rows[i] # Absent THEN rows[i] ELSE queue[i]
        BY <3>1, TypeTables, HelperValues DEF q
      <4>3. Detach(tui, queue, rows)[i] =
               IF tui[i] = "live" /\ rows[i] # Absent THEN queue[i] ELSE tui[i]
        BY <3>1, TypeTables, HelperValues
      <4>4. queue'[i] = q[i] \/ (q[i] = "PENDING" /\ queue'[i] \in Decided)
        <5>1. queue'[i] = IF q[i] = "PENDING" /\ resp[i] # Absent THEN resp[i]
                          ELSE q[i]
          BY <3>2
        <5>2. resp[i] \in Decided \cup {Absent}
          BY DEF TypeOK
        <5> QED BY <5>1, <5>2
      <4> QED BY <3>2, <4>1, <4>2, <4>3, <4>4
    <3> HIDE DEF rows, q
    <3>4. ASSUME NEW i \in Ids PROVE BookInv(i)'
      <4>1. runs[i] \in Nat /\ lost[i] \in Nat
        BY DEF TypeOK
      <4>2. lost'[i] = IF i \in alias /\ db'[i] # Absent THEN lost[i] + 1 ELSE lost[i]
        BY <3>2
      <4>3. i \in alias' <=> i \in alias /\ db'[i] = Absent
        BY <3>2
      <4>4. held[i] # "PENDING"
        BY DEF TypeOK
      <4>5. CreditInv(i)' /\ HeldInv(i)'
        <5>1. CASE held[i] = Absent
          BY <3>2, <3>3, <4>2, <4>3, <5>1 DEF Startable, Decided
        <5>2. CASE held[i] # Absent
          BY <3>2, <3>3, <4>1, <4>2, <4>3, <4>4, <5>2
        <5> QED BY <5>1, <5>2
      <4>6. TaskInv(i)' /\ UnbornInv(i)'
        <5>1. TaskInv(i)'
          BY <3>3 DEF TypeOK, ActionStatus, Decided
        <5>2. UnbornInv(i)'
          BY <3>2, <3>3
        <5> QED BY <5>1, <5>2
      <4> QED BY <3>2, <4>1, <4>2, <4>5, <4>6
    <3> QED BY <3>2, <3>4 DEF PhaseInv
  <2>14. CASE SaveDecisions
    <3>1. /\ db' = Save(db, queue)
          /\ UNCHANGED <<up, queue, pollPc, held, alias, current, tui, cli, born,
                         runs, lost>>
      BY <2>14 DEF SaveDecisions, history
    <3>2. ASSUME NEW i \in Ids PROVE BookInv(i)'
      <4>1. db'[i] = IF queue[i] # Absent THEN queue[i] ELSE db[i]
        BY <3>1, TypeTables, HelperValues
      <4>2. held[i] # "PENDING"
        BY DEF TypeOK
      <4> QED BY <3>1, <4>1, <4>2
    <3> QED BY <3>1, <3>2 DEF PhaseInv
  <2>15. ASSUME NEW i \in Ids, CheckCompliance(i) PROVE ReexecInv'
    <3>1. /\ queue' = Enqueue(queue, {i}) /\ i \notin born /\ born' = born \cup {i}
          /\ UNCHANGED <<up, db, pollPc, held, alias, current, tui, cli, runs, lost>>
      BY <2>15 DEF CheckCompliance, Proposable, history
    <3>2. ASSUME NEW j \in Ids PROVE BookInv(j)'
      <4>1. queue'[j] = IF j = i THEN "PENDING" ELSE queue[j]
        BY <3>1, TypeTables, HelperValues
      <4>2. runs[j] \in Nat /\ lost[j] \in Nat
        BY DEF TypeOK
      <4> QED BY <3>1, <4>1, <4>2
    <3> QED BY <3>1, <3>2 DEF PhaseInv
  <2>16. ASSUME NEW i \in Ids, TuiPersist(i) PROVE ReexecInv'
    <3>1. UNCHANGED <<up, queue, pollPc, held, alias, current, cli, born, runs>> /\ up
      BY <2>16 DEF TuiPersist
    <3>2. ASSUME NEW j \in Ids, j # i PROVE BookInv(j)'
      <4>1. db'[j] = db[j] /\ tui'[j] = tui[j] /\ lost'[j] = lost[j]
        BY <2>16, <3>2 DEF TuiPersist, TypeOK
      <4> QED BY <3>1, <4>1
    <3>3. BookInv(i)'
      <4>1. /\ tui[i] # Absent /\ tui'[i] = Absent
            /\ db'[i] = IF tui[i] = "live" THEN queue[i] ELSE tui[i]
            /\ lost'[i] = IF db[i] \notin {Absent, "PENDING"} THEN lost[i] + 1
                          ELSE lost[i]
            /\ runs[i] \in Nat /\ lost[i] \in Nat
            /\ tui[i] = "live" \/ tui[i] \in ActionStatus
        BY <2>16 DEF TuiPersist, TypeOK
      <4>2. i \in born /\ db'[i] # "PENDING"
        BY <4>1
      <4> QED BY <3>1, <4>1, <4>2 DEF Startable, ActionStatus
    <3> QED BY <3>1, <3>2, <3>3 DEF PhaseInv
  <2>17. ASSUME NEW i \in Ids, NEW d \in Decided, TuiDecide(i, d) PROVE ReexecInv'
    <3>1. /\ UNCHANGED <<up, db, pollPc, held, alias, current, cli, born, runs, lost>>
          /\ queue[i] = "PENDING" /\ up
      BY <2>17 DEF TuiDecide
    <3>2. ASSUME NEW j \in Ids PROVE BookInv(j)'
      <4>1. /\ queue'[j] = IF j = i THEN d ELSE queue[j]
            /\ tui'[j] = IF j = i THEN "live" ELSE tui[j]
            /\ held[j] # "PENDING"
        BY <2>17 DEF TuiDecide, TypeOK
      <4> QED BY <3>1, <4>1 DEF Startable, Decided, ActionStatus
    <3> QED BY <3>1, <3>2 DEF PhaseInv
  <2>18. ASSUME NEW o \in Operators, NEW i \in Ids, NEW d \in Decided,
                CliLoad(o, i, d)
         PROVE  ReexecInv'
    <3>1. UNCHANGED <<up, queue, pollPc, held, alias, current, tui, born, runs, lost>>
      BY <2>18 DEF CliLoad, agentVars, history
    <3>2. ASSUME NEW j \in Ids PROVE BookInv(j)'
      <4>1. db'[j] = db[j] \/ (db[j] = "EXECUTING" /\ db'[j] = "FAILED")
        BY <2>18, TypeTables, HelperValues DEF CliLoad
      <4> QED BY <3>1, <4>1 DEF Startable
    <3>3. \A p \in Operators : cli'[p].id # NoId => cli'[p].id \in born'
      BY <2>18, <3>1 DEF CliLoad, TypeOK
    <3> QED BY <3>1, <3>2, <3>3 DEF PhaseInv
  <2>19. ASSUME NEW o \in Operators, CliSave(o) PROVE ReexecInv'
    <3> DEFINE i == cli[o].id
    <3>1. /\ UNCHANGED <<up, queue, pollPc, held, alias, current, tui, born, runs>>
          /\ i \in Ids /\ i \in born
      BY <2>19 DEF CliSave, agentVars, TypeOK
    <3>2. ASSUME NEW j \in Ids PROVE BookInv(j)'
      <4>1. CASE j # i
        <5>1. db'[j] = db[j] /\ lost'[j] = lost[j]
          BY <2>19, <4>1 DEF CliSave, TypeOK
        <5> QED BY <3>1, <5>1
      <4>2. CASE j = i
        <5>1. /\ db'[j] \in Decided
              /\ lost'[j] = IF db[j] # "PENDING" THEN lost[j] + 1 ELSE lost[j]
              /\ runs[j] \in Nat /\ lost[j] \in Nat
          BY <2>19, <4>2 DEF CliSave, TypeOK
        <5> HIDE DEF i
        <5> QED BY <3>1, <4>2, <5>1 DEF Decided, Startable
      <4> QED BY <4>1, <4>2
    <3>3. \A p \in Operators : cli'[p].id # NoId => cli'[p].id \in born'
      BY <2>19, <3>1 DEF CliSave, TypeOK, CliIdle
    <3> QED BY <3>1, <3>2, <3>3 DEF PhaseInv
  <2>20. ASSUME NEW i \in Ids, NEW d \in Decided, SmDecide(i, d) PROVE ReexecInv'
    BY <2>20 DEF SmDecide, agentVars, PhaseInv
  <2>21. CASE Crash
    <3>1. /\ held' = Nothing /\ alias' = {} /\ current' = NoId /\ pollPc' = "idle"
          /\ queue' = Nothing /\ tui' = Nothing
          /\ lost' = [i \in Ids |-> IF held[i] # Absent THEN lost[i] + 1 ELSE lost[i]]
          /\ UNCHANGED <<db, born, runs, cli>>
      BY <2>21 DEF Crash
    <3>2. ASSUME NEW i \in Ids PROVE BookInv(i)'
      <4>1. /\ held'[i] = Absent /\ i \notin alias'
            /\ queue'[i] = Absent /\ tui'[i] = Absent
        BY <3>1 DEF Nothing
      <4>2. runs[i] \in Nat /\ lost[i] \in Nat
        BY DEF TypeOK
      <4> QED BY <3>1, <4>1, <4>2 DEF Startable, ActionStatus
    <3>3. PhaseInv'
      BY <3>1 DEF PhaseInv, Nothing
    <3> QED BY <3>1, <3>2, <3>3
  <2>22. CASE Restart
    <3>1. /\ db' = Load(db) /\ queue' = Restore(queue, Load(db))
          /\ UNCHANGED <<pollPc, held, alias, current, tui, cli, born, runs, lost>>
          /\ ~up /\ up'
      BY <2>22 DEF Restart, history
    <3>2. ASSUME NEW i \in Ids PROVE BookInv(i)'
      <4>1. db'[i] = db[i] \/ (db[i] = "EXECUTING" /\ db'[i] = "FAILED")
        BY <3>1, TypeTables, HelperValues
      <4>2. queue'[i] = IF db'[i] # Absent THEN db'[i] ELSE queue[i]
        <5>1. Load(db) \in [Ids -> Row]
          BY TypeTables, HelperTypes
        <5> QED BY <3>1, <5>1, TypeTables, HelperValues
      <4>3. held[i] = Absent
        BY <3>1 DEF PhaseInv
      <4>4. tui[i] = Absent
        BY <3>1 DEF PhaseInv
      <4> QED BY <3>1, <4>1, <4>2, <4>3, <4>4 DEF Startable, ActionStatus
    <3> QED BY <3>1, <3>2 DEF PhaseInv
  <2>23. CASE UNCHANGED vars
    BY <2>23 DEF vars, PhaseInv
  <2> QED
    BY <2>1, <2>2, <2>3, <2>4, <2>5, <2>6, <2>7, <2>8, <2>9, <2>10, <2>11, <2>12,
       <2>13, <2>14, <2>15, <2>16, <2>17, <2>18, <2>19, <2>20, <2>21, <2>22, <2>23
    DEF Next, PollTask, ReportTask, Environment, Shown
<1> QED BY <1>1, <1>2, TypeCorrect, PTL DEF Spec

\* An action is started a second time only if an event lost the outcome of the
\* first: `runs` never exceeds `lost` by more than one.
THEOREM RestartsAreAccounted == Spec => []ReexecutionHasACause
<1>1. ReexecInv => ReexecutionHasACause
  BY DEF ReexecInv, BookInv, ReexecutionHasACause
<1> QED BY <1>1, BooksBalance, PTL

-----------------------------------------------------------------------------
(* One open action per sensor fault.                                       *)

\* With the Site Manager as the only decider an action becomes open only by
\* being proposed, and a cycle proposes after it has reloaded the rows: what
\* is open in the queue or in a row is then blocking in the queue it looks at.
LEMMA NothingReopens ==
    ASSUME Operators = {}, Console = FALSE, TypeOK, ReexecInv, OpenInv,
           [Next]_vars
    PROVE  OpenInv'
<1> USE DEF Open, Blocking, Absent
<1>1. ASSUME NEW new \in SUBSET Ids, Decide(new) PROVE OpenInv'
  <2> DEFINE rows == Load(db)
             q == Restore(queue, rows)
  <2>1. rows \in [Ids -> Row] /\ q \in [Ids -> Row]
    BY TypeTables, HelperTypes
  <2>2. /\ db' = rows /\ queue' = Enqueue(q, new) /\ Proposable(q, new)
    BY <1>1 DEF Decide
  <2>3. ASSUME NEW i \in Ids PROVE
           /\ queue'[i] = IF i \in new THEN "PENDING" ELSE q[i]
           /\ db'[i] = rows[i]
           /\ q[i] \in Blocking => Open(i)
           /\ rows[i] \in Blocking => q[i] \in Blocking
    <3>1. rows[i] = db[i] \/ (db[i] = "EXECUTING" /\ rows[i] = "FAILED")
      BY TypeTables, HelperValues
    <3>2. q[i] = IF rows[i] # Absent THEN rows[i] ELSE queue[i]
      BY <2>1, TypeTables, HelperValues
    <3> HIDE DEF rows, q
    <3>3. Enqueue(q, new)[i] = IF i \in new THEN "PENDING" ELSE q[i]
      BY <2>1, HelperValues
    <3> QED BY <2>2, <3>1, <3>2, <3>3
  <2> HIDE DEF rows, q
  <2>4. ASSUME NEW i \in Ids PROVE Open(i)' => i \in new \/ q[i] \in Blocking
    BY <2>3
  <2>5. ASSUME NEW i \in new, NEW j \in Ids, FaultOf[i] = FaultOf[j]
        PROVE  q[j] \notin Blocking
    BY <2>2, <2>5 DEF Proposable, Blocked
  <2>6. ASSUME NEW i \in Ids, NEW j \in Ids,
               FaultOf[i] = FaultOf[j], FaultOf[i] \in SensorFaults,
               Open(i)', Open(j)'
        PROVE  i = j
    <3>1. CASE i \in new \/ j \in new
      BY <2>2, <2>4, <2>5, <2>6, <3>1 DEF Proposable
    <3>2. CASE i \notin new /\ j \notin new
      BY <2>3, <2>4, <2>6, <3>2 DEF OpenInv
    <3> QED BY <3>1, <3>2
  <2> QED BY <2>6 DEF OpenInv
<1> DEFINE Keeps == \A i \in Ids : FaultOf[i] \in SensorFaults /\ Open(i)' => Open(i)
<1>2. ASSUME UNCHANGED <<queue, db>> PROVE Keeps
  BY <1>2
<1>3. ASSUME NEW i \in Ids, StartAction(i) PROVE Keeps
  <2>1. db' = db
    BY <1>3 DEF StartAction
  <2>2. \A j \in Ids : queue'[j] = queue[j] \/ (j = i /\ i \in alias)
    BY <1>3 DEF StartAction, SetHeld, TypeOK
  <2>3. i \in alias => queue[i] = "APPROVED"
    BY <1>3 DEF StartAction, ReexecInv, BookInv, HeldInv
  <2> QED BY <2>1, <2>2, <2>3
<1>4. ASSUME NEW i \in Ids, RefuseAction(i) PROVE Keeps
  <2>1. db' = db
    BY <1>4 DEF RefuseAction
  <2>2. \A j \in Ids : queue'[j] = queue[j] \/ queue'[j] = "FAILED"
    BY <1>4 DEF RefuseAction, SetHeld, TypeOK
  <2> QED BY <2>1, <2>2
<1>5. ASSUME NEW s \in {"COMPLETED", "FAILED"}, FinishAction(s) PROVE Keeps
  <2>1. db' = db
    BY <1>5 DEF FinishAction
  <2>2. \A j \in Ids : queue'[j] = queue[j] \/ queue'[j] = s
    BY <1>5 DEF FinishAction, SetHeld, TypeOK
  <2> QED BY <2>1, <2>2
<1>6. ASSUME SaveCycle \/ SaveDecisions PROVE Keeps
  <2>1. db' = Save(db, queue) /\ queue' = queue
    BY <1>6 DEF SaveCycle, SaveDecisions
  <2>2. \A i \in Ids : db'[i] = queue[i] \/ db'[i] = db[i]
    BY <2>1, TypeTables, HelperValues
  <2> QED BY <2>1, <2>2
<1>7. ASSUME ApplyDecisions PROVE Keeps
  <2> DEFINE rows == Load(db)
             q == Restore(queue, rows)
  <2>1. rows \in [Ids -> Row] /\ q \in [Ids -> Row]
    BY TypeTables, HelperTypes
  <2>2. /\ db' = rows
        /\ queue' = [i \in Ids |-> IF q[i] = "PENDING" /\ resp[i] # Absent
                                   THEN resp[i] ELSE q[i]]
    BY <1>7 DEF ApplyDecisions
  <2>3. ASSUME NEW i \in Ids
        PROVE  /\ db'[i] \in Blocking => db[i] \in Blocking
               /\ q[i] \in Blocking => Open(i)
               /\ queue'[i] \in Blocking => q[i] \in Blocking
    <3>1. rows[i] = db[i] \/ (db[i] = "EXECUTING" /\ rows[i] = "FAILED")
      BY TypeTables, HelperValues
    <3>2. q[i] = IF rows[i] # Absent THEN rows[i] ELSE queue[i]
      BY <2>1, TypeTables, HelperValues
    <3> HIDE DEF rows, q
    <3> QED BY <2>2, <3>1, <3>2
  <2> QED BY <2>3
<1>8. ASSUME NEW i \in Ids, CheckCompliance(i) PROVE Keeps
  <2>1. db' = db /\ queue' = Enqueue(queue, {i}) /\ FaultOf[i] \notin SensorFaults
    BY <1>8, IdsAssumption DEF CheckCompliance
  <2>2. \A j \in Ids : queue'[j] = queue[j] \/ j = i
    BY <2>1, TypeTables, HelperValues
  <2> QED BY <2>1, <2>2
<1>9. ASSUME Crash PROVE Keeps
  BY <1>9 DEF Crash, Nothing
<1>10. ASSUME Restart PROVE Keeps
  <2>1. Load(db) \in [Ids -> Row]
    BY TypeTables, HelperTypes
  <2>2. db' = Load(db) /\ queue' = Restore(queue, Load(db))
    BY <1>10 DEF Restart
  <2>3. ASSUME NEW i \in Ids
        PROVE  /\ db'[i] = db[i] \/ (db[i] = "EXECUTING" /\ db'[i] = "FAILED")
               /\ queue'[i] = IF db'[i] # Absent THEN db'[i] ELSE queue[i]
    BY <2>1, <2>2, TypeTables, HelperValues
  <2> QED BY <2>3
<1>11. ASSUME \/ BeginPoll \/ PollFails \/ EndActing \/ CycleFails
              \/ PollDecisions \/ DecisionsLost
              \/ \E i \in Ids : ReportAction(i) \/ \E d \in Decided : SmDecide(i, d)
              \/ UNCHANGED vars
       PROVE  UNCHANGED <<queue, db>>
  BY <1>11 DEF BeginPoll, PollFails, EndActing, CycleFails, PollDecisions,
       DecisionsLost, ReportAction, SmDecide, agentVars, vars
<1>12. Shown = {}
  BY DEF Shown
<1>13. ASSUME Keeps PROVE OpenInv'
  <2> SUFFICES ASSUME NEW i \in Ids, NEW j \in Ids, FaultOf[i] = FaultOf[j],
                      FaultOf[i] \in SensorFaults, Open(i)', Open(j)'
               PROVE  i = j
    BY DEF OpenInv
  <2> QED BY <1>13 DEF OpenInv
<1> HIDE DEF Keeps, Open, Blocking, Absent
<1> QED
  BY <1>1, <1>2, <1>3, <1>4, <1>5, <1>6, <1>7, <1>8, <1>9, <1>10, <1>11, <1>12, <1>13
  DEF Next, PollTask, ReportTask, Environment

\* When the Site Manager is the only decider, a sensor fault never has two
\* open actions in the queue, for any number of ids, faults, crashes and
\* reloads.  The hypothesis is needed: a late write of the command line or the
\* terminal UI takes a closed row back to a decided one.
THEOREM SuppressionSurvives ==
    ASSUME Operators = {}, Console = FALSE
    PROVE  Spec => []OneOpenPerSensorFault
<1>1. Init => OpenInv
  BY DEF Init, OpenInv, Open, Nothing, Blocking, Absent
<1>2. TypeOK /\ ReexecInv /\ OpenInv /\ [Next]_vars => OpenInv'
  BY NothingReopens
<1>3. OpenInv => OneOpenPerSensorFault
  BY DEF OpenInv, Open, OneOpenPerSensorFault
<1> QED BY <1>1, <1>2, <1>3, TypeCorrect, BooksBalance, PTL DEF Spec

=============================================================================
