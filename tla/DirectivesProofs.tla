-------------------------- MODULE DirectivesProofs --------------------------
(***************************************************************************)
(* The directive queue and the firmware campaigns on it.                   *)
(*                                                                         *)
(* One proposal, at most one directive and at most one device execution,   *)
(* for every set of requests, keys and devices and every schedule of       *)
(* losses and restarts; the queue implements the at-most-once register.    *)
(* plan_waves is right on every input, and with advance calls that do not  *)
(* overlap the waves keep their order and updates are one at a time.       *)
(***************************************************************************)
EXTENDS FirmwareCampaigns, FiniteSetTheorems, WellFoundedInduction, TLAPS

\* No two rows share a proposal's key.
KeysUnique ==
    \A i, j \in Live : i # j => dir[i].key = NoKey \/ dir[i].key # dir[j].key

\* Where a directive is on its one-way path: queued row, answer, task, device.
\* What has left `pending` never returns to it, so nothing is started twice.
OneWay ==
    \A i \in Ids :
        /\ i \notin Live => i \notin polled /\ task[i] = "none" /\ started[i] = 0
        /\ i \in Live /\ dir[i].status = "pending"
           => i \notin polled /\ task[i] = "none" /\ started[i] = 0
        /\ i \in polled => task[i] = "none" /\ started[i] = 0
        /\ task[i] = "queued" => started[i] = 0
        /\ started[i] <= 1

\* What the tasks and the settled rows say about the device.
Evidence ==
    \A i \in Ids :
        /\ task[i] \in {"running", "success"} => started[i] = 1
        /\ i \notin Live => outcome[i] = "none"

DirInv == TypeOK /\ KeysUnique /\ OneWay /\ Evidence /\ AckNamesOwnWork /\ CompletedRan

-----------------------------------------------------------------------------
\* An empty store satisfies the invariant.
LEMMA InitDir == DInit => DirInv
  <1> SUFFICES ASSUME DInit PROVE DirInv
    OBVIOUS
  <1>1. TypeOK
    <2>1. halted \in BOOLEAN
      BY Zenon DEF DInit
    <2> QED
      BY <2>1, DirectivesAssumption DEF DInit, TypeOK
  <1>2. Live = {}
    BY DEF DInit, Live
  <1>3. OneWay /\ Evidence
    BY <1>2 DEF DInit, OneWay, Evidence
  <1>4. KeysUnique /\ CompletedRan
    BY <1>2 DEF KeysUnique, CompletedRan
  <1>5. AckNamesOwnWork
    BY DEF DInit, AckNamesOwnWork
  <1> QED
    BY <1>1, <1>3, <1>4, <1>5 DEF DirInv

\* A row that exists is a directive.
LEMMA LiveRows ==
    ASSUME TypeOK, NEW i \in Ids
    PROVE  i \in Live <=> dir[i] \in Directive
  BY DirectivesAssumption DEF TypeOK, Live

\* A dispatch request that only moves its own state forward, towards no ack or
\* towards an ack for a row it has checked.
LEMMA CallsPreserve ==
    ASSUME DirInv, UNCHANGED <<smVars, agentVars, faults>>,
           halted' \in BOOLEAN,
           call' \in [Requests -> {"new", "unkeyed", "absent", "permitted",
                                   "accepted", "refused", "other"}],
           ack' \in [Requests -> Ids \cup {NoId}],
           \A r \in Requests : call'[r] = "accepted" =>
               \/ call[r] = "accepted" /\ ack'[r] = ack[r]
               \/ /\ ack'[r] \in Live
                  /\ dir[ack'[r]].dev = ReqDevice[r] /\ dir[ack'[r]].kind = ReqKind[r]
                  /\ dir[ack'[r]].key = ReqKey[r]
    PROVE  DirInv'
  <1> USE DEF smVars, agentVars
  <1>1. TypeOK'
    BY DEF DirInv, TypeOK
  <1>2. Live' = Live
    BY DEF Live
  <1>3. KeysUnique' /\ OneWay' /\ Evidence' /\ CompletedRan'
    BY <1>2 DEF DirInv, KeysUnique, OneWay, Evidence, CompletedRan
  <1>4. AckNamesOwnWork'
    BY <1>2 DEF DirInv, AckNamesOwnWork
  <1> QED
    BY <1>1, <1>3, <1>4 DEF DirInv

\* _replay_dispatch answers with a checked row.
LEMMA ReplayPreserves ==
    ASSUME DirInv, NEW r \in Requests, NEW i \in ByKey(ReqKey[r]), Replay(r, i),
           UNCHANGED <<smVars, agentVars, faults, halted>>
    PROVE  DirInv'
  <1>1. i \in Live /\ i \in Ids /\ dir[i].key = ReqKey[r]
    BY DEF ByKey, Live
  <1>2. halted' \in BOOLEAN
    BY DEF DirInv, TypeOK
  <1>3. CASE dir[i].dev = ReqDevice[r] /\ dir[i].kind = ReqKind[r]
    <2>1. call' = [call EXCEPT ![r] = "accepted"] /\ ack' = [ack EXCEPT ![r] = i]
      BY <1>3 DEF Replay
    <2> QED
      BY <1>1, <1>2, <1>3, <2>1, CallsPreserve DEF DirInv, TypeOK
  <1>4. CASE ~(dir[i].dev = ReqDevice[r] /\ dir[i].kind = ReqKind[r])
    <2>1. call' = [call EXCEPT ![r] = "other"] /\ ack' = ack
      BY <1>4 DEF Replay
    <2> QED
      BY <1>2, <2>1, CallsPreserve DEF DirInv, TypeOK
  <1> QED
    BY <1>3, <1>4

\* DispatchAction before its insert, and the halt.
LEMMA DecidePreserves ==
    ASSUME DirInv,
           SetHalt \/ \E r \in Requests : Lookup(r) \/ SafetyDecision(r)
    PROVE  DirInv'
  <1>1. CASE SetHalt
    <2>1. halted' \in BOOLEAN
      BY <1>1, Zenon DEF SetHalt
    <2> QED
      BY <1>1, <2>1, CallsPreserve DEF SetHalt, DirInv, TypeOK
  <1>2. ASSUME NEW r \in Requests, Lookup(r) PROVE DirInv'
    <2>1. UNCHANGED <<smVars, agentVars, faults, halted>>
      BY <1>2 DEF Lookup
    <2>2. halted' \in BOOLEAN
      BY <2>1 DEF DirInv, TypeOK
    <2>3. CASE ReqKey[r] = NoKey
      BY <1>2, <2>1, <2>2, <2>3, CallsPreserve DEF Lookup, DirInv, TypeOK
    <2>4. CASE ReqKey[r] # NoKey /\ ByKey(ReqKey[r]) = {}
      BY <1>2, <2>1, <2>2, <2>4, CallsPreserve DEF Lookup, DirInv, TypeOK
    <2>5. CASE ReqKey[r] # NoKey /\ ByKey(ReqKey[r]) # {}
      BY <1>2, <2>1, <2>5, ReplayPreserves DEF Lookup
    <2> QED
      BY <2>3, <2>4, <2>5
  <1>3. ASSUME NEW r \in Requests, SafetyDecision(r) PROVE DirInv'
    <2>1. /\ UNCHANGED <<smVars, agentVars, faults, halted>> /\ ack' = ack
          /\ \E d \in {"refused", "permitted"} : call' = [call EXCEPT ![r] = d]
      BY <1>3, Zenon DEF SafetyDecision
    <2>2. halted' \in BOOLEAN
      BY <2>1 DEF DirInv, TypeOK
    <2> QED
      BY <2>1, <2>2, CallsPreserve DEF DirInv, TypeOK
  <1> QED
    BY <1>1, <1>2, <1>3

\* The unique index: a row is inserted only under a key no row has.
LEMMA InsertPreserves ==
    ASSUME DirInv, NEW r \in Requests, NEW i \in Ids, Insert(r, i)
    PROVE  DirInv'
  <1>1. CASE ByKey(ReqKey[r]) # {}
    <2>1. UNCHANGED <<smVars, agentVars, faults, halted>>
      BY <1>1 DEF Insert, smVars
    <2> QED
      BY <1>1, <2>1, ReplayPreserves DEF Insert
  <1>2. CASE ByKey(ReqKey[r]) = {}
    <2> DEFINE x == Row(ReqDevice[r], ReqKind[r], ReqKey[r])
    <2>1. /\ i \notin Live
          /\ dir' = [dir EXCEPT ![i] = x]
          /\ call' = [call EXCEPT ![r] = "accepted"] /\ ack' = [ack EXCEPT ![r] = i]
          /\ UNCHANGED <<outcome, polled, known, task, started, faults, halted>>
      BY <1>2 DEF Insert, Enqueue, agentVars
    <2>2. x \in Directive /\ x.status = "pending" /\ x.dev = ReqDevice[r]
          /\ x.kind = ReqKind[r] /\ x.key = ReqKey[r]
      BY DirectivesAssumption DEF Row, Directive, Keys
    <2> HIDE DEF x
    <2>3. TypeOK'
      BY <2>1, <2>2 DEF DirInv, TypeOK
    <2>4. /\ dir'[i] = x
          /\ \A j \in Ids \ {i} : dir'[j] = dir[j]
          /\ Live' = Live \cup {i}
      BY <2>1, <2>2, DirectivesAssumption DEF DirInv, TypeOK, Live
    <2>5. \A j \in Live : j \in Ids /\ j # i
      BY <2>1 DEF Live
    <2>6. KeysUnique'
      <3>1. \A j \in Live : dir[j].key = ReqKey[r] => ReqKey[r] = NoKey
        BY <1>2 DEF ByKey
      <3> QED
        BY <2>2, <2>4, <2>5, <3>1 DEF DirInv, KeysUnique
    <2>7. OneWay' /\ Evidence'
      BY <2>1, <2>4 DEF DirInv, OneWay, Evidence
    <2>8. AckNamesOwnWork'
      <3>1. \A q \in Requests : q # r => call'[q] = call[q] /\ ack'[q] = ack[q]
        BY <2>1 DEF DirInv, TypeOK
      <3>2. ack'[r] = i
        BY <2>1 DEF DirInv, TypeOK
      <3> QED
        BY <2>2, <2>4, <2>5, <3>1, <3>2 DEF DirInv, AckNamesOwnWork
    <2>9. CompletedRan'
      BY <2>1, <2>2, <2>4, <2>5 DEF DirInv, CompletedRan, Evidence, Settled
    <2> QED
      BY <2>3, <2>6, <2>7, <2>8, <2>9 DEF DirInv
  <1> QED
    BY <1>1, <1>2

-----------------------------------------------------------------------------
(* Delivery and execution.                                                 *)

\* Steps that change no row's device, kind or key, and no request.
SameWork ==
    /\ UNCHANGED dispatchVars
    /\ Live' = Live
    /\ \A i \in Live : /\ dir'[i].dev = dir[i].dev /\ dir'[i].kind = dir[i].kind
                       /\ dir'[i].key = dir[i].key

\* They keep what requests were told and the keys unique.
LEMMA SameWorkKeeps ==
    ASSUME DirInv, SameWork
    PROVE  KeysUnique' /\ AckNamesOwnWork'
  BY DEF DirInv, SameWork, KeysUnique, AckNamesOwnWork, dispatchVars

\* poll hands rows over and changes nothing else about them.
LEMMA PollIsQuiet ==
    ASSUME DirInv, NEW v \in Devices, Poll(v)
    PROVE  SameWork /\ started' = started
  <1>1. \A i \in Ids : dir'[i] = IF i \in Pending(v)
                                 THEN [dir[i] EXCEPT !.status = "delivered"] ELSE dir[i]
    BY DEF Poll
  <1>2. \A i \in Pending(v) : dir[i] \in Directive /\ i \in Ids
    BY LiveRows DEF DirInv, Live, Pending
  <1>3. ASSUME NEW i \in Pending(v)
        PROVE  /\ dir'[i] \in Directive
               /\ dir'[i].dev = dir[i].dev /\ dir'[i].kind = dir[i].kind
               /\ dir'[i].key = dir[i].key
    BY <1>1, <1>2 DEF Directive
  <1>4. Live' = Live
    <2>1. \A i \in Ids : dir'[i] = NoDirective <=> dir[i] = NoDirective
      BY <1>1, <1>2, <1>3, DirectivesAssumption
    <2> QED
      BY <2>1 DEF Live
  <1> QED
    BY <1>1, <1>3, <1>4 DEF Poll, SameWork, Live

\* report_result settles a row and changes nothing else about it.
LEMMA ReportIsQuiet ==
    ASSUME DirInv, NEW i \in Ids, Report(i)
    PROVE  SameWork /\ started' = started
  <1>1. started' = started /\ UNCHANGED dispatchVars
    BY DEF Report
  <1>2. i \in Live /\ dir[i] \in Directive
    BY LiveRows DEF DirInv, OneWay, Report
  <1>3. CASE dir' = dir
    BY <1>1, <1>3 DEF SameWork, Live
  <1>4. CASE dir' # dir
    <2> PICK st \in Settled : dir' = [dir EXCEPT ![i] = [dir[i] EXCEPT !.status = st]]
      BY <1>4 DEF Report, Settled, smVars
    <2>1. /\ dir'[i] \in Directive
          /\ dir'[i].dev = dir[i].dev /\ dir'[i].kind = dir[i].kind
          /\ dir'[i].key = dir[i].key
          /\ \A j \in Ids \ {i} : dir'[j] = dir[j]
      BY <1>2 DEF Directive, DirInv, TypeOK, Settled
    <2>2. \A j \in Ids : dir'[j] = NoDirective <=> dir[j] = NoDirective
      BY <1>2, <2>1, DirectivesAssumption
    <2> QED
      BY <1>1, <2>1, <2>2 DEF SameWork, Live
  <1> QED
    BY <1>3, <1>4

\* poll: what is handed over leaves pending in the same transaction.
LEMMA PollPreserves ==
    ASSUME DirInv, NEW v \in Devices, Poll(v)
    PROVE  DirInv'
  <1>1. /\ UNCHANGED <<outcome, known, task, started, faults>> /\ UNCHANGED dispatchVars
        /\ polled' = polled \cup Pending(v)
        /\ Pending(v) \subseteq Live
        /\ \A i \in Pending(v) : dir[i].status = "pending"
    BY DEF Poll, Pending
  <1>2. \A i \in Ids : dir'[i] = IF i \in Pending(v)
                                 THEN [dir[i] EXCEPT !.status = "delivered"] ELSE dir[i]
    BY DEF Poll
  <1>3. \A i \in Pending(v) : dir[i] \in Directive /\ i \in Ids
    BY <1>1, LiveRows DEF DirInv, Live
  <1>4. ASSUME NEW i \in Pending(v)
        PROVE  /\ dir'[i] \in Directive /\ dir'[i].status = "delivered"
               /\ dir'[i].dev = dir[i].dev /\ dir'[i].kind = dir[i].kind
               /\ dir'[i].key = dir[i].key
    BY <1>2, <1>3 DEF Directive
  <1>5. Live' = Live
    <2>1. \A i \in Ids : dir'[i] = NoDirective <=> dir[i] = NoDirective
      BY <1>2, <1>3, <1>4, DirectivesAssumption
    <2> QED
      BY <2>1 DEF Live
  <1>6. dir' \in [Ids -> Directive \cup {NoDirective}]
    <2>1. \A i \in Ids : dir'[i] \in Directive \cup {NoDirective}
      BY <1>2, <1>4 DEF DirInv, TypeOK
    <2>2. dir' = [i \in Ids |-> dir'[i]]
      BY DEF Poll
    <2> QED
      BY <2>1, <2>2
  <1>7. TypeOK'
    BY <1>1, <1>6 DEF DirInv, TypeOK, dispatchVars, Live
  <1>8. SameWork
    BY <1>1, <1>2, <1>4, <1>5 DEF SameWork, Live
  <1>9. OneWay' /\ Evidence'
    <2>1. ASSUME NEW i \in Ids, i \in polled' \ polled
          PROVE  /\ dir'[i].status = "delivered"
                 /\ i \in Live /\ task[i] = "none" /\ started[i] = 0
      BY <1>1, <1>4, <2>1 DEF DirInv, OneWay
    <2>2. ASSUME NEW i \in Ids, i \in Live, dir'[i].status = "pending"
          PROVE  i \notin Pending(v) /\ dir[i].status = "pending"
      BY <1>2, <1>4, <2>2
    <2> QED
      BY <1>1, <1>5, <2>1, <2>2 DEF DirInv, OneWay, Evidence
  <1>10. CompletedRan'
    BY <1>1, <1>2, <1>4, <1>5 DEF DirInv, CompletedRan, Live, Settled
  <1> QED
    BY <1>7, <1>8, <1>9, <1>10, SameWorkKeeps DEF DirInv

\* _process_directives, a lost answer and a restart leave the rows alone.
LEMMA AgentPreserves ==
    ASSUME DirInv, NEW v \in Devices, Receive(v) \/ AnswerLost(v) \/ Restart(v)
    PROVE  DirInv'
  <1>1. UNCHANGED <<smVars, dispatchVars, started>>
    BY DEF Receive, AnswerLost, Restart
  <1>2. Live' = Live
    BY <1>1 DEF Live, smVars
  <1>3. TypeOK'
    BY <1>1, DirectivesAssumption
       DEF DirInv, TypeOK, smVars, dispatchVars, Receive, AnswerLost, Restart
  <1>4. \A i \in Ids : /\ i \in polled' => i \in polled
                       /\ \/ task'[i] = task[i]
                          \/ task'[i] = "none"
                          \/ task'[i] = "queued" /\ i \in polled /\ i \in Of(v)
                       /\ i \in Of(v) => i \notin polled'
    BY DEF Receive, AnswerLost, Restart, DirInv, TypeOK
  <1>5. SameWork
    BY <1>1, <1>2 DEF SameWork, smVars
  <1>6. OneWay' /\ Evidence'
    BY <1>1, <1>2, <1>4 DEF DirInv, OneWay, Evidence, smVars
  <1>7. CompletedRan'
    BY <1>1, <1>2 DEF DirInv, CompletedRan, smVars
  <1> QED
    BY <1>3, <1>5, <1>6, <1>7, SameWorkKeeps DEF DirInv

\* _execute_directive up to its report leaves the rows alone; the device call
\* is made from a queued task only.
LEMMA TaskPreserves ==
    ASSUME DirInv, NEW i \in Ids,
           \/ Begin(i) \/ Refuse(i) \/ ReportLost(i)
           \/ \E result \in {"success", "failure"} : End(i, result)
    PROVE  DirInv'
  <1>1. UNCHANGED <<smVars, dispatchVars, polled, known>>
    BY DEF Begin, Refuse, ReportLost, End
  <1>2. Live' = Live
    BY <1>1 DEF Live, smVars
  <1>3. TypeOK'
    BY <1>1, DirectivesAssumption
       DEF DirInv, TypeOK, smVars, dispatchVars, Begin, Refuse, ReportLost, End
  <1>4. /\ \A j \in Ids \ {i} : task'[j] = task[j] /\ started'[j] = started[j]
        /\ task[i] # "none"
        /\ \/ /\ task[i] = "queued" /\ task'[i] = "running"
              /\ started'[i] = started[i] + 1
           \/ /\ task[i] = "running" /\ task'[i] \in {"success", "failure"}
              /\ started'[i] = started[i]
           \/ task'[i] \in {"none", "failure"} /\ started'[i] = started[i]
    BY DEF Begin, Refuse, ReportLost, End, DirInv, TypeOK
  <1>5. SameWork
    BY <1>1, <1>2 DEF SameWork, smVars
  <1>6. OneWay' /\ Evidence'
    BY <1>1, <1>2, <1>4 DEF DirInv, OneWay, Evidence, smVars, TypeOK
  <1>7. CompletedRan'
    BY <1>1, <1>2, <1>4 DEF DirInv, CompletedRan, OneWay, Evidence, smVars, TypeOK, Live
  <1> QED
    BY <1>3, <1>5, <1>6, <1>7, SameWorkKeeps DEF DirInv

\* report_result: only an open row is settled, with the task's own result.
LEMMA ReportPreserves ==
    ASSUME DirInv, NEW i \in Ids, Report(i)
    PROVE  DirInv'
  <1> DEFINE st == IF task[i] = "success" THEN "completed" ELSE "failed"
             oc == IF task[i] = "success" THEN "SUCCESS" ELSE "FAILURE"
  <1>1. /\ task[i] \in {"success", "failure"}
        /\ task' = [task EXCEPT ![i] = "none"]
        /\ UNCHANGED <<polled, known, started, faults>> /\ UNCHANGED dispatchVars
    BY DEF Report
  <1>2. i \in Live /\ dir[i] \in Directive /\ dir[i].status # "pending"
    BY <1>1, LiveRows DEF DirInv, OneWay
  <1>3. CASE dir[i].status \notin {"delivered", "pending"}
    <2>1. UNCHANGED smVars
      BY <1>3 DEF Report
    <2>2. Live' = Live
      BY <2>1 DEF Live, smVars
    <2>3. TypeOK'
      BY <1>1, <2>1 DEF DirInv, TypeOK, smVars, dispatchVars
    <2>4. SameWork
      BY <1>1, <2>1, <2>2 DEF SameWork, smVars
    <2>5. OneWay' /\ Evidence' /\ CompletedRan'
      BY <1>1, <2>1, <2>2 DEF DirInv, OneWay, Evidence, CompletedRan, smVars, TypeOK
    <2> QED
      BY <2>3, <2>4, <2>5, SameWorkKeeps DEF DirInv
  <1>4. CASE dir[i].status \in {"delivered", "pending"}
    <2>1. /\ dir' = [dir EXCEPT ![i] = [dir[i] EXCEPT !.status = st]]
          /\ outcome' = [outcome EXCEPT ![i] = oc]
      BY <1>4 DEF Report
    <2>2. /\ st \in Settled /\ oc \in {"SUCCESS", "FAILURE"}
          /\ st = "completed" <=> task[i] = "success"
          /\ st = "completed" <=> oc = "SUCCESS"
      BY <1>1 DEF Settled
    <2> HIDE DEF st, oc
    <2>3. /\ dir'[i] \in Directive /\ dir'[i].status = st
          /\ dir'[i].dev = dir[i].dev /\ dir'[i].kind = dir[i].kind
          /\ dir'[i].key = dir[i].key
          /\ \A j \in Ids \ {i} : dir'[j] = dir[j]
      BY <1>2, <2>1, <2>2 DEF Directive, DirInv, TypeOK
    <2>4. Live' = Live
      <3>1. \A j \in Ids : dir'[j] = NoDirective <=> dir[j] = NoDirective
        BY <1>2, <2>3, DirectivesAssumption
      <3> QED
        BY <3>1 DEF Live
    <2>5. TypeOK'
      <3>1. dir' \in [Ids -> Directive \cup {NoDirective}]
        <4>1. [dir[i] EXCEPT !.status = st] \in Directive
          BY <1>2, <2>2 DEF Directive
        <4> QED
          BY <2>1, <4>1 DEF DirInv, TypeOK
      <3> QED
        BY <1>1, <2>1, <2>2, <3>1 DEF DirInv, TypeOK, dispatchVars
    <2>6. SameWork
      BY <1>1, <2>3, <2>4 DEF SameWork, Live
    <2>7. OneWay'
      <3>1. dir'[i].status # "pending"
        BY <2>2, <2>3 DEF Settled
      <3> QED
        BY <1>1, <1>2, <2>3, <2>4, <3>1 DEF DirInv, OneWay, TypeOK
    <2>8. /\ \A j \in Ids \ {i} : outcome'[j] = outcome[j] /\ task'[j] = task[j]
          /\ outcome'[i] = oc /\ task'[i] = "none"
      BY <1>1, <2>1 DEF DirInv, TypeOK
    <2>9. Evidence'
      BY <1>1, <1>2, <2>4, <2>8 DEF DirInv, Evidence
    <2>10. CompletedRan'
      <3>1. st = "completed" => started[i] = 1
        BY <2>2 DEF DirInv, Evidence
      <3> QED
        BY <1>1, <2>2, <2>3, <2>4, <2>8, <3>1 DEF DirInv, CompletedRan, Live, Settled
    <2> QED
      BY <2>5, <2>6, <2>7, <2>9, <2>10, SameWorkKeeps DEF DirInv
  <1> QED
    BY <1>3, <1>4

\* The invariant is inductive.
LEMMA DirStep == DirInv /\ [DNext]_dvars => DirInv'
  <1> SUFFICES ASSUME DirInv, [DNext]_dvars PROVE DirInv'
    OBVIOUS
  <1>1. CASE UNCHANGED dvars
    <2>1. UNCHANGED <<smVars, agentVars, faults, call, ack, halted>>
      BY <1>1 DEF dvars, dispatchVars
    <2> QED
      BY <2>1, CallsPreserve DEF DirInv, TypeOK
  <1>2. CASE SetHalt \/ \E r \in Requests : Lookup(r) \/ SafetyDecision(r)
    BY <1>2, DecidePreserves
  <1>3. CASE \E r \in Requests, i \in Ids : Insert(r, i)
    BY <1>3, InsertPreserves
  <1>4. CASE \E v \in Devices : Transport(v)
    BY <1>4, PollPreserves, AgentPreserves DEF Transport
  <1>5. CASE \E i \in Ids : Work(i)
    BY <1>5, TaskPreserves, ReportPreserves DEF Work
  <1> QED
    BY <1>1, <1>2, <1>3, <1>4, <1>5 DEF DNext, Dispatch

-----------------------------------------------------------------------------
\* The inductive invariant holds in every reachable state.
THEOREM DirInvariant == DSpec => []DirInv
  BY InitDir, DirStep, PTL DEF DSpec

\* dispatch_idempotency.py: "one proposal, at most one Site Manager directive",
\* and at most one device execution of it, whatever is repeated, raced, lost or
\* restarted.
THEOREM AtMostOneRun == DSpec => []OneRunPerProposal
  <1>1. DirInv => OneRunPerProposal
    BY DEF DirInv, KeysUnique, OneWay, OneRunPerProposal
  <1> QED
    BY <1>1, DirInvariant, PTL

\* _replay_dispatch: an accepted ack always names the work that was asked for.
THEOREM AcksAreHonest == DSpec => []AckNamesOwnWork
  <1>1. DirInv => AckNamesOwnWork
    BY DEF DirInv
  <1> QED
    BY <1>1, DirInvariant, PTL

\* report_result: the evidence of a directive is what happened on the device.
THEOREM EvidenceIsTrue == DSpec => []CompletedRan
  <1>1. DirInv => CompletedRan
    BY DEF DirInv
  <1> QED
    BY <1>1, DirInvariant, PTL

-----------------------------------------------------------------------------
(* The queue implements the at-most-once register.                         *)

\* What the register sees of the queue.
NamedWork == [k \in Keys \ {NoKey} |-> {WorkOf(i) : i \in ByKey(k)}]
BegunWork == [k \in Keys \ {NoKey} |-> Cardinality(Attempts(k))]

\* A step that moves no row's work and starts nothing is invisible to it.
LEMMA QuietForRegister ==
    ASSUME SameWork, started' = started
    PROVE  UNCHANGED <<NamedWork, BegunWork>>
  <1>1. ASSUME NEW k PROVE ByKey(k)' = ByKey(k)
    BY DEF SameWork, ByKey
  <1>2. ASSUME NEW k PROVE {WorkOf(i) : i \in ByKey(k)}' = {WorkOf(i) : i \in ByKey(k)}
    <2>1. \A i \in ByKey(k) : WorkOf(i)' = WorkOf(i)
      BY DEF SameWork, ByKey, WorkOf
    <2> QED
      BY <1>1, <2>1
  <1>3. ASSUME NEW k PROVE Attempts(k)' = Attempts(k)
    BY <1>1 DEF Attempts
  <1> QED
    BY <1>2, <1>3 DEF NamedWork, BegunWork

\* The rows of a proposal's key: at most one.
LEMMA RowOfKey ==
    ASSUME DirInv, NEW i \in Live, dir[i].key # NoKey
    PROVE  ByKey(dir[i].key) = {i}
  BY DEF DirInv, KeysUnique, ByKey

\* A row's key is one of the keys.
LEMMA KeyOfRow ==
    ASSUME DirInv, NEW i \in Live
    PROVE  i \in Ids /\ dir[i].key \in Keys
  BY DirectivesAssumption DEF DirInv, TypeOK, Live, Directive

\* Begin: the work of the row's key is begun, for the first time.
LEMMA BeginIsExecute ==
    ASSUME DirInv, NEW i \in Ids, Begin(i)
    PROVE  [Register!WNext]_<<NamedWork, BegunWork>>
  <1>1. /\ UNCHANGED <<smVars, dispatchVars>>
        /\ task[i] = "queued" /\ started' = [started EXCEPT ![i] = @ + 1]
    BY DEF Begin
  <1>2. i \in Live /\ started[i] = 0 /\ started'[i] = 1
        /\ \A j \in Ids \ {i} : started'[j] = started[j]
    BY <1>1 DEF DirInv, OneWay, TypeOK
  <1>3. dir' = dir /\ Live' = Live
    BY <1>1 DEF smVars, Live
  <1>4. ASSUME NEW k PROVE ByKey(k)' = ByKey(k)
    BY <1>3 DEF ByKey
  <1>5. NamedWork' = NamedWork
    BY <1>3, <1>4 DEF NamedWork, WorkOf
  <1>6. ASSUME NEW k \in Keys \ {NoKey}, k # dir[i].key
        PROVE  Attempts(k)' = Attempts(k)
    <2>1. \A j \in ByKey(k) : j # i /\ j \in Ids
      BY <1>6 DEF ByKey, Live
    <2> QED
      BY <1>2, <1>4, <2>1 DEF Attempts
  <1>7. CASE dir[i].key = NoKey
    <2>1. BegunWork' = BegunWork
      BY <1>6, <1>7 DEF BegunWork
    <2> QED
      BY <1>5, <2>1
  <1>8. CASE dir[i].key # NoKey
    <2> PICK k \in Keys \ {NoKey} : k = dir[i].key
      BY <1>2, <1>8, KeyOfRow
    <2>1. ByKey(k) = {i} /\ ByKey(k)' = {i}
      BY <1>2, <1>4, <1>8, RowOfKey
    <2>2. Attempts(k) = {}
      BY <1>2, <2>1 DEF Attempts
    <2>3. Attempts(k)' = {<<i, 1>>}
      <3>1. Attempts(k)' = {a \in {i} \X (1 .. 2) : a[2] <= started'[a[1]]}
        BY <2>1 DEF Attempts
      <3>2. \A a \in {i} \X (1 .. 2) : a[2] <= started'[a[1]] <=> a = <<i, 1>>
        BY <1>2
      <3> QED
        BY <3>1, <3>2
    <2>4. BegunWork[k] = 0 /\ BegunWork' = [BegunWork EXCEPT ![k] = 1]
      <3>1. Cardinality(Attempts(k)) = 0 /\ Cardinality(Attempts(k)') = 1
        BY <2>2, <2>3, FS_EmptySet, FS_Singleton
      <3> QED
        BY <1>6, <2>1, <3>1 DEF BegunWork
    <2>5. NamedWork[k] # {}
      BY <2>1 DEF NamedWork
    <2> QED
      BY <1>5, <2>1, <2>4, <2>5 DEF Register!WNext, Register!Execute, NamedWork, BegunWork
  <1> QED
    BY <1>7, <1>8

\* Insert: a key no row has is bound to the work that was asked for.
LEMMA InsertIsAccept ==
    ASSUME DirInv, NEW r \in Requests, NEW i \in Ids, Insert(r, i)
    PROVE  [Register!WNext]_<<NamedWork, BegunWork>>
  <1> DEFINE k == ReqKey[r]
             w == <<i, ReqDevice[r], ReqKind[r]>>
  <1>1. CASE ByKey(k) # {}
    <2>1. UNCHANGED <<dir, started>>
      BY <1>1 DEF Insert, agentVars
    <2>2. UNCHANGED <<NamedWork, BegunWork>>
      BY <2>1 DEF NamedWork, BegunWork, WorkOf, ByKey, Attempts, Live
    <2> QED
      BY <2>2
  <1>2. CASE ByKey(k) = {}
    <2>1. /\ i \notin Live /\ started' = started /\ started[i] = 0
          /\ dir' = [dir EXCEPT ![i] = Row(ReqDevice[r], ReqKind[r], k)]
      BY <1>2 DEF Insert, Enqueue, agentVars, DirInv, OneWay
    <2>2. Row(ReqDevice[r], ReqKind[r], k) \in Directive
      BY DirectivesAssumption DEF Row, Directive, Keys
    <2>3. /\ dir'[i] = Row(ReqDevice[r], ReqKind[r], k)
          /\ \A j \in Ids \ {i} : dir'[j] = dir[j]
          /\ Live' = Live \cup {i}
          /\ \A j \in Live : j \in Ids /\ j # i
      BY <2>1, <2>2, DirectivesAssumption DEF DirInv, TypeOK, Live
    <2>4. ASSUME NEW q \in Keys \ {NoKey}, q # k
          PROVE  /\ {WorkOf(j) : j \in ByKey(q)}' = {WorkOf(j) : j \in ByKey(q)}
                 /\ Attempts(q)' = Attempts(q)
      <3>1. ByKey(q)' = ByKey(q) /\ \A j \in ByKey(q) : j \in Ids /\ j # i
        BY <2>3, <2>4 DEF ByKey, Row
      <3>2. \A j \in ByKey(q) : WorkOf(j)' = WorkOf(j)
        BY <2>3, <3>1 DEF WorkOf
      <3> QED
        BY <2>1, <3>1, <3>2 DEF Attempts
    <2>5. CASE k = NoKey
      BY <2>4, <2>5 DEF NamedWork, BegunWork
    <2>6. CASE k # NoKey
      <3>1. k \in Keys \ {NoKey} /\ ByKey(k)' = {i}
        <4>1. ByKey(k)' = {i}
          BY <1>2, <2>3, <2>6 DEF ByKey, Row
        <4> QED
          BY <2>6, <4>1 DEF Keys
      <3>2. {WorkOf(j) : j \in ByKey(k)} = {} /\ {WorkOf(j) : j \in ByKey(k)}' = {w}
        <4>1. WorkOf(i)' = w
          BY <2>3 DEF WorkOf, Row
        <4> QED
          BY <1>2, <3>1, <4>1
      <3>3. Attempts(k) = {} /\ Attempts(k)' = {}
        BY <1>2, <2>1, <3>1 DEF Attempts
      <3>4. BegunWork' = BegunWork
        BY <2>4, <3>3 DEF BegunWork
      <3>5. NamedWork[k] = {} /\ NamedWork' = [NamedWork EXCEPT ![k] = {w}]
        BY <2>4, <3>1, <3>2 DEF NamedWork
      <3>6. {w} \in {{x} : x \in Ids \X Devices \X Kinds}
        BY DirectivesAssumption
      <3> QED
        BY <3>1, <3>4, <3>5, <3>6 DEF Register!WNext, Register!Accept, NamedWork, BegunWork
    <2> QED
      BY <2>5, <2>6
  <1> QED
    BY <1>1, <1>2

\* Every other step is invisible to the register.
LEMMA StepIsRegisterStep ==
    ASSUME DirInv, [DNext]_dvars
    PROVE  [Register!WNext]_<<NamedWork, BegunWork>>
  <1>1. ASSUME SameWork, started' = started
        PROVE  [Register!WNext]_<<NamedWork, BegunWork>>
    BY <1>1, QuietForRegister
  <1>2. ASSUME UNCHANGED <<dir, started>>
        PROVE  [Register!WNext]_<<NamedWork, BegunWork>>
    BY <1>2 DEF NamedWork, BegunWork, WorkOf, ByKey, Attempts, Live
  <1>3. CASE UNCHANGED dvars
    BY <1>2, <1>3 DEF dvars, smVars, agentVars
  <1>4. CASE SetHalt
    BY <1>2, <1>4 DEF SetHalt, smVars, agentVars
  <1>5. ASSUME NEW r \in Requests, Dispatch(r)
        PROVE  [Register!WNext]_<<NamedWork, BegunWork>>
    <2>1. CASE Lookup(r)
      BY <1>2, <2>1 DEF Lookup, smVars, agentVars
    <2>2. CASE SafetyDecision(r)
      BY <1>2, <2>2 DEF SafetyDecision, smVars, agentVars
    <2>3. CASE \E i \in Ids : Insert(r, i)
      BY <2>3, InsertIsAccept
    <2> QED
      BY <1>5, <2>1, <2>2, <2>3 DEF Dispatch
  <1>6. ASSUME NEW v \in Devices, Transport(v)
        PROVE  [Register!WNext]_<<NamedWork, BegunWork>>
    <2>1. CASE Poll(v)
      BY <1>1, <2>1, PollIsQuiet
    <2>2. CASE Receive(v) \/ AnswerLost(v) \/ Restart(v)
      BY <1>2, <2>2 DEF Receive, AnswerLost, Restart, smVars
    <2> QED
      BY <1>6, <2>1, <2>2 DEF Transport
  <1>7. ASSUME NEW i \in Ids, Work(i)
        PROVE  [Register!WNext]_<<NamedWork, BegunWork>>
    <2>1. CASE Begin(i)
      BY <2>1, BeginIsExecute
    <2>2. CASE Refuse(i) \/ ReportLost(i) \/ \E result \in {"success", "failure"} : End(i, result)
      BY <1>2, <2>2 DEF Refuse, ReportLost, End, smVars
    <2>3. CASE Report(i)
      BY <1>1, <2>3, ReportIsQuiet
    <2> QED
      BY <1>7, <2>1, <2>2, <2>3 DEF Work
  <1> QED
    BY <1>3, <1>4, <1>5, <1>6, <1>7 DEF DNext

\* dispatch_idempotency.py's contract, as the register states it: whatever is
\* repeated, raced, lost or restarted, a key is bound to one piece of work once
\* and for all, and that work is begun at most once.
THEOREM QueueIsRegister == DSpec => ImplementsRegister
  <1>1. DInit => Register!WInit
    <2> SUFFICES ASSUME DInit PROVE Register!WInit
      OBVIOUS
    <2>1. \A k : ByKey(k) = {} /\ Attempts(k) = {}
      BY DEF DInit, Live, ByKey, Attempts
    <2> QED
      BY <2>1, FS_EmptySet DEF Register!WInit
  <1>2. DirInv /\ [DNext]_dvars => [Register!WNext]_(Register!wvars)
    BY StepIsRegisterStep DEF Register!wvars, NamedWork, BegunWork
  <1> QED
    BY <1>1, <1>2, DirInvariant, PTL DEF DSpec, ImplementsRegister, Register!WSpec

-----------------------------------------------------------------------------
(* The wave planner.  plan_waves is a recursion over the sorted devices, so *)
(* what it computes is proved by looking at the first step that would go   *)
(* wrong.                                                                  *)

\* A set of natural numbers that is not empty has a least element.
LEMMA LeastNat ==
  ASSUME NEW T \in SUBSET Nat, T # {}
  PROVE  \E m \in T : \A n \in T : m <= n
  <1> DEFINE R == OpToRel(<, Nat)
  <1>1. IsWellFoundedOn(R, Nat)
    BY NatLessThanWellFounded, Zenon
  <1>2. \A m, n \in Nat : n < m => <<n, m>> \in R
    BY DEF OpToRel
  <1> HIDE DEF R
  <1>3. PICK m \in T : \A n \in T : ~(<<n, m>> \in R)
    BY <1>1, WFMin
  <1>4. ASSUME NEW n \in T PROVE m <= n
    <2>1. m \in Nat /\ n \in Nat /\ ~(n < m)
      BY <1>2, <1>3
    <2> QED
      BY <2>1
  <1> QED
    BY <1>4

\* One turn of plan_waves: what a device adds to a partial plan.
Placed(p, d, devs, doms, cap) ==
    IF d \in devs THEN Place(p, d, doms, cap) ELSE p

\* g is the run of plan_waves over the first m devices of the order.
PlanRun(g, m, devs, order, doms, cap) ==
    g = [n \in 0..m |-> IF n = 0 THEN <<>>
                        ELSE Placed(g[n - 1], order[n], devs, doms, cap)]

\* plan_waves has a run over every prefix of the order: a shortest prefix
\* without one would be an extension of a prefix with one.
LEMMA RunExists ==
    ASSUME NEW devs, NEW order, NEW doms, NEW cap, NEW N \in Nat
    PROVE  \E g : PlanRun(g, N, devs, order, doms, cap)
<1> DEFINE Bad == {m \in Nat : ~\E g : PlanRun(g, m, devs, order, doms, cap)}
<1>1. SUFFICES ASSUME Bad # {} PROVE FALSE
  OBVIOUS
<1>2. PICK m \in Bad : \A n \in Bad : m <= n
  BY <1>1, LeastNat
<1>3. m # 0
  <2> DEFINE g == [n \in 0..0 |-> <<>>]
  <2>1. PlanRun(g, 0, devs, order, doms, cap)
    BY DEF PlanRun
  <2> QED BY <1>2, <2>1
<1>4. m - 1 \in Nat /\ m - 1 \notin Bad
  BY <1>2, <1>3
<1>5. PICK g : PlanRun(g, m - 1, devs, order, doms, cap)
  BY <1>4
<1> DEFINE F(h, n) == Placed(h[n - 1], order[n], devs, doms, cap)
           h == [n \in 0..m |-> IF n = m THEN F(g, m) ELSE g[n]]
<1>6. \A n \in 0..(m - 1) : g[n] = IF n = 0 THEN <<>> ELSE F(g, n)
  BY <1>5, <1>4 DEF PlanRun
<1> HIDE DEF F
<1>7. \A n \in 0..m : h[n] = IF n = 0 THEN <<>> ELSE F(g, n)
  BY <1>2, <1>3, <1>6
<1>8. \A n \in 1..m : F(g, n) = F(h, n)
  <2> TAKE n \in 1..m
  <2>1. n - 1 \in 0..m /\ n - 1 # m
    BY <1>2
  <2>2. h[n - 1] = g[n - 1]
    BY <2>1
  <2> HIDE DEF h
  <2> QED BY <2>2 DEF F
<1>9. h = [n \in 0..m |-> IF n = 0 THEN <<>> ELSE F(h, n)]
  <2>1. \A n \in 0..m : h[n] = IF n = 0 THEN <<>> ELSE F(h, n)
    BY <1>2, <1>7, <1>8
  <2>2. h = [n \in 0..m |-> h[n]]
    OBVIOUS
  <2> HIDE DEF h
  <2> QED BY <2>1, <2>2
<1>10. PlanRun(h, m, devs, order, doms, cap)
  <2> HIDE DEF h
  <2> QED BY <1>9 DEF PlanRun, F
<1> QED BY <1>2, <1>10

\* The plan is where that run ends.
LEMMA PlanIsRun ==
    ASSUME NEW devs, NEW order, Len(order) \in Nat, NEW doms, NEW cap
    PROVE  \E g : /\ PlanRun(g, Len(order), devs, order, doms, cap)
                  /\ PlanWaves(devs, order, doms, cap) = g[Len(order)]
<1> DEFINE g == CHOOSE g : PlanRun(g, Len(order), devs, order, doms, cap)
<1>1. PlanRun(g, Len(order), devs, order, doms, cap)
  BY RunExists
<1>2. PlanWaves(devs, order, doms, cap) = g[Len(order)]
  BY DEF PlanWaves, PlanRun, Placed
<1> QED BY <1>1, <1>2
\* What plan_waves keeps true of a partial plan, besides its safety: a device
\* never lands beyond the number of devices placed before it, so there is
\* always an empty wave within reach.
Compact(p, D) ==
    /\ IsFiniteSet(D) /\ p \in [D -> Nat]
    /\ \A d \in D : p[d] < Cardinality(D)

\* The waves of the plan.
InWave(p, D, w) == {e \in D : p[e] = w}

\* The earliest wave exists, has room, and no earlier one has.
LEMMA EarliestFits ==
    ASSUME NEW D, NEW p, Compact(p, D), NEW d, NEW doms, NEW cap \in Nat \ {0}
    PROVE  LET w == EarliestWave(p, d, doms, cap)
           IN  /\ w \in 0..Cardinality(D)
               /\ Fits(p, d, w, doms, cap)
               /\ \A u \in 0..(w - 1) : ~Fits(p, d, u, doms, cap)
<1> DEFINE N == Cardinality(D)
<1>1. N \in Nat /\ DOMAIN p = D
  BY FS_CardinalityType DEF Compact
<1>2. Fits(p, d, N, doms, cap)
  <2>1. {e \in DOMAIN p : p[e] = N} = {}
    BY <1>1 DEF Compact
  <2>2. Cardinality({e \in DOMAIN p : p[e] = N}) < cap
    BY <2>1, FS_EmptySet
  <2> QED BY <1>1, <2>1, <2>2 DEF Fits
<1> DEFINE T == {u \in Nat : Fits(p, d, u, doms, cap)}
<1>3. N \in T
  BY <1>1, <1>2
<1>4. PICK m \in T : \A u \in T : m <= u
  BY <1>3, LeastNat
<1> HIDE DEF N
<1>5. /\ m \in 0..N /\ Fits(p, d, m, doms, cap)
      /\ \A u \in 0..(m - 1) : ~Fits(p, d, u, doms, cap)
  BY <1>1, <1>3, <1>4
<1>6. \E w \in 0..N : /\ Fits(p, d, w, doms, cap)
                      /\ \A u \in 0..(w - 1) : ~Fits(p, d, u, doms, cap)
  BY <1>5
<1> QED BY <1>1, <1>6 DEF EarliestWave, N

\* Placing one more device keeps a plan compact and safe.
LEMMA PlacingIsSafe ==
    ASSUME NEW D, NEW p, Compact(p, D), NEW d, d \notin D,
           NEW doms, NEW cap \in Nat \ {0}, PlanIsSafe(p, doms, cap)
    PROVE  LET q == Place(p, d, doms, cap)
           IN  Compact(q, D \cup {d}) /\ PlanIsSafe(q, doms, cap)
<1> DEFINE w == EarliestWave(p, d, doms, cap)
           q == Place(p, d, doms, cap)
           N == Cardinality(D)
<1>1. /\ w \in 0..N /\ Fits(p, d, w, doms, cap)
      /\ \A u \in 0..(w - 1) : ~Fits(p, d, u, doms, cap)
  BY EarliestFits
<1>2. N \in Nat /\ DOMAIN p = D /\ w \in Nat
  BY <1>1, FS_CardinalityType DEF Compact
<1> HIDE DEF w
<1>3. q = [x \in D \cup {d} |-> IF x = d THEN w ELSE p[x]]
  BY <1>2 DEF Place, w
<1> HIDE DEF q
<1>4. /\ q \in [D \cup {d} -> Nat] /\ DOMAIN q = D \cup {d}
      /\ q[d] = w /\ \A x \in D : q[x] = p[x]
  BY <1>2, <1>3 DEF Compact
<1>5. Compact(q, D \cup {d})
  <2>1. IsFiniteSet(D \cup {d}) /\ Cardinality(D \cup {d}) = N + 1
    BY FS_AddElement DEF Compact
  <2> QED BY <1>1, <1>2, <1>4, <2>1 DEF Compact
<1>6. ASSUME NEW S \in doms, NEW a \in S \cap DOMAIN q, NEW b \in S \cap DOMAIN q, a # b
      PROVE  q[a] # q[b]
  <2>1. ASSUME NEW e \in S \cap D, d \in S PROVE p[e] # w
    BY <1>1, <1>2, <2>1 DEF Fits, DomainsIn
  <2>2. CASE a \in D /\ b \in D
    BY <1>2, <1>4, <1>6, <2>2 DEF PlanIsSafe
  <2>3. CASE a = d \/ b = d
    BY <1>4, <1>6, <2>1, <2>3
  <2> QED BY <1>4, <2>2, <2>3
<1>7. \A u : IsFiniteSet(InWave(p, D, u)) /\ Cardinality(InWave(p, D, u)) \in Nat
  BY FS_Subset, FS_CardinalityType DEF Compact, InWave
<1>8. ASSUME NEW e \in D, NEW u \in 0..p[e]
      PROVE  Cardinality(InWave(p, D, u)) \in 1..cap
  BY <1>2 DEF PlanIsSafe, InWave
<1>9. ASSUME NEW u \in 0..(w - 1) PROVE Cardinality(InWave(p, D, u)) \in 1..cap
  <2>1. InWave(p, D, u) # {}
    <3> SUFFICES ASSUME InWave(p, D, u) = {} PROVE FALSE
      OBVIOUS
    <3>1. Cardinality({e \in DOMAIN p : p[e] = u}) < cap
      BY <1>2, FS_EmptySet DEF InWave
    <3>2. \A e \in DOMAIN p : p[e] # u
      BY <1>2 DEF InWave
    <3> QED BY <1>1, <3>1, <3>2 DEF Fits
  <2>2. PICK e \in D : p[e] = u
    BY <2>1 DEF InWave
  <2>3. u \in 0..p[e]
    BY <2>2 DEF Compact
  <2> QED BY <1>8, <2>3
<1>10. Cardinality(InWave(p, D, w)) < cap
  BY <1>1, <1>2 DEF Fits, InWave
<1>11. ASSUME NEW u \in Nat
       PROVE  Cardinality(InWave(q, D \cup {d}, u)) =
                 Cardinality(InWave(p, D, u)) + (IF u = w THEN 1 ELSE 0)
  <2>1. CASE u # w
    <3>1. InWave(q, D \cup {d}, u) = InWave(p, D, u)
      BY <1>4, <2>1 DEF InWave
    <3> QED BY <1>7, <2>1, <3>1
  <2>2. CASE u = w
    <3>1. InWave(q, D \cup {d}, u) = InWave(p, D, u) \cup {d} /\ d \notin InWave(p, D, u)
      BY <1>4, <2>2 DEF InWave
    <3> QED BY <1>7, <2>2, <3>1, FS_AddElement
  <2> QED BY <2>1, <2>2
<1>12. ASSUME NEW x \in DOMAIN q, NEW u \in 0..q[x]
       PROVE  Cardinality({e \in DOMAIN q : q[e] = u}) \in 1..cap
  <2>1. u \in Nat
    BY <1>4
  <2>2. CASE u = w
    <3>1. Cardinality(InWave(q, D \cup {d}, u)) = Cardinality(InWave(p, D, w)) + 1
      BY <1>11, <2>1, <2>2
    <3>2. Cardinality(InWave(p, D, w)) \in Nat
      BY <1>7
    <3>3. Cardinality(InWave(q, D \cup {d}, u)) \in 1..cap
      BY <1>10, <3>1, <3>2
    <3> QED BY <1>4, <3>3 DEF InWave
  <2>3. CASE u # w
    <3>1. Cardinality(InWave(p, D, u)) \in 1..cap
      <4>1. CASE x = d
        BY <1>2, <1>4, <1>9, <2>3, <4>1
      <4>2. CASE x # d
        BY <1>4, <1>8, <4>2
      <4> QED BY <4>1, <4>2
    <3> QED BY <1>4, <1>7, <1>11, <2>1, <2>3, <3>1 DEF InWave
  <2> QED BY <2>2, <2>3
<1> QED BY <1>5, <1>6, <1>12 DEF PlanIsSafe, q

\* plan_waves on every input: for any order of any devices, any fault domains
\* and any cap of at least one, each device gets one wave, no two devices of a
\* domain the same, no wave is empty or over the cap.
LEMMA PlannerSafe ==
    ASSUME NEW S, NEW order \in Seq(S), IsInjective(order),
           NEW devs, devs \subseteq Range(order),
           NEW doms, NEW cap \in Nat \ {0}
    PROVE  LET p == PlanWaves(devs, order, doms, cap)
           IN  p \in [devs -> Nat] /\ PlanIsSafe(p, doms, cap)
<1> DEFINE L == Len(order)
           Seen(n) == {order[k] : k \in 1..n} \cap devs
<1>1. L \in Nat /\ DOMAIN order = 1..L
  OBVIOUS
<1>2. PICK g : /\ PlanRun(g, L, devs, order, doms, cap)
               /\ PlanWaves(devs, order, doms, cap) = g[L]
  BY <1>1, PlanIsRun
<1>3. \A n \in 0..L : g[n] = IF n = 0 THEN <<>>
                             ELSE Placed(g[n - 1], order[n], devs, doms, cap)
  BY <1>2 DEF PlanRun
<1> HIDE DEF L
<1> DEFINE Good(n) == Compact(g[n], Seen(n)) /\ PlanIsSafe(g[n], doms, cap)
<1>4. Good(0)
  <2>1. Seen(0) = {}
    OBVIOUS
  <2>2. g[0] = <<>> /\ DOMAIN g[0] = {}
    BY <1>1, <1>3
  <2>3. g[0] \in [{} -> Nat]
    BY <2>2
  <2> QED BY <2>1, <2>2, <2>3, FS_EmptySet DEF Compact, PlanIsSafe
<1>5. ASSUME NEW n \in 1..L, Good(n - 1) PROVE Good(n)
  <2> DEFINE p == g[n - 1]
             d == order[n]
  <2>1. g[n] = Placed(p, d, devs, doms, cap)
    BY <1>1, <1>3
  <2>2. Seen(n) = IF d \in devs THEN Seen(n - 1) \cup {d} ELSE Seen(n - 1)
    <3>1. \A k \in 1..n : k = n \/ k \in 1..(n - 1)
      OBVIOUS
    <3> QED BY <3>1
  <2>3. d \notin Seen(n - 1)
    BY <1>1 DEF IsInjective
  <2>4. CASE d \notin devs
    BY <1>5, <2>1, <2>2, <2>4 DEF Placed
  <2>5. CASE d \in devs
    <3>1. g[n] = Place(p, d, doms, cap)
      BY <2>1, <2>5 DEF Placed
    <3> HIDE DEF p, d, Seen
    <3>2. Compact(p, Seen(n - 1)) /\ PlanIsSafe(p, doms, cap)
      BY <1>5 DEF p
    <3>3. Compact(g[n], Seen(n - 1) \cup {d}) /\ PlanIsSafe(g[n], doms, cap)
      BY <2>3, <3>1, <3>2, PlacingIsSafe
    <3> QED BY <2>2, <2>5, <3>3
  <2> QED BY <2>4, <2>5
<1> HIDE DEF Good
<1>6. Good(L)
  <2> DEFINE Bad == {n \in 0..L : ~Good(n)}
  <2>1. SUFFICES ASSUME Bad # {} PROVE FALSE
    BY <1>1
  <2>2. PICK n \in Bad : \A m \in Bad : n <= m
    <3>1. Bad \in SUBSET Nat
      BY <1>1
    <3> HIDE DEF Bad
    <3> QED BY <2>1, <3>1, LeastNat
  <2>3. n \in 1..L /\ n - 1 \in 0..L /\ n - 1 \notin Bad
    BY <1>1, <1>4, <2>2
  <2> QED BY <1>5, <2>2, <2>3
<1>7. Seen(L) = devs
  BY <1>1 DEF Range
<1> QED BY <1>2, <1>6, <1>7 DEF Good, Compact

-----------------------------------------------------------------------------
(* Firmware campaigns: types, and the transport under them.                *)

\* A call that waits for a directive has a device to update and a row to
\* wait for.
CallInv ==
    \A o \in Callers :
        /\ caller[o].pc # "idle" => caller[o].camp \in Campaigns
        /\ caller[o].pc \in {"update", "rollback"} =>
              caller[o].todo # {} /\ caller[o].id \in Live

FwInv == FTypeOK /\ DirInv /\ CallInv

\* The id a new directive gets is one that no row has.
LEMMA FreshIsFree ==
    ASSUME Ids \ Live # {}
    PROVE  FreshId \in Ids /\ FreshId \notin Live
<1>1. Ids \ Live \in SUBSET Nat
  BY FirmwareAssumption
<1>2. \E i \in Ids \ Live : \A j \in Ids \ Live : i <= j
  BY <1>1, LeastNat
<1> QED BY <1>2 DEF FreshId

\* The next device of a call is one it still has to do.
LEMMA NextIsWaiting ==
    ASSUME NEW o, caller[o].todo # {}, caller[o].todo \subseteq Devices
    PROVE  NextDevice(o) \in caller[o].todo
<1> DEFINE S == caller[o].todo
           T == {k \in DOMAIN Order : Order[k] \in S}
<1>1. T \in SUBSET Nat
  BY FirmwareAssumption
<1>2. T # {}
  BY FirmwareAssumption DEF Range
<1>3. PICK k \in T : \A l \in T : k <= l
  BY <1>1, <1>2, LeastNat
<1>4. \E j \in DOMAIN Order :
         Order[j] \in S /\ \A l \in DOMAIN Order : Order[l] \in S => j <= l
  BY <1>3
<1> QED BY <1>4 DEF NextDevice, FirstPlace

\* Queueing a directive adds one pending row and keeps the transport's
\* invariant.
LEMMA QueuePreserves ==
    ASSUME DirInv, NEW v \in Devices, NEW w \in Kinds, Queue(v, w)
    PROVE  /\ DirInv'
           /\ FreshId \in Ids /\ FreshId \notin Live /\ Live' = Live \cup {FreshId}
           /\ dir'[FreshId].status = "pending" /\ dir'[FreshId].kind = w
           /\ \A j \in Live : dir'[j] = dir[j]
           /\ UNCHANGED <<polled, task>>
<1> DEFINE x == Row(v, w, NoKey)
           i == FreshId
<1>1. i \in Ids /\ i \notin Live
  BY FreshIsFree DEF Queue
<1>2. /\ dir' = [dir EXCEPT ![i] = x]
      /\ UNCHANGED <<outcome, polled, known, task, started, faults, call, ack, halted>>
  BY DEF Queue, Enqueue, dispatchVars, agentVars
<1>3. x \in Directive /\ x.status = "pending" /\ x.kind = w /\ x.key = NoKey
  BY DEF Row, Directive, Keys
<1> HIDE DEF x, i
<1>4. TypeOK'
  BY <1>1, <1>2, <1>3 DEF DirInv, TypeOK
<1>5. /\ dir'[i] = x
      /\ \A j \in Ids \ {i} : dir'[j] = dir[j]
      /\ Live' = Live \cup {i}
  BY <1>1, <1>2, <1>3, DirectivesAssumption DEF DirInv, TypeOK, Live
<1>6. \A j \in Live : j \in Ids /\ j # i
  BY <1>1 DEF Live
<1>7. KeysUnique'
  BY <1>3, <1>5, <1>6 DEF DirInv, KeysUnique
<1>8. OneWay' /\ Evidence'
  BY <1>1, <1>2, <1>3, <1>5 DEF DirInv, OneWay, Evidence
<1>9. AckNamesOwnWork'
  BY <1>2, <1>5, <1>6 DEF DirInv, AckNamesOwnWork
<1>10. CompletedRan'
  BY <1>1, <1>2, <1>3, <1>5, <1>6 DEF DirInv, CompletedRan, Evidence, Settled
<1> QED
  BY <1>1, <1>2, <1>3, <1>4, <1>5, <1>6, <1>7, <1>8, <1>9, <1>10 DEF DirInv, i

\* Setting one target's status keeps the column well formed.
LEMMA TargetSet ==
    ASSUME NEW f \in OnDevices(TargetStatus), NEW d, NEW s \in TargetStatus
    PROVE  /\ [f EXCEPT ![d] = s] \in OnDevices(TargetStatus)
           /\ DOMAIN [f EXCEPT ![d] = s] = DOMAIN f
<1>1. PICK D \in SUBSET Devices : f \in [D -> TargetStatus]
  BY DEF OnDevices
<1>2. [f EXCEPT ![d] = s] \in [D -> TargetStatus]
  BY <1>1
<1> QED BY <1>1, <1>2 DEF OnDevices

\* A step that leaves the directives alone keeps what is said of them.
LEMMA DirStutter == ASSUME DirInv, UNCHANGED dvars PROVE DirInv' /\ Live' = Live
<1>1. DirInv'
  BY DirStep
<1>2. dir' = dir
  BY DEF dvars, smVars
<1> QED BY <1>1, <1>2 DEF Live

\* A step of the transport or of an agent is one of the directive queue and
\* loses no row.
LEMMA TransportKeeps ==
    ASSUME DirInv,
           (\E v \in Devices : Transport(v)) \/ (\E i \in Ids : Work(i))
    PROVE  DirInv' /\ SameWork
<1>1. DirInv'
  BY DirStep DEF DNext
<1>2. SameWork
  <2>1. CASE \E v \in Devices : Poll(v)
    BY <2>1, PollIsQuiet
  <2>2. CASE \E i \in Ids : Report(i)
    BY <2>2, ReportIsQuiet
  <2>3. CASE UNCHANGED <<dir, dispatchVars>>
    BY <2>3 DEF SameWork, Live
  <2>4. (\E v \in Devices : Poll(v)) \/ (\E i \in Ids : Report(i))
        \/ UNCHANGED <<dir, dispatchVars>>
    BY DEF Transport, Work, Receive, AnswerLost, Restart, Begin, Refuse, End,
           ReportLost, smVars
  <2> QED BY <2>1, <2>2, <2>3, <2>4
<1> QED BY <1>1, <1>2

\* The parts of FTypeOK about campaigns and calls.
CampRow == [status : {"none", "draft", "approved", "running", "halted", "completed"},
            wave : Nat, plan : OnDevices(Nat), target : OnDevices(TargetStatus)]

CampType ==
    /\ camp \in [Campaigns -> CampRow]
    /\ \A c \in Campaigns : DOMAIN camp[c].target = DOMAIN camp[c].plan

Call == [pc : {"idle", "loop", "update", "rollback"},
         camp : Campaigns \cup {NoCampaign}, wave : Nat,
         todo : SUBSET Devices, id : Ids \cup {NoId}]

CallType == caller \in [Callers -> Call]

\* What create_campaign stores: a plan of exactly the devices asked for, and a
\* safe one.
LEMMA PlanOfCampaign ==
    ASSUME NEW devs \in SUBSET Devices
    PROVE  LET p == PlanWaves(devs, Order, Domains, MaxWaveSize)
           IN  p \in [devs -> Nat] /\ PlanIsSafe(p, Domains, MaxWaveSize)
BY PlannerSafe, FirmwareAssumption

\* Types, the transport's invariant and the calls' stay right, for any number
\* of campaigns and concurrent advance calls.
LEMMA FwStep == FwInv /\ [FNext]_vars => FwInv'
<1> SUFFICES ASSUME FwInv, [FNext]_vars PROVE FwInv'
  OBVIOUS
<1>0. /\ CampType /\ CallType /\ DirInv /\ CallInv
      /\ version \in [Devices -> {"old", "new"}] /\ crashes \in 0..MaxSmCrashes
  BY DEF FwInv, FTypeOK, CampType, CallType, CampRow, Call
<1> SUFFICES /\ CampType' /\ CallType' /\ DirInv' /\ CallInv'
             /\ version' \in [Devices -> {"old", "new"}] /\ crashes' \in 0..MaxSmCrashes
  BY DEF FwInv, FTypeOK, CampType, CallType, CampRow, Call, DirInv
<1>1. IdleCall \in Call
  BY DEF IdleCall, Call
<1>2. ASSUME NEW c \in Campaigns, NEW devs \in SUBSET Devices, CreateCampaign(c, devs)
      PROVE  /\ CampType' /\ UNCHANGED <<dvars, caller, version, crashes>>
  <2> DEFINE p == PlanWaves(devs, Order, Domains, MaxWaveSize)
             t == [d \in devs |-> "pending"]
  <2>1. p \in OnDevices(Nat) /\ DOMAIN p = devs
    BY PlanOfCampaign DEF OnDevices
  <2>2. t \in OnDevices(TargetStatus) /\ DOMAIN t = devs
    BY DEF OnDevices, TargetStatus
  <2>3. /\ camp' = [camp EXCEPT ![c] = [status |-> "draft", wave |-> 0,
                                        plan |-> p, target |-> t]]
        /\ UNCHANGED <<dvars, caller, version, crashes>>
    BY <1>2 DEF CreateCampaign
  <2> HIDE DEF p, t
  <2> QED BY <1>0, <2>1, <2>2, <2>3 DEF CampType, CampRow
<1>3. ASSUME NEW c \in Campaigns, ApproveCampaign(c)
      PROVE  /\ CampType' /\ UNCHANGED <<dvars, caller, version, crashes>>
  BY <1>0, <1>3 DEF ApproveCampaign, CampType, CampRow
<1>4. ASSUME NEW o \in Callers, NEW c \in Campaigns, AdvanceBegin(o, c)
      PROVE  /\ CampType' /\ CallType' /\ CallInv'
             /\ UNCHANGED <<dvars, version, crashes>>
  <2> DEFINE todo == {d \in DOMAIN camp[c].plan :
                        camp[c].plan[d] = camp[c].wave /\ camp[c].target[d] = "pending"}
             new == [pc |-> "loop", camp |-> c, wave |-> camp[c].wave, id |-> NoId,
                     todo |-> todo]
  <2>1. todo \subseteq Devices /\ camp[c].wave \in Nat
    BY <1>0 DEF CampType, CampRow, OnDevices
  <2>2. /\ camp' = [camp EXCEPT ![c].status = "running"]
        /\ caller' = [caller EXCEPT ![o] = new]
        /\ UNCHANGED <<dvars, version, crashes>>
    BY <1>4 DEF AdvanceBegin
  <2> HIDE DEF todo
  <2>3. CampType'
    BY <1>0, <2>2 DEF CampType, CampRow
  <2>4. CallType'
    BY <1>0, <2>1, <2>2 DEF CallType, Call
  <2>5. CallInv'
    BY <1>0, <2>2 DEF CallInv, CallType, Call, Live, dvars, smVars
  <2> QED BY <2>2, <2>3, <2>4, <2>5
<1>5. ASSUME NEW o \in Callers, NEW w \in {"FIRMWARE_UPDATE", "FIRMWARE_ROLLBACK"},
             NEW pc \in {"update", "rollback"},
             Queue(NextDevice(o), w), caller[o].todo # {},
             caller[o].pc # "idle",
             caller' = [caller EXCEPT ![o].pc = pc, ![o].id = FreshId],
             UNCHANGED <<camp, version, crashes>>
      PROVE  /\ CampType' /\ CallType' /\ CallInv' /\ DirInv'
  <2>1. NextDevice(o) \in Devices /\ w \in Kinds
    BY <1>0, <1>5, NextIsWaiting, FirmwareAssumption DEF CallType, Call
  <2>2. DirInv' /\ FreshId \in Ids /\ Live' = Live \cup {FreshId}
    BY <1>0, <1>5, <2>1, QueuePreserves
  <2>3. CallType'
    <3>1. caller[o] \in Call
      BY <1>0 DEF CallType
    <3>2. [caller[o] EXCEPT !.pc = pc, !.id = FreshId] \in Call
      BY <3>1, <1>5, <2>2 DEF Call
    <3>3. caller' = [caller EXCEPT ![o] = [caller[o] EXCEPT !.pc = pc, !.id = FreshId]]
      BY <1>5
    <3> HIDE DEF Call
    <3> QED BY <1>0, <3>2, <3>3 DEF CallType
  <2>4. CallInv'
    BY <1>0, <1>5, <2>2 DEF CallInv, CallType, Call
  <2>5. CampType'
    BY <1>0, <1>5 DEF CampType, CampRow
  <2> QED BY <2>2, <2>3, <2>4, <2>5
<1>6. ASSUME NEW o \in Callers, QueueUpdate(o) PROVE CampType' /\ CallType' /\ CallInv' /\ DirInv'
  BY <1>5, <1>6 DEF QueueUpdate
<1>7. ASSUME NEW o \in Callers, NEW r, UpdateFails(o, r)
      PROVE  CampType' /\ CallType' /\ CallInv' /\ DirInv'
  <2>1. caller[o].todo # {} /\ caller[o].pc # "idle"
    BY <1>0, <1>7 DEF UpdateFails, CallInv
  <2> QED BY <1>5, <1>7, <2>1 DEF UpdateFails
<1>8. ASSUME NEW c \in Campaigns, NEW s \in TargetStatus, NEW d,
             NEW st \in {"none", "draft", "approved", "running", "halted", "completed"},
             camp' = [camp EXCEPT ![c] =
                        [camp[c] EXCEPT !.target = [camp[c].target EXCEPT ![d] = s],
                                        !.status = st]]
      PROVE  CampType'
  <2> DEFINE t == [camp[c].target EXCEPT ![d] = s]
             k == [camp[c] EXCEPT !.target = t, !.status = st]
  <2>1. t \in OnDevices(TargetStatus) /\ DOMAIN t = DOMAIN camp[c].target
    BY <1>0, TargetSet DEF CampType, CampRow
  <2>2. camp' = [camp EXCEPT ![c] = k]
    BY <1>8
  <2> HIDE DEF t
  <2>3. k \in CampRow /\ DOMAIN k.target = DOMAIN k.plan
    BY <1>0, <2>1 DEF CampType, CampRow
  <2> HIDE DEF k
  <2> QED BY <1>0, <2>2, <2>3 DEF CampType
<1>9. ASSUME NEW o \in Callers, UpdateDone(o)
      PROVE  CampType' /\ CallType' /\ CallInv' /\ UNCHANGED <<dvars, version, crashes>>
  <2> DEFINE c == caller[o].camp
             d == NextDevice(o)
  <2>1. /\ caller[o].pc = "update" /\ UNCHANGED <<dvars, version, crashes>>
        /\ camp' = [camp EXCEPT ![c].target[d] = "completed"]
        /\ caller' = [caller EXCEPT ![o].pc = "loop", ![o].todo = @ \ {d}, ![o].id = NoId]
    BY <1>9 DEF UpdateDone
  <2>2. c \in Campaigns
    BY <1>0, <2>1 DEF CallInv
  <2> HIDE DEF c, d
  <2>3. camp' = [camp EXCEPT ![c] =
                   [camp[c] EXCEPT !.target = [camp[c].target EXCEPT ![d] = "completed"],
                                   !.status = camp[c].status]]
    BY <1>0, <2>1, <2>2 DEF CampType, CampRow
  <2>4. CampType'
    <3>1. /\ "completed" \in TargetStatus
          /\ camp[c].status \in {"none", "draft", "approved", "running", "halted",
                                 "completed"}
      BY <1>0, <2>2 DEF TargetStatus, CampType, CampRow
    <3> QED BY <1>8, <2>2, <2>3, <3>1
  <2>5. CallType'
    <3> DEFINE k == [caller[o] EXCEPT !.pc = "loop", !.todo = @ \ {d}, !.id = NoId]
    <3>1. k \in Call
      BY <1>0 DEF CallType, Call
    <3>2. caller' = [caller EXCEPT ![o] = k]
      BY <1>0, <2>1 DEF CallType, Call
    <3> HIDE DEF k
    <3> QED BY <1>0, <3>1, <3>2 DEF CallType
  <2>6. CallInv'
    BY <1>0, <2>1 DEF CallInv, CallType, Call, Live, dvars, smVars
  <2> QED BY <2>1, <2>4, <2>5, <2>6
<1>10. ASSUME NEW o \in Callers, NEW r, Halt(o, r)
       PROVE  CampType' /\ CallType' /\ CallInv' /\ UNCHANGED <<dvars, version, crashes>>
  <2> DEFINE s == IF r = "completed" THEN "rolled_back" ELSE "failed"
  <2>1. /\ caller[o].pc = "rollback" /\ UNCHANGED <<dvars, version, crashes>>
        /\ camp' = [camp EXCEPT ![caller[o].camp] =
                      [@ EXCEPT !.target[NextDevice(o)] = s, !.status = "halted"]]
        /\ caller' = [caller EXCEPT ![o] = IdleCall]
    BY <1>10 DEF Halt
  <2>2. s \in TargetStatus
    BY DEF TargetStatus
  <2> HIDE DEF s
  <2>3. CampType'
    <3> DEFINE c == caller[o].camp
               d == NextDevice(o)
    <3>1. c \in Campaigns
      BY <1>0, <2>1 DEF CallInv
    <3>2. camp' = [camp EXCEPT ![c] = [@ EXCEPT !.target[d] = s, !.status = "halted"]]
      BY <2>1
    <3> HIDE DEF c, d
    <3>3. camp' = [camp EXCEPT ![c] =
                     [camp[c] EXCEPT !.target = [camp[c].target EXCEPT ![d] = s],
                                     !.status = "halted"]]
      BY <1>0, <3>1, <3>2 DEF CampType, CampRow
    <3> QED BY <1>8, <2>2, <3>1, <3>3
  <2>4. CallType'
    BY <1>0, <1>1, <2>1 DEF CallType, Call
  <2>5. CallInv'
    BY <1>0, <2>1 DEF CallInv, CallType, Call, Live, dvars, smVars, IdleCall
  <2> QED BY <2>1, <2>3, <2>4, <2>5
<1>11. ASSUME NEW o \in Callers, WaveDone(o)
       PROVE  CampType' /\ CallType' /\ CallInv' /\ UNCHANGED <<dvars, version, crashes>>
  <2> DEFINE c == caller[o].camp
             w == caller[o].wave + 1
  <2>1. /\ caller[o].pc = "loop" /\ UNCHANGED <<dvars, version, crashes>>
        /\ \/ camp' = [camp EXCEPT ![c] = [@ EXCEPT !.status = "completed"]]
           \/ camp' = [camp EXCEPT ![c] = [@ EXCEPT !.wave = w]]
        /\ caller' = [caller EXCEPT ![o] = IdleCall]
    BY <1>11 DEF WaveDone
  <2>2. c \in Campaigns /\ w \in Nat
    BY <1>0, <2>1 DEF CallInv, CallType, Call
  <2> HIDE DEF c, w
  <2>3. CampType'
    BY <1>0, <2>1, <2>2 DEF CampType, CampRow
  <2>4. CallType'
    BY <1>0, <1>1, <2>1 DEF CallType, Call
  <2>5. CallInv'
    BY <1>0, <2>1 DEF CallInv, CallType, Call, Live, dvars, smVars, IdleCall
  <2> QED BY <2>1, <2>3, <2>4, <2>5
<1>12. CASE SmCrash
  <2>1. /\ caller' = [o \in Callers |-> IdleCall] /\ UNCHANGED <<dvars, camp, version>>
        /\ crashes' = crashes + 1 /\ crashes < MaxSmCrashes
    BY <1>12 DEF SmCrash
  <2>2. CallType' /\ CallInv'
    BY <1>1, <2>1 DEF CallType, Call, CallInv, IdleCall
  <2>3. CampType' /\ DirInv'
    BY <1>0, <2>1, DirStutter DEF CampType, CampRow
  <2>4. crashes' \in 0..MaxSmCrashes
    BY <1>0, <2>1, FirmwareAssumption
  <2> QED BY <1>0, <2>1, <2>2, <2>3, <2>4
<1>13. ASSUME UNCHANGED dvars, CampType', CallType', CallInv',
              UNCHANGED <<version, crashes>>
       PROVE  /\ CampType' /\ CallType' /\ DirInv' /\ CallInv'
              /\ version' \in [Devices -> {"old", "new"}] /\ crashes' \in 0..MaxSmCrashes
  BY <1>0, <1>13, DirStutter
<1>14. ASSUME UNCHANGED <<dvars, caller>> PROVE CallType' /\ CallInv'
  BY <1>0, <1>14 DEF CallType, Call, CallInv, Live, dvars, smVars
<1>15. ASSUME \/ \E v \in Devices : Transport(v) /\ UNCHANGED fvars
              \/ \E i \in Ids : FWork(i)
       PROVE  /\ DirInv' /\ SameWork /\ UNCHANGED <<camp, caller, crashes>>
              /\ version' \in [Devices -> {"old", "new"}]
  <2>1. (\E v \in Devices : Transport(v)) \/ (\E i \in Ids : Work(i))
    BY <1>15 DEF FWork, Work, Flash
  <2>2. UNCHANGED <<camp, caller, crashes>>
    BY <1>15 DEF FWork, Flash, fvars
  <2>3. version' \in [Devices -> {"old", "new"}]
    BY <1>0, <1>15 DEF FWork, Flash, fvars
  <2> QED BY <1>0, <2>1, <2>2, <2>3, TransportKeeps
<1>16. CASE \/ \E v \in Devices : Transport(v) /\ UNCHANGED fvars
            \/ \E i \in Ids : FWork(i)
  <2>1. CampType' /\ CallType' /\ CallInv'
    BY <1>0, <1>15, <1>16 DEF CampType, CampRow, CallType, Call, CallInv, SameWork
  <2> QED BY <1>0, <1>15, <1>16, <2>1
<1>17. CASE UNCHANGED vars
  <2>1. UNCHANGED <<dvars, camp, caller, version, crashes>>
    BY <1>17 DEF vars, fvars
  <2> QED BY <1>0, <1>13, <1>14, <2>1 DEF CampType, CampRow
<1>18. CASE \E o \in Callers : CallStep(o)
  <2>1. CASE \E o \in Callers : UpdateDone(o) \/ WaveDone(o) \/ \E r : Halt(o, r)
    BY <1>9, <1>10, <1>11, <1>13, <2>1
  <2>2. CASE \E o \in Callers : QueueUpdate(o) \/ \E r : UpdateFails(o, r)
    <3>1. UNCHANGED <<version, crashes>>
      BY <2>2 DEF QueueUpdate, UpdateFails
    <3> QED BY <1>0, <1>6, <1>7, <2>2, <3>1
  <2> QED BY <1>18, <2>1, <2>2 DEF CallStep
<1>19. CASE \/ \E c \in Campaigns, devs \in SUBSET Devices : CreateCampaign(c, devs)
            \/ \E c \in Campaigns : ApproveCampaign(c)
  BY <1>2, <1>3, <1>13, <1>14, <1>19
<1>20. CASE \E o \in Callers, c \in Campaigns : AdvanceBegin(o, c)
  BY <1>4, <1>13, <1>20
<1> QED BY <1>12, <1>16, <1>17, <1>18, <1>19, <1>20 DEF FNext

\* Types, the transport's invariant and the calls' hold from the start.
THEOREM FirmwareTypes == FSpec => []FwInv
<1>1. FInit => FwInv
  <2> SUFFICES ASSUME FInit PROVE FwInv
    OBVIOUS
  <2>1. DirInv /\ TypeOK
    BY InitDir DEF FInit, DirInv
  <2>2. <<>> \in OnDevices(Nat) /\ <<>> \in OnDevices(TargetStatus) /\ DOMAIN <<>> = {}
    <3>1. <<>> \in [{} -> Nat] /\ <<>> \in [{} -> TargetStatus]
      OBVIOUS
    <3> QED BY <3>1 DEF OnDevices
  <2>3. CampType
    BY <2>2 DEF FInit, NoPlan, CampType, CampRow
  <2>4. CallType /\ CallInv
    BY DEF FInit, IdleCall, CallType, Call, CallInv
  <2>5. version \in [Devices -> {"old", "new"}] /\ crashes \in 0..MaxSmCrashes
    BY FirmwareAssumption DEF FInit
  <2> QED
    BY <2>1, <2>3, <2>4, <2>5 DEF FwInv, FTypeOK, CampType, CallType, CampRow, Call
<1> QED BY <1>1, FwStep, PTL DEF FSpec

\* Every stored plan is safe.
StoredPlans == \A c \in Campaigns : PlanIsSafe(camp[c].plan, Domains, MaxWaveSize)

\* A step stores the plan that plan_waves made or leaves the plans alone.
LEMMA PlansKept ==
    ASSUME FwInv, [FNext]_vars, NEW c \in Campaigns
    PROVE  \/ camp'[c].plan = camp[c].plan
           \/ \E devs \in SUBSET Devices :
                 camp'[c].plan = PlanWaves(devs, Order, Domains, MaxWaveSize)
<1>0. CampType
  BY DEF FwInv, FTypeOK, CampType, CampRow
<1>1. ASSUME NEW k \in Campaigns, NEW devs \in SUBSET Devices, CreateCampaign(k, devs)
      PROVE  \/ camp'[c].plan = camp[c].plan
             \/ \E D \in SUBSET Devices :
                   camp'[c].plan = PlanWaves(D, Order, Domains, MaxWaveSize)
  BY <1>0, <1>1 DEF CreateCampaign, CampType, CampRow
<1>2. CASE \E k \in Campaigns : ApproveCampaign(k) \/ \E o \in Callers : AdvanceBegin(o, k)
  BY <1>0, <1>2 DEF ApproveCampaign, AdvanceBegin, CampType, CampRow
<1>3. CASE \E o \in Callers : UpdateDone(o)
  BY <1>0, <1>3 DEF UpdateDone, CampType, CampRow
<1>4. CASE \E o \in Callers : \E r : Halt(o, r)
  BY <1>0, <1>4 DEF Halt, CampType, CampRow
<1>5. CASE \E o \in Callers : WaveDone(o)
  BY <1>0, <1>5 DEF WaveDone, CampType, CampRow
<1>6. CASE UNCHANGED camp
  BY <1>6
<1>7. ASSUME UNCHANGED vars \/ SmCrash
             \/ (\E o \in Callers : QueueUpdate(o) \/ \E r : UpdateFails(o, r))
             \/ (\E v \in Devices : Transport(v) /\ UNCHANGED fvars)
             \/ (\E i \in Ids : FWork(i))
      PROVE  UNCHANGED camp
  BY <1>7 DEF vars, fvars, SmCrash, QueueUpdate, UpdateFails, FWork, Flash
<1> QED
  BY <1>1, <1>2, <1>3, <1>4, <1>5, <1>6, <1>7 DEF FNext, CallStep

\* firmware_orchestrator.plan_waves, for any fleet, fault domains and wave
\* size: no wave of a campaign ever holds two devices of a fault domain, is
\* over the cap or empty, and the planner is right on every input.
THEOREM PlansAreSafe == FSpec => []WavePlanSafe
<1>1. FInit => StoredPlans
  <2>1. DOMAIN <<>> = {}
    OBVIOUS
  <2> QED BY <2>1 DEF FInit, StoredPlans, NoPlan, PlanIsSafe
<1>2. FwInv /\ StoredPlans /\ [FNext]_vars => StoredPlans'
  <2> SUFFICES ASSUME FwInv, StoredPlans, [FNext]_vars, NEW c \in Campaigns
               PROVE  PlanIsSafe(camp'[c].plan, Domains, MaxWaveSize)
    BY DEF StoredPlans
  <2>1. CASE camp'[c].plan = camp[c].plan
    BY <2>1 DEF StoredPlans
  <2>2. ASSUME NEW devs \in SUBSET Devices,
               camp'[c].plan = PlanWaves(devs, Order, Domains, MaxWaveSize)
        PROVE  PlanIsSafe(camp'[c].plan, Domains, MaxWaveSize)
    BY <2>2, PlanOfCampaign
  <2> QED BY <2>1, <2>2, PlansKept
<1>3. PlannerIsSafe
  <2> SUFFICES ASSUME NEW n \in 0..PlanSize, NEW cap \in 1..PlanSize,
                      NEW doms \in SUBSET {D \in SUBSET (1..n) : Cardinality(D) > 1}
               PROVE  LET p == PlanWaves(1..n, [k \in 1..n |-> k], doms, cap)
                      IN  DOMAIN p = 1..n /\ PlanIsSafe(p, doms, cap)
    BY DEF PlannerIsSafe
  <2> DEFINE order == [k \in 1..n |-> k]
             p == PlanWaves(1..n, order, doms, cap)
  <2>1. n \in Nat /\ cap \in Nat \ {0}
    BY FirmwareAssumption
  <2>2. order \in Seq(Nat)
    BY <2>1
  <2>3. IsInjective(order) /\ 1..n \subseteq Range(order)
    BY DEF IsInjective, Range
  <2> HIDE DEF order
  <2>4. p \in [1..n -> Nat] /\ PlanIsSafe(p, doms, cap)
    BY <2>1, <2>2, <2>3, PlannerSafe
  <2> QED BY <2>4 DEF order
<1>4. StoredPlans => WavePlanSafe
  BY <1>3 DEF StoredPlans, WavePlanSafe
<1> QED BY <1>1, <1>2, <1>4, FirmwareTypes, PTL DEF FSpec

-----------------------------------------------------------------------------
(* One advance call at a time.                                             *)

\* What the rows of a campaign say: a failed target means a halted campaign,
\* and the waves behind the current one are complete.
RowOk(k) ==
    \A d \in DOMAIN k.plan :
        /\ k.target[d] \in {"rolled_back", "failed"} => k.status = "halted"
        /\ k.plan[d] < k.wave => k.target[d] = "completed"

RowInv == \A c \in Campaigns : RowOk(camp[c])

\* The devices of the current wave that are not completed.
ToDo(k) == {d \in DOMAIN k.plan : k.plan[d] = k.wave /\ k.target[d] # "completed"}

\* What the one call knows: its campaign is running, at the call's wave, and
\* of that wave it has still to do exactly the devices not completed.
AdvanceInv ==
    \A o \in Callers : caller[o].pc # "idle" =>
        LET k == camp[caller[o].camp] IN
        /\ k.status = "running" /\ k.wave = caller[o].wave
        /\ caller[o].todo = ToDo(k)

\* Updates that may still run or be run.
Loose == {i \in Live : dir[i].kind = "FIRMWARE_UPDATE" /\ dir[i].status \notin Settled}

\* A settled directive is nowhere under way.
SettledIsQuiet ==
    \A i \in Live : dir[i].status \in Settled => task[i] = "none" /\ i \notin polled

\* Without a Site Manager restart there is at most one such update: the one
\* the call waits for, the one it rolls back, or the one the campaign halted on.
LooseInv ==
    crashes = 0 =>
        /\ \A i, j \in Loose : i = j
        /\ \A i \in Loose : \/ \E o \in Callers :
                                  \/ caller[o].pc = "update" /\ caller[o].id = i
                                  \/ caller[o].pc = "rollback"
                            \/ \A c \in Campaigns : camp[c].status = "halted"

\* The step of WavesInOrder.
OrderedStep ==
    /\ \A o \in Callers :
         caller[o].pc = "loop" /\ caller'[o].pc = "update" =>
           LET k == camp[caller[o].camp] IN
           /\ k.status # "halted"
           /\ \A d \in DOMAIN k.plan : k.plan[d] < caller[o].wave
                                       => k.target[d] = "completed"
    /\ \A c \in Campaigns : camp[c].status = "halted" => camp'[c].status = "halted"

\* With one advance call at a time every step keeps the waves in order.
LEMMA WaveStep ==
    ASSUME NEW o, Callers = {o}, FwInv, RowInv, AdvanceInv, [FNext]_vars
    PROVE  RowInv' /\ AdvanceInv' /\ OrderedStep
<1>0. /\ camp \in [Campaigns -> CampRow] /\ caller \in [Callers -> Call]
      /\ \A c \in Campaigns : DOMAIN camp[c].target = DOMAIN camp[c].plan
      /\ CallInv /\ o \in Callers
  BY DEF FwInv, FTypeOK, CampRow, Call
<1>1. \A c \in Campaigns :
        /\ camp[c].wave \in Nat /\ camp[c].plan \in [DOMAIN camp[c].plan -> Nat]
        /\ camp[c].target \in [DOMAIN camp[c].plan -> TargetStatus]
        /\ DOMAIN camp[c].plan \subseteq Devices
  BY <1>0 DEF CampRow, OnDevices
<1>2. CASE UNCHANGED <<camp, caller>>
  BY <1>2 DEF RowInv, AdvanceInv, OrderedStep
<1>3. ASSUME NEW c \in Campaigns, NEW devs \in SUBSET Devices, CreateCampaign(c, devs)
      PROVE  RowInv' /\ AdvanceInv' /\ OrderedStep
  <2> DEFINE p == PlanWaves(devs, Order, Domains, MaxWaveSize)
             k == [status |-> "draft", wave |-> 0, plan |-> p,
                   target |-> [d \in devs |-> "pending"]]
  <2>1. camp' = [camp EXCEPT ![c] = k] /\ UNCHANGED caller /\ camp[c] = NoPlan
    BY <1>3 DEF CreateCampaign
  <2>2. p \in [devs -> Nat]
    BY PlanOfCampaign
  <2>3. \A d \in DOMAIN k.plan : ~(k.plan[d] < k.wave) /\ k.target[d] = "pending"
    BY <2>2
  <2>4. camp'[c] = k /\ \A b \in Campaigns \ {c} : camp'[b] = camp[b]
    BY <1>0, <2>1
  <2> HIDE DEF p, k
  <2>5. RowInv'
    <3>1. RowOk(camp'[c])
      BY <2>3, <2>4 DEF RowOk, k
    <3> QED BY <2>4, <3>1 DEF RowInv
  <2>6. camp[c].status = "none"
    BY <2>1 DEF NoPlan
  <2>7. AdvanceInv'
    BY <1>0, <2>1, <2>4, <2>6 DEF AdvanceInv, CallInv
  <2>8. OrderedStep
    BY <2>1, <2>4, <2>6 DEF OrderedStep
  <2> QED BY <2>5, <2>7, <2>8
<1>4. ASSUME NEW c \in Campaigns, ApproveCampaign(c)
      PROVE  RowInv' /\ AdvanceInv' /\ OrderedStep
  <2>1. /\ camp' = [camp EXCEPT ![c].status = "approved"] /\ UNCHANGED caller
        /\ camp[c].status = "draft"
    BY <1>4 DEF ApproveCampaign
  <2>2. /\ camp'[c].status = "approved" /\ camp'[c].wave = camp[c].wave
        /\ camp'[c].plan = camp[c].plan /\ camp'[c].target = camp[c].target
        /\ \A b \in Campaigns \ {c} : camp'[b] = camp[b]
    BY <1>0, <2>1 DEF CampRow
  <2>3. RowInv'
    <3>1. RowOk(camp'[c])
      BY <2>1, <2>2 DEF RowInv, RowOk
    <3> QED BY <2>2, <3>1 DEF RowInv
  <2>4. AdvanceInv'
    BY <1>0, <2>1, <2>2 DEF AdvanceInv, CallInv
  <2>5. OrderedStep
    BY <2>1, <2>2 DEF OrderedStep
  <2> QED BY <2>3, <2>4, <2>5
<1>5. ASSUME NEW c \in Campaigns, AdvanceBegin(o, c)
      PROVE  RowInv' /\ AdvanceInv' /\ OrderedStep
  <2> DEFINE todo == {d \in DOMAIN camp[c].plan :
                        camp[c].plan[d] = camp[c].wave /\ camp[c].target[d] = "pending"}
             new == [pc |-> "loop", camp |-> c, wave |-> camp[c].wave, id |-> NoId,
                     todo |-> todo]
  <2>1. /\ camp' = [camp EXCEPT ![c].status = "running"]
        /\ caller' = [caller EXCEPT ![o] = new]
        /\ camp[c].status \in {"approved", "running"} /\ caller[o] = IdleCall
    BY <1>5 DEF AdvanceBegin
  <2>2. todo = ToDo(camp[c])
    BY <1>1, <2>1 DEF RowInv, RowOk, ToDo, TargetStatus
  <2> HIDE DEF todo
  <2>3. /\ camp'[c].status = "running" /\ camp'[c].wave = camp[c].wave
        /\ camp'[c].plan = camp[c].plan /\ camp'[c].target = camp[c].target
        /\ \A b \in Campaigns \ {c} : camp'[b] = camp[b]
    BY <1>0, <2>1 DEF CampRow
  <2>4. caller'[o] = new
    BY <1>0, <2>1
  <2>5. RowInv'
    <3>1. RowOk(camp'[c])
      BY <2>1, <2>3 DEF RowInv, RowOk
    <3> QED BY <2>3, <3>1 DEF RowInv
  <2>6. AdvanceInv'
    <3>1. ToDo(camp'[c]) = ToDo(camp[c])
      BY <2>3 DEF ToDo
    <3> QED BY <2>2, <2>3, <2>4, <3>1 DEF AdvanceInv
  <2>7. OrderedStep
    BY <2>1, <2>3, <2>4 DEF OrderedStep
  <2> QED BY <2>5, <2>6, <2>7
<1>6. CASE QueueUpdate(o) \/ \E r : UpdateFails(o, r)
  <2>1. /\ UNCHANGED camp
        /\ \E pc \in {"update", "rollback"} :
              caller' = [caller EXCEPT ![o].pc = pc, ![o].id = FreshId]
        /\ caller[o].pc # "idle"
    BY <1>6 DEF QueueUpdate, UpdateFails
  <2>2. /\ caller'[o].todo = caller[o].todo /\ caller'[o].camp = caller[o].camp
        /\ caller'[o].wave = caller[o].wave
    BY <1>0, <2>1 DEF Call
  <2>3. RowInv' /\ AdvanceInv'
    BY <2>1, <2>2 DEF RowInv, AdvanceInv
  <2>4. OrderedStep
    BY <1>0, <2>1 DEF OrderedStep, AdvanceInv, RowInv, RowOk, CallInv
  <2> QED BY <2>3, <2>4
<1>7. ASSUME caller[o].pc \in {"update", "rollback"}
      PROVE  /\ caller[o].camp \in Campaigns
             /\ NextDevice(o) \in caller[o].todo
             /\ NextDevice(o) \in DOMAIN camp[caller[o].camp].plan
             /\ camp[caller[o].camp].plan[NextDevice(o)] = camp[caller[o].camp].wave
             /\ camp[caller[o].camp].status = "running"
  <2>1. caller[o].camp \in Campaigns /\ caller[o].todo # {} /\ caller[o].todo \subseteq Devices
    BY <1>0, <1>7 DEF CallInv, Call
  <2>2. NextDevice(o) \in caller[o].todo
    BY <2>1, NextIsWaiting
  <2> QED BY <1>0, <1>7, <2>1, <2>2 DEF AdvanceInv, ToDo
<1>8. CASE UpdateDone(o)
  <2> DEFINE c == caller[o].camp
             d == NextDevice(o)
  <2>1. /\ caller[o].pc = "update"
        /\ camp' = [camp EXCEPT ![c].target[d] = "completed"]
        /\ caller' = [caller EXCEPT ![o].pc = "loop", ![o].todo = @ \ {d}, ![o].id = NoId]
    BY <1>8 DEF UpdateDone
  <2>2. /\ c \in Campaigns /\ d \in caller[o].todo /\ d \in DOMAIN camp[c].plan
        /\ camp[c].plan[d] = camp[c].wave /\ camp[c].status = "running"
    BY <1>7, <2>1
  <2> HIDE DEF c, d
  <2>3. /\ camp'[c].status = camp[c].status /\ camp'[c].wave = camp[c].wave
        /\ camp'[c].plan = camp[c].plan
        /\ camp'[c].target = [camp[c].target EXCEPT ![d] = "completed"]
        /\ \A b \in Campaigns \ {c} : camp'[b] = camp[b]
    BY <1>0, <2>1, <2>2 DEF CampRow
  <2>4. \A e \in DOMAIN camp[c].plan :
           camp'[c].target[e] = IF e = d THEN "completed" ELSE camp[c].target[e]
    BY <1>1, <2>2, <2>3
  <2>5. /\ caller'[o].camp = c /\ caller'[o].wave = caller[o].wave
        /\ caller'[o].todo = caller[o].todo \ {d} /\ caller'[o].pc = "loop"
    BY <1>0, <2>1 DEF Call, c
  <2>6. RowInv'
    <3>1. RowOk(camp'[c])
      BY <2>2, <2>3, <2>4 DEF RowInv, RowOk
    <3> QED BY <2>3, <3>1 DEF RowInv
  <2>7. AdvanceInv'
    <3>1. camp[c].wave = caller[o].wave /\ caller[o].todo = ToDo(camp[c])
      BY <1>0, <2>1 DEF AdvanceInv, c
    <3>2. ToDo(camp'[c]) = ToDo(camp[c]) \ {d}
      BY <2>3, <2>4 DEF ToDo
    <3>3. camp'[c].status = "running" /\ camp'[c].wave = caller'[o].wave
      BY <2>2, <2>3, <2>5, <3>1
    <3>4. caller'[o].todo = ToDo(camp'[c])
      BY <2>5, <3>1, <3>2
    <3> QED BY <2>5, <3>3, <3>4 DEF AdvanceInv
  <2>8. OrderedStep
    BY <2>1, <2>3, <2>5 DEF OrderedStep
  <2> QED BY <2>6, <2>7, <2>8
<1>9. ASSUME NEW r, Halt(o, r) PROVE RowInv' /\ AdvanceInv' /\ OrderedStep
  <2> DEFINE c == caller[o].camp
             d == NextDevice(o)
             s == IF r = "completed" THEN "rolled_back" ELSE "failed"
  <2>1. /\ caller[o].pc = "rollback"
        /\ camp' = [camp EXCEPT ![c] = [@ EXCEPT !.target[d] = s, !.status = "halted"]]
        /\ caller' = [caller EXCEPT ![o] = IdleCall]
    BY <1>9 DEF Halt
  <2>2. /\ c \in Campaigns /\ d \in DOMAIN camp[c].plan
        /\ camp[c].plan[d] = camp[c].wave /\ camp[c].wave \in Nat
    BY <1>1, <1>7, <2>1
  <2> HIDE DEF c, d, s
  <2>3. /\ camp'[c].status = "halted" /\ camp'[c].wave = camp[c].wave
        /\ camp'[c].plan = camp[c].plan
        /\ camp'[c].target = [camp[c].target EXCEPT ![d] = s]
        /\ \A b \in Campaigns \ {c} : camp'[b] = camp[b]
    BY <1>0, <2>1, <2>2 DEF CampRow
  <2>4. \A e \in DOMAIN camp[c].plan : e # d => camp'[c].target[e] = camp[c].target[e]
    BY <1>1, <2>2, <2>3
  <2>5. caller'[o].pc = "idle"
    BY <1>0, <2>1 DEF IdleCall
  <2>6. RowInv'
    <3>1. RowOk(camp'[c])
      BY <2>2, <2>3, <2>4 DEF RowInv, RowOk
    <3> QED BY <2>3, <3>1 DEF RowInv
  <2>7. AdvanceInv' /\ OrderedStep
    BY <2>3, <2>5 DEF AdvanceInv, OrderedStep
  <2> QED BY <2>6, <2>7
<1>10. CASE WaveDone(o)
  <2> DEFINE c == caller[o].camp
             w == caller[o].wave + 1
  <2>1. /\ caller[o].pc = "loop" /\ caller[o].todo = {}
        /\ \/ camp' = [camp EXCEPT ![c] = [@ EXCEPT !.status = "completed"]]
           \/ camp' = [camp EXCEPT ![c] = [@ EXCEPT !.wave = w]]
        /\ caller' = [caller EXCEPT ![o] = IdleCall]
    BY <1>10 DEF WaveDone
  <2>2. c \in Campaigns
    BY <1>0, <2>1 DEF CallInv
  <2>3. /\ camp[c].status = "running" /\ w = camp[c].wave + 1
        /\ \A e \in DOMAIN camp[c].plan :
              camp[c].plan[e] = camp[c].wave => camp[c].target[e] = "completed"
    BY <1>0, <2>1 DEF AdvanceInv, ToDo
  <2> HIDE DEF c, w
  <2>4. /\ camp'[c].plan = camp[c].plan /\ camp'[c].target = camp[c].target
        /\ \/ camp'[c].status = "completed" /\ camp'[c].wave = camp[c].wave
           \/ camp'[c].status = "running" /\ camp'[c].wave = w
        /\ \A b \in Campaigns \ {c} : camp'[b] = camp[b]
    BY <1>0, <2>1, <2>2, <2>3 DEF CampRow
  <2>5. caller'[o].pc = "idle"
    BY <1>0, <2>1 DEF IdleCall
  <2>6. RowInv'
    <3>1. \A e \in DOMAIN camp[c].plan :
             /\ camp[c].target[e] \notin {"rolled_back", "failed"}
             /\ camp[c].plan[e] < w => camp[c].target[e] = "completed"
      BY <1>1, <2>2, <2>3 DEF RowInv, RowOk
    <3>2. RowOk(camp'[c])
      <4>1. CASE camp'[c].wave = w
        BY <2>4, <3>1, <4>1 DEF RowOk
      <4>2. CASE camp'[c].wave = camp[c].wave
        BY <2>2, <2>4, <3>1, <4>2 DEF RowInv, RowOk
      <4> QED BY <2>4, <4>1, <4>2
    <3> QED BY <2>4, <3>2 DEF RowInv
  <2>7. AdvanceInv' /\ OrderedStep
    BY <2>3, <2>4, <2>5 DEF AdvanceInv, OrderedStep
  <2> QED BY <2>6, <2>7
<1>11. CASE SmCrash
  BY <1>0, <1>11 DEF SmCrash, RowInv, AdvanceInv, OrderedStep, IdleCall
<1>12. ASSUME \/ UNCHANGED vars
              \/ \E v \in Devices : Transport(v) /\ UNCHANGED fvars
              \/ \E i \in Ids : FWork(i)
       PROVE  UNCHANGED <<camp, caller>>
  BY <1>12 DEF vars, fvars, FWork, Flash
<1> QED
  BY <1>2, <1>3, <1>4, <1>5, <1>6, <1>8, <1>9, <1>10, <1>11, <1>12 DEF FNext, CallStep

\* firmware_orchestrator.py, "Wave N+1 starts only after every device in wave N
\* completed" and "The campaign HALTS": for any number of campaigns, devices
\* and Site Manager restarts, as long as advance calls do not overlap.
THEOREM WavesKeepOrder ==
    ASSUME NEW o, Callers = {o} PROVE FSpec => WavesInOrder
<1>1. FInit => RowInv /\ AdvanceInv
  <2>1. DOMAIN <<>> = {}
    OBVIOUS
  <2> QED BY <2>1 DEF FInit, RowInv, RowOk, AdvanceInv, NoPlan, IdleCall
<1>2. FwInv /\ RowInv /\ AdvanceInv /\ [FNext]_vars => RowInv' /\ AdvanceInv' /\ OrderedStep
  BY WaveStep
<1> QED BY <1>1, <1>2, FirmwareTypes, PTL DEF FSpec, WavesInOrder, OrderedStep

-----------------------------------------------------------------------------
(* One update at a time on the devices.                                    *)

\* The transport and the agents only ever settle directives, and a settled
\* directive stays out of their hands.
LEMMA LooseShrinks ==
    ASSUME DirInv, SettledIsQuiet,
           (\E v \in Devices : Transport(v)) \/ (\E i \in Ids : Work(i))
    PROVE  SettledIsQuiet' /\ Loose' \subseteq Loose
<1>0. TypeOK /\ OneWay /\ DOMAIN dir = Ids /\ DOMAIN task = Ids
  BY DEF DirInv, TypeOK
<1>1. SameWork
  BY TransportKeeps
<1>2. ASSUME NEW i \in Live
      PROVE  /\ dir'[i].kind = dir[i].kind /\ i \in Ids /\ dir[i] \in Directive
  BY <1>0, <1>1, <1>2, LiveRows DEF SameWork, Live
<1>3. ASSUME NEW v \in Devices, Poll(v)
      PROVE  \A i \in Live :
               /\ dir[i].status \in Settled => dir'[i].status \in Settled
               /\ dir'[i].status \in Settled =>
                     /\ dir[i].status \in Settled
                     /\ task'[i] = task[i] /\ (i \in polled' => i \in polled)
  <2> SUFFICES ASSUME NEW i \in Live
               PROVE  /\ dir[i].status \in Settled => dir'[i].status \in Settled
                      /\ dir'[i].status \in Settled =>
                            /\ dir[i].status \in Settled
                            /\ task'[i] = task[i] /\ (i \in polled' => i \in polled)
    OBVIOUS
  <2>1. CASE i \in Pending(v)
    <3>1. dir'[i].status = "delivered" /\ dir[i].status = "pending"
      BY <1>2, <1>3, <2>1 DEF Poll, Directive, Pending
    <3> QED BY <3>1 DEF Settled
  <2>2. CASE i \notin Pending(v)
    BY <1>2, <1>3, <2>2 DEF Poll
  <2> QED BY <2>1, <2>2
<1>4. ASSUME NEW i \in Ids, Report(i)
      PROVE  \A j \in Live :
               /\ dir[j].status \in Settled => dir'[j].status \in Settled
               /\ dir'[j].status \in Settled => task'[j] = "none" /\ j \notin polled'
  <2> SUFFICES ASSUME NEW j \in Live
               PROVE  /\ dir[j].status \in Settled => dir'[j].status \in Settled
                      /\ dir'[j].status \in Settled => task'[j] = "none" /\ j \notin polled'
    OBVIOUS
  <2>1. /\ task' = [task EXCEPT ![i] = "none"] /\ UNCHANGED polled
        /\ task[i] # "none" /\ i \notin polled
    BY <1>0, <1>4 DEF Report, OneWay
  <2>2. CASE j = i
    <3>1. task'[j] = "none" /\ j \notin polled'
      BY <1>0, <2>1, <2>2
    <3>2. dir[j].status \in Settled => dir'[j].status \in Settled
      BY <1>2, <1>4, <2>2 DEF Report, smVars, Settled
    <3> QED BY <3>1, <3>2
  <2>3. CASE j # i
    <3>1. dir'[j] = dir[j] /\ task'[j] = task[j]
      BY <1>0, <1>2, <1>4, <2>1, <2>3 DEF Report, smVars
    <3> QED BY <2>1, <3>1 DEF SettledIsQuiet
  <2> QED BY <2>2, <2>3
<1>5. ASSUME UNCHANGED dir,
             \A i \in Live : task[i] = "none" /\ i \notin polled =>
                                task'[i] = "none" /\ i \notin polled'
      PROVE  SettledIsQuiet' /\ Loose' \subseteq Loose
  BY <1>5 DEF SettledIsQuiet, Loose, Live
<1>6. CASE \E v \in Devices : Poll(v)
  BY <1>1, <1>2, <1>3, <1>6 DEF SettledIsQuiet, Loose, SameWork
<1>7. CASE \E i \in Ids : Report(i)
  BY <1>1, <1>2, <1>4, <1>7 DEF SettledIsQuiet, Loose, SameWork
<1>8. CASE \E v \in Devices : Receive(v) \/ AnswerLost(v) \/ Restart(v)
  BY <1>2, <1>5, <1>8 DEF Receive, AnswerLost, Restart, smVars
<1>9. CASE \E i \in Ids : Begin(i) \/ Refuse(i) \/ ReportLost(i)
                          \/ \E result \in {"success", "failure"} : End(i, result)
  BY <1>0, <1>2, <1>5, <1>9 DEF Begin, Refuse, ReportLost, End, smVars
<1> QED BY <1>6, <1>7, <1>8, <1>9 DEF Transport, Work

\* With one campaign and one call at a time, every step keeps the updates that
\* may still run to that one.
LEMMA LooseStep ==
    ASSUME NEW o, Callers = {o}, NEW c, Campaigns = {c},
           FwInv, AdvanceInv, SettledIsQuiet, LooseInv, [FNext]_vars
    PROVE  SettledIsQuiet' /\ LooseInv'
<1>0. /\ camp \in [Campaigns -> CampRow] /\ caller \in [Callers -> Call]
      /\ CallInv /\ DirInv /\ o \in Callers /\ c \in Campaigns /\ crashes \in Nat
  BY DEF FwInv, FTypeOK, CampRow, Call
<1>1. caller[o].pc # "idle" => caller[o].camp = c /\ camp[c].status = "running"
  BY <1>0 DEF CallInv, AdvanceInv
<1> DEFINE Held(i) == \/ caller[o].pc = "update" /\ caller[o].id = i
                      \/ caller[o].pc = "rollback"
                      \/ camp[c].status = "halted"
<1>2. LooseInv <=> (crashes = 0 => /\ \A i, j \in Loose : i = j
                                   /\ \A i \in Loose : Held(i))
  BY DEF LooseInv
<1>3. LooseInv' <=> (crashes' = 0 => /\ \A i, j \in Loose' : i = j
                                     /\ \A i \in Loose' : Held(i)')
  BY DEF LooseInv
<1>4. ASSUME UNCHANGED dvars PROVE SettledIsQuiet' /\ Loose' = Loose
  BY <1>4 DEF dvars, smVars, agentVars, SettledIsQuiet, Loose, Live
<1>5. CASE UNCHANGED vars
  BY <1>2, <1>3, <1>4, <1>5 DEF vars, fvars
<1>6. CASE SmCrash
  BY <1>0, <1>3, <1>4, <1>6 DEF SmCrash
<1>7. CASE \/ \E devs \in SUBSET Devices : CreateCampaign(c, devs)
           \/ ApproveCampaign(c) \/ AdvanceBegin(o, c)
  <2>1. UNCHANGED <<dvars, crashes>> /\ camp[c].status # "halted"
    BY <1>7 DEF CreateCampaign, ApproveCampaign, AdvanceBegin, NoPlan
  <2>2. caller[o].pc = "idle"
    BY <1>1, <1>7 DEF CreateCampaign, ApproveCampaign, AdvanceBegin, NoPlan, IdleCall
  <2>3. crashes = 0 => Loose = {}
    BY <1>2, <2>1, <2>2
  <2> QED BY <1>3, <1>4, <2>1, <2>3
<1>8. ASSUME NEW d \in Devices, NEW w \in {"FIRMWARE_UPDATE", "FIRMWARE_ROLLBACK"},
             Queue(d, w)
      PROVE  /\ SettledIsQuiet' /\ FreshId \notin Live
             /\ Loose' = Loose \cup (IF w = "FIRMWARE_UPDATE" THEN {FreshId} ELSE {})
  <2>1. /\ FreshId \in Ids /\ FreshId \notin Live /\ Live' = Live \cup {FreshId}
        /\ dir'[FreshId].status = "pending" /\ dir'[FreshId].kind = w
        /\ \A j \in Live : dir'[j] = dir[j]
        /\ UNCHANGED <<polled, task>>
    BY <1>0, <1>8, QueuePreserves, FirmwareAssumption
  <2> QED BY <2>1 DEF SettledIsQuiet, Loose, Settled
<1>9. caller[o].pc \in {"loop", "update"} /\ caller[o].todo # {} => NextDevice(o) \in Devices
  BY <1>0, NextIsWaiting DEF Call
<1>10. CASE QueueUpdate(o)
  <2>1. /\ caller[o].pc = "loop" /\ caller[o].todo # {}
        /\ Queue(NextDevice(o), "FIRMWARE_UPDATE")
        /\ caller' = [caller EXCEPT ![o].pc = "update", ![o].id = FreshId]
        /\ UNCHANGED <<camp, crashes>>
    BY <1>10 DEF QueueUpdate
  <2>2. SettledIsQuiet' /\ Loose' = Loose \cup {FreshId}
    BY <1>8, <1>9, <2>1
  <2>3. crashes = 0 => Loose = {}
    BY <1>1, <1>2, <2>1
  <2>4. caller'[o].pc = "update" /\ caller'[o].id = FreshId
    BY <1>0, <2>1 DEF Call
  <2> QED BY <1>3, <2>1, <2>2, <2>3, <2>4
<1>11. ASSUME NEW r, UpdateFails(o, r) PROVE SettledIsQuiet' /\ LooseInv'
  <2>1. /\ caller[o].pc = "update" /\ Queue(NextDevice(o), "FIRMWARE_ROLLBACK")
        /\ caller' = [caller EXCEPT ![o].pc = "rollback", ![o].id = FreshId]
        /\ UNCHANGED <<camp, crashes>>
    BY <1>11 DEF UpdateFails
  <2>2. caller[o].todo # {}
    BY <1>0, <2>1 DEF CallInv
  <2>3. SettledIsQuiet' /\ Loose' = Loose
    BY <1>8, <1>9, <2>1, <2>2
  <2>4. caller'[o].pc = "rollback"
    BY <1>0, <2>1 DEF Call
  <2> QED BY <1>2, <1>3, <2>1, <2>3, <2>4
<1>12. CASE UpdateDone(o)
  <2>1. /\ caller[o].pc = "update" /\ dir[caller[o].id].status = "completed"
        /\ UNCHANGED <<dvars, crashes>>
    BY <1>12 DEF UpdateDone, Waited
  <2>2. caller[o].id \notin Loose
    BY <2>1 DEF Loose, Settled
  <2>3. crashes = 0 => Loose = {}
    BY <1>1, <1>2, <2>1, <2>2
  <2> QED BY <1>3, <1>4, <2>1, <2>3
<1>13. ASSUME NEW r, Halt(o, r) PROVE SettledIsQuiet' /\ LooseInv'
  <2>1. /\ caller[o].pc = "rollback" /\ UNCHANGED <<dvars, crashes>>
        /\ camp' = [camp EXCEPT ![caller[o].camp] =
                      [@ EXCEPT !.target[NextDevice(o)] =
                          IF r = "completed" THEN "rolled_back" ELSE "failed",
                                !.status = "halted"]]
    BY <1>13 DEF Halt
  <2>2. camp'[c].status = "halted"
    BY <1>0, <1>1, <2>1 DEF CampRow
  <2> QED BY <1>2, <1>3, <1>4, <2>1, <2>2
<1>14. CASE WaveDone(o)
  <2>1. caller[o].pc = "loop" /\ UNCHANGED <<dvars, crashes>>
    BY <1>14 DEF WaveDone
  <2>2. crashes = 0 => Loose = {}
    BY <1>1, <1>2, <2>1
  <2> QED BY <1>3, <1>4, <2>1, <2>2
<1>15. CASE \/ \E v \in Devices : Transport(v) /\ UNCHANGED fvars
            \/ \E i \in Ids : FWork(i)
  <2>1. (\E v \in Devices : Transport(v)) \/ (\E i \in Ids : Work(i))
    BY <1>15 DEF FWork, Work, Flash
  <2>2. UNCHANGED <<camp, caller, crashes>>
    BY <1>15 DEF FWork, Flash, fvars
  <2>3. SettledIsQuiet' /\ Loose' \subseteq Loose
    BY <1>0, <2>1, LooseShrinks
  <2> QED BY <1>2, <1>3, <2>2, <2>3
<1> HIDE DEF Held
<1> QED
  BY <1>5, <1>6, <1>7, <1>10, <1>11, <1>12, <1>13, <1>14, <1>15 DEF FNext, CallStep

\* firmware_orchestrator.py, "never update >1 device per fault domain
\* simultaneously": for any fleet and any fault domains, while one campaign is
\* advanced by one call at a time and the Site Manager has not restarted.
THEOREM OneUpdateAtATime ==
    ASSUME NEW o, Callers = {o}, NEW c, Campaigns = {c}
    PROVE  FSpec => []OneUpdatingPerDomain
<1>1. FInit => RowInv /\ AdvanceInv /\ SettledIsQuiet /\ LooseInv
  <2> SUFFICES ASSUME FInit PROVE RowInv /\ AdvanceInv /\ SettledIsQuiet /\ LooseInv
    OBVIOUS
  <2>1. DOMAIN <<>> = {}
    OBVIOUS
  <2>2. RowInv /\ AdvanceInv
    BY <2>1 DEF FInit, RowInv, RowOk, AdvanceInv, NoPlan, IdleCall
  <2>3. Live = {}
    BY DEF FInit, DInit, Live
  <2> QED BY <2>2, <2>3 DEF SettledIsQuiet, LooseInv, Loose
<1>2. FwInv /\ RowInv /\ AdvanceInv /\ SettledIsQuiet /\ LooseInv /\ [FNext]_vars
      => RowInv' /\ AdvanceInv' /\ SettledIsQuiet' /\ LooseInv'
  BY WaveStep, LooseStep
<1>3. FwInv /\ SettledIsQuiet /\ LooseInv => OneUpdatingPerDomain
  <2> SUFFICES ASSUME SettledIsQuiet, LooseInv, crashes = 0,
                      NEW i \in Updating, NEW j \in Updating
               PROVE  i = j
    BY DEF OneUpdatingPerDomain
  <2>1. i \in Loose /\ j \in Loose
    BY DEF Updating, Loose, SettledIsQuiet
  <2> QED BY <2>1 DEF LooseInv
<1> QED BY <1>1, <1>2, <1>3, FirmwareTypes, PTL DEF FSpec

=============================================================================
