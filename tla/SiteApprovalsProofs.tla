------------------------ MODULE SiteApprovalsProofs ------------------------
(***************************************************************************)
(* What the wave guard guarantees when operator requests do not overlap,   *)
(* for every set of devices, actions and fault domains and any number of   *)
(* reports and polls between their reads and their commits, and that a     *)
(* report or a poll that reads a closed row leaves it closed.              *)
(***************************************************************************)
EXTENDS SiteApprovals, TLAPS

\* The decision columns agree with the status: a row that is pending
\* is undecided and an approved or denied one carries that decision.
RowDecided(r) ==
    /\ r.status = "none" => r = NoRow
    /\ r.status = "pending" => r.by = "none" /\ r.decision = "none"
    /\ r.status = "denied" => r.decision = "denied"
    /\ r.status = "approved" => r.decision = "approved"

Decided == \A a \in Actions : RowDecided(row[a])

\* What a handler between its read and its commit knows for sure: the row it
\* read is there, and a row a report did not find is still not there, because
\* the reports of one device are served one after the other.
HandlersAgree ==
    /\ \A v \in Devices : LET a == serving[v].id IN
          a # NoAction =>
             /\ DeviceOf[a] = v /\ RowDecided(serving[v].read)
             /\ serving[v].read.status = "none" => row[a] = NoRow
             /\ serving[v].read.status # "none" => row[a].status # "none"
    /\ \A o \in Operators : op[o].id # NoAction => row[op[o].id].status # "none"
    /\ \A h \in Pollers : \A x \in poll[h].out : row[x[1]].status # "none"

BrokerInv == TypeOK /\ Decided /\ HandlersAgree

ByOperator(r) == r.status \in InFlight /\ r.by = "operator"

\* An operator that has passed the wave guard for `a` still finds no other
\* operator-approved action of the domain in flight.
GuardHolds ==
    \A o \in Operators : \A b \in Actions \ reopened :
        /\ op[o].id # NoAction /\ op[o].decision = "approved"
        /\ b # op[o].id /\ SameDomain(op[o].id, b)
        => ~ByOperator(row[b])

WaveInv == BrokerInv /\ GuardHolds /\ OneWavePerDomain

-----------------------------------------------------------------------------
\* _initial_status, value by value.
LEMMA InitialStatusValues ==
    /\ InitialStatus["PENDING"] = "pending"
    /\ InitialStatus["APPROVED"] = "delivered"
    /\ InitialStatus["DENIED"] = "denied"
    /\ InitialStatus["EXECUTING"] = "delivered"
    /\ InitialStatus["COMPLETED"] = "completed"
    /\ InitialStatus["FAILED"] = "failed"
  BY DEF InitialStatus

\* What a report makes of the row it read: it leaves status and decision alone,
\* closes the row, marks an open row as delivered, or decides a pending one.
LEMMA ApplyEffect ==
    ASSUME NEW r \in Rows, NEW s \in AgentStatus,
           RowDecided(r), r.status # "none",
           NEW x, x = ApplyAgentStatus(r, s)
    PROVE  /\ x \in Rows
           /\ \/ /\ x.decision = r.decision /\ x.by = r.by
                 /\ \/ x.status = r.status
                    \/ x.status \in {"completed", "failed", "superseded"}
                    \/ x.status = "delivered" /\ r.status \in {"pending", "approved"}
              \/ /\ r.status = "pending" /\ x.by = "agent-local"
                 /\ \/ x.status = "delivered" /\ x.decision = "approved"
                    \/ x.status = "denied" /\ x.decision = "denied"
  <1> USE InitialStatusValues DEF Rows, RowStatus, Decision
  <1>1. CASE s = "PENDING"
    BY <1>1 DEF ApplyAgentStatus
  <1>2. CASE s \in {"COMPLETED", "FAILED"}
    BY <1>2 DEF ApplyAgentStatus
  <1>3. CASE s = "EXECUTING"
    BY <1>3 DEF ApplyAgentStatus
  <1>4. ASSUME NEW d \in Decision, x = ApplyLocal(r, d)
        PROVE  /\ x \in Rows
               /\ \/ /\ x.decision = r.decision /\ x.by = r.by
                     /\ \/ x.status = r.status
                        \/ x.status \in {"completed", "failed", "superseded"}
                        \/ x.status = "delivered" /\ r.status \in {"pending", "approved"}
                  \/ /\ r.status = "pending" /\ x.by = "agent-local"
                     /\ \/ x.status = "delivered" /\ x.decision = "approved"
                        \/ x.status = "denied" /\ x.decision = "denied"
    <2>1. CASE r.status = "pending"
      BY <1>4, <2>1 DEF ApplyLocal
    <2>2. CASE r.status \in {"approved", "denied"}
      BY <1>4, <2>2 DEF ApplyLocal, RowDecided
    <2>3. CASE r.status \notin {"pending", "approved", "denied"}
      BY <1>4, <2>3 DEF ApplyLocal
    <2> QED
      BY <2>1, <2>2, <2>3
  <1>5. CASE s \in {"APPROVED", "DENIED"}
    <2>1. x = ApplyLocal(r, LocalDecision(s)) /\ LocalDecision(s) \in Decision
      BY <1>5 DEF ApplyAgentStatus, LocalDecision
    <2> QED
      BY <2>1, <1>4
  <1> QED
    BY <1>1, <1>2, <1>3, <1>5 DEF AgentStatus

\* What the commit then makes of the row as it is.
Served(now, old, t) == Written(now, old, ApplyAgentStatus(old, t))

\* It stays well formed, is an
\* operator's in-flight row only if it was one or was closed, and a closed row
\* goes back in flight only if the row that was read was not closed.
LEMMA ReportEffect ==
    ASSUME NEW now \in Rows, NEW old \in Rows, NEW t \in AgentStatus,
           RowDecided(now), RowDecided(old),
           now.status # "none", old.status # "none",
           NEW w, w = Served(now, old, t)
    PROVE  /\ w \in Rows /\ RowDecided(w)
           /\ w.status # "none"
           /\ ByOperator(w)
              => ByOperator(now) \/ (now.status \in Closed /\ w.status \in InFlight)
           /\ now.status \in Closed /\ w.status \in InFlight => old.status \notin Closed
  <1> DEFINE x == ApplyAgentStatus(old, t)
  <1>1. /\ x \in Rows
        /\ \/ /\ x.decision = old.decision /\ x.by = old.by
              /\ \/ x.status = old.status
                 \/ x.status \in {"completed", "failed", "superseded"}
                 \/ x.status = "delivered" /\ old.status \in {"pending", "approved"}
           \/ /\ old.status = "pending" /\ x.by = "agent-local"
              /\ \/ x.status = "delivered" /\ x.decision = "approved"
                 \/ x.status = "denied" /\ x.decision = "denied"
    BY ApplyEffect
  <1> HIDE DEF x
  <1>2. /\ w.status = IF x.status # old.status THEN x.status ELSE now.status
        /\ w.decision = IF x.decision # old.decision THEN x.decision ELSE now.decision
        /\ w.by = IF x.by # old.by THEN x.by ELSE now.by
        /\ w \in Rows
    BY <1>1 DEF x, Served, Written, Rows
  <1>3. /\ now.status \in RowStatus /\ old.status \in RowStatus
        /\ now.status = "pending" => now.by = "none" /\ now.decision = "none"
        /\ now.status = "denied" => now.decision = "denied"
        /\ now.status = "approved" => now.decision = "approved"
        /\ old.status = "pending" => old.by = "none" /\ old.decision = "none"
    BY DEF RowDecided, Rows
  <1>4. w.status # "none" /\ RowDecided(w)
    BY <1>1, <1>2, <1>3 DEF RowDecided, RowStatus
  <1>5. ByOperator(w)
        => ByOperator(now) \/ (now.status \in Closed /\ w.status \in InFlight)
    BY <1>1, <1>2, <1>3 DEF RowStatus, ByOperator, InFlight, Closed
  <1>6. now.status \in Closed /\ w.status \in InFlight => old.status \notin Closed
    BY <1>1, <1>2, <1>3 DEF RowStatus, InFlight, Closed
  <1> QED
    BY <1>2, <1>4, <1>5, <1>6

\* A new row is well formed and never an operator's.
LEMMA NewRowEffect ==
    ASSUME NEW s \in AgentStatus, NEW q, q = Written(NoRow, NoRow, NewRow(s))
    PROVE  /\ q \in Rows /\ RowDecided(q)
           /\ q.status # "none"
           /\ ~ByOperator(q)
  <1> USE InitialStatusValues DEF Rows, RowStatus, Decision, NewRow, LocalDecision,
              RowDecided, ByOperator, Written, NoRow
  <1>1. CASE s = "PENDING"
    BY <1>1
  <1>2. CASE s = "COMPLETED"
    BY <1>2
  <1>3. CASE s = "FAILED"
    BY <1>3
  <1>4. CASE s = "EXECUTING"
    BY <1>4
  <1>5. CASE s = "APPROVED"
    BY <1>5
  <1>6. CASE s = "DENIED"
    BY <1>6
  <1> QED
    BY <1>1, <1>2, <1>3, <1>4, <1>5, <1>6 DEF AgentStatus

\* A row that exists is not the row of an action nobody reported.
LEMMA NoRowIsNone == NoRow.status = "none" /\ NoRow \in Rows /\ RowDecided(NoRow)
  BY DEF NoRow, Rows, RowStatus, Decision, RowDecided

\* Fault domains relate devices symmetrically.
LEMMA SameDomainSymmetric ==
    ASSUME NEW a \in Actions, NEW b \in Actions, SameDomain(a, b)
    PROVE  SameDomain(b, a)
  BY DEF SameDomain, Members

-----------------------------------------------------------------------------
\* What every step that is not an operator's commit does to the rows: they
\* stay well formed and known, and none becomes an operator's in-flight row
\* but by being reopened.
Quiet ==
    /\ \A a \in Actions :
        /\ row'[a] \in Rows /\ RowDecided(row'[a])
        /\ row[a].status # "none" => row'[a].status # "none"
        /\ ByOperator(row'[a]) => ByOperator(row[a]) \/ a \in reopened'
    /\ reopened \subseteq reopened'

\* No row appears.
SameKnown == \A a \in Actions : row[a].status = "none" => row'[a] = row[a]

\* A handler goes on, ends, or has just read rows that are there.
HandlerStep ==
    /\ \A v \in Devices :
          \/ serving'[v] = serving[v]
          \/ serving'[v].id = NoAction
          \/ /\ serving'[v].id \in Actions /\ DeviceOf[serving'[v].id] = v
             /\ serving'[v].read = row'[serving'[v].id]
    /\ \A o \in Operators :
          \/ op'[o] = op[o]
          \/ op'[o].id = NoAction
          \/ row[op'[o].id].status # "none" /\ op'[o].id \in Actions
    /\ \A h \in Pollers : \A x \in poll'[h].out :
          x \in poll[h].out \/ row[x[1]].status # "none"

\* Such steps keep what the handlers know.
LEMMA HandlersKeepAgreeing ==
    ASSUME BrokerInv, TypeOK', Quiet, SameKnown, HandlerStep
    PROVE  BrokerInv'
  <1>1. Decided'
    BY DEF Decided, Quiet
  <1>2. ASSUME NEW v \in Devices, serving'[v].id # NoAction
        PROVE  /\ DeviceOf[serving'[v].id] = v /\ RowDecided(serving'[v].read)
               /\ serving'[v].read.status = "none" => row'[serving'[v].id] = NoRow
               /\ serving'[v].read.status # "none" => row'[serving'[v].id].status # "none"
    <2>1. serving'[v].id \in Actions
      BY <1>2 DEF TypeOK
    <2>2. CASE serving'[v] = serving[v]
      <3>1. /\ DeviceOf[serving[v].id] = v /\ RowDecided(serving[v].read)
            /\ serving[v].read.status = "none" => row[serving[v].id] = NoRow
            /\ serving[v].read.status # "none" => row[serving[v].id].status # "none"
        BY <1>2, <2>2 DEF BrokerInv, HandlersAgree
      <3> QED
        BY <2>1, <2>2, <3>1, NoRowIsNone DEF SameKnown, Quiet
    <2>3. CASE /\ DeviceOf[serving'[v].id] = v
               /\ serving'[v].read = row'[serving'[v].id]
      <3>1. RowDecided(row'[serving'[v].id]) /\ row'[serving'[v].id] \in Rows
        BY <2>1 DEF Quiet
      <3> QED
        BY <2>3, <3>1 DEF RowDecided
    <2> QED
      BY <1>2, <2>2, <2>3 DEF HandlerStep
  <1>3. ASSUME NEW o \in Operators, op'[o].id # NoAction
        PROVE  row'[op'[o].id].status # "none"
    <2>1. op'[o].id \in Actions
      BY <1>3 DEF TypeOK
    <2>2. row[op'[o].id].status # "none"
      BY <1>3 DEF HandlerStep, BrokerInv, HandlersAgree
    <2> QED
      BY <2>1, <2>2 DEF Quiet
  <1>4. ASSUME NEW h \in Pollers, NEW x \in poll'[h].out
        PROVE  row'[x[1]].status # "none"
    <2>1. x[1] \in Actions
      BY DEF TypeOK
    <2>2. row[x[1]].status # "none"
      BY DEF HandlerStep, BrokerInv, HandlersAgree
    <2> QED
      BY <2>1, <2>2 DEF Quiet
  <1>5. HandlersAgree'
    BY <1>2, <1>3, <1>4 DEF HandlersAgree
  <1> QED
    BY <1>1, <1>5 DEF BrokerInv

-----------------------------------------------------------------------------
(* Reports and polls.                                                      *)

\* The commit of a report: quiet, and a closed row goes back in flight only if
\* it was not closed when the report read it.
LEMMA CommitReportEffect ==
    ASSUME BrokerInv, NEW v \in Devices, NEW heard \in BOOLEAN, CommitReport(v, heard)
    PROVE  /\ TypeOK' /\ Quiet /\ BrokerInv'
           /\ op' = op
           /\ \A a \in Actions : Reopens(a) => /\ serving[v].id = a /\ serving'[v].id # a
                                              /\ serving[v].read.status \notin Closed
  <1> DEFINE a == serving[v].id
             r == serving[v].read
             s == serving[v].status
             q == Written(row[a], r, IF r.status = "none" THEN NewRow(s)
                                     ELSE ApplyAgentStatus(r, s))
  <1>1. /\ a \in Actions /\ s \in AgentStatus /\ r \in Rows /\ row[a] \in Rows
        /\ row \in [Actions -> Rows]
        /\ row' = [row EXCEPT ![a] = q]
        /\ serving' = [serving EXCEPT ![v] = NoServe]
        /\ serving \in [Devices -> [id : Actions \cup {NoAction}, status : AgentStatus,
                                    read : Rows]]
    BY DEF CommitReport, BrokerInv, TypeOK
  <1>2. /\ DeviceOf[a] = v /\ RowDecided(r) /\ RowDecided(row[a])
        /\ r.status = "none" => row[a] = NoRow
        /\ r.status # "none" => row[a].status # "none"
    BY <1>1, ApprovalsAssumption DEF BrokerInv, HandlersAgree, Decided
  <1>3. /\ q \in Rows /\ RowDecided(q) /\ q.status # "none"
        /\ ByOperator(q) => ByOperator(row[a]) \/ (row[a].status \in Closed /\ q.status \in InFlight)
        /\ row[a].status \in Closed /\ q.status \in InFlight => r.status \notin Closed
    <2>1. CASE r.status = "none"
      <3>1. r = NoRow /\ row[a] = NoRow /\ q = Written(NoRow, NoRow, NewRow(s))
        BY <1>2, <2>1 DEF RowDecided
      <3> HIDE DEF q, a, r, s
      <3> QED
        BY <1>1, <3>1, NewRowEffect, NoRowIsNone DEF Closed
    <2>2. CASE r.status # "none"
      <3> DEFINE now == row[a]
      <3>1. q = Served(now, r, s)
        BY <2>2 DEF Served
      <3>2. /\ now \in Rows /\ r \in Rows /\ s \in AgentStatus
            /\ RowDecided(now) /\ RowDecided(r)
            /\ now.status # "none" /\ r.status # "none"
        BY <1>1, <1>2, <2>2
      <3> HIDE DEF now, q, a, r, s
      <3>3. /\ q \in Rows /\ RowDecided(q) /\ q.status # "none"
            /\ ByOperator(q)
               => ByOperator(now) \/ (now.status \in Closed /\ q.status \in InFlight)
            /\ now.status \in Closed /\ q.status \in InFlight => r.status \notin Closed
        BY <3>1, <3>2, ReportEffect
      <3> QED
        BY <3>3 DEF now
    <2> QED
      BY <2>1, <2>2
  <1>4. \A b \in Actions : row'[b] = IF b = a THEN q ELSE row[b]
    BY <1>1
  <1>5. /\ serving'[v] = NoServe /\ NoServe.id = NoAction /\ a # NoAction
        /\ \A w \in Devices : w # v => serving'[w] = serving[w]
    BY <1>1, ApprovalsAssumption DEF NoServe
  <1>6. /\ reopened' = IF Reopens(a) THEN reopened \cup {a} ELSE reopened
        /\ op' = op /\ poll' = poll
    BY DEF CommitReport
  <1>7. TypeOK'
    <2>1. row' \in [Actions -> Rows]
      BY <1>1, <1>3 DEF Closed
    <2>2. serving' \in [Devices -> [id : Actions \cup {NoAction}, status : AgentStatus,
                                    read : Rows]]
      BY <1>1, NoRowIsNone DEF NoServe, AgentStatus
    <2>3. acked' \in [Actions -> BOOLEAN] /\ losses' \in Nat
      <3>1. acked \in [Actions -> BOOLEAN] /\ losses \in Nat
        BY DEF BrokerInv, TypeOK
      <3>2. \/ /\ losses' = losses
               /\ \/ acked' = [acked EXCEPT ![a] = TRUE]
                  \/ acked' = [acked EXCEPT ![a] = FALSE]
            \/ acked' = acked /\ losses' = losses + 1
        <4>1. CASE heard
          <5>1. acked' = [acked EXCEPT ![a] = agent[a] = s] /\ losses' = losses
            BY <4>1 DEF CommitReport
          <5> QED
            BY <5>1
        <4>2. CASE ~heard
          BY <4>2 DEF CommitReport
        <4> QED
          BY <4>1, <4>2
      <3>3. acked' \in [Actions -> BOOLEAN]
        BY <3>1, <3>2, Zenon
      <3> QED
        BY <3>1, <3>2, <3>3
    <2>4. reopened' \in SUBSET Actions
      BY <1>1, <1>6 DEF BrokerInv, TypeOK
    <2> QED
      BY <2>1, <2>2, <2>3, <2>4 DEF CommitReport, BrokerInv, TypeOK
  <1> HIDE DEF q, a, r, s
  <1>8. \A b \in Actions : Reopens(b) => b = a
    BY <1>4 DEF Reopens, Closed, InFlight
  <1>9. Quiet
    <2>1. ASSUME NEW b \in Actions
          PROVE  /\ row'[b] \in Rows /\ RowDecided(row'[b])
                 /\ row[b].status # "none" => row'[b].status # "none"
                 /\ ByOperator(row'[b]) => ByOperator(row[b]) \/ b \in reopened'
      <3>1. CASE b = a
        BY <1>3, <1>4, <1>6, <3>1 DEF Reopens
      <3>2. CASE b # a
        BY <1>1, <1>4, <3>2 DEF BrokerInv, Decided
      <3> QED
        BY <3>1, <3>2
    <2> QED
      BY <1>6, <2>1 DEF Quiet
  <1>10. HandlersAgree'
    <2>1. ASSUME NEW w \in Devices, serving'[w].id # NoAction
          PROVE  /\ DeviceOf[serving'[w].id] = w /\ RowDecided(serving'[w].read)
                 /\ serving'[w].read.status = "none" => row'[serving'[w].id] = NoRow
                 /\ serving'[w].read.status # "none" => row'[serving'[w].id].status # "none"
      <3>1. w # v /\ serving'[w] = serving[w]
        BY <1>5, <2>1
      <3>2. DeviceOf[serving[w].id] = w /\ serving[w].id \in Actions
        BY <1>1, <2>1, <3>1 DEF BrokerInv, HandlersAgree
      <3>3. row'[serving[w].id] = row[serving[w].id]
        BY <1>2, <1>4, <3>1, <3>2
      <3> QED
        BY <2>1, <3>1, <3>3 DEF BrokerInv, HandlersAgree
    <2>2. ASSUME NEW o \in Operators, op'[o].id # NoAction
          PROVE  row'[op'[o].id].status # "none"
      <3>1. op[o].id \in Actions /\ row[op[o].id].status # "none"
        BY <1>6, <2>2 DEF BrokerInv, TypeOK, HandlersAgree
      <3> QED
        BY <1>6, <1>9, <3>1 DEF Quiet
    <2>3. ASSUME NEW h \in Pollers, NEW x \in poll'[h].out
          PROVE  row'[x[1]].status # "none"
      <3>1. x[1] \in Actions /\ row[x[1]].status # "none"
        BY <1>6, <2>3 DEF BrokerInv, TypeOK, HandlersAgree
      <3> QED
        BY <1>9, <3>1 DEF Quiet
    <2> QED
      BY <2>1, <2>2, <2>3 DEF HandlersAgree
  <1>11. Decided'
    BY <1>9 DEF Quiet, Decided
  <1>12. \A b \in Actions : Reopens(b) => /\ a = b /\ serving'[v].id # b
                                          /\ r.status \notin Closed
    BY <1>1, <1>3, <1>4, <1>5, <1>8, ApprovalsAssumption DEF Reopens
  <1> QED
    BY <1>6, <1>7, <1>9, <1>10, <1>11, <1>12 DEF BrokerInv, a, r

\* The commit of a poll: quiet, and what goes back in flight was handed over
\* as approved.
LEMMA PollCommitEffect ==
    ASSUME BrokerInv, NEW h \in Pollers, PollCommit(h)
    PROVE  /\ TypeOK' /\ Quiet /\ SameKnown /\ HandlerStep
           /\ op' = op
           /\ \A a \in Actions : Reopens(a) => /\ <<a, "approved">> \in poll[h].out
                                              /\ <<a, "approved">> \notin poll'[h].out
  <1> DEFINE out == poll[h].out
             marked(a) == [row[a] EXCEPT
                            !.delivered = (row[a].delivered
                                           \/ \E d \in Decision : <<a, d>> \in out),
                            !.status = IF <<a, "approved">> \in out THEN "delivered"
                                       ELSE row[a].status]
  <1>1. /\ row' = [a \in Actions |-> marked(a)]
        /\ reopened' = reopened \cup {a \in Actions : Reopens(a)}
        /\ poll' = [poll EXCEPT ![h] = NoPoll]
        /\ op' = op /\ serving' = serving
    BY DEF PollCommit
  <1>2. /\ poll \in [Pollers -> [out : SUBSET (Actions \X Decision), heard : BOOLEAN]]
        /\ row \in [Actions -> Rows]
        /\ answers \in SUBSET (Actions \X Decision)
    BY DEF BrokerInv, TypeOK
  <1>3. poll'[h].out = {}
    BY <1>1, <1>2 DEF NoPoll
  <1>4. ASSUME NEW a \in Actions
        PROVE  /\ row'[a] \in Rows /\ RowDecided(row'[a])
               /\ row[a].status # "none" => row'[a].status # "none"
               /\ row[a].status = "none" => row'[a] = row[a]
               /\ ByOperator(row'[a]) => ByOperator(row[a]) \/ Reopens(a)
               /\ Reopens(a) => <<a, "approved">> \in out
    <2>1. row'[a] = marked(a)
      BY <1>1
    <2>2. row[a] \in Rows /\ RowDecided(row[a])
      BY <1>2 DEF BrokerInv, Decided
    <2>3. \A d : <<a, d>> \in out => row[a].status # "none"
      BY DEF BrokerInv, HandlersAgree
    <2>4. \E e \in BOOLEAN : /\ row'[a] = [row[a] EXCEPT !.delivered = e,
                                 !.status = IF <<a, "approved">> \in out THEN "delivered"
                                            ELSE row[a].status]
                             /\ row[a].status = "none" => e = row[a].delivered
      <3>1. row[a].delivered \in BOOLEAN
        BY <2>2 DEF Rows
      <3> QED
        BY <2>1, <2>3, <3>1
    <2> HIDE DEF marked, out
    <2>5. CASE <<a, "approved">> \in out
      BY <2>2, <2>3, <2>4, <2>5
         DEF Rows, RowStatus, Decision, RowDecided, ByOperator, Reopens, InFlight, Closed
    <2>6. CASE <<a, "approved">> \notin out
      <3>1. /\ row'[a] \in Rows
            /\ row'[a].status = row[a].status /\ row'[a].decision = row[a].decision
            /\ row'[a].by = row[a].by
            /\ row[a].status = "none" => row'[a].delivered = row[a].delivered
        BY <2>2, <2>4, <2>6 DEF Rows
      <3>2. row[a].status = "none" => row'[a] = row[a]
        BY <2>2, <3>1 DEF Rows
      <3> QED
        BY <2>2, <3>1, <3>2 DEF RowDecided, ByOperator, Reopens, InFlight, Closed
    <2> QED
      BY <2>5, <2>6
  <1>5. Quiet /\ SameKnown
    BY <1>1, <1>4 DEF Quiet, SameKnown
  <1>6. HandlerStep
    <2>1. ASSUME NEW k \in Pollers, NEW x \in poll'[k].out
          PROVE  x \in poll[k].out
      BY <1>1, <1>2, <1>3, <2>1
    <2> QED
      BY <1>1, <2>1 DEF HandlerStep
  <1>7. TypeOK'
    <2>1. row' \in [Actions -> Rows]
      <3>1. row' \in [Actions -> {row'[b] : b \in Actions}]
        BY <1>1
      <3> QED
        BY <1>4, <3>1
    <2>2. poll' \in [Pollers -> [out : SUBSET (Actions \X Decision), heard : BOOLEAN]]
      BY <1>1, <1>2 DEF NoPoll
    <2>3. answers' \in SUBSET (Actions \X Decision)
      BY <1>2 DEF PollCommit
    <2> QED
      BY <1>1, <2>1, <2>2, <2>3 DEF PollCommit, BrokerInv, TypeOK
  <1> QED
    BY <1>1, <1>3, <1>4, <1>5, <1>6, <1>7

\* A step that leaves the rows alone is quiet and reopens nothing.
LEMMA UnchangedQuiet ==
    ASSUME BrokerInv, row' = row, reopened' = reopened
    PROVE  Quiet /\ SameKnown /\ \A a \in Actions : ~Reopens(a)
  BY DEF Quiet, SameKnown, BrokerInv, TypeOK, Decided, Reopens, InFlight, Closed

-----------------------------------------------------------------------------
(* Operators.                                                              *)

\* The commit of an operator's request writes a well-formed row over one that
\* is there.
LEMMA CommitEffect ==
    ASSUME BrokerInv, NEW o \in Operators, Commit(o)
    PROVE  /\ BrokerInv'
           /\ op[o].id \in Actions /\ op'[o].id = NoAction
           /\ reopened' = reopened
           /\ \A b \in Actions :
                 /\ b # op[o].id => row'[b] = row[b]
                 /\ b = op[o].id => /\ row'[b].status = op[o].decision
                                    /\ row'[b].by = "operator"
  <1> DEFINE a == op[o].id
             d == op[o].decision
             q == [row[a] EXCEPT !.status = d, !.decision = d, !.by = "operator"]
  <1>1. /\ a \in Actions /\ d \in Decision
        /\ row \in [Actions -> Rows] /\ row[a] \in Rows
        /\ row' = [row EXCEPT ![a] = q]
        /\ op' = [op EXCEPT ![o] = OpIdle] /\ OpIdle.id = NoAction
        /\ op \in [Operators -> [id : Actions \cup {NoAction}, decision : Decision]]
        /\ serving' = serving /\ poll' = poll /\ reopened' = reopened
    BY DEF Commit, BrokerInv, TypeOK, OpIdle
  <1>2. row[a].status # "none"
    BY <1>1, ApprovalsAssumption DEF BrokerInv, HandlersAgree
  <1>3. /\ q \in Rows /\ RowDecided(q) /\ q.status = d /\ q.by = "operator"
        /\ q.status # "none"
    BY <1>1 DEF Rows, RowStatus, Decision, RowDecided
  <1> HIDE DEF q
  <1>4. \A b \in Actions : row'[b] = IF b = a THEN q ELSE row[b]
    BY <1>1
  <1>5. TypeOK'
    <2>1. row' \in [Actions -> Rows]
      BY <1>1, <1>3
    <2>2. op' \in [Operators -> [id : Actions \cup {NoAction}, decision : Decision]]
      BY <1>1 DEF OpIdle, Decision
    <2> QED
      BY <2>1, <2>2 DEF Commit, BrokerInv, TypeOK
  <1>6. Decided'
    BY <1>3, <1>4 DEF BrokerInv, Decided
  <1>7. HandlersAgree'
    <2>1. ASSUME NEW b \in Actions
          PROVE  /\ row[b].status # "none" => row'[b].status # "none"
                 /\ row[b] = NoRow => row'[b] = NoRow
      BY <1>2, <1>3, <1>4, NoRowIsNone
    <2>2. \A k \in Operators : op'[k].id # NoAction => op'[k] = op[k] /\ op[k].id \in Actions
      BY <1>1
    <2>3. \A w \in Devices : serving[w].id # NoAction => serving[w].id \in Actions
      BY DEF BrokerInv, TypeOK
    <2>4. \A h \in Pollers : \A x \in poll[h].out : x[1] \in Actions
      BY DEF BrokerInv, TypeOK
    <2> QED
      BY <1>1, <2>1, <2>2, <2>3, <2>4 DEF BrokerInv, HandlersAgree
  <1> QED
    BY <1>1, <1>3, <1>4, <1>5, <1>6, <1>7 DEF BrokerInv

\* A step other than a commit: an operator that newly holds an approval has
\* just passed the wave guard.
OpsStep ==
    \A o \in Operators :
        \/ op'[o] = op[o]
        \/ op'[o].id = NoAction
        \/ op'[o].decision = "denied"
        \/ op'[o].id \in Actions /\ WaveGuard(op'[o].id) /\ row' = row

\* Such a step, quiet on the rows, preserves the invariant.
LEMMA QuietPreserves ==
    ASSUME WaveInv, BrokerInv', Quiet, OpsStep
    PROVE  WaveInv'
  <1>1. OneWavePerDomain'
    <2>1. SUFFICES ASSUME NEW a \in Actions, NEW b \in Actions,
                          a \notin reopened', b \notin reopened',
                          a # b, SameDomain(a, b),
                          ByOperator(row'[a]), ByOperator(row'[b])
                   PROVE  FALSE
      BY DEF OneWavePerDomain, SameDomain, Members, ByOperator
    <2>2. ByOperator(row[a]) /\ ByOperator(row[b])
      BY <2>1 DEF Quiet
    <2>3. a \notin reopened /\ b \notin reopened
      BY <2>1 DEF Quiet
    <2> QED
      BY <2>1, <2>2, <2>3 DEF WaveInv, OneWavePerDomain, ByOperator
  <1>2. GuardHolds'
    <2>1. SUFFICES ASSUME NEW o \in Operators, NEW b \in Actions, b \notin reopened',
                          b # op'[o].id, op'[o].id # NoAction,
                          op'[o].decision = "approved",
                          SameDomain(op'[o].id, b),
                          ByOperator(row'[b])
                   PROVE  FALSE
      BY DEF GuardHolds, SameDomain, Members, ByOperator
    <2>2. ByOperator(row[b]) /\ b \notin reopened
      BY <2>1 DEF Quiet
    <2>3. CASE op'[o] = op[o]
      BY <2>1, <2>2, <2>3 DEF WaveInv, GuardHolds
    <2>4. CASE op'[o].id \in Actions /\ WaveGuard(op'[o].id) /\ row' = row
      BY <2>1, <2>2, <2>4 DEF WaveGuard, SameDomain, ByOperator
    <2> QED
      BY <2>1, <2>3, <2>4 DEF OpsStep
  <1> QED
    BY <1>1, <1>2 DEF WaveInv

\* A commit by the only operator there is: its guard has held since it read.
LEMMA CommitPreserves ==
    ASSUME WaveInv, NEW o \in Operators, Operators = {o}, Commit(o)
    PROVE  WaveInv'
  <1> DEFINE a == op[o].id
  <1>1. /\ BrokerInv' /\ a \in Actions /\ op'[o].id = NoAction /\ reopened' = reopened
        /\ \A b \in Actions :
              /\ b # a => row'[b] = row[b]
              /\ b = a => row'[b].status = op[o].decision /\ row'[b].by = "operator"
    BY CommitEffect DEF WaveInv
  <1>2. op[o].decision \in Decision
    BY DEF WaveInv, BrokerInv, TypeOK
  <1>3. ASSUME NEW b \in Actions, b \notin reopened, b # a, SameDomain(a, b),
               ByOperator(row'[a]), ByOperator(row'[b])
        PROVE  FALSE
    <2>1. row'[b] = row[b] /\ op[o].decision = "approved"
      BY <1>1, <1>2, <1>3 DEF ByOperator, InFlight, Decision
    <2> QED
      BY <1>1, <1>3, <2>1, ApprovalsAssumption DEF WaveInv, GuardHolds
  <1> HIDE DEF a
  <1>4. OneWavePerDomain'
    <2>1. SUFFICES ASSUME NEW x \in Actions, NEW y \in Actions,
                          x \notin reopened', y \notin reopened',
                          x # y, SameDomain(x, y),
                          ByOperator(row'[x]), ByOperator(row'[y])
                   PROVE  FALSE
      BY DEF OneWavePerDomain, SameDomain, Members, ByOperator
    <2>2. SameDomain(y, x)
      BY <2>1, SameDomainSymmetric
    <2>3. CASE x = a
      BY <1>1, <1>3, <2>1, <2>3
    <2>4. CASE y = a
      BY <1>1, <1>3, <2>1, <2>2, <2>4
    <2>5. CASE x # a /\ y # a
      <3>1. ByOperator(row[x]) /\ ByOperator(row[y]) /\ x \notin reopened /\ y \notin reopened
        BY <1>1, <2>1, <2>5
      <3> QED
        BY <2>1, <3>1 DEF WaveInv, OneWavePerDomain, ByOperator
    <2> QED
      BY <2>3, <2>4, <2>5
  <1>5. GuardHolds'
    BY <1>1 DEF GuardHolds
  <1> QED
    BY <1>1, <1>4, <1>5 DEF WaveInv

-----------------------------------------------------------------------------
(* One case per action: types, quiet rows, handlers, operators.            *)

\* An empty broker satisfies the inductive invariant.
LEMMA InitWave == Init => WaveInv
  <1> SUFFICES ASSUME Init PROVE WaveInv
    OBVIOUS
  <1> USE DEF Init, OpIdle, NoServe, NoPoll
  <1>1. TypeOK
    <2>1. row \in [Actions -> Rows]
      BY NoRowIsNone
    <2>2. serving \in [Devices -> [id : Actions \cup {NoAction}, status : AgentStatus,
                                   read : Rows]]
      BY NoRowIsNone DEF AgentStatus
    <2> QED
      BY <2>1, <2>2, ApprovalsAssumption DEF TypeOK, Decision
  <1>2. Decided
    BY NoRowIsNone DEF Decided
  <1>3. OneWavePerDomain
    BY NoRowIsNone DEF OneWavePerDomain, InFlight
  <1>4. GuardHolds
    BY DEF GuardHolds
  <1>5. HandlersAgree
    BY DEF HandlersAgree
  <1> QED
    BY <1>1, <1>2, <1>3, <1>4, <1>5 DEF WaveInv, BrokerInv

\* What any step but an operator's commit does.
OtherStep ==
    /\ BrokerInv' /\ Quiet /\ OpsStep
    /\ \A a \in Actions : Reopens(a) =>
          \/ \E v \in Devices : /\ serving[v].id = a /\ serving'[v].id # a
                                /\ serving[v].read.status \notin Closed
          \/ \E h \in Pollers : /\ <<a, "approved">> \in poll[h].out
                                /\ <<a, "approved">> \notin poll'[h].out

\* A step that leaves the rows alone is one, given its types, its handlers and
\* its operators.
LEMMA RowsAlone ==
    ASSUME BrokerInv, TypeOK', row' = row, reopened' = reopened, HandlerStep, OpsStep
    PROVE  OtherStep
  <1>1. Quiet /\ SameKnown /\ \A a \in Actions : ~Reopens(a)
    BY UnchangedQuiet
  <1> QED
    BY <1>1, HandlersKeepAgreeing DEF OtherStep

\* Every step other than an operator's commit keeps the types, changes rows
\* quietly, reopens a row only as a report or a poll that read it before, and
\* arms operators only behind the wave guard.
LEMMA OtherSteps ==
    ASSUME BrokerInv, [Next]_vars, ~ \E o \in Operators : Commit(o)
    PROVE  OtherStep
  <1> USE ApprovalsAssumption
  <1>1. CASE UNCHANGED vars
    <2>1. TypeOK' /\ HandlerStep /\ OpsStep
      BY <1>1 DEF vars, handlers, BrokerInv, TypeOK, HandlerStep, OpsStep
    <2> QED
      BY <1>1, <2>1, RowsAlone DEF vars
  <1>2. ASSUME NEW a \in Actions, AgentStep(a)
        PROVE  OtherStep
    <2>1. \E s \in AgentStatus : Becomes(a, s)
      BY <1>2 DEF AgentStep, Propose, LocalDecide, Execute, Finish, AgentStatus
    <2>2. HandlerStep /\ OpsStep /\ row' = row /\ reopened' = reopened
      BY <2>1 DEF Becomes, handlers, HandlerStep, OpsStep
    <2>3. TypeOK'
      BY <2>1 DEF BrokerInv, TypeOK, Becomes, handlers
    <2> QED
      BY <2>2, <2>3, RowsAlone
  <1>3. ASSUME NEW a \in Actions, SendReport(a)
        PROVE  OtherStep
    <2>1. TypeOK'
      BY <1>3 DEF BrokerInv, TypeOK, SendReport, handlers
    <2>2. HandlerStep /\ OpsStep /\ row' = row /\ reopened' = reopened
      BY <1>3 DEF SendReport, handlers, HandlerStep, OpsStep
    <2> QED
      BY <2>1, <2>2, RowsAlone
  <1>4. ASSUME NEW a \in Actions, NEW s \in AgentStatus, ReadReport(a, s)
        PROVE  OtherStep
    <2>1. /\ DeviceOf[a] \in Devices
          /\ serving' = [serving EXCEPT ![DeviceOf[a]] =
                           [id |-> a, status |-> s, read |-> row[a]]]
          /\ row' = row /\ op' = op /\ poll' = poll /\ reopened' = reopened
      BY <1>4 DEF ReadReport
    <2>2. TypeOK'
      <3>1. serving' \in [Devices -> [id : Actions \cup {NoAction}, status : AgentStatus,
                                      read : Rows]]
        BY <2>1 DEF BrokerInv, TypeOK
      <3> QED
        BY <1>4, <3>1 DEF BrokerInv, TypeOK, ReadReport
    <2>3. HandlerStep /\ OpsStep
      <3>1. \A v \in Devices :
               \/ serving'[v] = serving[v]
               \/ /\ serving'[v].id \in Actions /\ DeviceOf[serving'[v].id] = v
                  /\ serving'[v].read = row'[serving'[v].id]
        BY <2>1 DEF BrokerInv, TypeOK
      <3> QED
        BY <2>1, <3>1 DEF HandlerStep, OpsStep
    <2> QED
      BY <2>1, <2>2, <2>3, RowsAlone
  <1>5. ASSUME NEW v \in Devices, NEW heard \in BOOLEAN, CommitReport(v, heard)
        PROVE  OtherStep
    BY <1>5, CommitReportEffect DEF OtherStep, OpsStep
  <1>6. ASSUME NEW v \in Devices, ReportFails(v)
        PROVE  OtherStep
    <2>1. TypeOK'
      <3>1. serving' \in [Devices -> [id : Actions \cup {NoAction}, status : AgentStatus,
                                      read : Rows]]
        BY <1>6, NoRowIsNone DEF ReportFails, NoServe, AgentStatus, BrokerInv, TypeOK
      <3> QED
        BY <1>6, <3>1 DEF BrokerInv, TypeOK, ReportFails
    <2>2. HandlerStep /\ OpsStep /\ row' = row /\ reopened' = reopened
      BY <1>6 DEF ReportFails, NoServe, HandlerStep, OpsStep, BrokerInv, TypeOK
    <2> QED
      BY <2>1, <2>2, RowsAlone
  <1>7. ASSUME NEW a \in Actions, NEW s \in AgentStatus, ReportLost(a, s)
        PROVE  OtherStep
    <2>1. TypeOK'
      BY <1>7 DEF BrokerInv, TypeOK, ReportLost, handlers
    <2>2. HandlerStep /\ OpsStep /\ row' = row /\ reopened' = reopened
      BY <1>7 DEF ReportLost, handlers, HandlerStep, OpsStep
    <2> QED
      BY <2>1, <2>2, RowsAlone
  <1>8. ASSUME NEW h \in Pollers, NEW v \in Devices, PollRead(h, v)
        PROVE  OtherStep
    <2> DEFINE out == {<<a, row[a].decision>> : a \in Undelivered(v)}
    <2>1. /\ poll' = [poll EXCEPT ![h] = [out |-> out, heard |-> TRUE]]
          /\ row' = row /\ op' = op /\ serving' = serving /\ reopened' = reopened
      BY <1>8 DEF PollRead
    <2>2. \A a \in Undelivered(v) : /\ a \in Actions /\ row[a].decision \in Decision
                                    /\ row[a].status # "none"
      BY DEF Undelivered, BrokerInv, TypeOK, Decided, RowDecided, Rows, Decision
    <2>3. out \in SUBSET (Actions \X Decision)
      <3>1. \A a \in Undelivered(v) : <<a, row[a].decision>> \in Actions \X Decision
        BY <2>2
      <3> HIDE DEF Decision
      <3> QED
        BY <3>1, Zenon
    <2>4. \A x \in out : row[x[1]].status # "none"
      BY <2>2
    <2> HIDE DEF out
    <2>5. TypeOK'
      <3>1. poll' \in [Pollers -> [out : SUBSET (Actions \X Decision), heard : BOOLEAN]]
        BY <2>1, <2>3 DEF BrokerInv, TypeOK
      <3> QED
        BY <1>8, <3>1 DEF BrokerInv, TypeOK, PollRead
    <2>6. HandlerStep /\ OpsStep
      <3>1. \A k \in Pollers : \A x \in poll'[k].out :
               x \in poll[k].out \/ row[x[1]].status # "none"
        BY <2>1, <2>4 DEF BrokerInv, TypeOK
      <3> QED
        BY <2>1, <3>1 DEF HandlerStep, OpsStep
    <2> QED
      BY <2>1, <2>5, <2>6, RowsAlone
  <1>9. ASSUME NEW h \in Pollers, PollCommit(h)
        PROVE  OtherStep
    <2>1. /\ TypeOK' /\ Quiet /\ SameKnown /\ HandlerStep /\ op' = op
          /\ \A a \in Actions : Reopens(a) => /\ <<a, "approved">> \in poll[h].out
                                              /\ <<a, "approved">> \notin poll'[h].out
      BY <1>9, PollCommitEffect
    <2>2. BrokerInv'
      BY <2>1, HandlersKeepAgreeing
    <2> QED
      BY <2>1, <2>2 DEF OtherStep, OpsStep
  <1>10. ASSUME NEW h \in Pollers, PollFails(h)
         PROVE  OtherStep
    <2>1. /\ poll' = [poll EXCEPT ![h] = NoPoll]
          /\ poll \in [Pollers -> [out : SUBSET (Actions \X Decision), heard : BOOLEAN]]
          /\ row' = row /\ op' = op /\ serving' = serving /\ reopened' = reopened
      BY <1>10 DEF PollFails, BrokerInv, TypeOK
    <2>2. TypeOK'
      <3>1. poll' \in [Pollers -> [out : SUBSET (Actions \X Decision), heard : BOOLEAN]]
        BY <2>1 DEF NoPoll
      <3>2. polling' \in SUBSET Devices
        BY <1>10 DEF PollFails, BrokerInv, TypeOK
      <3> QED
        BY <1>10, <3>1, <3>2 DEF BrokerInv, TypeOK, PollFails
    <2>3. HandlerStep /\ OpsStep
      BY <2>1 DEF HandlerStep, OpsStep, NoPoll
    <2> QED
      BY <2>1, <2>2, <2>3, RowsAlone
  <1>11. ASSUME NEW v \in Devices, ApplyDecisions(v)
         PROVE  OtherStep
    <2>1. TypeOK'
      <3>1. agent' \in [Actions -> AgentStatus \cup {"NEW"}]
        BY <1>11 DEF ApplyDecisions, BrokerInv, TypeOK, AgentStatus
      <3>2. acked' \in [Actions -> BOOLEAN]
        <4>1. acked' = [a \in Actions |-> acked[a] /\ agent'[a] = agent[a]]
          BY <1>11 DEF ApplyDecisions
        <4> QED
          BY <4>1
      <3> QED
        BY <1>11, <3>1, <3>2 DEF BrokerInv, TypeOK, ApplyDecisions, Mine
    <2>2. HandlerStep /\ OpsStep /\ row' = row /\ reopened' = reopened
      BY <1>11 DEF ApplyDecisions, HandlerStep, OpsStep
    <2> QED
      BY <2>1, <2>2, RowsAlone
  <1>12. ASSUME NEW v \in Devices, DecisionsLost(v) \/ Restart(v)
         PROVE  OtherStep
    <2>1. /\ StopsWaiting(v)
          /\ row' = row /\ op' = op /\ serving' = serving /\ reopened' = reopened
          /\ reports' = reports /\ losses' = losses + 1
      BY <1>12 DEF DecisionsLost, Restart
    <2>2. /\ poll' \in [Pollers -> [out : SUBSET (Actions \X Decision), heard : BOOLEAN]]
          /\ \A h \in Pollers : poll'[h].out = poll[h].out
      <3>1. ASSUME NEW h \in Pollers
            PROVE  /\ poll'[h] \in [out : SUBSET (Actions \X Decision), heard : BOOLEAN]
                   /\ poll'[h].out = poll[h].out
        <4> DEFINE e == poll[h].heard /\ \A x \in poll[h].out : DeviceOf[x[1]] # v
        <4>1. poll'[h] = [poll[h] EXCEPT !.heard = e]
          BY <2>1 DEF StopsWaiting
        <4>2. e \in BOOLEAN
          OBVIOUS
        <4> HIDE DEF e
        <4> QED
          BY <4>1, <4>2 DEF BrokerInv, TypeOK
      <3>2. poll' \in [Pollers -> {poll'[h] : h \in Pollers}]
        BY <2>1 DEF StopsWaiting
      <3> QED
        BY <3>1, <3>2
    <2>3. polling' \in SUBSET Devices /\ answers' \in SUBSET (Actions \X Decision)
      BY <2>1 DEF StopsWaiting, Mine, BrokerInv, TypeOK
    <2>4. agent' \in [Actions -> AgentStatus \cup {"NEW"}] /\ acked' \in [Actions -> BOOLEAN]
      <3>1. CASE DecisionsLost(v)
        BY <3>1 DEF DecisionsLost, BrokerInv, TypeOK
      <3>2. CASE Restart(v)
        BY <3>2 DEF Restart, BrokerInv, TypeOK, AgentStatus
      <3> QED
        BY <1>12, <3>1, <3>2
    <2>5. TypeOK'
      BY <2>1, <2>2, <2>3, <2>4 DEF BrokerInv, TypeOK
    <2>6. HandlerStep /\ OpsStep
      BY <2>1, <2>2 DEF HandlerStep, OpsStep
    <2> QED
      BY <2>1, <2>5, <2>6, RowsAlone
  <1>13. ASSUME NEW o \in Operators, NEW a \in Actions,
                ApproveRead(o, a) \/ DenyRead(o, a)
         PROVE  OtherStep
    <2>1. /\ row' = row /\ serving' = serving /\ poll' = poll /\ reopened' = reopened
          /\ row[a].status # "none"
          /\ \/ op' = [op EXCEPT ![o] = [id |-> a, decision |-> "approved"]] /\ WaveGuard(a)
             \/ op' = [op EXCEPT ![o] = [id |-> a, decision |-> "denied"]]
      BY <1>13 DEF ApproveRead, DenyRead
    <2>2. op \in [Operators -> [id : Actions \cup {NoAction}, decision : Decision]]
      BY DEF BrokerInv, TypeOK
    <2>3. TypeOK'
      <3>1. op' \in [Operators -> [id : Actions \cup {NoAction}, decision : Decision]]
        BY <2>1, <2>2 DEF Decision
      <3> QED
        BY <1>13, <3>1 DEF BrokerInv, TypeOK, ApproveRead, DenyRead
    <2>4. HandlerStep /\ OpsStep
      <3>1. \A k \in Operators : k # o => op'[k] = op[k]
        BY <2>1, <2>2
      <3>2. /\ op'[o].id = a
            /\ op'[o].decision = "denied" \/ WaveGuard(a)
        BY <2>1, <2>2
      <3> QED
        BY <2>1, <3>1, <3>2 DEF HandlerStep, OpsStep
    <2> QED
      BY <2>1, <2>3, <2>4, RowsAlone
  <1> QED
    BY <1>1, <1>2, <1>3, <1>4, <1>5, <1>6, <1>7, <1>8, <1>9, <1>10, <1>11, <1>12, <1>13
       DEF Next, Serve, Answer, StartPoll

-----------------------------------------------------------------------------
\* The broker's state is well typed and its handlers know what they must,
\* however many operators, reports and polls race.
THEOREM SiteTypes == Spec => []BrokerInv
  <1>1. Init => BrokerInv
    BY InitWave DEF WaveInv
  <1>2. BrokerInv /\ [Next]_vars => BrokerInv'
    <2> SUFFICES ASSUME BrokerInv, [Next]_vars PROVE BrokerInv'
      OBVIOUS
    <2>1. CASE \E o \in Operators : Commit(o)
      BY <2>1, CommitEffect
    <2>2. CASE ~ \E o \in Operators : Commit(o)
      BY <2>2, OtherSteps DEF OtherStep
    <2> QED
      BY <2>1, <2>2
  <1> QED
    BY <1>1, <1>2, PTL DEF Spec

\* approvals.py, _wave_guard: where operator requests never overlap (one
\* request at a time), two operator-approved actions of one fault domain are
\* never in flight together, for all devices, domains, overlapping reports and
\* polls, losses and restarts, unless a report or a poll put one of them back
\* in flight over a row that had been closed since it was read.
THEOREM WaveGuardSuffices ==
    ASSUME NEW o1 \in Operators, Operators = {o1}
    PROVE  Spec => []OneWavePerDomain
  <1>1. Init => WaveInv
    BY InitWave
  <1>2. WaveInv /\ [Next]_vars => WaveInv'
    <2> SUFFICES ASSUME WaveInv, [Next]_vars PROVE WaveInv'
      OBVIOUS
    <2>1. CASE \E o \in Operators : Commit(o)
      <3>1. Commit(o1)
        BY <2>1
      <3> QED
        BY <3>1, CommitPreserves
    <2>2. CASE ~ \E o \in Operators : Commit(o)
      BY <2>2, OtherSteps, QuietPreserves DEF WaveInv, OtherStep
    <2> QED
      BY <2>1, <2>2
  <1>3. WaveInv => OneWavePerDomain
    BY DEF WaveInv
  <1> QED
    BY <1>1, <1>2, <1>3, PTL DEF Spec

\* _apply_agent_status and poll_decisions: whatever is lost, late, repeated or
\* overlapping, a closed row goes back in flight only by the commit of a
\* request that read it before it was closed.
THEOREM ReopeningIsStale == Spec => OnlyStaleCommitsReopen
  <1> DEFINE Step == \A a \in Actions :
                        row[a].status \in Closed /\ row'[a].status \in InFlight
                        => \/ \E o \in Operators : op[o].id = a /\ op'[o].id # a
                           \/ \E v \in Devices : /\ serving[v].id = a /\ serving'[v].id # a
                                                 /\ serving[v].read.status \notin Closed
                           \/ \E h \in Pollers : /\ <<a, "approved">> \in poll[h].out
                                                 /\ <<a, "approved">> \notin poll'[h].out
  <1>1. BrokerInv /\ [Next]_vars => [Step]_vars
    <2> SUFFICES ASSUME BrokerInv, [Next]_vars PROVE Step
      OBVIOUS
    <2>1. CASE \E o \in Operators : Commit(o)
      <3>1. PICK o \in Operators : Commit(o)
        BY <2>1
      <3>2. /\ op[o].id \in Actions /\ op'[o].id # op[o].id
            /\ \A b \in Actions : b # op[o].id => row'[b] = row[b]
        BY <3>1, CommitEffect, ApprovalsAssumption
      <3> QED
        BY <3>2 DEF Closed, InFlight
    <2>2. CASE ~ \E o \in Operators : Commit(o)
      BY <2>2, OtherSteps DEF OtherStep, Reopens
    <2> QED
      BY <2>1, <2>2
  <1> QED
    BY <1>1, SiteTypes, PTL DEF Spec, OnlyStaleCommitsReopen

=============================================================================
