------------------------ MODULE ExecutionGateProofs ------------------------
(***************************************************************************)
(* Proofs that a halt and a drop-back fence the node off within the time   *)
(* HaltFences and DropBackFences name, for every lease, grace and reply    *)
(* time, every set of actions and every number of disruptions; and that    *)
(* the rate limit holds for every window, cooldown and limit that the      *)
(* limiter's history can hold, while a larger one refuses nothing.         *)
(*                                                                         *)
(* The invariant follows a grant from where it is read to where it is      *)
(* used.  What a heartbeat carries was true at some moment after it was    *)
(* sent, so an answer without a stop was sent while the site was open; the *)
(* call's deadline bounds the age of what the node takes over.             *)
(***************************************************************************)
EXTENDS ExecutionGate, FiniteSetTheorems, TLAPS

\* The histories are at most the clock's time, and equal it while the site is
\* open, or the class granted.
ClockInv ==
    /\ now \in Nat /\ lastOpen \in Nat /\ lastGranted \in Nat
    /\ lastOpen <= now /\ lastGranted <= now
    /\ ~Halted => lastOpen = now
    /\ ~dropped => lastGranted = now

\* A lease that carries a permission is no older than the permission's last
\* moment, up to `slack'.
Permits(l, slack) ==
    /\ l.at \in Nat
    /\ ~l.stop => l.at <= lastOpen + slack
    /\ l.budget => l.at <= lastGranted + slack

\* What the heartbeat has read so far was true when it was read.
CallInv ==
    /\ hb.sent \in Nat /\ hb.sent <= now
    /\ hb.pc \in {"budget", "halt"} => (hb.budget => hb.sent <= lastGranted)
    /\ hb.pc = "halt" => (~hb.stop => hb.sent <= lastOpen)
    /\ hb.pc = "answered" /\ hb.lease # NoLease =>
         /\ hb.lease.at \in Nat /\ hb.lease.at <= now
         /\ ~hb.lease.stop => hb.sent <= lastOpen
         /\ hb.lease.budget => hb.sent <= lastGranted

LeaseInv == lease # NoLease => Permits(lease, ReplyTime)

FenceInv == ClockInv /\ CallInv /\ LeaseInv

\* The shape of the heartbeat record, which its updates need.
CallType ==
    hb \in [pc : {"idle", "sent", "budget", "halt", "answered", "broken"},
            sent : Nat, budget : BOOLEAN, stop : BOOLEAN,
            lease : Leases \cup {NoLease}]

WorkType == work \in [Works -> {"new", "queued", "running", "succeeded", "failed", "done"}]

-----------------------------------------------------------------------------
\* Histories only move forward, and only by what the new state says.
LEMMA HistoriesAdvance ==
    ASSUME ClockInv, Record, now' \in Nat, now <= now'
    PROVE  ClockInv' /\ lastOpen <= lastOpen' /\ lastGranted <= lastGranted'
BY DEF ClockInv, Record

\* A lease keeps its permissions' ages as the histories advance.
LEMMA LeaseKept ==
    ASSUME ClockInv, ClockInv', LeaseInv, lease' = lease, ReplyTime \in Nat,
           lastOpen <= lastOpen', lastGranted <= lastGranted'
    PROVE  LeaseInv'
BY DEF ClockInv, LeaseInv, Permits

\* So does a call.
LEMMA CallKept ==
    ASSUME ClockInv, ClockInv', CallInv, hb' = hb, now <= now',
           lastOpen <= lastOpen', lastGranted <= lastGranted'
    PROVE  CallInv'
BY DEF ClockInv, CallInv

\* A call that has read nothing claims nothing.
LEMMA FreshCall ==
    ASSUME hb'.sent \in Nat, hb'.sent <= now', hb'.pc \in {"idle", "sent", "broken"}
    PROVE  CallInv'
BY DEF CallInv

-----------------------------------------------------------------------------
\* The heartbeat record keeps its shape.
LEMMA CallTypeStep ==
    ASSUME CallType, now \in Nat, [GateNext]_gateVars
    PROVE  CallType'
<1>n. NoLease \in Leases \cup {NoLease}
  OBVIOUS
<1>i. ASSUME hb' = NoCall PROVE CallType'
  BY <1>i, <1>n DEF CallType, NoCall
<1>u. ASSUME UNCHANGED hb PROVE CallType'
  BY <1>u DEF CallType
<1>1. CASE HeartbeatSend
  BY <1>1, <1>n DEF HeartbeatSend, CallType, NoCall
<1>2. ASSUME NEW b \in BOOLEAN, ReadBudget(b) PROVE CallType'
  <2>1. (~(dropped \/ b)) \in BOOLEAN
    OBVIOUS
  <2> QED BY <1>2, <2>1 DEF ReadBudget, CallType
<1>3. ASSUME NEW b \in BOOLEAN, ReadHalt(b) PROVE CallType'
  <2>1. (Halted \/ b) \in BOOLEAN
    BY DEF Halted
  <2> QED BY <1>3, <2>1 DEF ReadHalt, CallType
<1>4. ASSUME NEW b \in BOOLEAN, Issue(b) PROVE CallType'
  <2> DEFINE l == IF b THEN NoLease ELSE [stop |-> hb.stop, budget |-> hb.budget, at |-> now]
  <2>1. l \in Leases \cup {NoLease}
    BY DEF CallType, Leases
  <2>2. hb' = [NoCall EXCEPT !.pc = "answered", !.sent = hb.sent, !.lease = l]
    BY <1>4 DEF Issue
  <2> HIDE DEF l
  <2> QED BY <2>1, <2>2 DEF CallType, NoCall
<1>5. CASE LeaseArrives \/ HeartbeatFails \/ NodeRestart
  BY <1>5, <1>i DEF LeaseArrives, HeartbeatFails, NodeRestart
<1>6. CASE SmRestartBreaks
  BY <1>6, <1>n DEF SmRestartBreaks, CallType, NoCall
<1>7. CASE \/ Switching /\ UNCHANGED <<now, budgetVars, hb, nodeVars>>
           \/ RecoverGrant \/ Tick \/ UNCHANGED gateVars
  BY <1>7, <1>u DEF RecoverGrant, Tick, gateVars
<1>8. ASSUME NEW w \in Works, Arrive(w) \/ Start(w) \/ Refuse(w) \/ ReportOutcome(w)
      PROVE  CallType'
  BY <1>8, <1>u DEF Arrive, Start, Refuse, ReportOutcome
<1>9. ASSUME NEW w \in Works, NEW good \in BOOLEAN, Finish(w, good) PROVE CallType'
  BY <1>9, <1>u DEF Finish
<1> QED
  BY <1>1, <1>2, <1>3, <1>4, <1>5, <1>6, <1>7, <1>8, <1>9
  DEF GateNext, Step, SiteManager, Heartbeats, Node

\* So do the actions' stages.
LEMMA WorkTypeStep ==
    ASSUME WorkType, [GateNext]_gateVars
    PROVE  WorkType'
<1>u. ASSUME work' = work PROVE WorkType'
  BY <1>u DEF WorkType
<1>1. CASE SiteManager \/ Heartbeats \/ Tick \/ UNCHANGED gateVars
  BY <1>1, <1>u DEF SiteManager, SmRestartBreaks, RecoverGrant, Heartbeats, HeartbeatSend,
       LeaseArrives, HeartbeatFails, ReadBudget, ReadHalt, Issue, Tick, nodeVars, gateVars
<1>2. CASE NodeRestart
  BY <1>2 DEF NodeRestart, WorkType
<1>3. ASSUME NEW w \in Works, Arrive(w) \/ Start(w) \/ Refuse(w) \/ ReportOutcome(w)
      PROVE  WorkType'
  BY <1>3 DEF Arrive, Start, Refuse, ReportOutcome, WorkType
<1>4. ASSUME NEW w \in Works, NEW good \in BOOLEAN, Finish(w, good) PROVE WorkType'
  BY <1>4 DEF Finish, WorkType
<1> QED BY <1>1, <1>2, <1>3, <1>4 DEF GateNext, Step, Node

-----------------------------------------------------------------------------
\* Time does not run backwards.
LEMMA TimeAdvances ==
    ASSUME ClockInv, GateNext
    PROVE  now' \in Nat /\ now <= now'
<1>u. ASSUME now' = now PROVE now' \in Nat /\ now <= now'
  BY <1>u DEF ClockInv
<1>1. CASE SiteManager
  BY <1>1, <1>u DEF SiteManager, SmRestartBreaks, RecoverGrant
<1>2. CASE Heartbeats
  BY <1>2, <1>u DEF Heartbeats, HeartbeatSend, LeaseArrives, HeartbeatFails,
                    ReadBudget, ReadHalt, Issue
<1>3. CASE Node
  BY <1>3, <1>u DEF Node, Arrive, Start, Refuse, ReportOutcome, Finish, NodeRestart
<1>4. CASE Tick
  BY <1>4 DEF Tick, ClockInv
<1> QED BY <1>1, <1>2, <1>3, <1>4 DEF GateNext, Step

\* Every step keeps the fence: reading and issuing build the claim up, the
\* deadline turns it into the lease's age, and nothing else touches it.
LEMMA FenceStep ==
    ASSUME CallType, FenceInv, [GateNext]_gateVars
    PROVE  FenceInv'
<1>r. ReplyTime \in Nat
  BY GateAssumption
<1>s. CASE UNCHANGED gateVars
  BY <1>s DEF gateVars, switchVars, budgetVars, nodeVars, FenceInv, ClockInv, CallInv,
              LeaseInv, Permits, Halted
<1>n. CASE GateNext
  <2>1. now' \in Nat /\ now <= now'
    BY <1>n, TimeAdvances DEF FenceInv
  <2>2. ClockInv' /\ lastOpen <= lastOpen' /\ lastGranted <= lastGranted'
    BY <1>n, <2>1, HistoriesAdvance DEF FenceInv, GateNext
  <2>l. ASSUME lease' = lease PROVE LeaseInv'
    BY <1>r, <2>2, <2>l, LeaseKept DEF FenceInv
  <2>h. ASSUME hb' = hb PROVE CallInv'
    BY <2>1, <2>2, <2>h, CallKept DEF FenceInv
  <2>i. ASSUME hb' = NoCall PROVE CallInv'
    BY <2>1, <2>i, FreshCall DEF NoCall
  <2>3. CASE Switching /\ UNCHANGED <<now, budgetVars, hb, nodeVars>>
    BY <2>2, <2>3, <2>l, <2>h DEF FenceInv, nodeVars
  <2>4. CASE SmRestartBreaks
    <3>1. CallInv'
      BY <2>1, <2>4, <2>h, FreshCall DEF SmRestartBreaks, NoCall
    <3> QED BY <2>2, <2>4, <2>l, <3>1 DEF SmRestartBreaks, FenceInv, nodeVars
  <2>5. CASE RecoverGrant \/ Tick
    BY <2>2, <2>5, <2>l, <2>h DEF RecoverGrant, Tick, FenceInv, nodeVars
  <2>6. CASE HeartbeatSend
    <3>1. CallInv'
      BY <2>1, <2>6, FreshCall DEF HeartbeatSend, NoCall, FenceInv, ClockInv
    <3> QED BY <2>2, <2>6, <2>l, <3>1 DEF HeartbeatSend, FenceInv, nodeVars
  <2>7. ASSUME NEW b \in BOOLEAN, ReadBudget(b) PROVE FenceInv'
    <3>1. hb'.pc = "budget" /\ hb'.sent = hb.sent /\ (hb'.budget => ~dropped)
      BY <2>7 DEF ReadBudget, CallType
    <3>2. CallInv'
      BY <2>1, <2>2, <3>1 DEF CallInv, FenceInv, ClockInv
    <3> QED BY <2>2, <2>7, <2>l, <3>2 DEF ReadBudget, FenceInv, nodeVars
  <2>8. ASSUME NEW b \in BOOLEAN, ReadHalt(b) PROVE FenceInv'
    <3>1. /\ hb.pc = "budget"
          /\ hb'.pc = "halt" /\ hb'.sent = hb.sent /\ hb'.budget = hb.budget
          /\ ~hb'.stop => ~Halted
      BY <2>8 DEF ReadHalt, CallType
    <3>2. CallInv'
      BY <2>1, <2>2, <3>1 DEF CallInv, FenceInv, ClockInv
    <3> QED BY <2>2, <2>8, <2>l, <3>2 DEF ReadHalt, FenceInv, nodeVars
  <2>9. ASSUME NEW b \in BOOLEAN, Issue(b) PROVE FenceInv'
    <3>1. /\ hb.pc = "halt"
          /\ hb'.pc = "answered" /\ hb'.sent = hb.sent
          /\ hb'.lease # NoLease => /\ hb'.lease.at = now
                                    /\ hb'.lease.stop = hb.stop
                                    /\ hb'.lease.budget = hb.budget
      BY <2>9 DEF Issue, CallType, NoCall
    <3>2. CallInv'
      BY <2>1, <2>2, <3>1 DEF CallInv, FenceInv, ClockInv
    <3> QED BY <2>2, <2>9, <2>l, <3>2 DEF Issue, FenceInv, nodeVars
  <2>10. CASE LeaseArrives
    <3>1. LeaseInv'
      <4>1. CASE hb.lease = NoLease
        BY <2>10, <4>1, <2>l DEF LeaseArrives
      <4>2. CASE hb.lease # NoLease
        BY <1>r, <2>2, <2>10, <4>2
        DEF LeaseArrives, FenceInv, CallInv, ClockInv, LeaseInv, Permits
      <4> QED BY <4>1, <4>2
    <3> QED BY <2>2, <2>10, <2>i, <3>1 DEF LeaseArrives, FenceInv
  <2>11. CASE HeartbeatFails
    BY <2>2, <2>11, <2>l, <2>i DEF HeartbeatFails, FenceInv
  <2>12. CASE NodeRestart
    BY <2>2, <2>12, <2>i DEF NodeRestart, FenceInv, LeaseInv
  <2>13. ASSUME NEW w \in Works, Arrive(w) \/ Start(w) \/ Refuse(w) \/ ReportOutcome(w)
         PROVE  FenceInv'
    BY <2>2, <2>13, <2>l, <2>h DEF Arrive, Start, Refuse, ReportOutcome, FenceInv
  <2>14. ASSUME NEW w \in Works, NEW good \in BOOLEAN, Finish(w, good) PROVE FenceInv'
    BY <2>2, <2>14, <2>l, <2>h DEF Finish, FenceInv
  <2> QED
    BY <1>n, <2>3, <2>4, <2>5, <2>6, <2>7, <2>8, <2>9, <2>10, <2>11, <2>12, <2>13, <2>14
    DEF GateNext, Step, SiteManager, Heartbeats, Node
<1> QED BY <1>s, <1>n

\* The initial states are open and granted, and nothing is held.
LEMMA FenceInit == GateInit => CallType /\ WorkType /\ FenceInv
<1> SUFFICES ASSUME GateInit PROVE CallType /\ WorkType /\ FenceInv
  OBVIOUS
<1>1. CallType /\ WorkType
  BY DEF GateInit, CallType, NoCall, WorkType
<1>2. ClockInv
  BY DEF GateInit, ClockInv
<1>3. CallInv /\ LeaseInv
  BY DEF GateInit, CallInv, LeaseInv, NoCall
<1> QED BY <1>1, <1>2, <1>3 DEF FenceInv

-----------------------------------------------------------------------------
\* A start under FenceInv comes before both deadlines.
LEMMA StartIsFenced ==
    ASSUME WorkType, FenceInv, GateNext, NEW w \in Works, Starts(w), lease # NoLease
    PROVE  /\ now < lastOpen + ReplyTime + LeaseTime + GraceTime
           /\ Basis[w] = "autonomous_grant" => now < lastGranted + ReplyTime + LeaseTime
<1>t. ReplyTime \in Nat /\ LeaseTime \in Nat /\ GraceTime \in Nat
  BY GateAssumption
<1>1. LeaseGate(w)
  <2>u. ASSUME work' = work PROVE FALSE
    BY <2>u DEF Starts
  <2>1. CASE SiteManager \/ Heartbeats \/ Tick
    BY <2>1, <2>u DEF SiteManager, SmRestartBreaks, RecoverGrant, Heartbeats, HeartbeatSend,
         LeaseArrives, HeartbeatFails, ReadBudget, ReadHalt, Issue, Tick, nodeVars
  <2>2. ASSUME NodeRestart PROVE FALSE
    <3>1. work'[w] = IF work[w] = "running" THEN "done" ELSE work[w]
      BY <2>2 DEF NodeRestart
    <3> QED BY <3>1 DEF Starts
  <2>3. ASSUME NEW x \in Works, Start(x) PROVE LeaseGate(w)
    <3>1. CASE x = w
      BY <2>3, <3>1 DEF Start
    <3>2. CASE x # w
      BY <2>3, <3>2 DEF Start, Starts, WorkType
    <3> QED BY <3>1, <3>2
  <2>4. ASSUME NEW x \in Works, Arrive(x) \/ Refuse(x) \/ ReportOutcome(x) PROVE FALSE
    BY <2>4 DEF Arrive, Refuse, ReportOutcome, Starts, WorkType
  <2>5. ASSUME NEW x \in Works, NEW good \in BOOLEAN, Finish(x, good) PROVE FALSE
    BY <2>5 DEF Finish, Starts, WorkType
  <2> QED BY <2>1, <2>2, <2>3, <2>4, <2>5 DEF GateNext, Step, Node
<1>2. ~lease.stop /\ ~FullyExpired
  BY <1>1 DEF LeaseGate
<1>3. lease.at \in Nat /\ lease.at <= lastOpen + ReplyTime
  BY <1>2 DEF FenceInv, LeaseInv, Permits
<1>4. now < lastOpen + ReplyTime + LeaseTime + GraceTime
  BY <1>t, <1>2, <1>3 DEF FullyExpired, FenceInv, ClockInv
<1>5. ASSUME Basis[w] = "autonomous_grant"
      PROVE  now < lastGranted + ReplyTime + LeaseTime
  <2>1. lease.budget /\ ~Expired
    BY <1>1, <1>5 DEF LeaseGate, LeaseExecutes
  <2>2. lease.at <= lastGranted + ReplyTime
    BY <2>1 DEF FenceInv, LeaseInv, Permits
  <2> QED BY <1>t, <1>3, <2>1, <2>2 DEF Expired, FenceInv, ClockInv
<1> QED BY <1>4, <1>5

\* The invariant holds in every reachable state.
LEMMA Fenced == GateSpec => [](CallType /\ WorkType /\ FenceInv)
<1>1. ASSUME CallType, WorkType, FenceInv, [GateNext]_gateVars
      PROVE  CallType' /\ WorkType' /\ FenceInv'
  BY <1>1, CallTypeStep, WorkTypeStep, FenceStep DEF FenceInv, ClockInv
<1> QED BY <1>1, FenceInit, PTL DEF GateSpec

\* A halt at the Site Manager, by whatever switch, stops every node that holds
\* a lease within one heartbeat, one lease and its grace: the activate
\* endpoint's "All agents will drop to observe-only once their current lease
\* expires".
THEOREM HaltIsAFence == GateSpec => HaltFences
<1>1. ASSUME WorkType, FenceInv, [GateNext]_gateVars
      PROVE  [\A w \in Works : Starts(w) /\ lease # NoLease =>
                now < lastOpen + ReplyTime + LeaseTime + GraceTime]_gateVars
  BY <1>1, StartIsFenced
<1> QED BY <1>1, Fenced, PTL DEF GateSpec, HaltFences

\* Work under an autonomy grant alone stops within one heartbeat and one lease
\* of the error budget's drop-back ("a class dropped back by the error budget
\* must stop running unattended").
THEOREM DropBackIsAFence == GateSpec => DropBackFences
<1>1. ASSUME WorkType, FenceInv, [GateNext]_gateVars
      PROVE  [\A w \in Works :
                Starts(w) /\ lease # NoLease /\ Basis[w] = "autonomous_grant" =>
                now < lastGranted + ReplyTime + LeaseTime]_gateVars
  BY <1>1, StartIsFenced
<1> QED BY <1>1, Fenced, PTL DEF GateSpec, DropBackFences

-----------------------------------------------------------------------------
(* The rate limit.                                                         *)

\* The action on the device passed the limiter, and its record will keep the
\* limit whenever the call ends.
SlotFree ==
    /\ MaxPerWindow >= 1
    /\ ran # <<>> => now - ran[Len(ran)] >= Cooldown
    /\ Len(ran) >= MaxPerWindow => now - ran[Len(ran) - MaxPerWindow + 1] >= Window

HistType == /\ hist \in Seq(Nat) /\ ran \in Seq(Nat) /\ excused \in BOOLEAN
            /\ IsFiniteSet(Running)

\* The limiter remembers the newest of what ran, all of it or at least
\* HistoryKept entries.
RemembersNewest ==
    /\ Len(hist) <= Len(ran)
    /\ \A i \in 1..Len(hist) : hist[i] = ran[Len(ran) - Len(hist) + i]
    /\ Len(hist) = Len(ran) \/ Len(hist) >= HistoryKept

RateInv ==
    /\ HistType
    /\ ~excused => /\ Cardinality(Running) <= 1 /\ RateLimitHolds /\ RemembersNewest
                   /\ Running # {} => SlotFree

\* The limit's constants are numbers.
LEMMA LimitTypes ==
    /\ MaxPerWindow \in Nat /\ Window \in Nat /\ Cooldown \in Nat
    /\ HistoryMax \in Nat /\ HistoryKept \in Nat
    /\ 1 <= HistoryKept /\ HistoryKept <= HistoryMax
  BY GateAssumption

\* A record within its limits is in order.
LEMMA HistoryInOrder ==
    ASSUME ran \in Seq(Nat), ~excused, RateLimitHolds
    PROVE  \A i, j \in 1..Len(ran) : i <= j => ran[i] <= ran[j]
<1> SUFFICES ASSUME NEW i \in 1..Len(ran), NEW j \in 1..Len(ran), i <= j
             PROVE  ran[i] <= ran[j]
  OBVIOUS
<1>1. ran[i] \in Nat /\ ran[j] \in Nat /\ Cooldown \in Nat
  BY LimitTypes
<1>2. i < j => ran[j] - ran[i] >= Cooldown
  BY DEF RateLimitHolds
<1> QED BY <1>1, <1>2

\* What the limiter remembers is in order too.
LEMMA MemoryInOrder ==
    ASSUME hist \in Seq(Nat), ran \in Seq(Nat), ~excused, RateLimitHolds, RemembersNewest
    PROVE  \A i, j \in 1..Len(hist) : i <= j => hist[i] <= hist[j]
<1> SUFFICES ASSUME NEW i \in 1..Len(hist), NEW j \in 1..Len(hist), i <= j
             PROVE  hist[i] <= hist[j]
  OBVIOUS
<1> DEFINE d == Len(ran) - Len(hist)
<1>0. /\ Len(hist) <= Len(ran)
      /\ \A k \in 1..Len(hist) : hist[k] = ran[d + k]
  BY DEF RemembersNewest
<1>1. /\ Len(hist) \in Nat /\ Len(ran) \in Nat /\ Len(hist) <= Len(ran)
      /\ hist[i] = ran[d + i] /\ hist[j] = ran[d + j]
  <2>1. Len(hist) \in Nat /\ Len(ran) \in Nat
    OBVIOUS
  <2> HIDE DEF d
  <2> QED BY <1>0, <2>1
<1>2. d + i \in 1..Len(ran) /\ d + j \in 1..Len(ran) /\ d + i <= d + j
  BY <1>1
<1> HIDE DEF d
<1>3. ran[d + i] <= ran[d + j]
  BY <1>2, HistoryInOrder
<1> QED BY <1>1, <1>3

\* BlastRadiusLimiter.allows counts at least the last MaxPerWindow records if
\* the first of them is in the window, and the limiter remembers that many.
LEMMA AllowsIsFree ==
    ASSUME hist \in Seq(Nat), ran \in Seq(Nat), ~excused, RateLimitHolds, RemembersNewest,
           BlastAllows, now \in Nat, MaxPerWindow <= HistoryKept
    PROVE  SlotFree
<1>c. /\ MaxPerWindow \in Nat /\ Window \in Nat /\ Cooldown \in Nat /\ HistoryKept \in Nat
      /\ 1 <= HistoryKept
  BY LimitTypes
<1> DEFINE recent == {i \in DOMAIN hist : hist[i] > now - Window}
<1>1. Cardinality(recent) < MaxPerWindow /\ (hist # <<>> => now - hist[Len(hist)] >= Cooldown)
  BY DEF BlastAllows
<1>2. /\ DOMAIN hist = 1..Len(hist) /\ Len(hist) \in Nat /\ Len(ran) \in Nat
      /\ hist = <<>> <=> Len(hist) = 0
      /\ ran = <<>> <=> Len(ran) = 0
  OBVIOUS
<1>r. /\ Len(hist) <= Len(ran)
      /\ \A i \in 1..Len(hist) : hist[i] = ran[Len(ran) - Len(hist) + i]
      /\ Len(hist) = Len(ran) \/ Len(hist) >= HistoryKept
  BY DEF RemembersNewest
<1>3. IsFiniteSet(recent) /\ Cardinality(recent) \in Nat
  <2>1. IsFiniteSet(1..Len(hist))
    BY <1>2, FS_Interval
  <2>2. recent \in SUBSET (1..Len(hist))
    BY <1>2
  <2> HIDE DEF recent
  <2> QED BY <2>1, <2>2, FS_Subset, FS_CardinalityType
<1>4. MaxPerWindow >= 1
  BY <1>c, <1>1, <1>3
<1>5. ASSUME Len(ran) >= MaxPerWindow
      PROVE  now - ran[Len(ran) - MaxPerWindow + 1] >= Window
  <2> DEFINE k == Len(hist) - MaxPerWindow + 1
  <2>1. k \in 1..Len(hist) /\ hist[k] \in Nat /\ hist[k] = ran[Len(ran) - MaxPerWindow + 1]
    <3>1. Len(hist) >= MaxPerWindow
      BY <1>c, <1>2, <1>r, <1>5
    <3>2. k \in 1..Len(hist)
      BY <1>c, <1>2, <1>4, <3>1
    <3>3. Len(ran) - Len(hist) + k = Len(ran) - MaxPerWindow + 1
      BY <1>c, <1>2
    <3> HIDE DEF k
    <3> QED BY <1>r, <3>2, <3>3
  <2>2. ASSUME hist[k] > now - Window PROVE FALSE
    <3>1. ASSUME NEW i \in k..Len(hist) PROVE i \in recent
      <4>1. i \in 1..Len(hist) /\ k <= i
        BY <1>2, <2>1
      <4>2. hist[i] >= hist[k] /\ hist[i] \in Nat
        BY <2>1, <4>1, MemoryInOrder
      <4> QED BY <1>c, <1>2, <2>1, <2>2, <4>1, <4>2
    <3>2. Cardinality(k..Len(hist)) = MaxPerWindow
      <4>1. k \in Int /\ Len(hist) \in Int /\ ~(k > Len(hist)) /\ Len(hist) - k + 1 = MaxPerWindow
        BY <1>c, <1>2, <2>1
      <4> HIDE DEF k
      <4> QED BY <4>1, FS_Interval
    <3>3. k..Len(hist) \in SUBSET recent
      BY <3>1
    <3>4. Cardinality(k..Len(hist)) <= Cardinality(recent)
      <4> HIDE DEF recent, k
      <4> QED BY <1>3, <3>3, FS_Subset
    <3> QED BY <1>c, <1>1, <1>3, <3>2, <3>4
  <2> HIDE DEF k
  <2> QED BY <1>c, <2>1, <2>2
<1>6. ASSUME ran # <<>> PROVE now - ran[Len(ran)] >= Cooldown
  <2>1. Len(hist) >= 1
    BY <1>c, <1>2, <1>r, <1>6
  <2>2. Len(hist) \in 1..Len(hist) /\ Len(ran) - Len(hist) + Len(hist) = Len(ran)
    BY <1>2, <2>1
  <2>3. hist[Len(hist)] = ran[Len(ran)]
    BY <1>r, <2>2
  <2> QED BY <1>1, <1>2, <2>1, <2>3
<1> QED BY <1>4, <1>5, <1>6 DEF SlotFree

\* The success of an action that was in a free slot keeps the limit.
LEMMA RecordKeepsLimit ==
    ASSUME ran \in Seq(Nat), ~excused, RateLimitHolds, SlotFree, now \in Nat,
           ran' = Append(ran, now)
    PROVE  RateLimitHolds'
<1>c. MaxPerWindow \in Nat /\ Window \in Nat /\ Cooldown \in Nat
  BY GateAssumption
<1>1. /\ Len(ran) \in Nat /\ DOMAIN ran = 1..Len(ran)
      /\ DOMAIN ran' = 1..(Len(ran) + 1) /\ ran'[Len(ran) + 1] = now
      /\ \A i \in 1..Len(ran) : ran'[i] = ran[i] /\ ran[i] \in Nat
  OBVIOUS
<1> SUFFICES ASSUME NEW i \in DOMAIN ran', NEW j \in DOMAIN ran', i < j
             PROVE  /\ ran'[j] - ran'[i] >= Cooldown
                    /\ j - i >= MaxPerWindow => ran'[j] - ran'[i] >= Window
  BY DEF RateLimitHolds
<1>2. CASE j <= Len(ran)
  <2>1. i \in DOMAIN ran /\ j \in DOMAIN ran
    BY <1>1, <1>2
  <2> QED BY <1>1, <2>1 DEF RateLimitHolds
<1>3. CASE j = Len(ran) + 1
  <2>1. i \in 1..Len(ran) /\ ran # <<>> /\ Len(ran) \in 1..Len(ran)
    BY <1>1, <1>3
  <2>2. ran[i] <= ran[Len(ran)]
    BY <2>1, HistoryInOrder
  <2>3. now - ran[Len(ran)] >= Cooldown
    BY <2>1 DEF SlotFree
  <2>4. ran'[j] - ran'[i] >= Cooldown
    BY <1>c, <1>1, <1>3, <2>1, <2>2, <2>3
  <2>5. ASSUME j - i >= MaxPerWindow PROVE ran'[j] - ran'[i] >= Window
    <3> DEFINE k == Len(ran) - MaxPerWindow + 1
    <3>1. i <= k /\ k \in 1..Len(ran) /\ Len(ran) >= MaxPerWindow
      BY <1>c, <1>1, <1>3, <2>1, <2>5 DEF SlotFree
    <3>2. now - ran[k] >= Window
      BY <3>1 DEF SlotFree
    <3>3. ran[i] <= ran[k]
      BY <2>1, <3>1, HistoryInOrder
    <3> QED BY <1>c, <1>1, <1>3, <2>1, <3>1, <3>2, <3>3
  <2> QED BY <2>4, <2>5
<1> QED BY <1>1, <1>2, <1>3

\* A part of a sequence, from m to n.
LEMMA PartOfSeq ==
    ASSUME NEW s \in Seq(Nat), NEW m \in 1..Len(s), NEW n \in 1..Len(s), m <= n
    PROVE  /\ SubSeq(s, m, n) \in Seq(Nat) /\ Len(SubSeq(s, m, n)) = n - m + 1
           /\ \A i \in 1..(n - m + 1) : SubSeq(s, m, n)[i] = s[m + i - 1]
OBVIOUS

\* What record makes of the history, cut down or not.
LEMMA RecordedEffect ==
    ASSUME NEW h \in Seq(Nat), now \in Nat, NEW q, q = Recorded(h)
    PROVE  /\ q \in Seq(Nat) /\ q # <<>>
           /\ Len(h) <= HistoryMax => Len(q) <= HistoryMax
           /\ Len(q) <= Len(h) + 1
           /\ Len(q) = Len(h) + 1 \/ Len(q) = HistoryKept
           /\ \A i \in 1..Len(q) : q[i] = Append(h, now)[Len(h) + 1 - Len(q) + i]
<1>c. HistoryMax \in Nat /\ HistoryKept \in Nat /\ 1 <= HistoryKept /\ HistoryKept <= HistoryMax
  BY LimitTypes
<1> DEFINE all == Append(h, now)
<1>1. all \in Seq(Nat) /\ Len(all) = Len(h) + 1 /\ Len(h) \in Nat
  OBVIOUS
<1>e. Append(h, now) = all
  OBVIOUS
<1> HIDE DEF all
<1>2. q = IF Len(all) > HistoryMax
          THEN SubSeq(all, Len(all) - HistoryKept + 1, Len(all)) ELSE all
  BY DEF Recorded, all
<1>3. CASE Len(all) > HistoryMax
  <2> DEFINE m == Len(all) - HistoryKept + 1
  <2>1. /\ m \in 1..Len(all) /\ Len(all) \in 1..Len(all)
        /\ Len(all) - m + 1 = HistoryKept /\ m - 1 = Len(all) - HistoryKept
    BY <1>c, <1>1, <1>3
  <2>2. q = SubSeq(all, m, Len(all))
    BY <1>2, <1>3
  <2> HIDE DEF m
  <2>3. /\ q \in Seq(Nat) /\ Len(q) = HistoryKept
        /\ \A i \in 1..HistoryKept : q[i] = all[m + i - 1]
    <3>1. m \in 1..Len(all) /\ Len(all) \in 1..Len(all) /\ Len(all) - m + 1 = HistoryKept
      BY <2>1
    <3>a. m <= Len(all)
      BY <3>1, <1>1
    <3>2. /\ q \in Seq(Nat) /\ Len(q) = Len(all) - m + 1
          /\ \A i \in 1..(Len(all) - m + 1) : q[i] = all[m + i - 1]
      BY <1>1, <2>2, <3>1, <3>a, PartOfSeq, Zenon
    <3> QED BY <3>1, <3>2, Zenon
  <2>4. \A i \in 1..Len(q) : q[i] = all[Len(h) + 1 - Len(q) + i]
    <3>1. SUFFICES ASSUME NEW i \in 1..Len(q) PROVE q[i] = all[Len(h) + 1 - Len(q) + i]
      OBVIOUS
    <3>2. m + i - 1 = Len(h) + 1 - Len(q) + i
      <4>1. /\ Len(all) \in Int /\ Len(h) \in Int /\ Len(q) \in Int /\ HistoryKept \in Int
            /\ m \in Int /\ i \in Int
            /\ Len(all) = Len(h) + 1 /\ Len(q) = HistoryKept /\ m - 1 = Len(all) - HistoryKept
        BY <1>1, <1>c, <2>1, <2>3
      <4> QED BY <4>1
    <3> QED BY <2>3, <3>2
  <2>5. q # <<>>
    BY <1>c, <2>3
  <2>6. /\ Len(h) <= HistoryMax => Len(q) <= HistoryMax
        /\ Len(q) <= Len(h) + 1
    BY <1>c, <1>1, <1>3, <2>3
  <2> QED BY <1>e, <2>3, <2>4, <2>5, <2>6
<1>4. CASE ~(Len(all) > HistoryMax)
  <2>1. q = all
    BY <1>2, <1>4
  <2>2. \A i \in 1..Len(q) : Len(h) + 1 - Len(q) + i = i
    BY <1>1, <2>1
  <2>3. \A i \in 1..Len(q) : q[i] = all[Len(h) + 1 - Len(q) + i]
    BY <2>1, <2>2
  <2>4. q \in Seq(Nat) /\ Len(q) = Len(h) + 1 /\ q # <<>>
    BY <1>1, <2>1
  <2>5. Len(q) <= HistoryMax
    BY <1>c, <1>1, <1>4, <2>1
  <2> QED BY <1>1, <1>e, <2>3, <2>4, <2>5
<1> QED BY <1>3, <1>4

\* Recording a success keeps the newest, whatever is forgotten.
LEMMA RecordRemembers ==
    ASSUME hist \in Seq(Nat), ran \in Seq(Nat), RemembersNewest, now \in Nat,
           hist' = Recorded(hist), ran' = Append(ran, now)
    PROVE  RemembersNewest'
<1>c. HistoryKept \in Nat
  BY LimitTypes
<1>1. /\ hist' \in Seq(Nat) /\ Len(hist') <= Len(hist) + 1
      /\ Len(hist') = Len(hist) + 1 \/ Len(hist') = HistoryKept
      /\ \A i \in 1..Len(hist') : hist'[i] = Append(hist, now)[Len(hist) + 1 - Len(hist') + i]
  BY RecordedEffect
<1>2. /\ Len(hist) \in Nat /\ Len(ran) \in Nat /\ Len(hist') \in Nat
      /\ ran' \in Seq(Nat) /\ Len(ran') = Len(ran) + 1
      /\ ran'[Len(ran) + 1] = now /\ \A i \in 1..Len(ran) : ran'[i] = ran[i]
      /\ Append(hist, now)[Len(hist) + 1] = now
      /\ \A i \in 1..Len(hist) : Append(hist, now)[i] = hist[i]
  BY <1>1
<1>r. /\ Len(hist) <= Len(ran)
      /\ \A i \in 1..Len(hist) : hist[i] = ran[Len(ran) - Len(hist) + i]
      /\ Len(hist) = Len(ran) \/ Len(hist) >= HistoryKept
  BY DEF RemembersNewest
<1>3. Len(hist') <= Len(ran')
  BY <1>1, <1>2, <1>r
<1>4. Len(hist') = Len(ran') \/ Len(hist') >= HistoryKept
  BY <1>c, <1>1, <1>2, <1>r
<1>5. ASSUME NEW i \in 1..Len(hist')
      PROVE  hist'[i] = ran'[Len(ran') - Len(hist') + i]
  <2> DEFINE m == Len(hist) + 1 - Len(hist') + i
             n == Len(ran') - Len(hist') + i
  <2>1. hist'[i] = Append(hist, now)[m]
    BY <1>1
  <2>2. m \in 1..(Len(hist) + 1) /\ n = Len(ran) - Len(hist) + m
    BY <1>1, <1>2
  <2> SUFFICES hist'[i] = ran'[n]
    OBVIOUS
  <2> HIDE DEF m, n
  <2>3. CASE m = Len(hist) + 1
    <3>1. n = Len(ran) + 1
      BY <1>2, <2>2, <2>3
    <3> QED BY <1>2, <2>1, <2>3, <3>1
  <2>4. CASE m # Len(hist) + 1
    <3>1. m \in 1..Len(hist)
      <4>1. \A b \in Nat : \A a \in 1..(b + 1) : a # b + 1 => a \in 1..b
        OBVIOUS
      <4> QED BY <1>2, <2>2, <2>4, <4>1, Zenon
    <3>2. n \in 1..Len(ran)
      BY <1>2, <1>r, <2>2, <3>1
    <3>3. hist[m] = ran[n]
      BY <1>r, <2>2, <3>1
    <3> QED BY <1>2, <2>1, <3>1, <3>2, <3>3
  <2> QED BY <2>3, <2>4
<1> QED BY <1>3, <1>4, <1>5 DEF RemembersNewest

\* While nothing is recorded a free slot stays free.
LEMMA SlotStaysFree ==
    ASSUME ran \in Seq(Nat), ran' = ran, SlotFree, now \in Nat, now' \in Nat, now <= now'
    PROVE  SlotFree'
<1>c. MaxPerWindow \in Nat /\ Window \in Nat /\ Cooldown \in Nat
  BY GateAssumption
<1>1. ran # <<>> => ran[Len(ran)] \in Nat
  OBVIOUS
<1>2. Len(ran) >= MaxPerWindow => ran[Len(ran) - MaxPerWindow + 1] \in Nat
  BY <1>c DEF SlotFree
<1> QED BY <1>c, <1>1, <1>2 DEF SlotFree

\* What a step does to the history of all successes.
LEMMA RanStep ==
    ASSUME Record, RateInv
    PROVE  /\ excused' \in BOOLEAN /\ (~excused' => ~excused)
           /\ excused' => ran' = <<>>
           /\ ~excused' /\ (\E w \in Works : work[w] = "running" /\ work'[w] = "succeeded")
              => ran' = Append(ran, now)
           /\ ~excused' /\ ~(\E w \in Works : work[w] = "running" /\ work'[w] = "succeeded")
              => ran' = ran
  BY DEF Record, RateInv, HistType

\* A step under which no action starts and none succeeds.
LEMMA RateKept ==
    ASSUME RateInv, ClockInv, Record, now' \in Nat, now <= now', hist' = hist,
           Running' \subseteq Running,
           \A w \in Works : ~(work[w] = "running" /\ work'[w] = "succeeded")
    PROVE  RateInv'
<1>1. IsFiniteSet(Running') /\ Cardinality(Running') <= Cardinality(Running)
      /\ Cardinality(Running) \in Nat /\ Cardinality(Running') \in Nat
  BY FS_Subset, FS_CardinalityType DEF RateInv, HistType
<1>2. /\ excused' \in BOOLEAN /\ (~excused' => ~excused)
      /\ ~excused' => ran' = ran
      /\ excused' => ran' = <<>>
  BY RanStep
<1>3. HistType'
  <2>1. <<>> \in Seq(Nat)
    OBVIOUS
  <2> QED BY <1>1, <1>2, <2>1 DEF RateInv, HistType
<1>4. ~excused' => RateLimitHolds' /\ RemembersNewest'
  BY <1>2 DEF RateInv, RateLimitHolds, RemembersNewest
<1>5. ASSUME ~excused', Running' # {} PROVE SlotFree'
  BY <1>2, <1>5, SlotStaysFree DEF RateInv, HistType, ClockInv
<1> QED BY <1>1, <1>2, <1>3, <1>4, <1>5 DEF RateInv

\* Every step of the gate keeps the rate invariant.
LEMMA RateStep ==
    ASSUME RateInv, ClockInv, WorkType, [GateNext]_gateVars, MaxPerWindow <= HistoryKept
    PROVE  RateInv'
<1>s. CASE UNCHANGED gateVars
  BY <1>s DEF gateVars, nodeVars, RateInv, HistType, RateLimitHolds, RemembersNewest, SlotFree,
              Running
<1>n. CASE GateNext
  <2>1. now' \in Nat /\ now <= now' /\ Record
    BY <1>n, TimeAdvances DEF GateNext
  <2>2. excused' \in BOOLEAN /\ (~excused' => ~excused) /\ (excused' => ran' = <<>>)
    BY <2>1, RanStep
  <2>u. ASSUME hist' = hist, work' = work PROVE RateInv'
    BY <2>1, <2>u, RateKept DEF Running
  <2>3. CASE SiteManager \/ Heartbeats \/ Tick
    BY <2>3, <2>u DEF SiteManager, SmRestartBreaks, RecoverGrant, Heartbeats, HeartbeatSend,
         LeaseArrives, HeartbeatFails, ReadBudget, ReadHalt, Issue, Tick, nodeVars
  <2>4. ASSUME NEW w \in Works, Arrive(w) \/ Refuse(w) \/ ReportOutcome(w) PROVE RateInv'
    <3>1. /\ hist' = hist /\ Running' \subseteq Running
          /\ \A x \in Works : ~(work[x] = "running" /\ work'[x] = "succeeded")
      BY <2>4 DEF Arrive, Refuse, ReportOutcome, Running, WorkType
    <3> QED BY <2>1, <3>1, RateKept
  <2>5. ASSUME NEW w \in Works, Start(w) PROVE RateInv'
    <3>1. /\ hist' = hist /\ now' = now /\ BlastAllows /\ Running' = Running \cup {w}
          /\ \A x \in Works : ~(work[x] = "running" /\ work'[x] = "succeeded")
      BY <2>5 DEF Start, Running, WorkType
    <3>2. IsFiniteSet(Running') /\ Cardinality(Running') \in Nat
      BY <3>1, FS_AddElement, FS_CardinalityType DEF RateInv, HistType
    <3>3. ~excused' => Cardinality(Running') <= 1
      <4>1. ~excused' => ~(Cardinality(Running') > 1)
        BY <2>1, Zenon DEF Record
      <4> QED BY <3>2, <4>1
    <3>r. ~excused' => ran' = ran
      BY <2>1, <3>1, RanStep
    <3>4. ~excused' => RateLimitHolds' /\ RemembersNewest'
      BY <2>2, <3>1, <3>r DEF RateInv, RateLimitHolds, RemembersNewest
    <3>5. ~excused' => SlotFree
      BY <2>2, <3>1, AllowsIsFree DEF RateInv, HistType, ClockInv
    <3>6. ~excused' => SlotFree'
      BY <3>1, <3>r, <3>5 DEF SlotFree
    <3>7. HistType'
      <4>1. <<>> \in Seq(Nat)
        OBVIOUS
      <4> QED BY <2>2, <3>1, <3>2, <3>r, <4>1 DEF RateInv, HistType
    <3> QED BY <2>2, <3>3, <3>4, <3>6, <3>7 DEF RateInv
  <2>6. ASSUME NEW w \in Works, NEW good \in BOOLEAN, Finish(w, good) PROVE RateInv'
    <3>1. /\ hist' = (IF good THEN Recorded(hist) ELSE hist) /\ w \in Running
          /\ Running' = Running \ {w} /\ now' = now
          /\ good => work[w] = "running" /\ work'[w] = "succeeded"
          /\ ~good => \A x \in Works : ~(work[x] = "running" /\ work'[x] = "succeeded")
      BY <2>6 DEF Finish, Running, WorkType
    <3>2. CASE ~good
      <4>1. /\ hist' = hist /\ Running' \subseteq Running
            /\ \A x \in Works : ~(work[x] = "running" /\ work'[x] = "succeeded")
        BY <3>1, <3>2
      <4> QED BY <2>1, <4>1, RateKept
    <3>3. CASE good
      <4>1. /\ hist \in Seq(Nat) /\ ran \in Seq(Nat) /\ now \in Nat
            /\ hist' = Recorded(hist) /\ IsFiniteSet(Running)
        BY <3>1, <3>3 DEF RateInv, HistType, ClockInv
      <4>2. IsFiniteSet(Running') /\ Cardinality(Running') = Cardinality(Running) - 1
        BY <3>1, <4>1, FS_RemoveElement
      <4>3. Cardinality(Running) \in Nat /\ Cardinality(Running') \in Nat
        BY <4>1, <4>2, FS_CardinalityType
      <4>r. ~excused' => ran' = Append(ran, now)
        BY <2>1, <3>1, <3>3, RanStep
      <4>4. ASSUME ~excused' PROVE /\ Cardinality(Running') <= 1 /\ Running' = {}
                                   /\ RateLimitHolds' /\ RemembersNewest'
        <5>1. ~excused /\ Cardinality(Running) <= 1 /\ RateLimitHolds /\ SlotFree /\ RemembersNewest
          BY <2>2, <3>1, <4>4 DEF RateInv
        <5>2. Cardinality(Running') = 0
          BY <4>2, <4>3, <5>1
        <5>3. Running' = {}
          BY <4>2, <5>2, FS_EmptySet
        <5>4. RateLimitHolds'
          BY <4>1, <4>r, <4>4, <5>1, RecordKeepsLimit
        <5>5. RemembersNewest'
          BY <4>1, <4>r, <4>4, <5>1, RecordRemembers
        <5> QED BY <5>2, <5>3, <5>4, <5>5
      <4>5. HistType'
        <5>1. hist' \in Seq(Nat)
          BY <4>1, RecordedEffect
        <5>2. Append(ran, now) \in Seq(Nat) /\ <<>> \in Seq(Nat)
          BY <4>1
        <5> QED BY <2>2, <4>2, <4>r, <5>1, <5>2 DEF HistType
      <4> QED BY <4>4, <4>5 DEF RateInv
    <3> QED BY <3>2, <3>3
  <2>7. CASE NodeRestart
    <3>1. /\ hist' = <<>> /\ Running' = {}
          /\ \A x \in Works : ~(work[x] = "running" /\ work'[x] = "succeeded")
      BY <2>7 DEF NodeRestart, Running
    <3>2. IsFiniteSet(Running') /\ Cardinality(Running') = 0
      BY <3>1, FS_EmptySet
    <3>3. HistType'
      <4>1. <<>> \in Seq(Nat)
        OBVIOUS
      <4>2. ~excused' => ran' = ran
        BY <2>1, <3>1, RanStep
      <4> QED BY <2>2, <3>1, <3>2, <4>1, <4>2 DEF RateInv, HistType
    <3>4. ASSUME ~excused' PROVE RateLimitHolds' /\ RemembersNewest'
      <4>1. ran' = ran /\ ~excused
        BY <2>1, <2>2, <3>1, <3>4, RanStep
      <4>2. hist = <<>>
        BY <2>1, <3>1, <3>4 DEF Record
      <4>3. RateLimitHolds' /\ RemembersNewest
        BY <4>1 DEF RateInv, RateLimitHolds
      <4> QED BY <3>1, <4>1, <4>2, <4>3 DEF RemembersNewest
    <3> QED BY <3>1, <3>2, <3>3, <3>4 DEF RateInv
  <2> QED BY <1>n, <2>3, <2>4, <2>5, <2>6, <2>7 DEF GateNext, Step, Node
<1> QED BY <1>s, <1>n

\* BlastRadiusLimiter keeps its limit on all successful actions, for every
\* window, every cooldown and every limit no larger than the entries record()
\* keeps when it cuts the history down (50), as long as the node runs one action
\* at a time and does not restart: the check comes before the device call, the
\* record after it, and what the check found still holds when the call ends.
THEOREM LimitIsKept ==
    ASSUME MaxPerWindow <= HistoryKept
    PROVE  GateSpec => []RateLimitHolds
<1>1. GateInit => RateInv
  <2> SUFFICES ASSUME GateInit PROVE RateInv
    OBVIOUS
  <2>1. Running = {} /\ hist = <<>> /\ ran = <<>> /\ excused = FALSE
    BY DEF GateInit, Running
  <2>2. IsFiniteSet(Running) /\ Cardinality(Running) = 0
    BY <2>1, FS_EmptySet
  <2>3. RateLimitHolds /\ RemembersNewest
    BY <2>1 DEF RateLimitHolds, RemembersNewest
  <2>4. hist \in Seq(Nat) /\ ran \in Seq(Nat)
    BY <2>1
  <2>5. excused \in BOOLEAN
    BY <2>1, Zenon
  <2>6. 0 <= 1
    OBVIOUS
  <2> QED BY <2>1, <2>2, <2>3, <2>4, <2>5, <2>6, Zenon DEF RateInv, HistType
<1>2. RateInv => RateLimitHolds
  BY DEF RateInv, RateLimitHolds
<1>3. RateInv /\ CallType /\ WorkType /\ FenceInv /\ [GateNext]_gateVars => RateInv'
  BY RateStep DEF FenceInv
<1> QED BY <1>1, <1>2, <1>3, Fenced, PTL DEF GateSpec

-----------------------------------------------------------------------------
(* A limit the history cannot hold.                                        *)

\* The history never holds more than HistoryMax entries.
ShortHistory == hist \in Seq(Nat) /\ Len(hist) <= HistoryMax

\* record() cuts the history down as soon as it is longer.
LEMMA HistoryStaysShort ==
    ASSUME ShortHistory, ClockInv, [GateNext]_gateVars
    PROVE  ShortHistory'
<1>u. ASSUME hist' = hist PROVE ShortHistory'
  BY <1>u DEF ShortHistory
<1>1. CASE SiteManager \/ Heartbeats \/ Tick \/ UNCHANGED gateVars
  BY <1>1, <1>u DEF SiteManager, SmRestartBreaks, RecoverGrant, Heartbeats, HeartbeatSend,
       LeaseArrives, HeartbeatFails, ReadBudget, ReadHalt, Issue, Tick, nodeVars, gateVars
<1>2. CASE NodeRestart
  <2>1. hist' = <<>>
    BY <1>2 DEF NodeRestart
  <2> QED BY <2>1, LimitTypes DEF ShortHistory
<1>3. ASSUME NEW w \in Works, Arrive(w) \/ Start(w) \/ Refuse(w) \/ ReportOutcome(w)
      PROVE  ShortHistory'
  BY <1>3, <1>u DEF Arrive, Start, Refuse, ReportOutcome
<1>4. ASSUME NEW w \in Works, NEW good \in BOOLEAN, Finish(w, good) PROVE ShortHistory'
  <2>1. hist' = IF good THEN Recorded(hist) ELSE hist
    BY <1>4 DEF Finish
  <2>2. CASE good
    BY <2>1, <2>2, RecordedEffect DEF ShortHistory, ClockInv
  <2> QED BY <2>1, <2>2, <1>u
<1> QED BY <1>1, <1>2, <1>3, <1>4 DEF GateNext, Step, Node

\* A limit above the length at which record() cuts the history down (the
\* default limits of 999 per window, above 100) refuses nothing: only the
\* cooldown decides.
THEOREM LargeLimitRefusesNothing ==
    ASSUME MaxPerWindow > HistoryMax
    PROVE  GateSpec => [](BlastAllows <=> BlastAllowsCooldown)
<1>1. GateInit => ShortHistory
  BY LimitTypes DEF GateInit, ShortHistory
<1>2. ShortHistory /\ FenceInv /\ [GateNext]_gateVars => ShortHistory'
  BY HistoryStaysShort DEF FenceInv
<1>3. ShortHistory => (BlastAllows <=> BlastAllowsCooldown)
  <2> SUFFICES ASSUME ShortHistory PROVE BlastAllows <=> BlastAllowsCooldown
    OBVIOUS
  <2> DEFINE recent == {i \in DOMAIN hist : hist[i] > now - Window}
  <2>1. Len(hist) \in Nat /\ DOMAIN hist = 1..Len(hist) /\ Len(hist) <= HistoryMax
    BY DEF ShortHistory
  <2>2. IsFiniteSet(1..Len(hist)) /\ Cardinality(1..Len(hist)) = Len(hist)
    <3>1. Cardinality(1..Len(hist)) = IF 1 > Len(hist) THEN 0 ELSE Len(hist) - 1 + 1
      BY <2>1, FS_Interval
    <3>2. IsFiniteSet(1..Len(hist))
      BY <2>1, FS_Interval
    <3> QED BY <2>1, <3>1, <3>2
  <2>3. recent \in SUBSET (1..Len(hist))
    BY <2>1
  <2> HIDE DEF recent
  <2>4. Cardinality(recent) <= Len(hist) /\ Cardinality(recent) \in Nat
    BY <2>2, <2>3, FS_Subset, FS_CardinalityType
  <2>5. Cardinality(recent) < MaxPerWindow
    BY <2>1, <2>4, LimitTypes
  <2> QED BY <2>5 DEF BlastAllows, BlastAllowsCooldown, recent
<1> QED BY <1>1, <1>2, <1>3, Fenced, PTL DEF GateSpec

=============================================================================
