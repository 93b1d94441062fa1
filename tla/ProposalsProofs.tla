-------------------------- MODULE ProposalsProofs --------------------------
(***************************************************************************)
(* What Central Command's dispatch guarantees of a proposal, for every     *)
(* number of proposals, agents, replicas and approvers, every budget and   *)
(* every schedule of failed calls, late arrivals and crashes: one sender,  *)
(* the budget kept, no directive without the decision it needs, one run    *)
(* per operation, and the Site Manager seen as an at-most-once register.   *)
(***************************************************************************)
EXTENDS Proposals, FiniteSetTheorems, TLAPS

\* s is calling the Site Manager about p.
Calling(s, p) ==
    /\ task[s] # Idle /\ task[s].at \in {"sending", "accepted", "refused"}
    /\ task[s].prop = p

\* The ledger carries the approval of p.
Enough(p) ==
    /\ Cardinality(Approvals(records[p])) >= Needed
    /\ \A u \in Approvers : records[p][u] # "denied"

\* A row that was never created has left no trace.
Untouched ==
    \A p \in Props : status[p] = "none" =>
        /\ p \notin answered /\ claim[p] = Nobody /\ directive[p] = "none"
        /\ \A b \in Bases : <<p, b>> \notin late

\* The human queue holds work on a human's authority only.
QueueIsHuman == \A p \in Props : status[p] = "awaiting" => basis[p] = "human"

\* Wherever a human's authority can still be read from (the row, a request
\* under way or late, the directive), the people have given it, and the row
\* cannot return to their queue.
HumanAuthority ==
    \A p \in Props :
        (\/ status[p] = "approved" /\ basis[p] = "human"
         \/ directive[p] = "human"
         \/ <<p, "human">> \in late) =>
        basis[p] = "human" /\ status[p] # "awaiting" /\ Enough(p)

\* A recorded answer settles the row; it leaves dispatched with its outcome.
AnswerSettles ==
    \A p \in answered :
        /\ status[p] \in {"dispatched", "completed", "failed"}
        /\ outcome[p] = "none" => status[p] = "dispatched"

\* A directive is known to its row, to the caller about to record it, or to
\* nobody.
DirectiveIsHeard ==
    \A p \in Props : directive[p] # "none" =>
        \/ p \in unheard \/ p \in answered
        \/ \E s \in Senders : Calling(s, p) /\ task[s].at = "accepted"

\* One operation is in flight once.
OneOpen ==
    \A p, q \in Props : p # q /\ OpOf[p] = OpOf[q] =>
        ~(status[p] \in OpenStatus /\ status[q] \in OpenStatus)

DispatchInv ==
    /\ OneSender /\ Untouched /\ QueueIsHuman /\ HumanAuthority /\ AnswerSettles
    /\ DirectiveIsHeard /\ OneOpen

PInv == PTypeOK /\ DispatchInv /\ ChargedWithinBudget

-----------------------------------------------------------------------------
(* Types.                                                                  *)

\* A sender that is not idle has a task.
LEMMA TaskOf ==
    ASSUME PTypeOK, NEW s \in Senders, task[s] # Idle
    PROVE  /\ task[s] \in Task /\ task[s].prop \in Props /\ task[s].basis \in Bases
           /\ task[s].at \in {"read", "gated", "sending", "accepted", "refused"}
  BY DEF PTypeOK, Task

\* The initial state is well typed.
LEMMA PInitType == PInit => PTypeOK
  BY ProposalsAssumption DEF PInit, PTypeOK, Bases

\* What a claim or a decision stores is a task.
LEMMA SendingIsTask ==
    ASSUME NEW p \in Props, NEW b \in Bases
    PROVE  Sending(p, b) \in Task
  BY DEF Sending, Task

\* Evaluating or submitting a proposal keeps the types.
LEMMA AdmissionType == ASSUME PTypeOK, Admission PROVE PTypeOK'
  <1> USE DEF Verdicts, OpenStatus, Final, Bases, rowVars, ingressVars, siteVars
  <1>1. ASSUME NEW p \in Props, NEW v \in Verdicts, Create(p, v)
        PROVE  /\ status' \in [Props -> {"none"} \cup OpenStatus \cup Final]
               /\ basis' \in [Props -> Bases]
               /\ UNCHANGED <<claim, answered, records>>
    BY <1>1 DEF PTypeOK, Create
  <1>2. ASSUME NEW p \in Props, NEW v \in Verdicts, Evaluate(p, v)
        PROVE  PTypeOK'
    BY <1>1, <1>2 DEF PTypeOK, Evaluate
  <1>3. ASSUME NEW p \in Props, NEW v \in Verdicts, NEW k \in SubKeys, Submit(k, p, v)
        PROVE  PTypeOK'
    <2>1. attempts' \in [Agents -> 0..AttemptMax]
      BY <1>3, ProposalsAssumption DEF PTypeOK, Submit
    <2>2. /\ sub' \in [SubKeys -> [cand : Props, result : Props \cup {Refused}] \cup {NoSub}]
          /\ (\E q \in Props : Create(q, v)) \/ UNCHANGED rowVars
      BY <1>3 DEF PTypeOK, Submit
    <2>3. UNCHANGED <<authority, task, siteVars, unheard, failures>>
      BY <1>3 DEF Submit
    <2> QED
      BY <1>1, <2>1, <2>2, <2>3 DEF PTypeOK
  <1> QED
    BY <1>2, <1>3 DEF Admission

\* The dispatcher passes keep the types.
LEMMA DispatcherType == ASSUME PTypeOK, NEW s \in Passes, Dispatcher(s) PROVE PTypeOK'
  <1> USE DEF OpenStatus, Final, Bases, rowVars, ingressVars, siteVars
  <1>0. s \in Senders
    BY DEF Senders
  <1>1. ASSUME NEW p \in Props, Pick(s, p) PROVE PTypeOK'
    BY <1>0, <1>1 DEF PTypeOK, Pick, Task
  <1>2. CASE Gate(s)
    BY <1>0, <1>2, TaskOf DEF PTypeOK, Gate, Task
  <1>3. CASE Withhold(s)
    BY <1>0, <1>3, TaskOf DEF PTypeOK, Withhold
  <1>4. CASE Claim(s)
    <2>1. /\ task[s] # Idle
          /\ UNCHANGED <<basis, answered, records, ingressVars, authority, siteVars, unheard, failures>>
      BY <1>4 DEF Claim
    <2>2. /\ status' = status \/ status' = [status EXCEPT ![task[s].prop] = "failed"]
          /\ \E c \in {s, Nobody} : claim' = claim \/ claim' = [claim EXCEPT ![task[s].prop] = c]
          /\ \E t \in {Sending(task[s].prop, task[s].basis), Idle} : task' = [task EXCEPT ![s] = t]
      BY <1>4, Zenon DEF Claim
    <2>3. Sending(task[s].prop, task[s].basis) \in Task
      BY <1>0, <2>1, TaskOf, SendingIsTask
    <2>4. task' \in [Senders -> Task \cup {Idle}]
      BY <1>0, <2>2, <2>3 DEF PTypeOK
    <2>5. claim' \in [Props -> Senders \cup {Nobody, Gone}]
      BY <1>0, <2>2 DEF PTypeOK
    <2> QED
      BY <2>1, <2>2, <2>4, <2>5 DEF PTypeOK
  <1> QED
    BY <1>1, <1>2, <1>3, <1>4 DEF Dispatcher

\* A decision of an approver keeps the types.
LEMMA DecideType ==
    ASSUME PTypeOK, NEW u \in Approvers, NEW p \in Props, NEW d \in {"approved", "denied"},
           DecideProposal(u, p, d)
    PROVE  PTypeOK'
  <1> USE DEF OpenStatus, Final, Bases, rowVars, ingressVars, siteVars
  <1>0. u \in Senders
    BY DEF Senders
  <1>1. [records[p] EXCEPT ![u] = d] \in [Approvers -> {"none", "approved", "denied"}]
    BY DEF PTypeOK
  <1>2. Completion([records[p] EXCEPT ![u] = d]) \in {"denied", "approved", "awaiting"}
    BY DEF Completion
  <1>3. /\ \E c \in {"denied", "approved", "awaiting", "failed"} : status' = [status EXCEPT ![p] = c]
        /\ records' = [records EXCEPT ![p] = [records[p] EXCEPT ![u] = d]]
        /\ claim' = claim \/ claim' = [claim EXCEPT ![p] = u]
        /\ task' = task \/ task' = [task EXCEPT ![u] = Sending(p, "human")]
        /\ UNCHANGED <<basis, answered, ingressVars, authority, siteVars, unheard, failures>>
    BY <1>2 DEF DecideProposal
  <1> QED
    BY <1>0, <1>1, <1>3, SendingIsTask DEF PTypeOK

\* The calls to the Site Manager keep the types, whatever is answered or lost.
LEMMA CallType == ASSUME PTypeOK, NEW s \in Senders, Call(s) PROVE PTypeOK'
  <1> USE DEF OpenStatus, Final, Bases, rowVars, ingressVars, siteVars
  <1>1. CASE SmAnswer(s)
    <2>1. /\ task[s] # Idle
          /\ UNCHANGED <<rowVars, ingressVars, authority, late, outcome, unheard, failures>>
          /\ \E b \in {task[s].basis, directive[task[s].prop]} :
                directive' = directive \/ directive' = [directive EXCEPT ![task[s].prop] = b]
          /\ \E a \in {"accepted", "refused"} : task' = [task EXCEPT ![s].at = a]
      BY <1>1 DEF SmAnswer
    <2>2. task' \in [Senders -> Task \cup {Idle}]
      <3> PICK a \in {"accepted", "refused"} : task' = [task EXCEPT ![s] = [task[s] EXCEPT !.at = a]]
        BY <2>1
      <3>1. [task[s] EXCEPT !.at = a] \in Task
        BY <2>1, TaskOf DEF Task
      <3> QED
        BY <3>1 DEF PTypeOK
    <2>3. directive' \in [Props -> Bases \cup {"none"}]
      BY <2>1, TaskOf DEF PTypeOK
    <2> QED
      BY <2>1, <2>2, <2>3 DEF PTypeOK
  <1>2. CASE Record(s)
    BY <1>2, TaskOf DEF PTypeOK, Record
  <1>3. ASSUME NEW arrives \in BOOLEAN, GiveUp(s, arrives)
        PROVE  /\ failures' \in 0..MaxLoss /\ late' \in SUBSET (Props \X Bases)
               /\ unheard' \in SUBSET Props /\ task' \in [Senders -> Task \cup {Idle}]
    BY <1>3, TaskOf, ProposalsAssumption DEF PTypeOK, GiveUp
  <1>4. ASSUME NEW arrives \in BOOLEAN, CallFails(s, arrives) PROVE PTypeOK'
    BY <1>3, <1>4 DEF PTypeOK, CallFails
  <1>5. ASSUME NEW arrives \in BOOLEAN, PassDies(s, arrives) PROVE PTypeOK'
    BY <1>3, <1>5 DEF PTypeOK, PassDies
  <1> QED
    BY <1>1, <1>2, <1>4, <1>5 DEF Call

\* The steps on the Site Manager's side keep the types.
LEMMA SiteType == ASSUME PTypeOK, NEW p \in Props, Site(p) PROVE PTypeOK'
  <1> USE DEF OpenStatus, Final, Bases, rowVars, ingressVars, siteVars
  <1>1. ASSUME NEW b \in Bases, LateArrival(p, b) PROVE PTypeOK'
    BY <1>1 DEF PTypeOK, LateArrival
  <1>2. ASSUME NEW o \in {"SUCCESS", "FAILURE"}, Ingest(p, o) PROVE PTypeOK'
    BY <1>2 DEF PTypeOK, Ingest
  <1>3. CASE Settle(p)
    BY <1>3 DEF PTypeOK, Settle
  <1> QED
    BY <1>1, <1>2, <1>3 DEF Site

\* Every step of the proposals keeps the types.
LEMMA PTypeStep == PTypeOK /\ [PNext]_pvars => PTypeOK'
  <1> SUFFICES ASSUME PTypeOK, [PNext]_pvars PROVE PTypeOK'
    OBVIOUS
  <1>1. CASE UNCHANGED pvars
    BY <1>1 DEF PTypeOK, pvars, rowVars, ingressVars, siteVars
  <1>2. ASSUME NEW a \in Agents, NEW v \in {"all", "attended", "none"}, SetAuthority(a, v)
        PROVE  PTypeOK'
    BY <1>2 DEF PTypeOK, SetAuthority, rowVars, ingressVars, siteVars
  <1> QED
    BY <1>1, <1>2, AdmissionType, DispatcherType, DecideType, CallType, SiteType DEF PNext

-----------------------------------------------------------------------------
(* Who may touch a row.                                                    *)

\* A caller holds the claim of an approved row.
LEMMA CallerHolds ==
    ASSUME DispatchInv, NEW s \in Senders, NEW p, Calling(s, p)
    PROVE  claim[p] = s /\ status[p] = "approved" /\ basis[p] = task[s].basis
  BY DEF DispatchInv, OneSender, Calling

\* Nobody is calling about a row that is free or not approved.
LEMMA NoCaller ==
    ASSUME DispatchInv, NEW p, claim[p] \in {Nobody, Gone} \/ status[p] # "approved"
    PROVE  \A s \in Senders : ~Calling(s, p)
  BY CallerHolds, ProposalsAssumption

\* The gates, the switches and a page read change no row, and nobody starts or
\* stops calling.
LEMMA QuietStep ==
    ASSUME DispatchInv, UNCHANGED <<rowVars, siteVars, unheard>>,
           \A s \in Senders : \/ task'[s] = task[s]
                              \/ \A p : ~Calling(s, p) /\ ~Calling(s, p)'
    PROVE  DispatchInv'
  <1> USE DEF rowVars, siteVars
  <1>1. \A s \in Senders : \A p : Calling(s, p)' => Calling(s, p) /\ task'[s] = task[s]
    BY DEF Calling
  <1>2. \A s \in Senders : \A p : Calling(s, p) => Calling(s, p)' /\ task'[s] = task[s]
    BY DEF Calling
  <1>3. OneSender'
    <2> SUFFICES ASSUME NEW s \in Senders, NEW p, Calling(s, p)'
                 PROVE  claim[p] = s /\ status[p] = "approved" /\ basis[p] = task'[s].basis
      BY DEF OneSender, Calling
    <2> QED
      BY <1>1, CallerHolds
  <1>4. DirectiveIsHeard'
    BY <1>2 DEF DispatchInv, DirectiveIsHeard
  <1>5. HumanAuthority'
    BY DEF DispatchInv, HumanAuthority, Enough
  <1>6. Untouched' /\ QueueIsHuman' /\ AnswerSettles' /\ OneOpen'
    BY DEF DispatchInv, Untouched, QueueIsHuman, AnswerSettles, OneOpen
  <1> QED
    BY <1>3, <1>4, <1>5, <1>6 DEF DispatchInv

\* Unless nobody calls about p, a change of p's row is the caller's.
LEMMA OthersCall ==
    ASSUME DispatchInv, NEW p \in Props, NEW r \in Senders,
           \A s \in Senders \ {r} : task'[s] = task[s],
           \A q \in Props \ {p} : /\ claim'[q] = claim[q] /\ status'[q] = status[q]
                                  /\ basis'[q] = basis[q],
           \A s \in Senders \ {r} : ~Calling(s, p),
           \A q : Calling(r, q)' => /\ claim'[q] = r /\ status'[q] = "approved"
                                    /\ basis'[q] = task'[r].basis,
           PTypeOK
    PROVE  OneSender'
  <1> SUFFICES ASSUME NEW s \in Senders, NEW q, Calling(s, q)'
               PROVE  claim'[q] = s /\ status'[q] = "approved" /\ basis'[q] = task'[s].basis
    BY DEF OneSender, Calling
  <1>1. CASE s = r
    BY <1>1
  <1>2. CASE s # r
    <2>1. Calling(s, q) /\ task'[s] = task[s]
      BY <1>2 DEF Calling
    <2>2. q \in Props \ {p}
      BY <1>2, <2>1, TaskOf DEF Calling
    <2> QED
      BY <2>1, <2>2, CallerHolds
  <1> QED
    BY <1>1, <1>2

-----------------------------------------------------------------------------
(* Admission.                                                              *)

\* repo.create of a row that was not there.
LEMMA CreateStep ==
    ASSUME PTypeOK, DispatchInv, NEW p \in Props, NEW v \in Verdicts,
           Admissible(p, v), Create(p, v), UNCHANGED <<task, siteVars, unheard>>
    PROVE  DispatchInv'
  <1>1. /\ status[p] = "none" /\ status'[p] = v /\ v \in {"awaiting", "approved", "blocked"}
        /\ basis'[p] = IF v = "approved" THEN "autonomous" ELSE "human"
        /\ \A q \in Props \ {p} : status'[q] = status[q] /\ basis'[q] = basis[q]
        /\ UNCHANGED <<claim, answered, records, task, directive, late, outcome, unheard>>
    BY DEF Admissible, Create, PTypeOK, siteVars, Verdicts
  <1>2. /\ p \notin answered /\ claim[p] = Nobody /\ directive[p] = "none"
        /\ \A b \in Bases : <<p, b>> \notin late
    BY <1>1 DEF DispatchInv, Untouched
  <1>3. OneSender'
    <2>1. \A s \in Senders : ~Calling(s, p)
      BY <1>1, NoCaller
    <2> SUFFICES ASSUME NEW s \in Senders, NEW q, Calling(s, q)'
                 PROVE  claim'[q] = s /\ status'[q] = "approved" /\ basis'[q] = task'[s].basis
      BY DEF OneSender, Calling
    <2>2. Calling(s, q)
      BY <1>1 DEF Calling
    <2>3. q \in Props \ {p}
      BY <2>1, <2>2, TaskOf DEF Calling
    <2> QED
      BY <1>1, <2>2, <2>3, CallerHolds
  <1>4. Untouched' /\ QueueIsHuman' /\ AnswerSettles'
    BY <1>1, <1>2 DEF DispatchInv, Untouched, QueueIsHuman, AnswerSettles, PTypeOK
  <1>5. HumanAuthority'
    <2>1. \A q \in Props : Enough(q)' <=> Enough(q)
      BY <1>1 DEF Enough
    <2> QED
      BY <1>1, <1>2, <2>1 DEF DispatchInv, HumanAuthority, Bases
  <1>6. DirectiveIsHeard'
    BY <1>1 DEF DispatchInv, DirectiveIsHeard, Calling
  <1>7. OneOpen'
    <2>1. \A q \in Props \ {p} : OpOf[q] = OpOf[p] => status'[q] \notin OpenStatus
      BY <1>1 DEF Admissible, OperationFree
    <2> QED
      BY <1>1, <2>1 DEF DispatchInv, OneOpen
  <1> QED
    BY <1>3, <1>4, <1>5, <1>6, <1>7 DEF DispatchInv

\* evaluate_agents and submit_proposal.
LEMMA AdmissionStep ==
    ASSUME PTypeOK, DispatchInv, Admission
    PROVE  DispatchInv'
  <1>1. ASSUME NEW p \in Props, NEW v \in Verdicts, Evaluate(p, v) PROVE DispatchInv'
    BY <1>1, CreateStep DEF Evaluate
  <1>2. ASSUME NEW p \in Props, NEW v \in Verdicts, NEW k \in SubKeys, Submit(k, p, v)
        PROVE  DispatchInv'
    <2>1. UNCHANGED <<task, siteVars, unheard>>
      BY <1>2 DEF Submit
    <2>2. CASE UNCHANGED rowVars
      BY <2>1, <2>2, QuietStep
    <2>3. CASE ~UNCHANGED rowVars
      BY <1>2, <2>1, <2>3, CreateStep DEF Submit
    <2> QED
      BY <2>2, <2>3
  <1> QED
    BY <1>1, <1>2 DEF Admission

-----------------------------------------------------------------------------
(* The dispatcher and the people.                                          *)

\* A row p moves that nobody calls about, or only r: it is approved or awaits
\* a decision, and keeps its directive, its answers and its records.
LEMMA RowStep ==
    ASSUME PTypeOK, DispatchInv, NEW p \in Props, OneSender',
           \A s \in Senders : \A q : Calling(s, q) /\ task[s].at = "accepted" =>
                                 Calling(s, q)' /\ task'[s] = task[s],
           UNCHANGED <<answered, records, siteVars, unheard>>,
           status[p] \in {"approved", "awaiting"},
           \A q \in Props \ {p} : status'[q] = status[q] /\ basis'[q] = basis[q]
                                  /\ claim'[q] = claim[q],
           \/ status'[p] = "awaiting" /\ basis[p] = "autonomous" /\ basis'[p] = "human"
           \/ status'[p] = status[p] /\ basis'[p] = basis[p]
           \/ status'[p] = "failed" /\ basis'[p] = basis[p]
    PROVE  DispatchInv'
  <1> USE DEF siteVars
  <1>1. Untouched'
    BY DEF DispatchInv, Untouched
  <1>2. QueueIsHuman'
    BY DEF DispatchInv, QueueIsHuman
  <1>3. HumanAuthority'
    <2>1. \A q \in Props : Enough(q)' <=> Enough(q)
      BY DEF Enough
    <2> QED
      BY <2>1 DEF DispatchInv, HumanAuthority, QueueIsHuman
  <1>4. AnswerSettles'
    BY DEF DispatchInv, AnswerSettles, PTypeOK
  <1>5. DirectiveIsHeard'
    BY DEF DispatchInv, DirectiveIsHeard
  <1>6. OneOpen'
    BY DEF DispatchInv, OneOpen, OpenStatus
  <1> QED
    BY <1>1, <1>2, <1>3, <1>4, <1>5, <1>6 DEF DispatchInv

\* dispatch_decided and _dispatch_one, by a pass of any replica.
LEMMA DispatcherStep ==
    ASSUME PTypeOK, DispatchInv, NEW s \in Passes, Dispatcher(s)
    PROVE  DispatchInv'
  <1> USE DEF rowVars, siteVars
  <1>0. s \in Senders /\ Nobody \notin Senders /\ Gone \notin Senders
    BY ProposalsAssumption DEF Senders
  <1>1. ASSUME NEW p \in Props, Pick(s, p) PROVE DispatchInv'
    <2>1. /\ UNCHANGED <<rowVars, siteVars, unheard>>
          /\ task[s] = Idle /\ task' = [task EXCEPT ![s] = [at |-> "read", prop |-> p, basis |-> basis[p]]]
      BY <1>1 DEF Pick
    <2> QED
      BY <1>0, <2>1, QuietStep DEF PTypeOK, Calling
  <1>2. CASE Gate(s)
    <2>1. /\ UNCHANGED <<rowVars, siteVars, unheard>>
          /\ task[s] # Idle /\ task[s].at = "read"
          /\ \A r \in Senders \ {s} : task'[r] = task[r]
          /\ task'[s] = Idle \/ task'[s].at = "gated"
      BY <1>0, <1>2, TaskOf DEF Gate, PTypeOK, Task
    <2> QED
      BY <1>0, <2>1, QuietStep DEF Calling
  <1>3. CASE Withhold(s) /\ ~Claimable(task[s].prop, task[s].basis)
    <2>1. /\ UNCHANGED <<rowVars, siteVars, unheard>>
          /\ task[s].at = "gated" /\ task' = [task EXCEPT ![s] = Idle]
      BY <1>3 DEF Withhold
    <2> QED
      BY <1>0, <2>1, QuietStep DEF PTypeOK, Calling
  <1>4. CASE Withhold(s) /\ Claimable(task[s].prop, task[s].basis)
    <2> DEFINE p == task[s].prop
    <2>1. p \in Props
      BY <1>0, <1>4, TaskOf DEF Withhold
    <2>2. /\ task[s].at = "gated" /\ task' = [task EXCEPT ![s] = Idle]
          /\ basis[p] = "autonomous" /\ status[p] = "approved" /\ claim[p] \in {Nobody, Gone}
          /\ status' = [status EXCEPT ![p] = "awaiting"]
          /\ basis' = [basis EXCEPT ![p] = "human"]
          /\ claim' = [claim EXCEPT ![p] = Nobody]
          /\ UNCHANGED <<answered, records, siteVars, unheard>>
      BY <1>4 DEF Withhold, Claimable
    <2>3. \A r \in Senders : ~Calling(r, p)
      BY <2>2, NoCaller
    <2>4. OneSender'
      <3>1. \A r \in Senders \ {s} : task'[r] = task[r]
        BY <2>2 DEF PTypeOK
      <3>2. \A q : ~Calling(s, q)'
        BY <1>0, <2>2 DEF PTypeOK, Calling
      <3>3. \A q \in Props \ {p} : /\ claim'[q] = claim[q] /\ status'[q] = status[q]
                                   /\ basis'[q] = basis[q]
        BY <2>2 DEF PTypeOK
      <3> HIDE DEF p
      <3> QED
        BY <1>0, <2>1, <2>3, <3>1, <3>2, <3>3, OthersCall
    <2>5. \A r \in Senders : \A q : Calling(r, q) => Calling(r, q)' /\ task'[r] = task[r]
      BY <1>0, <2>2 DEF PTypeOK, Calling
    <2>6. /\ \A q \in Props \ {p} : status'[q] = status[q] /\ basis'[q] = basis[q]
                                    /\ claim'[q] = claim[q]
          /\ status'[p] = "awaiting" /\ basis'[p] = "human"
      BY <2>1, <2>2 DEF PTypeOK
    <2> HIDE DEF p
    <2> QED
      BY <2>1, <2>2, <2>4, <2>5, <2>6, RowStep
  <1>5. CASE Claim(s) /\ ~Claimable(task[s].prop, task[s].basis)
    <2>1. /\ UNCHANGED <<rowVars, siteVars, unheard>>
          /\ task[s].at = "gated" /\ task' = [task EXCEPT ![s] = Idle]
      BY <1>5 DEF Claim
    <2> QED
      BY <1>0, <2>1, QuietStep DEF PTypeOK, Calling
  <1>6. CASE Claim(s) /\ Claimable(task[s].prop, task[s].basis)
    <2> DEFINE p == task[s].prop
    <2>1. p \in Props /\ task[s].basis \in Bases
      BY <1>0, <1>6, TaskOf DEF Claim
    <2>2. /\ task[s].at = "gated"
          /\ status[p] = "approved" /\ basis[p] = task[s].basis /\ claim[p] \in {Nobody, Gone}
          /\ UNCHANGED <<basis, answered, records, siteVars, unheard>>
          /\ \/ /\ claim' = [claim EXCEPT ![p] = s] /\ status' = status
                /\ task' = [task EXCEPT ![s] = Sending(p, task[s].basis)]
             \/ /\ status' = [status EXCEPT ![p] = "failed"]
                /\ claim' = [claim EXCEPT ![p] = Nobody]
                /\ task' = [task EXCEPT ![s] = Idle]
      BY <1>6 DEF Claim, Claimable
    <2>3. \A r \in Senders : ~Calling(r, p)
      BY <2>2, NoCaller
    <2>4. /\ \A r \in Senders \ {s} : task'[r] = task[r]
          /\ \A q \in Props \ {p} : /\ claim'[q] = claim[q] /\ status'[q] = status[q]
                                    /\ basis'[q] = basis[q]
          /\ basis'[p] = basis[p]
          /\ \/ status'[p] = status[p] /\ claim'[p] = s /\ task'[s] = Sending(p, task[s].basis)
             \/ status'[p] = "failed" /\ task'[s] = Idle
      BY <1>0, <2>1, <2>2 DEF PTypeOK
    <2>5. OneSender'
      <3>1. \A q : Calling(s, q)' => /\ claim'[q] = s /\ status'[q] = "approved"
                                     /\ basis'[q] = task'[s].basis
        BY <2>2, <2>4 DEF Calling, Sending
      <3> HIDE DEF p
      <3> QED
        BY <1>0, <2>1, <2>3, <2>4, <3>1, OthersCall
    <2>6. \A r \in Senders : \A q : Calling(r, q) => Calling(r, q)' /\ task'[r] = task[r]
      BY <1>0, <2>2, <2>4 DEF Calling
    <2> HIDE DEF p
    <2> QED
      BY <2>1, <2>2, <2>4, <2>5, <2>6, RowStep
  <1> QED
    BY <1>1, <1>2, <1>3, <1>4, <1>5, <1>6 DEF Dispatcher

\* evaluate_completion approves only what enough people approved.
LEMMA CompletionApproves ==
    ASSUME NEW r \in [Approvers -> {"none", "approved", "denied"}], Completion(r) = "approved"
    PROVE  Cardinality(Approvals(r)) >= Needed /\ \A u \in Approvers : r[u] # "denied"
  BY DEF Completion

\* _decide_agent_proposal.
LEMMA DecideStep ==
    ASSUME PTypeOK, DispatchInv, NEW u \in Approvers, NEW p \in Props,
           NEW d \in {"approved", "denied"}, DecideProposal(u, p, d)
    PROVE  DispatchInv'
  <1> USE DEF siteVars
  <1> DEFINE r == [records[p] EXCEPT ![u] = d]
  <1>0. u \in Senders
    BY DEF Senders
  <1>1. /\ task[u] = Idle /\ status[p] = "awaiting" /\ basis[p] = "human"
        /\ records' = [records EXCEPT ![p] = r]
        /\ UNCHANGED <<basis, answered, siteVars, unheard>>
    BY DEF DecideProposal, DispatchInv, QueueIsHuman
  <1>2. \/ /\ Completion(r) = "approved"
           /\ status' = [status EXCEPT ![p] = "approved"]
           /\ claim' = [claim EXCEPT ![p] = u]
           /\ task' = [task EXCEPT ![u] = Sending(p, "human")]
        \/ /\ \E c \in {"denied", "awaiting", "failed"} : status' = [status EXCEPT ![p] = c]
           /\ UNCHANGED <<claim, task>>
    BY DEF DecideProposal, Completion
  <1>3. r \in [Approvers -> {"none", "approved", "denied"}]
    BY DEF PTypeOK
  <1>4. /\ \A s \in Senders \ {u} : task'[s] = task[s]
        /\ \A q \in Props \ {p} : /\ claim'[q] = claim[q] /\ status'[q] = status[q]
                                  /\ basis'[q] = basis[q] /\ records'[q] = records[q]
        /\ basis'[p] = "human" /\ records'[p] = r
        /\ \/ /\ Completion(r) = "approved" /\ status'[p] = "approved"
              /\ claim'[p] = u /\ task'[u] = Sending(p, "human")
           \/ status'[p] \in {"denied", "awaiting", "failed"} /\ task'[u] = Idle
    BY <1>0, <1>1, <1>2 DEF PTypeOK
  <1> HIDE DEF r
  <1>5. \A s \in Senders : ~Calling(s, p)
    BY <1>1, NoCaller
  <1>6. OneSender'
    <2>1. \A q : Calling(u, q)' => /\ claim'[q] = u /\ status'[q] = "approved"
                                   /\ basis'[q] = task'[u].basis
      BY <1>1, <1>4 DEF Calling, Sending
    <2> QED
      BY <1>0, <1>4, <1>5, <2>1, OthersCall
  <1>7. Untouched' /\ QueueIsHuman'
    BY <1>1, <1>4 DEF DispatchInv, Untouched, QueueIsHuman
  <1>8. HumanAuthority'
    <2>1. \A q \in Props \ {p} : Enough(q)' <=> Enough(q)
      BY <1>4 DEF Enough
    <2>2. directive[p] # "human" /\ <<p, "human">> \notin late
      BY <1>1 DEF DispatchInv, HumanAuthority
    <2>3. Completion(r) = "approved" => Enough(p)'
      BY <1>3, <1>4, CompletionApproves DEF Enough
    <2> QED
      BY <1>1, <1>4, <2>1, <2>2, <2>3 DEF DispatchInv, HumanAuthority
  <1>9. AnswerSettles'
    BY <1>1, <1>4 DEF DispatchInv, AnswerSettles, PTypeOK
  <1>10. DirectiveIsHeard'
    <2>1. \A s \in Senders : \A q : Calling(s, q) => Calling(s, q)' /\ task'[s] = task[s]
      BY <1>1, <1>4 DEF Calling
    <2> QED
      BY <1>1, <2>1 DEF DispatchInv, DirectiveIsHeard
  <1>11. OneOpen'
    BY <1>1, <1>4 DEF DispatchInv, OneOpen, OpenStatus
  <1> QED
    BY <1>6, <1>7, <1>8, <1>9, <1>10, <1>11 DEF DispatchInv

-----------------------------------------------------------------------------
(* The call and the site.                                                  *)

\* The Site Manager's answer.
LEMMA AnswerStep ==
    ASSUME PTypeOK, DispatchInv, NEW s \in Senders, SmAnswer(s)
    PROVE  DispatchInv'
  <1> DEFINE p == task[s].prop
             b == task[s].basis
  <1>1. p \in Props /\ b \in Bases /\ task[s] \in Task /\ Calling(s, p)
    BY TaskOf DEF SmAnswer, Calling
  <1>2. claim[p] = s /\ status[p] = "approved" /\ basis[p] = b
    BY <1>1, CallerHolds
  <1>3. /\ UNCHANGED <<status, basis, claim, answered, records, late, outcome, unheard>>
        /\ task[s].at = "sending"
        /\ \/ /\ directive' = [directive EXCEPT ![p] = IF @ = "none" THEN b ELSE @]
              /\ task' = [task EXCEPT ![s] = [task[s] EXCEPT !.at = "accepted"]]
           \/ /\ directive' = directive
              /\ task' = [task EXCEPT ![s] = [task[s] EXCEPT !.at = "refused"]]
    BY DEF SmAnswer, rowVars
  <1>4. /\ \A q \in Props \ {p} : directive'[q] = directive[q]
        /\ \A r \in Senders \ {s} : task'[r] = task[r]
        /\ task'[s] \in Task /\ task'[s].prop = p /\ task'[s].basis = b
        /\ \/ /\ task'[s].at = "accepted"
              /\ directive'[p] = IF directive[p] = "none" THEN b ELSE directive[p]
           \/ task'[s].at = "refused" /\ directive'[p] = directive[p]
    BY <1>1, <1>3 DEF PTypeOK, Task
  <1>5. task'[s] # Idle
    BY <1>4, ProposalsAssumption
  <1> HIDE DEF p, b
  <1>6. OneSender'
    <2> SUFFICES ASSUME NEW r \in Senders, NEW q, Calling(r, q)'
                 PROVE  claim[q] = r /\ status[q] = "approved" /\ basis[q] = task'[r].basis
      BY <1>3 DEF OneSender, Calling
    <2>1. CASE r = s
      BY <1>2, <1>4, <2>1 DEF Calling
    <2>2. CASE r # s
      BY <1>4, <2>2, CallerHolds DEF Calling
    <2> QED
      BY <2>1, <2>2
  <1>7. Untouched' /\ QueueIsHuman' /\ AnswerSettles' /\ OneOpen'
    BY <1>2, <1>3, <1>4 DEF DispatchInv, Untouched, QueueIsHuman, AnswerSettles, OneOpen
  <1>8. HumanAuthority'
    <2>1. \A q \in Props : Enough(q)' <=> Enough(q)
      BY <1>3 DEF Enough
    <2> QED
      BY <1>2, <1>3, <1>4, <2>1 DEF DispatchInv, HumanAuthority
  <1>9. DirectiveIsHeard'
    <2> SUFFICES ASSUME NEW q \in Props, directive'[q] # "none", q \notin unheard, q \notin answered
                 PROVE  \E r \in Senders : Calling(r, q)' /\ task'[r].at = "accepted"
      BY <1>3 DEF DirectiveIsHeard
    <2>1. CASE directive[q] # "none"
      <3> PICK r \in Senders : Calling(r, q) /\ task[r].at = "accepted"
        BY <2>1 DEF DispatchInv, DirectiveIsHeard
      <3>1. r # s
        BY <1>3
      <3> QED
        BY <1>4, <3>1 DEF Calling
    <2>2. CASE directive[q] = "none"
      <3>1. q = p /\ task'[s].at = "accepted"
        BY <1>4, <2>2
      <3> QED
        BY <1>4, <1>5, <3>1 DEF Calling
    <2> QED
      BY <2>1, <2>2
  <1> QED
    BY <1>6, <1>7, <1>8, <1>9 DEF DispatchInv

\* mark_dispatched or mark_failed.
LEMMA RecordStep ==
    ASSUME PTypeOK, DispatchInv, NEW s \in Senders, Record(s)
    PROVE  DispatchInv'
  <1> DEFINE p == task[s].prop
  <1>1. p \in Props /\ Calling(s, p)
    BY TaskOf DEF Record, Calling
  <1>2. claim[p] = s /\ status[p] = "approved"
    BY <1>1, CallerHolds
  <1>3. \A r \in Senders \ {s} : ~Calling(r, p)
    BY <1>2, CallerHolds
  <1>4. /\ UNCHANGED <<basis, records, directive, late, outcome>>
        /\ claim' = [claim EXCEPT ![p] = Nobody] /\ task' = [task EXCEPT ![s] = Idle]
        /\ \/ /\ task[s].at = "accepted"
              /\ status' = [status EXCEPT ![p] = "dispatched"]
              /\ answered' = answered \cup {p} /\ unheard' = unheard \ {p}
           \/ /\ task[s].at = "refused"
              /\ status' = [status EXCEPT ![p] = "failed"]
              /\ answered' = answered /\ unheard' = unheard
    BY DEF Record, siteVars
  <1>5. /\ \A r \in Senders \ {s} : task'[r] = task[r]
        /\ task'[s] = Idle
        /\ \A q \in Props \ {p} : status'[q] = status[q] /\ claim'[q] = claim[q]
        /\ status'[p] = IF task[s].at = "accepted" THEN "dispatched" ELSE "failed"
    BY <1>1, <1>4 DEF PTypeOK
  <1> HIDE DEF p
  <1>6. OneSender'
    <2>1. \A q : ~Calling(s, q)'
      BY <1>5 DEF Calling
    <2> QED
      BY <1>1, <1>3, <1>4, <1>5, <2>1, OthersCall
  <1>7. Untouched' /\ QueueIsHuman' /\ OneOpen'
    BY <1>2, <1>4, <1>5 DEF DispatchInv, Untouched, QueueIsHuman, OneOpen, OpenStatus
  <1>8. HumanAuthority'
    <2>1. \A q \in Props : Enough(q)' <=> Enough(q)
      BY <1>4 DEF Enough
    <2> QED
      BY <1>2, <1>4, <1>5, <2>1 DEF DispatchInv, HumanAuthority
  <1>9. AnswerSettles'
    BY <1>2, <1>4, <1>5 DEF DispatchInv, AnswerSettles, PTypeOK
  <1>10. DirectiveIsHeard'
    <2> SUFFICES ASSUME NEW q \in Props, directive[q] # "none", q \notin unheard', q \notin answered'
                 PROVE  \E r \in Senders : Calling(r, q)' /\ task'[r].at = "accepted"
      BY <1>4 DEF DirectiveIsHeard
    <2>1. q \notin answered /\ q \notin unheard
      BY <1>4
    <2> PICK r \in Senders : Calling(r, q) /\ task[r].at = "accepted"
      BY <2>1 DEF DispatchInv, DirectiveIsHeard
    <2>2. r # s
      BY <1>1, <1>4 DEF Calling, p
    <2> QED
      BY <1>5, <2>2 DEF Calling
  <1> QED
    BY <1>6, <1>7, <1>8, <1>9, <1>10 DEF DispatchInv

\* The caller stops waiting or dies: the claim is released or outlives it, the
\* request may arrive later.
LEMMA GiveUpStep ==
    ASSUME PTypeOK, DispatchInv, NEW s \in Senders, NEW arrives \in BOOLEAN, GiveUp(s, arrives),
           UNCHANGED <<status, basis, answered, records, directive, outcome>>,
           \A q \in Props : claim'[q] = claim[q] \/ claim[q] = s
    PROVE  DispatchInv'
  <1> DEFINE p == task[s].prop
             b == task[s].basis
  <1>1. p \in Props /\ b \in Bases /\ task[s] # Idle
    BY TaskOf DEF GiveUp
  <1>2. /\ late' = late \/ (task[s].at = "sending" /\ late' = late \cup {<<p, b>>})
        /\ unheard \subseteq unheard'
        /\ task[s].at = "accepted" => p \in unheard'
        /\ task' = [task EXCEPT ![s] = Idle]
    BY DEF GiveUp
  <1>3. \A r \in Senders \ {s} : task'[r] = task[r]
    BY <1>2 DEF PTypeOK
  <1>4. task'[s] = Idle
    BY <1>2 DEF PTypeOK
  <1>5. \A q \in Props, x \in Bases : <<q, x>> \in late' \ late =>
          status[q] = "approved" /\ basis[q] = x
    <2>1. task[s].at = "sending" => Calling(s, p)
      BY <1>1 DEF Calling
    <2> QED
      BY <1>2, <2>1, CallerHolds
  <1> HIDE DEF b
  <1>6. OneSender'
    <2> SUFFICES ASSUME NEW r \in Senders, NEW q, Calling(r, q)'
                 PROVE  claim'[q] = r /\ status[q] = "approved" /\ basis[q] = task'[r].basis
      BY DEF OneSender, Calling
    <2>1. r # s
      BY <1>4 DEF Calling
    <2>2. Calling(r, q) /\ task'[r] = task[r]
      BY <1>3, <2>1 DEF Calling
    <2>3. q \in Props
      BY <2>2, TaskOf DEF Calling
    <2> QED
      BY <2>1, <2>2, <2>3, CallerHolds
  <1>7. Untouched'
    <2> SUFFICES ASSUME NEW q \in Props, status[q] = "none"
                 PROVE  /\ q \notin answered /\ claim'[q] = Nobody /\ directive[q] = "none"
                        /\ \A x \in Bases : <<q, x>> \notin late'
      BY DEF Untouched
    <2>1. claim[q] = Nobody
      BY DEF DispatchInv, Untouched
    <2>2. claim'[q] = Nobody
      BY <2>1, ProposalsAssumption
    <2> QED
      BY <1>5, <2>2 DEF DispatchInv, Untouched
  <1>8. QueueIsHuman' /\ AnswerSettles' /\ OneOpen'
    BY DEF DispatchInv, QueueIsHuman, AnswerSettles, OneOpen
  <1>9. HumanAuthority'
    <2>1. \A q \in Props : Enough(q)' <=> Enough(q)
      BY DEF Enough
    <2>2. \A q \in Props : <<q, "human">> \in late' \ late => status[q] = "approved" /\ basis[q] = "human"
      BY <1>5 DEF Bases
    <2> QED
      BY <2>1, <2>2 DEF DispatchInv, HumanAuthority
  <1>10. DirectiveIsHeard'
    <2> SUFFICES ASSUME NEW q \in Props, directive[q] # "none", q \notin unheard', q \notin answered
                 PROVE  \E r \in Senders : Calling(r, q)' /\ task'[r].at = "accepted"
      BY DEF DirectiveIsHeard
    <2> PICK r \in Senders : Calling(r, q) /\ task[r].at = "accepted"
      BY <1>2 DEF DispatchInv, DirectiveIsHeard
    <2>1. r # s
      BY <1>2 DEF Calling
    <2> QED
      BY <1>3, <2>1 DEF Calling
  <1> QED
    BY <1>6, <1>7, <1>8, <1>9, <1>10 DEF DispatchInv

\* One sender's call, from its answer to its end.
LEMMA CallStep ==
    ASSUME PTypeOK, DispatchInv, NEW s \in Senders, Call(s)
    PROVE  DispatchInv'
  <1>1. ASSUME NEW arrives \in BOOLEAN, CallFails(s, arrives) PROVE DispatchInv'
    <2>1. /\ GiveUp(s, arrives)
          /\ UNCHANGED <<status, basis, answered, records, directive, outcome>>
      BY <1>1 DEF CallFails
    <2>2. \A q \in Props : claim'[q] = claim[q] \/ claim[q] = s
      BY <1>1, TaskOf DEF CallFails, GiveUp, PTypeOK
    <2> QED
      BY <2>1, <2>2, GiveUpStep
  <1>2. ASSUME NEW arrives \in BOOLEAN, PassDies(s, arrives) PROVE DispatchInv'
    <2>1. /\ GiveUp(s, arrives)
          /\ UNCHANGED <<status, basis, answered, records, directive, outcome>>
      BY <1>2 DEF PassDies
    <2>2. \A q \in Props : claim'[q] = claim[q] \/ claim[q] = s
      BY <1>2 DEF PassDies
    <2> QED
      BY <2>1, <2>2, GiveUpStep
  <1> QED
    BY <1>1, <1>2, AnswerStep, RecordStep DEF Call

\* Late requests, outcomes and their settlement.
LEMMA SiteStep ==
    ASSUME PTypeOK, DispatchInv, NEW p \in Props, Site(p)
    PROVE  DispatchInv'
  <1>1. task' = task /\ basis' = basis /\ claim' = claim /\ answered' = answered /\ records' = records
    BY DEF Site, LateArrival, Ingest, Settle, rowVars
  <1>2. \A q \in Props : Enough(q)' <=> Enough(q)
    BY <1>1 DEF Enough
  <1>3. \A s \in Senders : \A q : Calling(s, q)' <=> Calling(s, q)
    BY <1>1 DEF Calling
  <1>4. ASSUME NEW b \in Bases, LateArrival(p, b) PROVE DispatchInv'
    <2>1. /\ status' = status /\ outcome' = outcome /\ <<p, b>> \in late /\ late' \subseteq late
          /\ \A q \in Props \ {p} : directive'[q] = directive[q]
          /\ \/ /\ directive'[p] = b /\ directive[p] = "none" /\ unheard \subseteq unheard'
                /\ p \in answered \/ p \in unheard'
             \/ directive'[p] = directive[p] /\ unheard' = unheard
      BY <1>4 DEF LateArrival, PTypeOK, rowVars
    <2>2. status[p] # "none"
      BY <2>1 DEF DispatchInv, Untouched
    <2>3. OneSender' /\ QueueIsHuman' /\ AnswerSettles' /\ OneOpen'
      BY <1>1, <2>1 DEF DispatchInv, OneSender, QueueIsHuman, AnswerSettles, OneOpen
    <2>4. Untouched'
      BY <1>1, <2>1, <2>2 DEF DispatchInv, Untouched
    <2>5. HumanAuthority'
      BY <1>1, <1>2, <2>1 DEF DispatchInv, HumanAuthority
    <2>6. DirectiveIsHeard'
      BY <1>1, <1>3, <2>1 DEF DispatchInv, DirectiveIsHeard
    <2> QED
      BY <2>3, <2>4, <2>5, <2>6 DEF DispatchInv
  <1>5. ASSUME NEW o \in {"SUCCESS", "FAILURE"}, Ingest(p, o) PROVE DispatchInv'
    <2>1. /\ UNCHANGED <<status, directive, late, unheard>>
          /\ \A q \in Props : outcome'[q] = "none" => outcome[q] = "none"
      BY <1>5 DEF Ingest, PTypeOK, rowVars
    <2>2. OneSender' /\ QueueIsHuman' /\ OneOpen' /\ Untouched'
      BY <1>1, <2>1 DEF DispatchInv, OneSender, QueueIsHuman, OneOpen, Untouched
    <2>3. AnswerSettles'
      BY <1>1, <2>1 DEF DispatchInv, AnswerSettles, PTypeOK
    <2>4. HumanAuthority' /\ DirectiveIsHeard'
      BY <1>1, <1>2, <1>3, <2>1 DEF DispatchInv, HumanAuthority, DirectiveIsHeard
    <2> QED
      BY <2>2, <2>3, <2>4 DEF DispatchInv
  <1>6. CASE Settle(p)
    <2>1. /\ UNCHANGED <<directive, late, outcome, unheard>>
          /\ status[p] = "dispatched" /\ outcome[p] # "none" /\ status'[p] \in {"completed", "failed"}
          /\ \A q \in Props \ {p} : status'[q] = status[q]
      BY <1>6 DEF Settle, PTypeOK, siteVars
    <2>2. OneSender'
      <3>1. \A s \in Senders : ~Calling(s, p)
        BY <2>1, NoCaller
      <3> SUFFICES ASSUME NEW s \in Senders, NEW q, Calling(s, q)'
                   PROVE  claim[q] = s /\ status'[q] = "approved" /\ basis[q] = task[s].basis
        BY <1>1 DEF OneSender, Calling
      <3>2. q \in Props \ {p}
        BY <1>3, <3>1, TaskOf DEF Calling
      <3> QED
        BY <1>3, <2>1, <3>2, CallerHolds
    <2>3. QueueIsHuman' /\ OneOpen' /\ Untouched'
      BY <1>1, <2>1 DEF DispatchInv, QueueIsHuman, OneOpen, Untouched, OpenStatus
    <2>4. AnswerSettles'
      BY <1>1, <2>1 DEF DispatchInv, AnswerSettles, PTypeOK
    <2>5. HumanAuthority' /\ DirectiveIsHeard'
      BY <1>1, <1>2, <1>3, <2>1 DEF DispatchInv, HumanAuthority, DirectiveIsHeard
    <2> QED
      BY <2>2, <2>3, <2>4, <2>5 DEF DispatchInv
  <1> QED
    BY <1>4, <1>5, <1>6 DEF Site

\* Every step of the proposals keeps the dispatch invariant.
LEMMA DispatchInvStep == PTypeOK /\ DispatchInv /\ [PNext]_pvars => DispatchInv'
  <1> SUFFICES ASSUME PTypeOK, DispatchInv, [PNext]_pvars PROVE DispatchInv'
    OBVIOUS
  <1>1. CASE UNCHANGED pvars
    BY <1>1, QuietStep DEF pvars
  <1>2. ASSUME NEW a \in Agents, NEW v \in {"all", "attended", "none"}, SetAuthority(a, v)
        PROVE  DispatchInv'
    BY <1>2, QuietStep DEF SetAuthority
  <1> QED
    BY <1>1, <1>2, AdmissionStep, DispatcherStep, DecideStep, CallStep, SiteStep DEF PNext

-----------------------------------------------------------------------------
(* The budget.                                                             *)

\* p counts against its agent's allowance.
Charged(p) ==
    /\ basis[p] = "autonomous"
    /\ p \in answered \/ (status[p] = "approved" /\ claim[p] # Nobody)

\* count_unattended is a count.
LEMMA UnattendedCounts ==
    ASSUME NEW a
    PROVE  /\ Unattended(a) = {p \in Props : AgentOf[p] = a /\ Charged(p)}
           /\ IsFiniteSet(Unattended(a)) /\ Cardinality(Unattended(a)) \in Nat
  <1>1. Unattended(a) = {p \in Props : AgentOf[p] = a /\ Charged(p)}
    BY DEF Unattended, Of, Charged
  <1>2. Unattended(a) \in SUBSET Props /\ IsFiniteSet(Props)
    BY <1>1, ProposalsAssumption
  <1>3. IsFiniteSet(Unattended(a))
    BY <1>2, FS_Subset
  <1> QED
    BY <1>1, <1>3, FS_CardinalityType

\* A step that charges no proposal anew keeps every agent within its budget.
LEMMA NothingCharged ==
    ASSUME PTypeOK, ChargedWithinBudget, \A p \in Props : Charged(p)' => Charged(p)
    PROVE  ChargedWithinBudget'
  <1> SUFFICES ASSUME NEW a \in Agents PROVE Cardinality(Unattended(a)') <= Budget
    BY DEF ChargedWithinBudget
  <1>1. Unattended(a)' = {p \in Props : AgentOf[p] = a /\ Charged(p)'}
    BY DEF Unattended, Of, Charged
  <1>2. Unattended(a)' \in SUBSET Unattended(a)
    BY <1>1, UnattendedCounts
  <1>3. IsFiniteSet(Unattended(a)) /\ Cardinality(Unattended(a)) <= Budget
    BY UnattendedCounts DEF ChargedWithinBudget
  <1>4. Cardinality(Unattended(a)') <= Cardinality(Unattended(a))
    BY <1>2, <1>3, FS_Subset
  <1>5. Cardinality(Unattended(a)') \in Nat /\ Cardinality(Unattended(a)) \in Nat
    BY <1>2, <1>3, FS_Subset, FS_CardinalityType
  <1> QED
    BY <1>3, <1>4, <1>5, ProposalsAssumption

\* One that charges a single proposal keeps it if there was room.
LEMMA OneCharged ==
    ASSUME PTypeOK, ChargedWithinBudget, NEW p \in Props,
           Cardinality(Unattended(AgentOf[p])) < Budget,
           \A q \in Props \ {p} : Charged(q)' => Charged(q)
    PROVE  ChargedWithinBudget'
  <1> SUFFICES ASSUME NEW a \in Agents PROVE Cardinality(Unattended(a)') <= Budget
    BY DEF ChargedWithinBudget
  <1>1. Unattended(a)' = {q \in Props : AgentOf[q] = a /\ Charged(q)'}
    BY DEF Unattended, Of, Charged
  <1>2. /\ IsFiniteSet(Unattended(a)) /\ Cardinality(Unattended(a)) \in Nat
        /\ Cardinality(Unattended(a)) <= Budget
    BY UnattendedCounts DEF ChargedWithinBudget
  <1>3. CASE a # AgentOf[p]
    <2>1. Unattended(a)' \in SUBSET Unattended(a)
      BY <1>1, <1>3, UnattendedCounts
    <2>2. Cardinality(Unattended(a)') <= Cardinality(Unattended(a)) /\ IsFiniteSet(Unattended(a)')
      BY <1>2, <2>1, FS_Subset
    <2> QED
      BY <1>2, <2>2, FS_CardinalityType, ProposalsAssumption
  <1>4. CASE a = AgentOf[p]
    <2>1. Unattended(a)' \in SUBSET (Unattended(a) \cup {p})
      BY <1>1, UnattendedCounts
    <2>2. /\ IsFiniteSet(Unattended(a) \cup {p})
          /\ Cardinality(Unattended(a) \cup {p}) <= Cardinality(Unattended(a)) + 1
      <3> DEFINE S == Unattended(a)
      <3> HIDE DEF S
      <3>1. /\ IsFiniteSet(S \cup {p})
            /\ \/ Cardinality(S \cup {p}) = Cardinality(S)
               \/ Cardinality(S \cup {p}) = Cardinality(S) + 1
        BY <1>2, FS_AddElement, Zenon DEF S
      <3> QED
        BY <1>2, <3>1 DEF S
    <2>3. /\ Cardinality(Unattended(a)') <= Cardinality(Unattended(a) \cup {p})
          /\ IsFiniteSet(Unattended(a)')
      BY <2>1, <2>2, FS_Subset
    <2>4. Cardinality(Unattended(a)') \in Nat /\ Cardinality(Unattended(a) \cup {p}) \in Nat
      BY <2>2, <2>3, FS_CardinalityType
    <2> QED
      BY <1>2, <1>4, <2>2, <2>3, <2>4, ProposalsAssumption
  <1> QED
    BY <1>3, <1>4

\* Count and claim are one step under the agent's lock, so no replica can
\* overtake the count of another.
LEMMA BudgetStep == PInv /\ [PNext]_pvars => ChargedWithinBudget'
  <1> SUFFICES ASSUME PInv, [PNext]_pvars PROVE ChargedWithinBudget'
    OBVIOUS
  <1>0. PTypeOK /\ DispatchInv /\ ChargedWithinBudget
    BY DEF PInv
  <1>1. ASSUME UNCHANGED <<status, basis, claim, answered>> PROVE ChargedWithinBudget'
    BY <1>0, <1>1, NothingCharged DEF Charged
  <1>2. CASE UNCHANGED pvars
    BY <1>1, <1>2 DEF pvars, rowVars
  <1>3. ASSUME NEW p \in Props, NEW v \in Verdicts, Admissible(p, v), Create(p, v)
        PROVE  ChargedWithinBudget'
    <2>1. /\ p \notin answered /\ claim[p] = Nobody
          /\ \A q \in Props \ {p} : status'[q] = status[q] /\ basis'[q] = basis[q]
          /\ claim' = claim /\ answered' = answered
      BY <1>0, <1>3 DEF DispatchInv, Untouched, Admissible, Create, PTypeOK
    <2> QED
      BY <1>0, <2>1, NothingCharged DEF Charged
  <1>4. CASE Admission
    <2>1. ASSUME NEW p \in Props, NEW v \in Verdicts, Evaluate(p, v) PROVE ChargedWithinBudget'
      BY <1>3, <2>1 DEF Evaluate
    <2>2. ASSUME NEW p \in Props, NEW v \in Verdicts, NEW k \in SubKeys, Submit(k, p, v)
          PROVE ChargedWithinBudget'
      BY <1>1, <1>3, <2>2 DEF Submit, rowVars
    <2> QED
      BY <1>4, <2>1, <2>2 DEF Admission
  <1>5. ASSUME NEW s \in Passes, Dispatcher(s) PROVE ChargedWithinBudget'
    <2>0. s \in Senders
      BY DEF Senders
    <2>1. CASE Gate(s) \/ \E p \in Props : Pick(s, p)
      BY <1>1, <2>1 DEF Gate, Pick, rowVars
    <2>2. CASE Withhold(s)
      <3>1. UNCHANGED rowVars \/ /\ basis' = [basis EXCEPT ![task[s].prop] = "human"]
                                 /\ status' = [status EXCEPT ![task[s].prop] = "awaiting"]
                                 /\ claim' = [claim EXCEPT ![task[s].prop] = Nobody]
                                 /\ answered' = answered
        BY <2>2 DEF Withhold
      <3>2. task[s].prop \in Props
        BY <1>0, <2>0, <2>2, TaskOf DEF Withhold
      <3>3. \A q \in Props : Charged(q)' => Charged(q)
        BY <1>0, <3>1, <3>2 DEF Charged, PTypeOK, rowVars
      <3> QED
        BY <1>0, <3>3, NothingCharged
    <2>3. CASE Claim(s)
      <3> DEFINE p == task[s].prop
      <3>1. p \in Props /\ task[s].basis \in Bases
        BY <1>0, <2>0, <2>3, TaskOf DEF Claim
      <3>2. CASE UNCHANGED <<status, claim>>
        BY <1>1, <2>3, <3>2 DEF Claim
      <3>3. CASE ~UNCHANGED <<status, claim>>
        <4>1. /\ Claimable(p, task[s].basis) /\ UNCHANGED <<basis, answered>>
              /\ task[s].basis = "autonomous" => Cardinality(Unattended(AgentOf[p])) < Budget
              /\ status' = status \/ status' = [status EXCEPT ![p] = "failed"]
              /\ claim' = [claim EXCEPT ![p] = s] \/ claim' = [claim EXCEPT ![p] = Nobody]
          BY <2>3, <3>3 DEF Claim
        <4>2. \A q \in Props \ {p} : Charged(q)' => Charged(q)
          BY <1>0, <3>1, <4>1 DEF Charged, PTypeOK
        <4> HIDE DEF p
        <4>3. CASE task[s].basis = "autonomous"
          BY <1>0, <3>1, <4>1, <4>2, <4>3, OneCharged
        <4>4. CASE task[s].basis # "autonomous"
          <5>1. basis'[p] # "autonomous"
            BY <4>1, <4>4 DEF Claimable
          <5>2. \A q \in Props : Charged(q)' => Charged(q)
            BY <4>2, <5>1 DEF Charged
          <5> QED
            BY <1>0, <5>2, NothingCharged
        <4> QED
          BY <4>3, <4>4
      <3> QED
        BY <3>2, <3>3
    <2> QED
      BY <1>5, <2>1, <2>2, <2>3 DEF Dispatcher
  <1>6. ASSUME NEW u \in Approvers, NEW p \in Props, NEW d \in {"approved", "denied"},
               DecideProposal(u, p, d)
        PROVE  ChargedWithinBudget'
    <2>1. /\ basis' = basis /\ basis[p] = "human" /\ answered' = answered
          /\ \A q \in Props \ {p} : status'[q] = status[q] /\ claim'[q] = claim[q]
      BY <1>0, <1>6 DEF DecideProposal, PTypeOK, DispatchInv, QueueIsHuman
    <2> QED
      BY <1>0, <2>1, NothingCharged DEF Charged
  <1>7. ASSUME NEW s \in Senders, Call(s) PROVE ChargedWithinBudget'
    <2>1. CASE SmAnswer(s)
      BY <1>1, <2>1 DEF SmAnswer, rowVars
    <2>2. CASE Record(s)
      <3> DEFINE p == task[s].prop
      <3>1. p \in Props /\ Calling(s, p)
        BY <1>0, <2>2, TaskOf DEF Record, Calling
      <3>2. status[p] = "approved" /\ claim[p] # Nobody
        BY <1>0, <3>1, CallerHolds, ProposalsAssumption
      <3>3. /\ basis' = basis /\ answered' \subseteq answered \cup {p}
            /\ \A q \in Props \ {p} : status'[q] = status[q] /\ claim'[q] = claim[q]
        BY <1>0, <2>2, <3>1 DEF Record, PTypeOK
      <3> HIDE DEF p
      <3>4. \A q \in Props : Charged(q)' => Charged(q)
        BY <3>2, <3>3 DEF Charged
      <3> QED
        BY <1>0, <3>4, NothingCharged
    <2>3. ASSUME NEW arrives \in BOOLEAN, CallFails(s, arrives) PROVE ChargedWithinBudget'
      <3>1. /\ UNCHANGED <<status, basis, answered>>
            /\ \A q \in Props : claim'[q] \in {claim[q], Nobody}
        BY <1>0, <2>3, TaskOf DEF CallFails, GiveUp, PTypeOK
      <3>2. \A q \in Props : Charged(q)' => Charged(q)
        BY <3>1 DEF Charged
      <3> QED
        BY <1>0, <3>2, NothingCharged
    <2>4. ASSUME NEW arrives \in BOOLEAN, PassDies(s, arrives) PROVE ChargedWithinBudget'
      <3>1. /\ UNCHANGED <<status, basis, answered>>
            /\ \A q \in Props : claim'[q] # Nobody => claim[q] # Nobody
        BY <2>4, ProposalsAssumption DEF PassDies
      <3> QED
        BY <1>0, <3>1, NothingCharged DEF Charged
    <2> QED
      BY <1>7, <2>1, <2>2, <2>3, <2>4 DEF Call
  <1>8. ASSUME NEW p \in Props, Site(p) PROVE ChargedWithinBudget'
    <2>1. /\ UNCHANGED <<basis, claim, answered>>
          /\ \A q \in Props : status'[q] = "approved" => status[q] = "approved"
      BY <1>0, <1>8 DEF Site, LateArrival, Ingest, Settle, rowVars, PTypeOK
    <2> QED
      BY <1>0, <2>1, NothingCharged DEF Charged
  <1>9. ASSUME NEW a \in Agents, NEW v \in {"all", "attended", "none"}, SetAuthority(a, v)
        PROVE  ChargedWithinBudget'
    BY <1>1, <1>9 DEF SetAuthority, rowVars
  <1> QED
    BY <1>2, <1>4, <1>5, <1>6, <1>7, <1>8, <1>9 DEF PNext

-----------------------------------------------------------------------------
(* Theorems.                                                               *)

\* The whole invariant holds initially.
LEMMA PInitInv == PInit => PInv
  <1> SUFFICES ASSUME PInit PROVE PInv
    OBVIOUS
  <1>1. PTypeOK
    BY PInitType
  <1>2. DispatchInv
    BY DEF PInit, DispatchInv, OneSender, Untouched, QueueIsHuman, HumanAuthority, AnswerSettles,
           DirectiveIsHeard, OneOpen, OpenStatus
  <1>3. \A a : Unattended(a) = {}
    BY DEF PInit, Unattended, Of
  <1>4. ChargedWithinBudget
    BY <1>3, FS_EmptySet, ProposalsAssumption DEF ChargedWithinBudget
  <1> QED
    BY <1>1, <1>2, <1>4 DEF PInv

\* The inductive invariant holds in every reachable state.
THEOREM ProposalInvariant == PSpec => []PInv
  <1>1. PInv /\ [PNext]_pvars => PInv'
    BY PTypeStep, DispatchInvStep, BudgetStep DEF PInv
  <1> QED
    BY <1>1, PInitInv, PTL DEF PSpec

\* The proposal rows, the claims and the senders are well typed at all times.
THEOREM ProposalTypes == PSpec => []PTypeOK
  <1>1. PInv => PTypeOK
    BY DEF PInv
  <1> QED
    BY <1>1, ProposalInvariant, PTL

\* claim_dispatch: at most one live caller sends a proposal, while the row is
\* approved, claimed by it and on the basis it sends, for any number of
\* replicas, approvers, failed calls and crashes.
THEOREM OneSenderAtATime == PSpec => []OneSender
  <1>1. PInv => OneSender
    BY DEF PInv, DispatchInv
  <1> QED
    BY <1>1, ProposalInvariant, PTL

\* count_unattended and claim_dispatch under the agent's lock: no interleaving
\* of replicas exceeds an agent's allowance.
THEOREM BudgetIsKept == PSpec => []ChargedWithinBudget
  <1>1. PInv => ChargedWithinBudget
    BY DEF PInv
  <1> QED
    BY <1>1, ProposalInvariant, PTL

\* evaluate_completion and the approval ledger: no directive on a human's
\* authority without the approvals the policy asks for, and none of a proposal
\* in the human queue or denied, unless the answer of an earlier send was lost.
THEOREM DirectivesWereDecided == PSpec => []DecisionGoverns
  <1>1. PInv => DecisionGoverns
    <2> SUFFICES ASSUME PInv, NEW p \in Props, directive[p] # "none"
                 PROVE  /\ directive[p] = "human" => Enough(p)
                        /\ status[p] \in {"denied", "awaiting", "blocked"} => p \in unheard
      BY DEF DecisionGoverns, Enough
    <2>1. directive[p] = "human" => Enough(p)
      BY DEF PInv, DispatchInv, HumanAuthority
    <2>2. ASSUME status[p] \in {"denied", "awaiting", "blocked"} PROVE p \in unheard
      <3>1. \A s \in Senders : ~Calling(s, p)
        BY <2>2, NoCaller DEF PInv
      <3>2. p \notin answered
        BY <2>2 DEF PInv, DispatchInv, AnswerSettles
      <3> QED
        BY <3>1, <3>2 DEF PInv, DispatchInv, DirectiveIsHeard
    <2> QED
      BY <2>1, <2>2
  <1> QED
    BY <1>1, ProposalInvariant, PTL

\* find_open_operation: one physical operation is in flight once, in the table
\* and, but for lost answers, on the devices.
THEOREM OperationsDoNotOverlap == PSpec => []OneRunPerOperation
  <1>1. PInv => OneRunPerOperation
    <2> SUFFICES ASSUME PInv PROVE OneRunPerOperation
      OBVIOUS
    <2>1. ASSUME NEW p \in Props, directive[p] # "none", outcome[p] = "none", p \notin unheard
          PROVE  status[p] \in OpenStatus
      <3>1. CASE p \in answered
        BY <2>1, <3>1 DEF PInv, DispatchInv, AnswerSettles, OpenStatus
      <3>2. CASE p \notin answered
        <4> PICK s \in Senders : Calling(s, p)
          BY <2>1, <3>2 DEF PInv, DispatchInv, DirectiveIsHeard
        <4> QED
          BY CallerHolds DEF PInv, OpenStatus
      <3> QED
        BY <3>1, <3>2
    <2> QED
      BY <2>1 DEF PInv, DispatchInv, OneOpen, OneRunPerOperation
  <1> QED
    BY <1>1, ProposalInvariant, PTL

-----------------------------------------------------------------------------
(* Central Command's view of the Site Manager is the at-most-once register. *)

\* What the register sees.
Bound == directive
Ran == [p \in Props |-> IF outcome[p] = "none" THEN 0 ELSE 1]

\* A proposal without a directive is bound to a basis.
LEMMA BindIsAccept ==
    ASSUME PTypeOK, NEW p \in Props, NEW b \in Bases, directive[p] = "none",
           directive' = [directive EXCEPT ![p] = b], outcome' = outcome
    PROVE  [Register!WNext]_<<Bound, Ran>>
  BY DEF Register!WNext, Register!Accept, Bound, Ran

\* Every step maps to a step of the write-once register, or to none.
LEMMA PStepIsRegisterStep ==
    ASSUME PTypeOK, [PNext]_pvars
    PROVE  [Register!WNext]_<<Bound, Ran>>
  <1>1. ASSUME UNCHANGED <<directive, outcome>> PROVE [Register!WNext]_<<Bound, Ran>>
    BY <1>1 DEF Bound, Ran
  <1>2. CASE \/ UNCHANGED pvars \/ Admission \/ \E s \in Passes : Dispatcher(s)
             \/ \E u \in Approvers, p \in Props, d \in {"approved", "denied"} : DecideProposal(u, p, d)
             \/ \E a \in Agents, v \in {"all", "attended", "none"} : SetAuthority(a, v)
    <2>1. UNCHANGED siteVars
      BY <1>2 DEF pvars, Admission, Evaluate, Submit, Dispatcher, Pick, Gate, Withhold, Claim,
                  DecideProposal, SetAuthority
    <2> QED
      BY <1>1, <2>1 DEF siteVars
  <1>3. ASSUME NEW s \in Senders, Call(s) PROVE [Register!WNext]_<<Bound, Ran>>
    <2>1. CASE SmAnswer(s)
      <3> DEFINE p == task[s].prop
                 b == task[s].basis
      <3>1. /\ p \in Props /\ b \in Bases /\ outcome' = outcome
            /\ \/ directive' = [directive EXCEPT ![p] = IF @ = "none" THEN b ELSE @]
               \/ directive' = directive
        BY <2>1, TaskOf DEF SmAnswer
      <3> HIDE DEF p, b
      <3>2. directive' = directive \/ (directive[p] = "none" /\ directive' = [directive EXCEPT ![p] = b])
        BY <3>1 DEF PTypeOK
      <3> QED
        BY <1>1, <3>1, <3>2, BindIsAccept
    <2>2. CASE Record(s) \/ \E arrives \in BOOLEAN : CallFails(s, arrives) \/ PassDies(s, arrives)
      BY <1>1, <2>2 DEF Record, CallFails, PassDies, siteVars
    <2> QED
      BY <1>3, <2>1, <2>2 DEF Call
  <1>4. ASSUME NEW p \in Props, Site(p) PROVE [Register!WNext]_<<Bound, Ran>>
    <2>1. ASSUME NEW b \in Bases, LateArrival(p, b) PROVE [Register!WNext]_<<Bound, Ran>>
      BY <1>1, <2>1, BindIsAccept DEF LateArrival
    <2>2. ASSUME NEW o \in {"SUCCESS", "FAILURE"}, Ingest(p, o) PROVE [Register!WNext]_<<Bound, Ran>>
      <3>1. Bound[p] # "none" /\ Bound' = Bound
        BY <2>2 DEF Ingest, Bound
      <3>2. Ran[p] = 0 /\ Ran' = [Ran EXCEPT ![p] = 1]
        BY <2>2 DEF Ingest, Ran, PTypeOK
      <3> QED
        BY <3>1, <3>2 DEF Register!WNext, Register!Execute, Bound, Ran
    <2>3. CASE Settle(p)
      BY <1>1, <2>3 DEF Settle, siteVars
    <2> QED
      BY <1>4, <2>1, <2>2, <2>3 DEF Site
  <1> QED
    BY <1>2, <1>3, <1>4 DEF PNext

\* dispatch_idempotency.py seen from Central Command: through failed calls,
\* late arrivals, dead passes and claims taken over, a proposal is bound to one
\* basis and runs once.
THEOREM SiteIsRegister == PSpec => RegisterSpec
  <1>1. PInit => Register!WInit
    BY DEF PInit, Register!WInit
  <1>2. PTypeOK /\ [PNext]_pvars => [Register!WNext]_(Register!wvars)
    BY PStepIsRegisterStep DEF Register!wvars, Bound, Ran
  <1> QED
    BY <1>1, <1>2, ProposalTypes, PTL DEF PSpec, RegisterSpec, Register!WSpec

=============================================================================
