------------------------ MODULE CampaignRunnerProofs ------------------------
(***************************************************************************)
(* Proofs about Central Command's campaigns, for any sites, devices and    *)
(* plans: no device runs twice, none that was excluded runs, and a site's  *)
(* waves run in order.                                                     *)
(*                                                                         *)
(* What a pass does follows from rows it loaded earlier, so the invariant  *)
(* relates the rows, the view of each pass and the locks.  A wave that is  *)
(* closed, in the table or in a view, either was the end of its site (no   *)
(* later wave is authorised there) or nothing bad has come of it and       *)
(* nothing can any more: its devices are all in the ledger or narrowed     *)
(* away, or no pass holds it for runnable.                                 *)
(***************************************************************************)
EXTENDS CampaignRunner, WellFoundedInduction, TLAPS

Answers == {"none", "accepted", "refused"}
WaveStates == Closed \cup Voidable \cup {"dispatched"}
SiteStates == {"pending", "running", "halted", "completed", "skipped"}
TxFields == {"base", "site", "wave", "todo", "ended", "queue", "locked",
             "skips", "mine", "campaign"}

On(p) == tx[p] # NoTx

\* What a pass holds is locked, and what it asked or narrowed away it held.
TxTyped(t) ==
    /\ DOMAIN t = TxFields
    /\ t.site \in [Sites -> SiteStates] /\ t.campaign \in {"", "running"}
    /\ t.wave \in [Waves -> WaveStates] /\ t.base.wave \in [Waves -> WaveStates]
    /\ t.todo \subseteq Sites
    /\ t.locked \subseteq Devices /\ t.queue \subseteq t.locked /\ t.skips \subseteq t.locked
    /\ t.mine \in [Devices -> Answers]
    /\ \A d \in Devices : t.mine[d] # "none" => d \in t.locked

CTypeOK ==
    /\ asked \in [Devices -> Nat] /\ lost \in [Devices -> Nat]
    /\ reported \in [Devices -> Nat]
    /\ DOMAIN outcome = Devices
    /\ ledger \in [Devices -> Answers]
    /\ wave \in [Waves -> WaveStates] /\ site \in [Sites -> SiteStates]
    /\ layout \in Layouts
    /\ \A s \in Sites : /\ DOMAIN plan[s] \subseteq At(s)
                        /\ \A d \in DOMAIN plan[s] : plan[s][d] \in WaveNos
    /\ tx = [p \in Passes |-> tx[p]]
    /\ \A p \in Passes : On(p) => TxTyped(tx[p])

LocksApart ==
    \A p, q \in Passes : p # q /\ On(p) /\ On(q) => tx[p].locked \cap tx[q].locked = {}

NothingBegun ==
    status \in Editable =>
      (\A p \in Passes : ~On(p)) /\ (\A d \in Devices : asked[d] = 0)

Recorded(d) == ledger[d] # "none" \/ \E p \in Passes : On(p) /\ tx[p].mine[d] # "none"

\* Every run is one the tables know of, or was lost with its pass.
RunsAccounted ==
    \A d \in Devices : asked[d] <= lost[d] \/ (asked[d] <= 1 + lost[d] /\ Recorded(d))

\* p is done with device d, or need not be.
Handled(p, d) ==
    ledger[d] # "none" \/ d \in skipped \/ d \in tx[p].skips \/ tx[p].mine[d] # "none"

\* A pass sends the rest of the wave it started, which it may run.
QueueIsWave(p) ==
    tx[p].queue # {} =>
      /\ tx[p].todo # {} /\ Open(p) # {} /\ tx[p].wave[First(p)] \in Runnable
      /\ tx[p].queue \subseteq Members(First(p))
      /\ \A d \in Members(First(p)) \ tx[p].queue : Handled(p, d)
      /\ \A d \in tx[p].queue : target[d] \in Dispatchable

RunInv ==
    /\ CTypeOK /\ LocksApart /\ NothingBegun /\ RunsAccounted /\ ExcludedNeverRuns
    /\ \A p \in Passes : On(p) => QueueIsWave(p)

-----------------------------------------------------------------------------
(* The order of the waves                                                  *)

Bad(e) == asked[e] > 0 /\ lost[e] = 0 /\ e \notin skipped /\ outcome[e] # "success"

Spent(w) == \A e \in Members(w) : ledger[e] # "none" \/ e \in skipped
SpentFor(p, w) == \A e \in Members(w) : Handled(p, e)

\* Nobody will run w.
Quiet(w) ==
    wave[w] \notin Voidable /\ \A p \in Passes : On(p) => tx[p].wave[w] \notin Runnable

\* In f, the later waves of w's site are not authorised and will not be.
NoneAfter(w, f) ==
    \A x \in Waves : x[1] = w[1] /\ w[2] < x[2] => f[x] \notin Voidable

DispatchedIsSpent ==
    /\ \A w \in Waves : wave[w] = "dispatched" => Spent(w)
    /\ \A p \in Passes : On(p) =>
         \A w \in Waves : tx[p].wave[w] = "dispatched" => SpentFor(p, w)

PendingIsQuiet ==
    \A w \in Waves : w[1] \notin revived /\ wave[w] = "pending" =>
      /\ \A e \in Members(w) : ~Bad(e)
      /\ \A p \in Passes : On(p) => tx[p].wave[w] \notin Runnable

\* A view is behind the rows in one direction only: authorisation is lost.
ViewsAreOld ==
    \A p \in Passes : On(p) =>
      \A w \in Waves :
        /\ w[1] \notin revived /\ tx[p].base.wave[w] \notin Voidable => wave[w] \notin Voidable
        /\ tx[p].wave[w] # tx[p].base.wave[w] => tx[p].wave[w] \notin Voidable

RowsInOrder ==
    \A w \in Waves : w[1] \notin revived /\ wave[w] \in Closed =>
      \/ NoneAfter(w, wave)
      \/ (\A e \in Members(w) : ~Bad(e)) /\ (Spent(w) \/ Quiet(w))

ViewInOrder(p) ==
    \A w \in Waves : w[1] \notin revived /\ tx[p].wave[w] \in Closed =>
      \/ NoneAfter(w, tx[p].wave)
      \/ /\ \A e \in Members(w) : Bad(e) => e \in tx[p].skips /\ w[1] \notin tx[p].todo
         /\ SpentFor(p, w) \/ Quiet(w)

OutcomesCounted ==
    \A d \in Devices : outcome[d] # "none" => reported[d] > 0

OrderInv ==
    /\ DispatchedIsSpent /\ PendingIsQuiet /\ ViewsAreOld /\ RowsInOrder
    /\ OutcomesCounted
    /\ \A p \in Passes : On(p) => ViewInOrder(p)

-----------------------------------------------------------------------------
(* Which site and which wave a pass is at                                  *)

\* A nonempty set of naturals has a least member: the CHOOSEs of the runner have a witness.
LEMMA Least ==
  ASSUME NEW T \in SUBSET Nat, T # {}
  PROVE  \E m \in T : \A n \in T : m <= n
  <1> DEFINE R == OpToRel(<, Nat)
  <1>1. IsWellFoundedOn(R, Nat)
    BY NatLessThanWellFounded, Zenon
  <1>2. \A m, n \in Nat : n < m => <<n, m>> \in R
    BY DEF OpToRel
  <1> HIDE DEF R
  <1>3. PICK m \in T : \A n \in T : ~(<<n, m>> \in R)
    BY <1>1, WFMin
  <1>4. ASSUME NEW n \in T PROVE m <= n
    <2>1. m \in Nat /\ n \in Nat /\ ~(n < m)
      BY <1>2, <1>3
    <2> QED
      BY <2>1
  <1> QED
    BY <1>4

\* Wave numbers are naturals.
LEMMA WaveNosAreNat == WaveNos \subseteq Nat
  BY CampaignAssumption DEF WaveNos

\* A wave is the pair of its site and its number.
LEMMA PairIsWave ==
  ASSUME NEW w \in Waves
  PROVE  w[1] \in Sites /\ w[2] \in WaveNos /\ w[2] \in Nat /\ w = <<w[1], w[2]>>
  <1>1. PICK s \in Sites, n \in WaveNos : w = <<s, n>>
    BY DEF Waves
  <1>2. n \in Nat
    BY WaveNosAreNat
  <1> QED
    BY <1>1, <1>2

\* The site a pass works on next is one it has not dealt with yet.
LEMMA NextSiteIsToDo ==
  ASSUME NEW t, t.todo \subseteq Sites, t.todo # {}
  PROVE  NextSite(t) \in t.todo
  <1> DEFINE running == {s \in t.todo : t.site[s] = "running"}
             next == IF running # {} THEN running ELSE t.todo
             ranks == {Rank[s] : s \in next}
  <1>1. next \subseteq t.todo /\ next # {}
    OBVIOUS
  <1>2. ranks \in SUBSET Nat /\ ranks # {}
    BY <1>1, CampaignAssumption
  <1> HIDE DEF next
  <1>3. PICK m \in ranks : \A n \in ranks : m <= n
    BY <1>2, Least
  <1>4. \E s \in next : \A r \in next : Rank[s] <= Rank[r]
    BY <1>3
  <1>5. NextSite(t) = CHOOSE s \in next : \A r \in next : Rank[s] <= Rank[r]
    BY DEF NextSite, next
  <1>6. NextSite(t) \in next
    BY <1>4, <1>5
  <1> QED
    BY <1>1, <1>6

\* A pass that starts a wave at its site stays there.
LEMMA NextSiteStays ==
  ASSUME NEW t, NEW u, t.todo \subseteq Sites, t.todo # {}, u.todo = t.todo,
         \A s \in t.todo : u.site[s] = IF s = NextSite(t) THEN "running" ELSE t.site[s]
  PROVE  NextSite(u) = NextSite(t)
  <1> DEFINE h == NextSite(t)
             old == {s \in t.todo : t.site[s] = "running"}
             new == {s \in u.todo : u.site[s] = "running"}
             pool == IF old # {} THEN old ELSE t.todo
             pool2 == IF new # {} THEN new ELSE u.todo
  <1>1. h \in t.todo
    BY NextSiteIsToDo
  <1>2. h = CHOOSE s \in pool : \A r \in pool : Rank[s] <= Rank[r]
    BY DEF NextSite
  <1>3. NextSite(u) = CHOOSE s \in pool2 : \A r \in pool2 : Rank[s] <= Rank[r]
    BY DEF NextSite
  <1>4. new = old \cup {h}
    BY <1>1
  <1>5. CASE old = {}
    <2>1. pool2 = {h} /\ Rank[h] \in Nat
      BY <1>1, <1>4, <1>5, CampaignAssumption
    <2> HIDE DEF pool2, h
    <2>2. \E s \in pool2 : \A r \in pool2 : Rank[s] <= Rank[r]
      BY <2>1
    <2>3. NextSite(u) \in pool2
      BY <1>3, <2>2
    <2> QED
      BY <2>1, <2>3 DEF h
  <1>6. CASE old # {}
    <2>1. h \in old
      <3> DEFINE ranks == {Rank[s] : s \in old}
      <3>1. ranks \in SUBSET Nat /\ ranks # {}
        BY <1>6, CampaignAssumption
      <3> HIDE DEF old
      <3>2. PICK m \in ranks : \A n \in ranks : m <= n
        BY <3>1, Least
      <3>3. \E s \in old : \A r \in old : Rank[s] <= Rank[r]
        BY <3>2
      <3>4. h = CHOOSE s \in old : \A r \in old : Rank[s] <= Rank[r]
        BY <1>2, <1>6
      <3> HIDE DEF h
      <3> QED
        BY <3>3, <3>4
    <2>2. pool2 = pool
      BY <1>4, <1>6, <2>1
    <2> QED
      BY <1>2, <1>3, <2>2
  <1> QED
    BY <1>5, <1>6

\* The wave a pass takes at its site is open, and no open wave there has a lower number.
LEMMA FirstWaveIsOpen ==
  ASSUME NEW t, OpenWaves(t) # {}
  PROVE  /\ FirstWave(t) \in OpenWaves(t) /\ FirstWave(t) \in Waves
         /\ FirstWave(t)[1] = NextSite(t) /\ t.wave[FirstWave(t)] \notin Closed
         /\ \A x \in OpenWaves(t) : FirstWave(t)[2] <= x[2]
  <1> DEFINE numbers == {w[2] : w \in OpenWaves(t)}
  <1>1. \A w \in OpenWaves(t) : w \in Waves
    BY DEF OpenWaves
  <1>2. numbers \in SUBSET Nat /\ numbers # {}
    BY <1>1, PairIsWave
  <1>3. PICK m \in numbers : \A n \in numbers : m <= n
    BY <1>2, Least
  <1>4. \E w \in OpenWaves(t) : \A x \in OpenWaves(t) : w[2] <= x[2]
    BY <1>3
  <1>5. /\ FirstWave(t) \in OpenWaves(t)
        /\ \A x \in OpenWaves(t) : FirstWave(t)[2] <= x[2]
    BY <1>4 DEF FirstWave
  <1> QED
    BY <1>5 DEF OpenWaves

\* The waves before the first open one are closed.
LEMMA EarlierAreClosed ==
  ASSUME NEW t, OpenWaves(t) # {}, NEW w \in Waves, w[1] = NextSite(t),
         w[2] < FirstWave(t)[2]
  PROVE  t.wave[w] \in Closed
  <1>1. FirstWave(t)[2] \in Nat /\ w[2] \in Nat
    BY FirstWaveIsOpen, PairIsWave
  <1>2. w \in OpenWaves(t) => FirstWave(t)[2] <= w[2]
    BY FirstWaveIsOpen
  <1> QED
    BY <1>1, <1>2 DEF OpenWaves

\* A plan puts a device into one wave, at its own site.
LEMMA OneWaveEach ==
  ASSUME CTypeOK, NEW w \in Waves, NEW d \in Members(w)
  PROVE  /\ d \in Devices /\ SiteOf[d] = w[1] /\ d \in DOMAIN plan[w[1]]
         /\ plan[w[1]][d] = w[2]
         /\ \A x \in Waves : d \in Members(x) => x = w
  <1>1. d \in DOMAIN plan[w[1]] /\ plan[w[1]][d] = w[2]
    BY DEF Members
  <1>2. d \in Devices /\ SiteOf[d] = w[1]
    BY <1>1, PairIsWave DEF CTypeOK, At
  <1>3. ASSUME NEW x \in Waves, d \in Members(x) PROVE x = w
    <2>1. d \in DOMAIN plan[x[1]] /\ plan[x[1]][d] = x[2]
      BY <1>3 DEF Members
    <2>2. SiteOf[d] = x[1]
      BY <2>1, PairIsWave DEF CTypeOK, At
    <2>3. x = <<x[1], x[2]>> /\ w = <<w[1], w[2]>>
      BY PairIsWave
    <2> QED
      BY <1>1, <1>2, <2>1, <2>2, <2>3
  <1> QED
    BY <1>1, <1>2, <1>3

\* Where a pass is depends on its list of sites and its view only.
LEMMA SamePlace ==
  ASSUME NEW t, NEW u, u.todo = t.todo, NextSite(u) = NextSite(t), u.wave = t.wave
  PROVE  OpenWaves(u) = OpenWaves(t) /\ FirstWave(u) = FirstWave(t)
  <1>1. OpenWaves(u) = OpenWaves(t)
    BY DEF OpenWaves
  <1> QED
    BY <1>1 DEF FirstWave

\* Which site comes next depends only on the sites left and on their states.
LEMMA SameSite ==
  ASSUME NEW t, NEW u, u.todo = t.todo, u.site = t.site
  PROVE  NextSite(u) = NextSite(t)
  BY DEF NextSite

\* A typed transaction is a transaction: the pass that holds it is running.
LEMMA TypedIsOn == ASSUME NEW t, TxTyped(t) PROVE t # NoTx
  <1>1. DOMAIN t = TxFields
    BY DEF TxTyped
  <1> QED
    BY <1>1 DEF TxFields, NoTx

-----------------------------------------------------------------------------
(* RunInv is inductive                                                     *)

\* A pass changes its own transaction; the tables stay.
LEMMA TxStep ==
  ASSUME RunInv, NEW p \in Passes, NEW t, tx' = [tx EXCEPT ![p] = t], TxTyped(t),
         UNCHANGED <<db, layout, lost, reported, outcome>>, status \notin Editable,
         asked' \in [Devices -> Nat], RunsAccounted', ExcludedNeverRuns',
         \A q \in Passes \ {p} : On(q) => t.locked \cap tx[q].locked = {},
         t.queue # {} =>
           /\ t.todo # {} /\ OpenWaves(t) # {} /\ t.wave[FirstWave(t)] \in Runnable
           /\ t.queue \subseteq Members(FirstWave(t))
           /\ \A d \in Members(FirstWave(t)) \ t.queue :
                ledger[d] # "none" \/ d \in skipped \/ d \in t.skips \/ t.mine[d] # "none"
           /\ \A d \in t.queue : target[d] \in Dispatchable
  PROVE  RunInv'
  <1>1. tx'[p] = t /\ \A q \in Passes \ {p} : tx'[q] = tx[q]
    BY DEF RunInv, CTypeOK
  <1>2. /\ status' = status /\ target' = target /\ plan' = plan /\ ledger' = ledger
        /\ skipped' = skipped /\ wave' = wave /\ site' = site
    BY DEF db
  <1>3. tx' = [q \in Passes |-> tx'[q]]
    BY DEF RunInv, CTypeOK
  <1>4. ASSUME NEW q \in Passes, tx'[q] # NoTx PROVE TxTyped(tx'[q])
    BY <1>1, <1>4 DEF RunInv, CTypeOK, On
  <1>5. CTypeOK'
    BY <1>2, <1>3, <1>4 DEF RunInv, CTypeOK, On
  <1>6. LocksApart'
    BY <1>1 DEF RunInv, LocksApart, On
  <1>7. NothingBegun'
    BY <1>2 DEF NothingBegun
  <1>8. ASSUME NEW q \in Passes, On(q)' PROVE QueueIsWave(q)'
    <2>1. CASE q = p
      BY <1>1, <1>2, <2>1 DEF QueueIsWave, Handled, Open, First, Members
    <2>2. CASE q # p
      <3>1. tx'[q] = tx[q] /\ QueueIsWave(q)
        BY <1>1, <1>8, <2>2 DEF RunInv, On
      <3> QED
        BY <1>2, <3>1 DEF QueueIsWave, Handled, Open, First, Members
    <2> QED
      BY <2>1, <2>2
  <1> QED
    BY <1>5, <1>6, <1>7, <1>8 DEF RunInv

\* ... and nothing is asked.
LEMMA NoRunStep ==
  ASSUME RunInv, NEW p \in Passes, NEW t, tx' = [tx EXCEPT ![p] = t], t # NoTx,
         UNCHANGED <<db, lost, asked>>,
         \A d \in Devices : On(p) /\ tx[p].mine[d] # "none" => t.mine[d] # "none"
  PROVE  asked' \in [Devices -> Nat] /\ RunsAccounted' /\ ExcludedNeverRuns'
  <1>1. tx'[p] = t /\ \A q \in Passes \ {p} : tx'[q] = tx[q]
    BY DEF RunInv, CTypeOK
  <1>2. \A d \in Devices : Recorded(d) => Recorded(d)'
    BY <1>1 DEF Recorded, On, db
  <1>3. RunsAccounted'
    BY <1>2 DEF RunInv, RunsAccounted
  <1> QED
    BY <1>3 DEF RunInv, CTypeOK, ExcludedNeverRuns, db

\* settle_dispatched_waves changes dispatched waves, and those it voids.
LEMMA SettledWaves ==
  ASSUME CTypeOK, NEW w \in Waves
  PROVE  /\ wave[w] = "dispatched" =>
              SettledRows.wave[w] = Settled(w) /\ Settled(w) \in {"failed", "dispatched", "completed"}
         /\ wave[w] # "dispatched" => SettledRows.wave[w] \in {wave[w], "voided"}
         /\ wave[w] # "dispatched" /\ SettledRows.wave[w] # wave[w] =>
              \E x \in Waves : x[1] = w[1] /\ wave[x] = "dispatched" /\ Settled(x) = "failed"
         /\ wave[w] \in Voidable /\ SettledRows.wave[w] = wave[w] =>
              \A x \in Waves : x[1] = w[1] /\ wave[x] = "dispatched" => Settled(x) # "failed"
  <1> DEFINE failed == {x \in Waves : wave[x] = "dispatched" /\ Settled(x) = "failed"}
             halted == {x[1] : x \in failed}
             now == CASE wave[w] = "dispatched" -> Settled(w)
                      [] w[1] \in halted /\ wave[w] \in Voidable -> "voided"
                      [] OTHER -> wave[w]
  <1>1. SettledRows.wave[w] = now
    BY DEF SettledRows
  <1>2. Settled(w) \in {"failed", "dispatched", "completed"}
    BY DEF Settled
  <1>3. "voided" \notin Voidable /\ "dispatched" \notin Voidable
    BY DEF Voidable
  <1>4. wave[w] = "dispatched" => now = Settled(w)
    BY <1>3
  <1>5. wave[w] # "dispatched" /\ w[1] \in halted /\ wave[w] \in Voidable => now = "voided"
    OBVIOUS
  <1>6. wave[w] # "dispatched" /\ ~(w[1] \in halted /\ wave[w] \in Voidable) => now = wave[w]
    OBVIOUS
  <1> HIDE DEF now
  <1> QED
    BY <1>1, <1>2, <1>3, <1>4, <1>5, <1>6

\* Settling the rows from the reported outcomes keeps their types.
LEMMA SettledTyped ==
  ASSUME CTypeOK
  PROVE  /\ SettledRows.wave \in [Waves -> WaveStates]
         /\ SettledRows.site \in [Sites -> SiteStates]
  <1>1. \A w \in Waves : SettledRows.wave[w] \in WaveStates
    <2> SUFFICES ASSUME NEW w \in Waves PROVE SettledRows.wave[w] \in WaveStates
      OBVIOUS
    <2>1. wave[w] \in WaveStates
      BY DEF CTypeOK
    <2>2. {"failed", "dispatched", "completed", "voided"} \subseteq WaveStates
      BY DEF WaveStates, Closed
    <2> QED
      BY <2>1, <2>2, SettledWaves
  <1>2. \E f : SettledRows.wave = [w \in Waves |-> f[w]]
    <2>1. SettledRows.wave = [w \in Waves |-> SettledRows.wave[w]]
      BY DEF SettledRows
    <2> QED
      BY <2>1
  <1>3. SettledRows.wave \in [Waves -> WaveStates]
    BY <1>1, <1>2
  <1>4. SettledRows.site \in [Sites -> SiteStates]
    BY DEF SettledRows, CTypeOK, SiteStates
  <1> QED
    BY <1>3, <1>4

\* The transaction of a pass that begins.
LEMMA BeginTx ==
  ASSUME RunInv, NEW p \in Passes, Begin(p)
  PROVE  \E t : /\ tx' = [tx EXCEPT ![p] = t] /\ TxTyped(t) /\ ~On(p)
                /\ status \in {"running", "awaiting"}
                /\ UNCHANGED <<db, approval, estate, runs, aborts>>
                /\ t.queue = {} /\ t.locked = {} /\ t.skips = {}
                /\ \A d \in Devices : t.mine[d] = "none"
                /\ t.base.wave = wave
                /\ t.wave = wave \/ t.wave = SettledRows.wave
  <1> DEFINE rows == IF stop THEN [site |-> site, wave |-> wave] ELSE SettledRows
             t == [base |-> [site |-> site, wave |-> wave],
                   site |-> rows.site, wave |-> rows.wave,
                   todo |-> IF stop THEN {} ELSE Active(rows.site),
                   ended |-> stop,
                   queue |-> {}, locked |-> {}, skips |-> {},
                   mine |-> [d \in Devices |-> "none"],
                   campaign |-> IF p = "operator" /\ status = "awaiting" THEN "running" ELSE ""]
  <1>1. /\ tx[p] = NoTx /\ status \in {"running", "awaiting"} /\ tx' = [tx EXCEPT ![p] = t]
        /\ UNCHANGED <<db, approval, estate, runs, aborts>>
    BY DEF Begin
  <1>2. /\ rows.site \in [Sites -> SiteStates] /\ rows.wave \in [Waves -> WaveStates]
        /\ rows.wave = wave \/ rows.wave = SettledRows.wave
    <2>1. CASE stop
      BY <2>1 DEF RunInv, CTypeOK
    <2>2. CASE ~stop
      BY <2>2, SettledTyped DEF RunInv
    <2> QED
      BY <2>1, <2>2
  <1> HIDE DEF rows
  <1>3. /\ t.wave = rows.wave /\ t.base.wave = wave /\ t.queue = {} /\ t.locked = {}
        /\ t.skips = {} /\ t.mine = [d \in Devices |-> "none"] /\ t.site = rows.site
    OBVIOUS
  <1>4. t.todo \subseteq Sites
    BY DEF Active
  <1>5. t.campaign \in {"", "running"} /\ DOMAIN t = TxFields
    BY DEF TxFields
  <1> HIDE DEF t
  <1>6. TxTyped(t)
    <2>1. t.mine \in [Devices -> Answers] /\ \A d \in Devices : t.mine[d] = "none"
      BY <1>3 DEF Answers
    <2> QED
      BY <1>2, <1>3, <1>4, <1>5, <2>1 DEF TxTyped, RunInv, CTypeOK
  <1> QED
    BY <1>1, <1>2, <1>3, <1>6 DEF On

\* A pass that opens its transaction starts with no lock, no queue and nothing recorded.
LEMMA BeginKeepsRuns ==
  ASSUME RunInv, NEW p \in Passes, Begin(p) PROVE RunInv'
  <1>1. PICK t : /\ tx' = [tx EXCEPT ![p] = t] /\ TxTyped(t) /\ ~On(p)
                 /\ status \in {"running", "awaiting"}
                 /\ UNCHANGED <<db, approval, estate, runs, aborts>>
                 /\ t.queue = {} /\ t.locked = {}
    BY BeginTx
  <1>2. asked' \in [Devices -> Nat] /\ RunsAccounted' /\ ExcludedNeverRuns'
    BY <1>1, TypedIsOn, NoRunStep DEF runs
  <1> QED
    BY <1>1, <1>2, TxStep DEF estate, runs, Editable

\* The transaction of a pass that leaves a site without having sent anything.
LEMMA LeaveTx ==
  ASSUME RunInv, NEW p \in Passes, AtSite(p),
         NEW sites \in [Sites -> SiteStates], NEW waves \in [Waves -> WaveStates],
         Leave(p, sites, waves)
  PROVE  \E t : /\ tx' = [tx EXCEPT ![p] = t] /\ TxTyped(t) /\ On(p)
                /\ status \notin Editable
                /\ UNCHANGED <<db, approval, estate, runs, aborts>>
                /\ t.queue = {} /\ t.locked = tx[p].locked /\ t.skips = tx[p].skips
                /\ t.mine = tx[p].mine /\ t.base = tx[p].base
                /\ t.wave = waves /\ t.todo = tx[p].todo \ {Here(p)}
  <1> DEFINE t == [tx[p] EXCEPT !.site = sites, !.wave = waves, !.todo = @ \ {Here(p)}]
  <1>1. TxTyped(tx[p]) /\ On(p) /\ tx[p].queue = {} /\ status \notin Editable
    BY DEF RunInv, CTypeOK, On, AtSite, NothingBegun
  <1>2. tx' = [tx EXCEPT ![p] = t] /\ UNCHANGED <<db, approval, estate, runs, aborts>>
    BY DEF Leave
  <1>3. /\ DOMAIN t = TxFields /\ t.site = sites /\ t.wave = waves
        /\ t.todo = tx[p].todo \ {Here(p)} /\ t.queue = tx[p].queue
        /\ t.locked = tx[p].locked /\ t.skips = tx[p].skips /\ t.mine = tx[p].mine
        /\ t.base = tx[p].base /\ t.campaign = tx[p].campaign
    BY <1>1 DEF TxTyped, TxFields
  <1> HIDE DEF t
  <1>4. TxTyped(t)
    BY <1>1, <1>3 DEF TxTyped
  <1> QED
    BY <1>1, <1>2, <1>3, <1>4

\* Leaving a site changes no lock, queue or run, whatever the states it leaves behind.
LEMMA LeaveKeepsRuns ==
  ASSUME RunInv, NEW p \in Passes, AtSite(p),
         NEW sites \in [Sites -> SiteStates], NEW waves \in [Waves -> WaveStates],
         Leave(p, sites, waves)
  PROVE  RunInv'
  <1>1. PICK t : /\ tx' = [tx EXCEPT ![p] = t] /\ TxTyped(t) /\ On(p)
                 /\ status \notin Editable
                 /\ UNCHANGED <<db, approval, estate, runs, aborts>>
                 /\ t.queue = {} /\ t.locked = tx[p].locked /\ t.mine = tx[p].mine
    BY LeaveTx
  <1>2. asked' \in [Devices -> Nat] /\ RunsAccounted' /\ ExcludedNeverRuns'
    <2>1. t # NoTx
      BY <1>1, TypedIsOn
    <2>2. UNCHANGED <<db, lost, asked>>
      BY <1>1 DEF runs
    <2>3. \A d \in Devices : On(p) /\ tx[p].mine[d] # "none" => t.mine[d] # "none"
      BY <1>1
    <2>4. tx' = [tx EXCEPT ![p] = t]
      BY <1>1
    <2> QED
      BY <2>1, <2>2, <2>3, <2>4, NoRunStep
  <1>3. \A q \in Passes \ {p} : On(q) => t.locked \cap tx[q].locked = {}
    BY <1>1 DEF RunInv, LocksApart
  <1> QED
    BY <1>1, <1>2, <1>3, TxStep DEF estate, runs

\* What a pass may count on when it revalidates a wave: the plan it asked for
\* again is the stored one, so the members are targets that may be dispatched,
\* and nobody else holds them.
LEMMA RevalidatingFacts ==
  ASSUME RunInv, NEW p \in Passes, Revalidating(p)
  PROVE  /\ On(p) /\ TxTyped(tx[p]) /\ status \notin Editable /\ tx[p].queue = {}
         /\ tx[p].todo # {} /\ Open(p) # {} /\ tx[p].wave[First(p)] \in Runnable
         /\ First(p) \in Waves /\ First(p)[1] = Here(p) /\ Here(p) \in tx[p].todo
         /\ Members(First(p)) \subseteq Devices
         /\ \A d \in Members(First(p)) : target[d] \in Dispatchable
         /\ \A q \in Passes \ {p} : On(q) => tx[q].locked \cap Members(First(p)) = {}
  <1>1. /\ On(p) /\ tx[p].queue = {} /\ tx[p].todo # {} /\ Open(p) # {}
        /\ tx[p].wave[First(p)] \in Runnable /\ PlanIsCurrent(Here(p))
        /\ \A q \in Passes \ {p} : On(q) => tx[q].locked \cap Members(First(p)) = {}
    BY DEF Revalidating, Authorised, AtSite, On
  <1>2. TxTyped(tx[p]) /\ status \notin Editable
    BY <1>1 DEF RunInv, CTypeOK, NothingBegun
  <1>3. First(p) \in Waves /\ First(p)[1] = Here(p)
    BY <1>1, FirstWaveIsOpen DEF First, Open, Here
  <1>4. Here(p) \in tx[p].todo
    BY <1>1, <1>2, NextSiteIsToDo DEF Here, TxTyped
  <1>5. Members(First(p)) \subseteq Devices
    BY <1>3, OneWaveEach DEF RunInv
  <1>6. ASSUME NEW d \in Members(First(p)) PROVE target[d] \in Dispatchable
    <2>1. d \in DOMAIN plan[Here(p)] /\ plan[Here(p)] = PlanNow(Here(p), target)
      BY <1>1, <1>3 DEF Members, PlanIsCurrent
    <2> QED
      BY <2>1 DEF PlanNow
  <1> QED
    BY <1>1, <1>2, <1>3, <1>4, <1>5, <1>6

\* What SkipWave writes: every member of the wave is locked and skipped, none is queued.
LEMMA SkipTx ==
  ASSUME RunInv, NEW p \in Passes, SkipWave(p)
  PROVE  \E t : /\ tx' = [tx EXCEPT ![p] = t] /\ TxTyped(t)
                /\ UNCHANGED <<db, approval, estate, runs, aborts>>
                /\ t.queue = {} /\ t.locked = tx[p].locked \cup Members(First(p))
                /\ t.skips = tx[p].skips \cup Members(First(p))
                /\ t.mine = tx[p].mine /\ t.base = tx[p].base
                /\ t.wave = [tx[p].wave EXCEPT ![First(p)] = "completed"]
                /\ t.todo = tx[p].todo \ {Here(p)}
  <1> DEFINE M == Members(First(p))
             w == First(p)
             t == [tx[p] EXCEPT !.wave[w] = "completed", !.locked = @ \cup M,
                                !.skips = @ \cup M, !.todo = @ \ {Here(p)}]
  <1>1. /\ Revalidating(p) /\ UNCHANGED <<db, approval, estate, runs, aborts>>
        /\ tx' = [tx EXCEPT ![p] = t]
    BY DEF SkipWave
  <1>2. TxTyped(tx[p]) /\ tx[p].queue = {} /\ M \subseteq Devices
    BY <1>1, RevalidatingFacts
  <1> HIDE DEF M, w
  <1>3. /\ DOMAIN t = TxFields /\ t.site = tx[p].site
        /\ t.wave = [tx[p].wave EXCEPT ![w] = "completed"]
        /\ t.todo = tx[p].todo \ {Here(p)} /\ t.queue = tx[p].queue
        /\ t.locked = tx[p].locked \cup M /\ t.skips = tx[p].skips \cup M
        /\ t.mine = tx[p].mine /\ t.base = tx[p].base /\ t.campaign = tx[p].campaign
    BY <1>2 DEF TxTyped, TxFields
  <1> HIDE DEF t
  <1>4. t.wave \in [Waves -> WaveStates]
    BY <1>2, <1>3 DEF TxTyped, WaveStates, Closed
  <1>5. TxTyped(t)
    BY <1>2, <1>3, <1>4 DEF TxTyped
  <1> QED
    BY <1>1, <1>2, <1>3, <1>5 DEF M, w

\* A wave with no capable device left runs nothing.
LEMMA SkipKeepsRuns ==
  ASSUME RunInv, NEW p \in Passes, SkipWave(p) PROVE RunInv'
  <1>1. PICK t : /\ tx' = [tx EXCEPT ![p] = t] /\ TxTyped(t)
                 /\ UNCHANGED <<db, approval, estate, runs, aborts>>
                 /\ t.queue = {} /\ t.locked = tx[p].locked \cup Members(First(p))
                 /\ t.mine = tx[p].mine
    BY SkipTx
  <1>2. /\ On(p) /\ status \notin Editable
        /\ \A q \in Passes \ {p} : On(q) => tx[q].locked \cap Members(First(p)) = {}
    BY RevalidatingFacts DEF SkipWave
  <1>3. asked' \in [Devices -> Nat] /\ RunsAccounted' /\ ExcludedNeverRuns'
    <2>1. t # NoTx /\ tx' = [tx EXCEPT ![p] = t]
      BY <1>1, TypedIsOn
    <2>2. UNCHANGED <<db, lost, asked>>
      BY <1>1 DEF runs
    <2>3. \A d \in Devices : On(p) /\ tx[p].mine[d] # "none" => t.mine[d] # "none"
      BY <1>1
    <2> QED
      BY <2>1, <2>2, <2>3, NoRunStep
  <1>4. \A q \in Passes \ {p} : On(q) => t.locked \cap tx[q].locked = {}
    BY <1>1, <1>2 DEF RunInv, LocksApart
  <1> QED
    BY <1>1, <1>2, <1>3, <1>4, TxStep DEF estate, runs

\* What StartWave writes: the members are locked, the capable ones queued, the others skipped.
LEMMA StartTx ==
  ASSUME RunInv, NEW p \in Passes, StartWave(p)
  PROVE  \E t : /\ tx' = [tx EXCEPT ![p] = t] /\ TxTyped(t)
                /\ UNCHANGED <<db, approval, estate, runs, aborts>>
                /\ t.queue = {d \in Members(First(p)) : StillCapable(d)}
                /\ t.locked = tx[p].locked \cup Members(First(p))
                /\ t.skips = tx[p].skips \cup {d \in Members(First(p)) : ~StillCapable(d)}
                /\ t.mine = tx[p].mine /\ t.base = tx[p].base
                /\ t.wave = tx[p].wave /\ t.todo = tx[p].todo
                /\ OpenWaves(t) = Open(p) /\ FirstWave(t) = First(p)
                /\ NextSite(t) = Here(p)
  <1> DEFINE M == Members(First(p))
             h == Here(p)
             t == [tx[p] EXCEPT !.site[h] = "running", !.locked = @ \cup M,
                                !.skips = @ \cup {d \in M : ~StillCapable(d)},
                                !.queue = {d \in M : StillCapable(d)}]
  <1>1. /\ Revalidating(p) /\ UNCHANGED <<db, approval, estate, runs, aborts>>
        /\ tx' = [tx EXCEPT ![p] = t]
    BY DEF StartWave
  <1>2. TxTyped(tx[p]) /\ tx[p].todo # {} /\ M \subseteq Devices
    BY <1>1, RevalidatingFacts
  <1> HIDE DEF M, h
  <1>3. /\ DOMAIN t = TxFields /\ t.site = [tx[p].site EXCEPT ![h] = "running"]
        /\ t.wave = tx[p].wave /\ t.todo = tx[p].todo
        /\ t.queue = {d \in M : StillCapable(d)} /\ t.locked = tx[p].locked \cup M
        /\ t.skips = tx[p].skips \cup {d \in M : ~StillCapable(d)}
        /\ t.mine = tx[p].mine /\ t.base = tx[p].base /\ t.campaign = tx[p].campaign
    BY <1>2 DEF TxTyped, TxFields
  <1> HIDE DEF t
  <1>4. t.site \in [Sites -> SiteStates]
    BY <1>2, <1>3 DEF TxTyped, SiteStates
  <1>5. TxTyped(t)
    BY <1>2, <1>3, <1>4 DEF TxTyped
  <1>6. NextSite(t) = NextSite(tx[p])
    <2>1. \A s \in tx[p].todo : t.site[s] = IF s = NextSite(tx[p]) THEN "running" ELSE tx[p].site[s]
      BY <1>2, <1>3 DEF TxTyped, h, Here
    <2> QED
      BY <1>2, <1>3, <2>1, NextSiteStays DEF TxTyped
  <1>7. OpenWaves(t) = Open(p) /\ FirstWave(t) = First(p)
    BY <1>3, <1>6, SamePlace DEF Open, First
  <1> QED
    BY <1>1, <1>3, <1>5, <1>6, <1>7 DEF M, Here

\* The queue StartWave fills is the part of a locked wave that is not excluded.
LEMMA StartKeepsRuns ==
  ASSUME RunInv, NEW p \in Passes, StartWave(p) PROVE RunInv'
  <1>1. PICK t : /\ tx' = [tx EXCEPT ![p] = t] /\ TxTyped(t)
                 /\ UNCHANGED <<db, approval, estate, runs, aborts>>
                 /\ t.queue = {d \in Members(First(p)) : StillCapable(d)}
                 /\ t.locked = tx[p].locked \cup Members(First(p))
                 /\ t.skips = tx[p].skips \cup {d \in Members(First(p)) : ~StillCapable(d)}
                 /\ t.mine = tx[p].mine /\ t.wave = tx[p].wave /\ t.todo = tx[p].todo
                 /\ OpenWaves(t) = Open(p) /\ FirstWave(t) = First(p)
    BY StartTx
  <1>2. /\ On(p) /\ status \notin Editable /\ tx[p].todo # {} /\ Open(p) # {}
        /\ tx[p].wave[First(p)] \in Runnable
        /\ \A d \in Members(First(p)) : target[d] \in Dispatchable
        /\ \A q \in Passes \ {p} : On(q) => tx[q].locked \cap Members(First(p)) = {}
    BY RevalidatingFacts DEF StartWave
  <1>3. asked' \in [Devices -> Nat] /\ RunsAccounted' /\ ExcludedNeverRuns'
    <2>1. t # NoTx /\ tx' = [tx EXCEPT ![p] = t]
      BY <1>1, TypedIsOn
    <2>2. UNCHANGED <<db, lost, asked>>
      BY <1>1 DEF runs
    <2>3. \A d \in Devices : On(p) /\ tx[p].mine[d] # "none" => t.mine[d] # "none"
      BY <1>1
    <2> QED
      BY <2>1, <2>2, <2>3, NoRunStep
  <1>4. \A q \in Passes \ {p} : On(q) => t.locked \cap tx[q].locked = {}
    BY <1>1, <1>2 DEF RunInv, LocksApart
  <1>5. /\ t.todo # {} /\ OpenWaves(t) # {} /\ t.wave[FirstWave(t)] \in Runnable
        /\ t.queue \subseteq Members(FirstWave(t))
        /\ \A d \in Members(FirstWave(t)) \ t.queue : d \in t.skips
        /\ \A d \in t.queue : target[d] \in Dispatchable
    BY <1>1, <1>2
  <1> QED
    BY <1>1, <1>2, <1>3, <1>4, <1>5, TxStep DEF estate, runs

\* dispatch_wave for one device: what it leaves in the transaction.
Known(p, d) == ledger[d] # "none" \/ tx[p].mine[d] # "none"

SentTx(p, d, t) ==
    /\ TxTyped(t)
    /\ t.mine[d] # "none" \/ ledger[d] # "none"
    /\ \A e \in Devices : tx[p].mine[e] # "none" => t.mine[e] # "none"
    /\ ~Known(p, d) => t.mine[d] # "none"
    /\ \A e \in Devices \ {d} : t.mine[e] = tx[p].mine[e]
    /\ t.queue = tx[p].queue \ {d} /\ t.locked = tx[p].locked
    /\ t.skips = tx[p].skips /\ t.base = tx[p].base
    /\ tx[p].queue = {d} => /\ t.wave = [tx[p].wave EXCEPT ![First(p)] = "dispatched"]
                            /\ t.todo = tx[p].todo \ {Here(p)}
    /\ tx[p].queue # {d} => /\ t.wave = tx[p].wave /\ t.todo = tx[p].todo
                            /\ OpenWaves(t) = Open(p) /\ FirstWave(t) = First(p)

\* What Send writes: a request leaves only for a queued device with no answer on record.
LEMMA SendTx ==
  ASSUME RunInv, NEW p \in Passes, NEW d \in Devices, NEW answer, Send(p, d, answer)
  PROVE  /\ On(p) /\ status \notin Editable /\ d \in tx[p].queue /\ QueueIsWave(p)
         /\ UNCHANGED <<db, approval, estate, outcome, reported, lost, aborts>>
         /\ asked' = asked \/ (~Known(p, d) /\ asked' = [asked EXCEPT ![d] = @ + 1])
         /\ \E t : tx' = [tx EXCEPT ![p] = t] /\ SentTx(p, d, t)
  <1> DEFINE known == ledger[d] # "none" \/ tx[p].mine[d] # "none"
             last == tx[p].queue = {d}
             mark == IF known THEN tx[p].mine[d]
                     ELSE IF answer = "accepted" THEN "accepted" ELSE "refused"
             stat == IF last THEN "dispatched" ELSE tx[p].wave[First(p)]
             rest == IF last THEN tx[p].todo \ {Here(p)} ELSE tx[p].todo
             left == tx[p].queue \ {d}
             w == First(p)
             t == [tx[p] EXCEPT !.mine[d] = mark, !.queue = left, !.wave[w] = stat, !.todo = rest]
  <1>1. /\ On(p) /\ d \in tx[p].queue
        /\ UNCHANGED <<db, approval, estate, outcome, reported, lost, aborts>>
        /\ asked' = IF known \/ answer = "refused" THEN asked ELSE [asked EXCEPT ![d] = @ + 1]
    BY DEF Send, On
  <1>0. tx' = [tx EXCEPT ![p].mine[d] = mark, ![p].queue = left,
                         ![p].wave[w] = stat, ![p].todo = rest]
    BY DEF Send
  <1>2. TxTyped(tx[p]) /\ QueueIsWave(p) /\ status \notin Editable
    BY <1>1 DEF RunInv, CTypeOK, NothingBegun
  <1>3. mark \in Answers /\ (~known => mark # "none") /\ (known /\ ledger[d] = "none" => mark # "none")
    BY <1>2 DEF TxTyped, Answers
  <1>4. First(p) \in Waves /\ tx[p].todo # {}
    BY <1>1, <1>2, FirstWaveIsOpen DEF QueueIsWave, First, Open
  <1>5. stat \in WaveStates /\ rest \subseteq Sites
    BY <1>2, <1>4 DEF TxTyped, WaveStates
  <1> HIDE DEF mark, stat, rest, left, w
  <1>17. tx' = [tx EXCEPT ![p] = t]
    BY <1>0
  <1>6. /\ DOMAIN t = TxFields /\ t.site = tx[p].site
        /\ t.wave = [tx[p].wave EXCEPT ![w] = stat] /\ t.todo = rest
        /\ t.queue = left /\ t.locked = tx[p].locked
        /\ t.skips = tx[p].skips /\ t.mine = [tx[p].mine EXCEPT ![d] = mark]
        /\ t.base = tx[p].base /\ t.campaign = tx[p].campaign
    BY <1>2 DEF TxTyped, TxFields
  <1> HIDE DEF t
  <1> USE DEF left, w
  <1>7. /\ t.mine \in [Devices -> Answers] /\ t.mine[d] = mark
        /\ \A e \in Devices \ {d} : t.mine[e] = tx[p].mine[e]
    BY <1>2, <1>3, <1>6 DEF TxTyped
  <1>8. t.wave \in [Waves -> WaveStates]
    BY <1>2, <1>4, <1>5, <1>6 DEF TxTyped
  <1>9. \A e \in Devices : t.mine[e] # "none" => e \in t.locked
    BY <1>1, <1>2, <1>6, <1>7 DEF TxTyped
  <1>10. TxTyped(t)
    BY <1>2, <1>5, <1>6, <1>7, <1>8, <1>9 DEF TxTyped
  <1>11. last => /\ t.wave = [tx[p].wave EXCEPT ![First(p)] = "dispatched"]
                 /\ t.todo = tx[p].todo \ {Here(p)}
    BY <1>6 DEF stat, rest
  <1>12. ~last => t.wave = tx[p].wave /\ t.todo = tx[p].todo
    BY <1>2, <1>4, <1>6 DEF stat, rest, TxTyped
  <1>13. ~last => OpenWaves(t) = Open(p) /\ FirstWave(t) = First(p)
    <2>1. ~last => NextSite(t) = NextSite(tx[p])
      BY <1>6, <1>12, SameSite
    <2> QED
      BY <1>12, <2>1, SamePlace DEF Open, First
  <1>14. \A e \in Devices : tx[p].mine[e] # "none" => t.mine[e] # "none"
    BY <1>3, <1>7 DEF mark
  <1>15. asked' = asked \/ (~known /\ asked' = [asked EXCEPT ![d] = @ + 1])
    BY <1>1
  <1>16. SentTx(p, d, t)
    BY <1>3, <1>6, <1>7, <1>10, <1>11, <1>12, <1>13, <1>14 DEF SentTx, Known
  <1> QED
    BY <1>1, <1>2, <1>15, <1>16, <1>17 DEF Known

\* A request is counted only where no record of one exists, so no device runs twice.
LEMMA SendKeepsRuns ==
  ASSUME RunInv, NEW p \in Passes, NEW d \in Devices, NEW answer, Send(p, d, answer)
  PROVE  RunInv'
  <1>1. /\ On(p) /\ status \notin Editable /\ d \in tx[p].queue /\ QueueIsWave(p)
        /\ UNCHANGED <<db, approval, estate, outcome, reported, lost, aborts>>
        /\ asked' = asked \/ (~Known(p, d) /\ asked' = [asked EXCEPT ![d] = @ + 1])
    BY SendTx
  <1>2. PICK t : tx' = [tx EXCEPT ![p] = t] /\ SentTx(p, d, t)
    BY SendTx
  <1>3. TxTyped(t) /\ t # NoTx /\ TxTyped(tx[p])
    BY <1>1, <1>2, TypedIsOn DEF SentTx, RunInv, CTypeOK
  <1>4. tx'[p] = t /\ \A q \in Passes \ {p} : tx'[q] = tx[q]
    BY <1>2 DEF RunInv, CTypeOK
  <1>5. /\ asked \in [Devices -> Nat] /\ asked' \in [Devices -> Nat]
        /\ \A e \in Devices \ {d} : asked'[e] = asked[e]
        /\ asked'[d] = asked[d] \/ (~Known(p, d) /\ asked'[d] = asked[d] + 1)
    BY <1>1 DEF RunInv, CTypeOK
  <1>6. /\ ledger' = ledger /\ target' = target /\ lost' = lost /\ lost \in [Devices -> Nat]
    BY <1>1 DEF db, RunInv, CTypeOK
  <1>7. \A e \in Devices : Recorded(e) => Recorded(e)'
    BY <1>2, <1>3, <1>4, <1>6 DEF Recorded, On, SentTx
  <1>8. ~Known(p, d) => ~Recorded(d) /\ Recorded(d)'
    <2>1. d \in tx[p].locked /\ \A q \in Passes \ {p} : On(q) => d \notin tx[q].locked
      BY <1>1, <1>3 DEF RunInv, LocksApart, TxTyped
    <2>2. \A q \in Passes \ {p} : On(q) => tx[q].mine[d] = "none"
      BY <2>1 DEF RunInv, CTypeOK, TxTyped
    <2> QED
      BY <1>2, <1>3, <1>4, <2>2 DEF Known, Recorded, On, SentTx
  <1>9. RunsAccounted'
    <2> SUFFICES ASSUME NEW e \in Devices
                 PROVE  asked'[e] <= lost'[e] \/ (asked'[e] <= 1 + lost'[e] /\ Recorded(e)')
      BY DEF RunsAccounted
    <2>1. asked[e] <= lost[e] \/ (asked[e] <= 1 + lost[e] /\ Recorded(e))
      BY DEF RunInv, RunsAccounted
    <2>2. CASE asked'[e] = asked[e]
      BY <2>1, <2>2, <1>6, <1>7
    <2>3. CASE asked'[e] # asked[e]
      <3>1. e = d /\ ~Known(p, d) /\ asked'[d] = asked[d] + 1
        BY <1>5, <2>3
      <3>2. asked[d] <= lost[d] /\ Recorded(d)'
        BY <1>8, <2>1, <3>1
      <3> QED
        BY <1>5, <1>6, <3>1, <3>2
    <2> QED
      BY <2>2, <2>3
  <1>10. ExcludedNeverRuns'
    BY <1>1, <1>5, <1>6 DEF RunInv, ExcludedNeverRuns, QueueIsWave
  <1>11. \A q \in Passes \ {p} : On(q) => t.locked \cap tx[q].locked = {}
    BY <1>1, <1>2 DEF RunInv, LocksApart, SentTx
  <1>12. t.queue # {} =>
           /\ t.todo # {} /\ OpenWaves(t) # {} /\ t.wave[FirstWave(t)] \in Runnable
           /\ t.queue \subseteq Members(FirstWave(t))
           /\ \A e \in Members(FirstWave(t)) \ t.queue :
                ledger[e] # "none" \/ e \in skipped \/ e \in t.skips \/ t.mine[e] # "none"
           /\ \A e \in t.queue : target[e] \in Dispatchable
    <2> SUFFICES ASSUME t.queue # {}
                 PROVE  /\ t.todo # {} /\ OpenWaves(t) # {} /\ t.wave[FirstWave(t)] \in Runnable
                        /\ t.queue \subseteq Members(FirstWave(t))
                        /\ \A e \in Members(FirstWave(t)) \ t.queue :
                             \/ ledger[e] # "none" \/ e \in skipped
                             \/ e \in t.skips \/ t.mine[e] # "none"
                        /\ \A e \in t.queue : target[e] \in Dispatchable
      OBVIOUS
    <2>1. tx[p].queue # {d} /\ tx[p].queue # {}
      BY <1>1, <1>2 DEF SentTx
    <2>2. /\ tx[p].todo # {} /\ Open(p) # {} /\ tx[p].wave[First(p)] \in Runnable
          /\ tx[p].queue \subseteq Members(First(p))
          /\ \A e \in Members(First(p)) \ tx[p].queue : Handled(p, e)
          /\ \A e \in tx[p].queue : target[e] \in Dispatchable
      BY <1>1, <2>1 DEF QueueIsWave
    <2>3. /\ t.wave = tx[p].wave /\ t.todo = tx[p].todo /\ t.queue = tx[p].queue \ {d}
          /\ OpenWaves(t) = Open(p) /\ FirstWave(t) = First(p) /\ t.skips = tx[p].skips
          /\ t.mine[d] # "none" \/ ledger[d] # "none"
          /\ \A e \in Devices : tx[p].mine[e] # "none" => t.mine[e] # "none"
      BY <1>2, <2>1 DEF SentTx
    <2>4. First(p) \in Waves
      BY <2>2, FirstWaveIsOpen DEF First, Open
    <2>5. Members(First(p)) \subseteq Devices
      BY <2>4, OneWaveEach DEF RunInv
    <2> QED
      BY <2>2, <2>3, <2>5 DEF Handled
  <1> QED
    BY <1>1, <1>2, <1>3, <1>5, <1>9, <1>10, <1>11, <1>12, TxStep DEF estate

\* The rows that a commit writes.
LEMMA CommitRows ==
  ASSUME RunInv, NEW p \in Passes, Commit(p) \/ CommitPartly(p)
  PROVE  /\ On(p) /\ TxTyped(tx[p]) /\ status \notin Editable /\ status' \notin Editable
         /\ tx' = [tx EXCEPT ![p] = NoTx]
         /\ \A w \in Waves : wave'[w] = IF tx[p].wave[w] # tx[p].base.wave[w]
                                        THEN tx[p].wave[w] ELSE wave[w]
         /\ \A d \in Devices : ledger'[d] = IF tx[p].mine[d] # "none"
                                            THEN tx[p].mine[d] ELSE ledger[d]
         /\ wave' \in [Waves -> WaveStates] /\ site' \in [Sites -> SiteStates]
         /\ ledger' \in [Devices -> Answers]
         /\ skipped' = skipped \cup tx[p].skips
         /\ UNCHANGED <<acked, target, plan, approval, estate, runs>>
  <1>1. /\ On(p) /\ tx' = [tx EXCEPT ![p] = NoTx]
        /\ site' = [s \in Sites |-> IF tx[p].site[s] # tx[p].base.site[s]
                                    THEN tx[p].site[s] ELSE site[s]]
        /\ wave' = [w \in Waves |-> IF tx[p].wave[w] # tx[p].base.wave[w]
                                    THEN tx[p].wave[w] ELSE wave[w]]
        /\ ledger' = [d \in Devices |-> IF tx[p].mine[d] # "none"
                                        THEN tx[p].mine[d] ELSE ledger[d]]
        /\ skipped' = skipped \cup tx[p].skips
        /\ UNCHANGED <<acked, target, plan, approval, estate, runs>>
    BY DEF Commit, CommitPartly, Write, On
  <1>2. TxTyped(tx[p]) /\ status \notin Editable
    BY <1>1 DEF RunInv, CTypeOK, NothingBegun
  <1>3. status' \in {"halted", "completed", "running", status}
    BY <1>2 DEF Commit, CommitPartly, Write, CampaignState, TxTyped
  <1>4. status' \notin Editable
    BY <1>2, <1>3 DEF Editable
  <1>5. site' \in [Sites -> SiteStates]
    BY <1>1, <1>2 DEF RunInv, CTypeOK, TxTyped
  <1>6. wave' \in [Waves -> WaveStates]
    BY <1>1, <1>2 DEF RunInv, CTypeOK, TxTyped
  <1>7. ledger' \in [Devices -> Answers]
    BY <1>1, <1>2 DEF RunInv, CTypeOK, TxTyped
  <1> QED
    BY <1>1, <1>2, <1>4, <1>5, <1>6, <1>7

\* A pass ends: what it had is no longer held.
LEMMA EndStep ==
  ASSUME RunInv, NEW p \in Passes, tx' = [tx EXCEPT ![p] = NoTx],
         status' \notin Editable, plan' = plan, target' = target, layout' = layout,
         asked' = asked, lost' \in [Devices -> Nat], reported' = reported, outcome' = outcome,
         ledger' \in [Devices -> Answers], wave' \in [Waves -> WaveStates],
         site' \in [Sites -> SiteStates], skipped \subseteq skipped',
         \A d \in Devices : ledger[d] # "none" => ledger'[d] # "none",
         RunsAccounted'
  PROVE  RunInv'
  <1>1. tx'[p] = NoTx /\ \A q \in Passes \ {p} : tx'[q] = tx[q]
    BY DEF RunInv, CTypeOK
  <1>2. tx' = [q \in Passes |-> tx'[q]]
    BY DEF RunInv, CTypeOK
  <1>3. \A q \in Passes : On(q)' => tx'[q] = tx[q] /\ On(q)
    BY <1>1 DEF On
  <1>4. CTypeOK'
    BY <1>2, <1>3 DEF RunInv, CTypeOK
  <1>5. LocksApart'
    BY <1>3 DEF RunInv, LocksApart
  <1>6. NothingBegun' /\ ExcludedNeverRuns'
    BY DEF NothingBegun, RunInv, ExcludedNeverRuns
  <1>7. ASSUME NEW q \in Passes, On(q)' PROVE QueueIsWave(q)'
    <2>1. tx'[q] = tx[q] /\ On(q) /\ QueueIsWave(q)
      BY <1>3, <1>7 DEF RunInv
    <2>2. \A w : Members(w)' = Members(w)
      BY DEF Members
    <2>3. ASSUME tx[q].queue # {} PROVE Members(First(q)) \subseteq Devices
      BY <2>1, <2>3, FirstWaveIsOpen, OneWaveEach DEF QueueIsWave, First, Open, RunInv
    <2> QED
      BY <2>1, <2>2, <2>3 DEF QueueIsWave, Handled, Open, First
  <1> QED
    BY <1>4, <1>5, <1>6, <1>7 DEF RunInv

\* A commit moves what the pass recorded to the ledger and releases its locks.
LEMMA CommitKeepsRuns ==
  ASSUME RunInv, NEW p \in Passes, Commit(p) \/ CommitPartly(p) PROVE RunInv'
  <1>1. /\ On(p) /\ TxTyped(tx[p]) /\ tx' = [tx EXCEPT ![p] = NoTx]
        /\ status' \notin Editable /\ skipped' = skipped \cup tx[p].skips
        /\ \A d \in Devices : ledger'[d] = IF tx[p].mine[d] # "none"
                                           THEN tx[p].mine[d] ELSE ledger[d]
        /\ UNCHANGED <<acked, target, plan, approval, estate, runs>>
        /\ wave' \in [Waves -> WaveStates] /\ site' \in [Sites -> SiteStates]
        /\ ledger' \in [Devices -> Answers]
    BY CommitRows
  <1>2. tx'[p] = NoTx /\ \A q \in Passes \ {p} : tx'[q] = tx[q]
    BY <1>1 DEF RunInv, CTypeOK
  <1>3. \A d \in Devices : Recorded(d) => Recorded(d)'
    BY <1>1, <1>2 DEF Recorded, On
  <1>4. RunsAccounted'
    BY <1>1, <1>3 DEF RunsAccounted, RunInv, runs
  <1>5. lost' \in [Devices -> Nat]
    BY <1>1 DEF RunInv, CTypeOK, runs
  <1> QED
    BY <1>1, <1>4, <1>5, EndStep DEF estate, runs

\* An abort loses the record of the requests sent: each is counted as a lost one.
LEMMA AbortKeepsRuns ==
  ASSUME RunInv, NEW p \in Passes, Abort(p) PROVE RunInv'
  <1>1. /\ On(p) /\ tx' = [tx EXCEPT ![p] = NoTx]
        /\ lost' = [d \in Devices |-> lost[d] + (IF tx[p].mine[d] # "none" THEN 1 ELSE 0)]
        /\ UNCHANGED <<db, approval, estate, asked, outcome, reported>>
    BY DEF Abort, On
  <1>2. tx'[p] = NoTx /\ \A q \in Passes \ {p} : tx'[q] = tx[q]
    BY <1>1 DEF RunInv, CTypeOK
  <1>3. asked \in [Devices -> Nat] /\ lost \in [Devices -> Nat] /\ lost' \in [Devices -> Nat]
    BY <1>1 DEF RunInv, CTypeOK
  <1>4. RunsAccounted'
    <2> SUFFICES ASSUME NEW d \in Devices
                 PROVE  asked'[d] <= lost'[d] \/ (asked'[d] <= 1 + lost'[d] /\ Recorded(d)')
      BY DEF RunsAccounted
    <2>1. asked[d] <= lost[d] \/ (asked[d] <= 1 + lost[d] /\ Recorded(d))
      BY DEF RunInv, RunsAccounted
    <2>2. CASE tx[p].mine[d] # "none"
      <3>1. lost'[d] = lost[d] + 1 /\ asked'[d] = asked[d]
        BY <1>1, <2>2
      <3> QED
        BY <1>3, <2>1, <3>1
    <2>3. CASE tx[p].mine[d] = "none"
      <3>1. lost'[d] = lost[d] /\ asked'[d] = asked[d]
        BY <1>1, <1>3, <2>3
      <3>2. Recorded(d) => Recorded(d)'
        BY <1>1, <1>2, <2>3 DEF Recorded, On, db
      <3> QED
        BY <2>1, <3>1, <3>2
    <2> QED
      BY <2>2, <2>3
  <1>5. status \notin Editable
    BY <1>1 DEF RunInv, NothingBegun
  <1> QED
    BY <1>1, <1>3, <1>4, <1>5, EndStep DEF estate, db, RunInv, CTypeOK

\* Before a campaign runs no pass is under way and nothing was asked.
LEMMA EditKeepsRuns ==
  ASSUME RunInv, status \in Editable,
         UNCHANGED <<ledger, skipped, tx, approval, estate, runs, aborts>>,
         site' \in [Sites -> SiteStates], wave' \in [Waves -> WaveStates],
         \A s \in Sites : /\ DOMAIN plan'[s] \subseteq At(s)
                          /\ \A d \in DOMAIN plan'[s] : plan'[s][d] \in WaveNos
  PROVE  RunInv'
  <1>1. (\A p \in Passes : ~On(p)) /\ (\A d \in Devices : asked[d] = 0)
    BY DEF RunInv, NothingBegun
  <1>2. (\A p \in Passes : ~On(p)') /\ (\A d \in Devices : asked'[d] = 0)
    BY <1>1 DEF On, runs
  <1>3. CTypeOK'
    BY <1>2 DEF RunInv, CTypeOK, runs, estate
  <1>4. LocksApart' /\ NothingBegun' /\ ExcludedNeverRuns'
    BY <1>2 DEF LocksApart, NothingBegun, ExcludedNeverRuns
  <1>5. RunsAccounted'
    BY <1>2, <1>3 DEF RunsAccounted, CTypeOK
  <1> QED
    BY <1>2, <1>3, <1>4, <1>5 DEF RunInv

\* Preflight rewrites the plan of a campaign that has sent nothing.
LEMMA PreflightKeepsRuns ==
  ASSUME RunInv, NEW a, NEW b, Preflight(a, b) PROVE RunInv'
  <1>1. status \in Editable
    BY DEF Preflight
  <1>2. site' \in [Sites -> SiteStates] /\ wave' \in [Waves -> WaveStates]
    BY DEF Preflight, SiteStates, WaveStates, Closed
  <1>3. ASSUME NEW s \in Sites
        PROVE  /\ DOMAIN plan'[s] \subseteq At(s)
               /\ \A d \in DOMAIN plan'[s] : plan'[s][d] \in WaveNos
    <2>1. plan'[s] = plan[s] \/ \E targets : plan'[s] = PlanNow(s, targets)
      BY DEF Preflight
    <2>2. \A d \in Devices : layout[d] \in WaveNos
      BY CampaignAssumption DEF RunInv, CTypeOK, WaveNos
    <2>3. ASSUME NEW targets, plan'[s] = PlanNow(s, targets)
          PROVE  /\ DOMAIN plan'[s] \subseteq At(s)
                 /\ \A d \in DOMAIN plan'[s] : plan'[s][d] \in WaveNos
      BY <2>2, <2>3 DEF PlanNow, At
    <2> QED
      BY <2>1, <2>3 DEF RunInv, CTypeOK
  <1> QED
    BY <1>1, <1>2, <1>3, EditKeepsRuns DEF Preflight

\* Acknowledging excludes targets of a campaign that has sent nothing.
LEMMA AcknowledgeKeepsRuns ==
  ASSUME RunInv, NEW x, Acknowledge(x) PROVE RunInv'
  <1>1. site' \in [Sites -> SiteStates]
    BY DEF Acknowledge, SiteStates, RunInv, CTypeOK
  <1> QED
    BY <1>1, EditKeepsRuns DEF Acknowledge, RunInv, CTypeOK

\* Submitting for approval touches neither the ledger nor the runs.
LEMMA SubmitKeepsRuns ==
  ASSUME RunInv, NEW a, Submit(a) PROVE RunInv'
  <1>1. wave' \in [Waves -> WaveStates]
    BY DEF Submit, WaveStates, Closed, Voidable
  <1>2. status \in Editable
    BY DEF Submit, MaySubmit, Editable
  <1> QED
    BY <1>1, <1>2, EditKeepsRuns DEF Submit, RunInv, CTypeOK

\* Steps that touch neither the passes nor the ledger nor the runs' count.
LEMMA OtherKeepsRuns ==
  ASSUME RunInv, UNCHANGED <<tx, target, plan, ledger, skipped, asked, lost, site>>,
         wave' \in [Waves -> WaveStates], layout' \in Layouts,
         reported' \in [Devices -> Nat], DOMAIN outcome' = Devices,
         status' \in Editable => status \in Editable
  PROVE  RunInv'
  <1>1. CTypeOK'
    BY DEF RunInv, CTypeOK, On
  <1>2. LocksApart' /\ NothingBegun' /\ ExcludedNeverRuns'
    BY DEF RunInv, LocksApart, NothingBegun, ExcludedNeverRuns, On
  <1>3. RunsAccounted'
    BY DEF RunInv, RunsAccounted, Recorded, On
  <1>4. \A p \in Passes : On(p)' => QueueIsWave(p)'
    BY DEF RunInv, QueueIsWave, On, Handled, Members, Open, First
  <1> QED
    BY <1>1, <1>2, <1>3, <1>4 DEF RunInv

\* Void changes exactly the voidable waves of its site.
LEMMA VoidTyped ==
  ASSUME NEW waves \in [Waves -> WaveStates], NEW s
  PROVE  /\ Void(waves, s) \in [Waves -> WaveStates]
         /\ \A w \in Waves : Void(waves, s)[w] = IF w[1] = s /\ waves[w] \in Voidable
                                                 THEN "voided" ELSE waves[w]
  BY DEF Void, WaveStates, Closed

\* What a pass leaves a site with, without having sent anything: the waves of
\* the site as they were, or without their authorisations.
LEMMA LeavingSite ==
  ASSUME RunInv, NEW p \in Passes,
         \/ FinishSite(p) \/ HoldSite(p) \/ HaltSite(p) \/ RefuseWave(p) \/ WithholdWave(p)
  PROVE  /\ AtSite(p) /\ On(p) /\ TxTyped(tx[p])
         /\ \E sites \in [Sites -> SiteStates], waves \in [Waves -> WaveStates] :
              /\ Leave(p, sites, waves)
              /\ waves = tx[p].wave \/ waves = Void(tx[p].wave, Here(p))
  <1>1. AtSite(p) /\ On(p)
    BY DEF FinishSite, HoldSite, HaltSite, RefuseWave, WithholdWave, Authorised, AtSite, On
  <1>2. TxTyped(tx[p])
    BY <1>1 DEF RunInv, CTypeOK
  <1> DEFINE sites(x) == [tx[p].site EXCEPT ![Here(p)] = x]
  <1>3. /\ tx[p].site \in [Sites -> SiteStates] /\ sites("completed") \in [Sites -> SiteStates]
        /\ sites("halted") \in [Sites -> SiteStates] /\ sites("pending") \in [Sites -> SiteStates]
    BY <1>2 DEF TxTyped, SiteStates
  <1>4. tx[p].wave \in [Waves -> WaveStates] /\ Void(tx[p].wave, Here(p)) \in [Waves -> WaveStates]
    BY <1>2, VoidTyped DEF TxTyped
  <1>5. \/ Leave(p, sites("completed"), tx[p].wave) \/ Leave(p, tx[p].site, tx[p].wave)
        \/ Leave(p, sites("halted"), Void(tx[p].wave, Here(p)))
        \/ Leave(p, sites("pending"), Void(tx[p].wave, Here(p)))
    BY DEF FinishSite, HoldSite, HaltSite, RefuseWave, WithholdWave
  <1> HIDE DEF sites
  <1> QED
    BY <1>1, <1>2, <1>3, <1>4, <1>5

\* Every step of a pass keeps the run invariant.
LEMMA PassKeepsRuns ==
  ASSUME RunInv, NEW p \in Passes, Pass(p) PROVE RunInv'
  <1>1. ASSUME \/ FinishSite(p) \/ HoldSite(p) \/ HaltSite(p) \/ RefuseWave(p) \/ WithholdWave(p)
        PROVE RunInv'
    <2>1. PICK sites \in [Sites -> SiteStates], waves \in [Waves -> WaveStates] :
            Leave(p, sites, waves)
      BY <1>1, LeavingSite
    <2>2. AtSite(p)
      BY <1>1, LeavingSite
    <2> QED
      BY <2>1, <2>2, LeaveKeepsRuns
  <1>2. ASSUME NEW d \in Devices, NEW answer, Send(p, d, answer) PROVE RunInv'
    BY <1>2, SendKeepsRuns
  <1> QED
    BY <1>1, <1>2, BeginKeepsRuns, SkipKeepsRuns, StartKeepsRuns, CommitKeepsRuns,
       AbortKeepsRuns DEF Pass

\* The decision on a wave is written on one of the campaign's waves.
LEMMA DecideWave ==
  ASSUME RunInv, deciding \in Waves, NEW verdict \in {"approved", "denied"}, Decide(verdict)
  PROVE  wave' \in [Waves -> WaveStates]
  BY DEF Decide, RunInv, CTypeOK, WaveStates, Closed, Voidable

\* Every step of the runner keeps the run invariant.
LEMMA RunStep == RunInv /\ (deciding = NoWave \/ deciding \in Waves) /\ [CNext]_cvars => RunInv'
  <1> SUFFICES ASSUME RunInv, deciding = NoWave \/ deciding \in Waves, [CNext]_cvars
               PROVE  RunInv'
    OBVIOUS
  <1>1. CASE Cancel
    <2>1. status' \notin Editable
      BY <1>1 DEF Cancel, Editable
    <2> QED
      BY <1>1, <2>1, OtherKeepsRuns DEF Cancel, runs, estate, RunInv, CTypeOK
  <1>2. ASSUME NEW w \in Waves, Load(w) PROVE RunInv'
    BY <1>2, OtherKeepsRuns DEF Load, db, runs, estate, RunInv, CTypeOK
  <1>3. ASSUME NEW verdict \in {"approved", "denied"}, Decide(verdict) PROVE RunInv'
    <2>1. deciding \in Waves
      BY <1>3 DEF Decide
    <2>2. wave' \in [Waves -> WaveStates]
      BY <1>3, <2>1, DecideWave
    <2> QED
      BY <1>3, <2>2, OtherKeepsRuns DEF Decide, runs, estate, RunInv, CTypeOK
  <1>4. ASSUME NEW d \in Devices, NEW result, Report(d, result) PROVE RunInv'
    <2>1. reported' \in [Devices -> Nat] /\ DOMAIN outcome' = Devices
      BY <1>4 DEF Report, RunInv, CTypeOK
    <2> QED
      BY <1>4, <2>1, OtherKeepsRuns DEF Report, db, estate, RunInv, CTypeOK
  <1>5. CASE Change
    <2>1. layout' \in Layouts
      BY <1>5 DEF Change, RunInv, CTypeOK
    <2> QED
      BY <1>5, <2>1, OtherKeepsRuns DEF Change, db, runs, RunInv, CTypeOK
  <1>6. CASE UNCHANGED cvars
    BY <1>6, OtherKeepsRuns DEF cvars, db, runs, estate, RunInv, CTypeOK
  <1> QED
    BY <1>1, <1>2, <1>3, <1>4, <1>5, <1>6, PreflightKeepsRuns, AcknowledgeKeepsRuns,
       SubmitKeepsRuns, PassKeepsRuns DEF CNext

\* The run invariant holds of a campaign that has not begun.
LEMMA RunInit == CInit => RunInv
  <1> SUFFICES ASSUME CInit PROVE RunInv
    OBVIOUS
  <1>1. \A p \in Passes : ~On(p)
    BY DEF CInit, On
  <1>2. CTypeOK
    <2>1. /\ asked \in [Devices -> Nat] /\ lost \in [Devices -> Nat]
          /\ reported \in [Devices -> Nat] /\ DOMAIN outcome = Devices
      BY DEF CInit
    <2>2. /\ ledger \in [Devices -> Answers] /\ wave \in [Waves -> WaveStates]
          /\ site \in [Sites -> SiteStates] /\ layout \in Layouts
      BY CampaignAssumption DEF CInit, Answers, WaveStates, Closed, SiteStates
    <2>3. \A s \in Sites : DOMAIN plan[s] = {}
      BY DEF CInit, NoPlan
    <2>4. tx = [p \in Passes |-> tx[p]]
      BY DEF CInit
    <2> QED
      BY <1>1, <2>1, <2>2, <2>3, <2>4 DEF CTypeOK
  <1>3. /\ \A d \in Devices : asked[d] = 0 /\ lost[d] = 0
    BY DEF CInit
  <1>4. LocksApart /\ NothingBegun /\ ExcludedNeverRuns
    BY <1>1, <1>3 DEF LocksApart, NothingBegun, ExcludedNeverRuns
  <1>5. RunsAccounted
    BY <1>3 DEF RunsAccounted
  <1> QED
    BY <1>1, <1>2, <1>4, <1>5 DEF RunInv

DecidesWave == deciding = NoWave \/ deciding \in Waves

\* The wave an operator is deciding about stays a wave.
LEMMA DecidesStep == DecidesWave /\ [CNext]_cvars => DecidesWave'
  <1> SUFFICES ASSUME DecidesWave, [CNext]_cvars PROVE DecidesWave'
    OBVIOUS
  <1>1. ASSUME NEW w \in Waves, Load(w) PROVE DecidesWave'
    BY <1>1 DEF Load, DecidesWave
  <1>2. ASSUME NEW verdict, Decide(verdict) PROVE DecidesWave'
    BY <1>2 DEF Decide, DecidesWave
  <1>3. ASSUME NEW p \in Passes, Pass(p) PROVE UNCHANGED approval
    <2>1. ASSUME NEW d, NEW answer, Send(p, d, answer) PROVE UNCHANGED approval
      BY <2>1 DEF Send
    <2> QED
      BY <1>3, <2>1 DEF Pass, Begin, FinishSite, HoldSite, HaltSite, RefuseWave, WithholdWave,
                   SkipWave, StartWave, Commit, CommitPartly, Write, Abort, Leave
  <1>4. ASSUME NEW a, NEW b, \/ Preflight(a, b) \/ Acknowledge(a) \/ Submit(a) \/ Cancel
                             \/ Report(a, b) \/ Change
        PROVE UNCHANGED approval
    BY <1>4 DEF Preflight, Acknowledge, Submit, Cancel, Report, Change
  <1>5. UNCHANGED approval => DecidesWave'
    BY DEF approval, DecidesWave
  <1>6. UNCHANGED cvars => UNCHANGED approval
    BY DEF cvars
  <1> QED
    BY <1>1, <1>2, <1>3, <1>4, <1>5, <1>6 DEF CNext

\* The run invariant holds throughout.
LEMMA RunInvariant == CSpec => [](RunInv /\ DecidesWave)
  <1>1. CInit => RunInv /\ DecidesWave
    BY RunInit DEF CInit, DecidesWave
  <1>2. RunInv /\ DecidesWave /\ [CNext]_cvars => RunInv' /\ DecidesWave'
    BY RunStep, DecidesStep DEF DecidesWave
  <1> QED
    BY <1>1, <1>2, PTL DEF CSpec

\* Whatever the background loop and the operators' requests do at the same
\* time, dispatch_wave asks for a device at most once, and once more for each
\* pass that died after it asked.
THEOREM DeviceRunsOnce == CSpec => []NoRepeatedRun
  <1>1. RunInv => NoRepeatedRun
    <2> SUFFICES ASSUME RunInv, NEW d \in Devices PROVE asked[d] <= 1 + lost[d]
      BY DEF NoRepeatedRun
    <2>1. asked[d] \in Nat /\ lost[d] \in Nat
      BY DEF RunInv, CTypeOK
    <2>2. asked[d] <= lost[d] \/ asked[d] <= 1 + lost[d]
      BY DEF RunInv, RunsAccounted
    <2> QED
      BY <2>1, <2>2
  <1> QED
    BY <1>1, RunInvariant, PTL

\* dispatch_wave never asks for a device that was excluded: neither one that
\* preflight found without the capability nor one an operator left out.
THEOREM ExcludedStaysOut == CSpec => []ExcludedNeverRuns
  <1>1. RunInv => ExcludedNeverRuns
    BY DEF RunInv
  <1> QED
    BY <1>1, RunInvariant, PTL

-----------------------------------------------------------------------------
(* OrderInv is inductive                                                   *)

\* e is asked for, by the pass p that runs wave w.
Fresh(p, w, e) ==
    On(p) /\ tx[p].wave[w] \in Runnable /\ e \in tx[p].locked /\ ledger[e] = "none"

Finished(t, e) == ledger[e] # "none" \/ e \in skipped \/ e \in t.skips \/ t.mine[e] # "none"

\* t may be the transaction of pass p.
GoodView(p, t) ==
    \A w \in Waves :
      /\ t.wave[w] \in Runnable => wave[w] \in Runnable \/ (On(p) /\ tx[p].wave[w] \in Runnable)
      /\ t.wave[w] = "dispatched" => \A e \in Members(w) : Finished(t, e)
      /\ w[1] \notin revived /\ t.base.wave[w] \notin Voidable => wave[w] \notin Voidable
      /\ t.wave[w] # t.base.wave[w] => t.wave[w] \notin Voidable

\* How the state sets the code tests against lie to one another.
LEMMA StatesApart ==
  /\ Runnable \subseteq Voidable /\ "pending" \in Voidable /\ "pending" \notin Runnable
  /\ "dispatched" \notin Voidable /\ "dispatched" \notin Closed
  /\ \A x \in Closed : x \notin Voidable
  BY DEF Runnable, Voidable, Closed

\* A step of one pass that leaves the tables alone.
LEMMA OrderTxStep ==
  ASSUME RunInv, OrderInv, NEW p \in Passes, NEW t, t # NoTx, tx' = [tx EXCEPT ![p] = t],
         UNCHANGED <<db, revived, outcome, reported>>, GoodView(p, t),
         \A w \in Waves : \A e \in Members(w) : Bad(e)' => Bad(e) \/ Fresh(p, w, e),
         \A w \in Waves : w[1] \notin revived /\ t.wave[w] \in Closed =>
           \/ NoneAfter(w, t.wave)
           \/ /\ \A e \in Members(w) : Bad(e)' => e \in t.skips /\ w[1] \notin t.todo
              /\ (\A e \in Members(w) : Finished(t, e)) \/ Quiet(w)
  PROVE  OrderInv'
  <1>1. tx'[p] = t /\ \A q \in Passes \ {p} : tx'[q] = tx[q]
    BY DEF RunInv, CTypeOK
  <1>2. /\ plan' = plan /\ ledger' = ledger /\ skipped' = skipped /\ wave' = wave
        /\ revived' = revived /\ outcome' = outcome /\ reported' = reported
    BY DEF db
  <1>3. \A w : Members(w)' = Members(w)
    BY <1>2 DEF Members
  <1>4. \A w \in Waves : Spent(w) => Spent(w)'
    BY <1>2, <1>3 DEF Spent
  <1>5. \A w \in Waves : Quiet(w) => Quiet(w)'
    BY <1>1, <1>2, StatesApart DEF Quiet, On, GoodView
  <1>6. DispatchedIsSpent'
    <2>1. \A w \in Waves : wave'[w] = "dispatched" => Spent(w)'
      BY <1>2, <1>4 DEF OrderInv, DispatchedIsSpent
    <2>2. ASSUME NEW q \in Passes, On(q)', NEW w \in Waves, tx'[q].wave[w] = "dispatched"
          PROVE  SpentFor(q, w)'
      <3>1. CASE q = p
        BY <1>1, <1>2, <1>3, <2>2, <3>1 DEF GoodView, SpentFor, Handled, Finished
      <3>2. CASE q # p
        <4>1. tx'[q] = tx[q] /\ On(q)
          BY <1>1, <2>2, <3>2 DEF On
        <4>2. SpentFor(q, w)
          BY <2>2, <4>1 DEF OrderInv, DispatchedIsSpent
        <4> QED
          BY <1>2, <1>3, <4>1, <4>2 DEF SpentFor, Handled
      <3> QED
        BY <3>1, <3>2
    <2> QED
      BY <2>1, <2>2 DEF DispatchedIsSpent
  <1>7. PendingIsQuiet'
    <2> SUFFICES ASSUME NEW w \in Waves, w[1] \notin revived', wave'[w] = "pending"
                 PROVE  /\ \A e \in Members(w)' : ~Bad(e)'
                        /\ \A q \in Passes : On(q)' => tx'[q].wave[w] \notin Runnable
      BY DEF PendingIsQuiet
    <2>1. /\ \A e \in Members(w) : ~Bad(e)
          /\ \A q \in Passes : On(q) => tx[q].wave[w] \notin Runnable
      BY <1>2 DEF OrderInv, PendingIsQuiet
    <2>2. \A e \in Members(w)' : ~Bad(e)'
      BY <1>3, <2>1 DEF Fresh
    <2>3. ASSUME NEW q \in Passes, On(q)' PROVE tx'[q].wave[w] \notin Runnable
      BY <1>1, <1>2, <2>1, <2>3, StatesApart DEF GoodView, On
    <2> QED
      BY <2>2, <2>3
  <1>8. ViewsAreOld'
    <2> SUFFICES ASSUME NEW q \in Passes, On(q)', NEW w \in Waves
                 PROVE  /\ w[1] \notin revived' /\ tx'[q].base.wave[w] \notin Voidable
                             => wave'[w] \notin Voidable
                        /\ tx'[q].wave[w] # tx'[q].base.wave[w] => tx'[q].wave[w] \notin Voidable
      BY DEF ViewsAreOld
    <2>1. CASE q = p
      BY <1>1, <1>2, <2>1 DEF GoodView
    <2>2. CASE q # p
      BY <1>1, <1>2, <2>2 DEF OrderInv, ViewsAreOld, On
    <2> QED
      BY <2>1, <2>2
  <1>9. RowsInOrder'
    <2> SUFFICES ASSUME NEW w \in Waves, w[1] \notin revived', wave'[w] \in Closed,
                        ~NoneAfter(w, wave')
                 PROVE  (\A e \in Members(w)' : ~Bad(e)') /\ (Spent(w)' \/ Quiet(w)')
      BY DEF RowsInOrder, NoneAfter
    <2>1. (\A e \in Members(w) : ~Bad(e)) /\ (Spent(w) \/ Quiet(w))
      BY <1>2 DEF OrderInv, RowsInOrder
    <2>2. ASSUME NEW e \in Members(w), Bad(e)' PROVE FALSE
      <3>1. Fresh(p, w, e) /\ e \notin skipped
        BY <1>2, <2>1, <2>2 DEF Bad
      <3>2. Quiet(w) => FALSE
        BY <3>1 DEF Quiet, Fresh
      <3>3. Spent(w) => FALSE
        BY <3>1 DEF Spent, Fresh
      <3> QED
        BY <2>1, <3>2, <3>3
    <2> QED
      BY <1>3, <1>4, <1>5, <2>1, <2>2
  <1>10. OutcomesCounted'
    BY <1>2 DEF OrderInv, OutcomesCounted
  <1>11. ASSUME NEW q \in Passes, On(q)' PROVE ViewInOrder(q)'
    <2> SUFFICES ASSUME NEW w \in Waves, w[1] \notin revived', tx'[q].wave[w] \in Closed,
                        ~NoneAfter(w, tx'[q].wave)
                 PROVE  /\ \A e \in Members(w)' : Bad(e)' => e \in tx'[q].skips /\ w[1] \notin tx'[q].todo
                        /\ SpentFor(q, w)' \/ Quiet(w)'
      BY DEF ViewInOrder, NoneAfter
    <2>1. CASE q = p
      <3>1. /\ \A e \in Members(w) : Bad(e)' => e \in t.skips /\ w[1] \notin t.todo
            /\ (\A e \in Members(w) : Finished(t, e)) \/ Quiet(w)
        BY <1>1, <1>2, <2>1
      <3>2. (\A e \in Members(w) : Finished(t, e)) => SpentFor(q, w)'
        BY <1>1, <1>2, <1>3, <2>1 DEF SpentFor, Handled, Finished
      <3> QED
        BY <1>1, <1>3, <1>5, <2>1, <3>1, <3>2
    <2>2. CASE q # p
      <3>1. tx'[q] = tx[q] /\ On(q) /\ ViewInOrder(q)
        BY <1>1, <1>11, <2>2 DEF On, OrderInv
      <3>2. /\ \A e \in Members(w) : Bad(e) => e \in tx[q].skips /\ w[1] \notin tx[q].todo
            /\ SpentFor(q, w) \/ Quiet(w)
        BY <1>2, <3>1 DEF ViewInOrder
      <3>3. ASSUME NEW e \in Members(w), Bad(e)', ~Bad(e) PROVE FALSE
        <4>1. Fresh(p, w, e) /\ e \notin skipped
          BY <1>2, <3>3 DEF Bad
        <4>2. Quiet(w) => FALSE
          BY <4>1 DEF Quiet, Fresh
        <4>3. e \notin tx[q].locked /\ TxTyped(tx[q]) /\ e \in Devices
          BY <2>2, <3>1, <4>1, OneWaveEach DEF Fresh, RunInv, LocksApart, CTypeOK
        <4>4. e \notin tx[q].skips /\ tx[q].mine[e] = "none"
          BY <4>3 DEF TxTyped
        <4>5. SpentFor(q, w) => FALSE
          BY <4>1, <4>4 DEF SpentFor, Handled, Fresh
        <4> QED
          BY <3>2, <4>2, <4>5
      <3>4. SpentFor(q, w) => SpentFor(q, w)'
        BY <1>2, <1>3, <3>1 DEF SpentFor, Handled
      <3> QED
        BY <1>3, <1>5, <3>1, <3>2, <3>3, <3>4
    <2> QED
      BY <2>1, <2>2
  <1> QED
    BY <1>6, <1>7, <1>8, <1>9, <1>10, <1>11 DEF OrderInv

\* A pass goes on: it changes the status of a wave only to one that is not an
\* authorisation, and what it closes is the end of its site or narrowed away.
LEMMA ContinueOrder ==
  ASSUME RunInv, OrderInv, NEW p \in Passes, On(p), NEW t, TxTyped(t),
         tx' = [tx EXCEPT ![p] = t], UNCHANGED <<db, revived, outcome, reported>>,
         t.base = tx[p].base, tx[p].skips \subseteq t.skips, t.todo \subseteq tx[p].todo,
         \A e \in Devices : tx[p].mine[e] # "none" => t.mine[e] # "none",
         \A w \in Waves : \A e \in Members(w) :
           Bad(e)' => Bad(e) \/ (Fresh(p, w, e) /\ t.wave[w] \notin Closed),
         \A w \in Waves : t.wave[w] # tx[p].wave[w] =>
           /\ t.wave[w] \notin Voidable
           /\ t.wave[w] = "dispatched" => \A e \in Members(w) : Finished(t, e)
           /\ t.wave[w] \in Closed => \/ NoneAfter(w, t.wave)
                                      \/ Members(w) \subseteq t.skips /\ w[1] \notin t.todo
  PROVE  OrderInv'
  <1>1. \A w \in Waves : Members(w) \subseteq Devices
    BY OneWaveEach DEF RunInv
  <1>2. \A w \in Waves : SpentFor(p, w) => \A e \in Members(w) : Finished(t, e)
    BY <1>1 DEF SpentFor, Handled, Finished
  <1>3. GoodView(p, t)
    <2> SUFFICES ASSUME NEW w \in Waves
                 PROVE  /\ t.wave[w] \in Runnable =>
                             wave[w] \in Runnable \/ (On(p) /\ tx[p].wave[w] \in Runnable)
                        /\ t.wave[w] = "dispatched" => \A e \in Members(w) : Finished(t, e)
                        /\ w[1] \notin revived /\ t.base.wave[w] \notin Voidable
                             => wave[w] \notin Voidable
                        /\ t.wave[w] # t.base.wave[w] => t.wave[w] \notin Voidable
      BY DEF GoodView
    <2>1. t.wave[w] \in Runnable => tx[p].wave[w] \in Runnable
      BY StatesApart
    <2>2. t.wave[w] = "dispatched" => \A e \in Members(w) : Finished(t, e)
      BY <1>2 DEF OrderInv, DispatchedIsSpent
    <2>3. w[1] \notin revived /\ t.base.wave[w] \notin Voidable => wave[w] \notin Voidable
      BY DEF OrderInv, ViewsAreOld
    <2>4. t.wave[w] # t.base.wave[w] => t.wave[w] \notin Voidable
      BY DEF OrderInv, ViewsAreOld
    <2> QED
      BY <2>1, <2>2, <2>3, <2>4
  <1>4. ASSUME NEW w \in Waves, w[1] \notin revived, t.wave[w] \in Closed, ~NoneAfter(w, t.wave)
        PROVE  /\ \A e \in Members(w) : Bad(e)' => e \in t.skips /\ w[1] \notin t.todo
               /\ (\A e \in Members(w) : Finished(t, e)) \/ Quiet(w)
    <2>1. CASE t.wave[w] # tx[p].wave[w]
      BY <1>4, <2>1 DEF Finished
    <2>2. CASE t.wave[w] = tx[p].wave[w]
      <3>1. ~NoneAfter(w, tx[p].wave)
        BY <1>4 DEF NoneAfter
      <3>2. /\ \A e \in Members(w) : Bad(e) => e \in tx[p].skips /\ w[1] \notin tx[p].todo
            /\ SpentFor(p, w) \/ Quiet(w)
        BY <1>4, <2>2, <3>1 DEF OrderInv, ViewInOrder
      <3> QED
        BY <1>2, <1>4, <3>2
    <2> QED
      BY <2>1, <2>2
  <1>5. t # NoTx
    BY TypedIsOn
  <1> QED
    BY <1>3, <1>4, <1>5, OrderTxStep

\* A step that asks nothing makes nothing bad.
LEMMA NothingBad ==
  ASSUME UNCHANGED <<skipped, asked, outcome, lost>>
  PROVE  \A e : Bad(e)' => Bad(e)
  BY DEF Bad

\* Leaving a site never opens or dispatches a wave ahead of an earlier one.
LEMMA LeaveKeepsOrder ==
  ASSUME RunInv, OrderInv, NEW p \in Passes,
         \/ FinishSite(p) \/ HoldSite(p) \/ HaltSite(p) \/ RefuseWave(p) \/ WithholdWave(p)
  PROVE  OrderInv'
  <1>1. AtSite(p) /\ On(p) /\ TxTyped(tx[p])
    BY LeavingSite
  <1>2. PICK sites \in [Sites -> SiteStates], waves \in [Waves -> WaveStates] :
          /\ Leave(p, sites, waves)
          /\ waves = tx[p].wave \/ waves = Void(tx[p].wave, Here(p))
    BY LeavingSite
  <1>3. PICK t : /\ tx' = [tx EXCEPT ![p] = t] /\ TxTyped(t)
                 /\ UNCHANGED <<db, approval, estate, runs, aborts>>
                 /\ t.skips = tx[p].skips /\ t.mine = tx[p].mine /\ t.base = tx[p].base
                 /\ t.wave = waves /\ t.todo = tx[p].todo \ {Here(p)}
    BY <1>1, <1>2, LeaveTx
  <1>4. ASSUME NEW w \in Waves, t.wave[w] # tx[p].wave[w]
        PROVE  t.wave[w] = "voided" /\ NoneAfter(w, t.wave)
    <2>1. tx[p].wave \in [Waves -> WaveStates]
      BY <1>1 DEF TxTyped
    <2>2. \A x \in Waves : t.wave[x] = IF x[1] = Here(p) /\ tx[p].wave[x] \in Voidable
                                       THEN "voided" ELSE tx[p].wave[x]
      BY <1>2, <1>3, <1>4, <2>1, VoidTyped
    <2>3. w[1] = Here(p)
      BY <1>4, <2>2
    <2>4. "voided" \notin Voidable
      BY DEF Voidable
    <2> QED
      BY <1>4, <2>2, <2>3, <2>4 DEF NoneAfter
  <1>5. "voided" \notin Voidable /\ "voided" # "dispatched"
    BY DEF Voidable
  <1>6. \A e : Bad(e)' => Bad(e)
    BY <1>3, NothingBad DEF runs, db
  <1>7. UNCHANGED <<db, revived, outcome, reported>>
    BY <1>3 DEF approval, runs
  <1> QED
    BY <1>1, <1>3, <1>4, <1>5, <1>6, <1>7, ContinueOrder

\* A skipped wave counts as spent: every member of it is skipped.
LEMMA SkipKeepsOrder ==
  ASSUME RunInv, OrderInv, NEW p \in Passes, SkipWave(p) PROVE OrderInv'
  <1>1. /\ On(p) /\ TxTyped(tx[p]) /\ First(p) \in Waves /\ First(p)[1] = Here(p)
    BY RevalidatingFacts DEF SkipWave
  <1>2. PICK t : /\ tx' = [tx EXCEPT ![p] = t] /\ TxTyped(t)
                 /\ UNCHANGED <<db, approval, estate, runs, aborts>>
                 /\ t.skips = tx[p].skips \cup Members(First(p))
                 /\ t.mine = tx[p].mine /\ t.base = tx[p].base
                 /\ t.wave = [tx[p].wave EXCEPT ![First(p)] = "completed"]
                 /\ t.todo = tx[p].todo \ {Here(p)}
    BY SkipTx
  <1>3. ASSUME NEW w \in Waves, t.wave[w] # tx[p].wave[w]
        PROVE  t.wave[w] = "completed" /\ Members(w) \subseteq t.skips /\ w[1] \notin t.todo
    <2>1. w = First(p) /\ t.wave[w] = "completed"
      BY <1>1, <1>2, <1>3 DEF TxTyped
    <2> QED
      BY <1>1, <1>2, <2>1
  <1>4. "completed" \notin Voidable /\ "completed" # "dispatched"
    BY DEF Voidable
  <1>5. \A e : Bad(e)' => Bad(e)
    BY <1>2, NothingBad DEF runs, db
  <1>6. UNCHANGED <<db, revived, outcome, reported>>
    BY <1>2 DEF approval, runs
  <1> QED
    BY <1>1, <1>2, <1>3, <1>4, <1>5, <1>6, ContinueOrder

\* A wave is begun only when the ones before it at its site are closed.
LEMMA StartKeepsOrder ==
  ASSUME RunInv, OrderInv, NEW p \in Passes, StartWave(p) PROVE OrderInv'
  <1>1. On(p)
    BY RevalidatingFacts DEF StartWave
  <1>2. PICK t : /\ tx' = [tx EXCEPT ![p] = t] /\ TxTyped(t)
                 /\ UNCHANGED <<db, approval, estate, runs, aborts>>
                 /\ t.skips = tx[p].skips \cup {d \in Members(First(p)) : ~StillCapable(d)}
                 /\ t.mine = tx[p].mine /\ t.base = tx[p].base
                 /\ t.wave = tx[p].wave /\ t.todo = tx[p].todo
    BY StartTx
  <1>3. \A e : Bad(e)' => Bad(e)
    BY <1>2, NothingBad DEF runs, db
  <1>4. UNCHANGED <<db, revived, outcome, reported>>
    BY <1>2 DEF approval, runs
  <1>5. tx[p].skips \subseteq t.skips /\ t.todo \subseteq tx[p].todo
    BY <1>2
  <1> QED
    BY <1>1, <1>2, <1>3, <1>4, <1>5, ContinueOrder

\* A request to a device of a wave finds the earlier waves spent and successful.
LEMMA SendKeepsOrder ==
  ASSUME RunInv, OrderInv, NEW p \in Passes, NEW d \in Devices, NEW answer, Send(p, d, answer)
  PROVE  OrderInv'
  <1>1. /\ On(p) /\ d \in tx[p].queue /\ QueueIsWave(p)
        /\ UNCHANGED <<db, approval, estate, outcome, reported, lost, aborts>>
        /\ asked' = asked \/ (~Known(p, d) /\ asked' = [asked EXCEPT ![d] = @ + 1])
    BY SendTx
  <1>2. PICK t : tx' = [tx EXCEPT ![p] = t] /\ SentTx(p, d, t)
    BY SendTx
  <1>3. TxTyped(tx[p])
    BY <1>1 DEF RunInv, CTypeOK
  <1>4. /\ Open(p) # {} /\ tx[p].wave[First(p)] \in Runnable /\ d \in Members(First(p))
        /\ \A e \in Members(First(p)) \ tx[p].queue : Handled(p, e)
        /\ d \in tx[p].locked
    BY <1>1, <1>3 DEF QueueIsWave, TxTyped
  <1>5. First(p) \in Waves
    BY <1>4, FirstWaveIsOpen DEF First, Open
  <1>6. /\ TxTyped(t) /\ t.base = tx[p].base /\ t.skips = tx[p].skips
        /\ t.todo \subseteq tx[p].todo
        /\ \A e \in Devices : tx[p].mine[e] # "none" => t.mine[e] # "none"
        /\ t.mine[d] # "none" \/ ledger[d] # "none"
    BY <1>2 DEF SentTx
  <1>7. /\ t.wave = tx[p].wave \/ t.wave = [tx[p].wave EXCEPT ![First(p)] = "dispatched"]
        /\ t.wave # tx[p].wave => tx[p].queue = {d}
    BY <1>2 DEF SentTx
  <1>8. ASSUME NEW w \in Waves, t.wave[w] # tx[p].wave[w]
        PROVE  /\ t.wave[w] = "dispatched"
               /\ \A e \in Members(w) : Finished(t, e)
    <2>1. w = First(p) /\ t.wave[w] = "dispatched" /\ tx[p].queue = {d}
      BY <1>3, <1>5, <1>7, <1>8 DEF TxTyped
    <2>2. ASSUME NEW e \in Members(w) PROVE Finished(t, e)
      <3>1. CASE e = d
        BY <1>6, <3>1 DEF Finished
      <3>2. CASE e # d
        <4>1. Handled(p, e) /\ e \in Devices
          BY <1>4, <2>1, <3>2, OneWaveEach DEF RunInv
        <4> QED
          BY <1>6, <4>1 DEF Handled, Finished
      <3> QED
        BY <3>1, <3>2
    <2> QED
      BY <2>1, <2>2
  <1>9. ASSUME NEW w \in Waves, NEW e \in Members(w), Bad(e)', ~Bad(e)
        PROVE  Fresh(p, w, e) /\ t.wave[w] \notin Closed
    <2>1. e \in Devices
      BY OneWaveEach DEF RunInv
    <2>2. e = d /\ ~Known(p, d)
      BY <1>1, <1>9, <2>1 DEF Bad, db, RunInv, CTypeOK
    <2>3. w = First(p)
      BY <1>4, <1>5, <2>2, OneWaveEach DEF RunInv
    <2>4. t.wave[w] \in Runnable \cup {"dispatched"}
      BY <1>3, <1>4, <1>5, <1>7, <2>3 DEF TxTyped
    <2>5. t.wave[w] \notin Closed
      BY <2>4, StatesApart
    <2> QED
      BY <1>1, <1>4, <2>2, <2>3, <2>5 DEF Fresh, Known
  <1>10. UNCHANGED <<db, revived, outcome, reported>>
    BY <1>1 DEF approval
  <1>11. "dispatched" \notin Voidable /\ "dispatched" \notin Closed
    BY StatesApart
  <1> QED
    <2>1. \A w \in Waves : \A e \in Members(w) :
            Bad(e)' => Bad(e) \/ (Fresh(p, w, e) /\ t.wave[w] \notin Closed)
      BY <1>9
    <2>2. \A w \in Waves : t.wave[w] # tx[p].wave[w] =>
            /\ t.wave[w] \notin Voidable
            /\ t.wave[w] = "dispatched" => \A e \in Members(w) : Finished(t, e)
            /\ t.wave[w] \in Closed => \/ NoneAfter(w, t.wave)
                                       \/ Members(w) \subseteq t.skips /\ w[1] \notin t.todo
      BY <1>8, <1>11
    <2>3. tx' = [tx EXCEPT ![p] = t] /\ tx[p].skips \subseteq t.skips
      BY <1>2, <1>6
    <2> QED
      BY <1>1, <1>6, <1>10, <2>1, <2>2, <2>3, ContinueOrder

\* What settle_dispatched_waves makes of a dispatched wave: it completes it
\* only when nothing bad has come of it.
LEMMA CompletedIsGood ==
  ASSUME RunInv, OrderInv, NEW w \in Waves, wave[w] = "dispatched", Settled(w) = "completed"
  PROVE  \A e \in Members(w) : ~Bad(e)
  <1> DEFINE accepted == {d \in Members(w) : ledger[d] = "accepted"}
             refused  == {d \in Members(w) : ledger[d] = "refused"}
  <1>1. refused = {} /\ \A d \in accepted : outcome[d] = "success"
    BY DEF Settled
  <1> SUFFICES ASSUME NEW e \in Members(w) PROVE ~Bad(e)
    OBVIOUS
  <1>2. ledger[e] # "none" \/ e \in skipped
    BY DEF OrderInv, DispatchedIsSpent, Spent
  <1>3. ledger[e] \in Answers
    BY OneWaveEach DEF RunInv, CTypeOK
  <1>4. ledger[e] # "none" => outcome[e] = "success"
    BY <1>1, <1>3 DEF Answers
  <1> QED
    BY <1>2, <1>4 DEF Bad

\* A failed wave is the end of its site.
LEMMA FailedIsLast ==
  ASSUME RunInv, NEW w \in Waves, NEW x \in Waves, x[1] = w[1], wave[x] = "dispatched",
         Settled(x) = "failed"
  PROVE  NoneAfter(w, SettledRows.wave)
  <1> SUFFICES ASSUME NEW y \in Waves, y[1] = w[1] PROVE SettledRows.wave[y] \notin Voidable
    BY DEF NoneAfter
  <1>1. wave[y] = "dispatched" => SettledRows.wave[y] \notin Voidable
    BY SettledWaves DEF RunInv, Voidable
  <1>2. wave[y] # "dispatched" => SettledRows.wave[y] \in {wave[y], "voided"}
    BY SettledWaves DEF RunInv
  <1>3. wave[y] \in Voidable => SettledRows.wave[y] # wave[y]
    BY SettledWaves DEF RunInv
  <1>4. "voided" \notin Voidable
    BY DEF Voidable
  <1> QED
    BY <1>1, <1>2, <1>3, <1>4

\* The rows a pass reads and settles are in order.
LEMMA BeginKeepsOrder ==
  ASSUME RunInv, OrderInv, NEW p \in Passes, Begin(p) PROVE OrderInv'
  <1>1. PICK t : /\ tx' = [tx EXCEPT ![p] = t] /\ TxTyped(t) /\ ~On(p)
                 /\ UNCHANGED <<db, approval, estate, runs, aborts>>
                 /\ t.base.wave = wave
                 /\ t.wave = wave \/ t.wave = SettledRows.wave
    BY BeginTx
  <1>2. \A e : Bad(e)' => Bad(e)
    BY <1>1, NothingBad DEF runs, db
  <1>3. UNCHANGED <<db, revived, outcome, reported>>
    BY <1>1 DEF approval, runs
  <1>4. \A w \in Waves : Spent(w) => \A e \in Members(w) : Finished(t, e)
    BY DEF Spent, Finished
  <1>5. \A w \in Waves : t.wave[w] # wave[w] =>
          t.wave[w] \in {"failed", "completed", "voided"} /\ wave[w] \in Voidable \cup {"dispatched"}
    <2> SUFFICES ASSUME NEW w \in Waves, t.wave[w] # wave[w]
                 PROVE  /\ t.wave[w] \in {"failed", "completed", "voided"}
                        /\ wave[w] \in Voidable \cup {"dispatched"}
      OBVIOUS
    <2>1. t.wave[w] = SettledRows.wave[w]
      BY <1>1
    <2>2. wave[w] = "dispatched" => t.wave[w] \in {"failed", "completed"}
      BY <2>1, SettledWaves DEF RunInv
    <2>3. wave[w] # "dispatched" => t.wave[w] = "voided"
      BY <2>1, SettledWaves DEF RunInv
    <2>4. wave[w] # "dispatched" => wave[w] \in Voidable
      BY <2>1 DEF SettledRows
    <2> QED
      BY <2>2, <2>3, <2>4
  <1>6. {"failed", "completed", "voided"} \cap Voidable = {} /\ Runnable \subseteq Voidable
    BY DEF Voidable, Runnable
  <1>7. GoodView(p, t)
    <2> SUFFICES ASSUME NEW w \in Waves
                 PROVE  /\ t.wave[w] \in Runnable => wave[w] \in Runnable
                        /\ t.wave[w] = "dispatched" => \A e \in Members(w) : Finished(t, e)
                        /\ t.wave[w] # wave[w] => t.wave[w] \notin Voidable
      BY <1>1 DEF GoodView
    <2>1. t.wave[w] # wave[w] => t.wave[w] \notin Voidable
      BY <1>5, <1>6
    <2>2. t.wave[w] \in Runnable => wave[w] \in Runnable
      BY <1>6, <2>1
    <2>3. t.wave[w] = "dispatched" => wave[w] = "dispatched"
      BY <1>5
    <2>4. t.wave[w] = "dispatched" => \A e \in Members(w) : Finished(t, e)
      BY <1>4, <2>3 DEF OrderInv, DispatchedIsSpent
    <2> QED
      BY <2>1, <2>2, <2>4
  <1>8. ASSUME NEW w \in Waves, w[1] \notin revived, t.wave[w] \in Closed, ~NoneAfter(w, t.wave)
        PROVE  /\ \A e \in Members(w) : ~Bad(e)'
               /\ (\A e \in Members(w) : Finished(t, e)) \/ Quiet(w)
    <2>1. CASE t.wave[w] = wave[w]
      <3>1. ~NoneAfter(w, wave)
        BY <1>5, <1>6, <1>8 DEF NoneAfter
      <3>2. (\A e \in Members(w) : ~Bad(e)) /\ (Spent(w) \/ Quiet(w))
        BY <1>8, <2>1, <3>1 DEF OrderInv, RowsInOrder
      <3> QED
        BY <1>2, <1>4, <3>2
    <2>2. CASE t.wave[w] # wave[w]
      <3>1. t.wave = SettledRows.wave
        BY <1>1, <2>2
      <3>2. \A x \in Waves : x[1] = w[1] /\ wave[x] = "dispatched" => Settled(x) # "failed"
        BY <1>8, <3>1, FailedIsLast
      <3>3. wave[w] = "dispatched" /\ Settled(w) = "completed"
        <4>1. wave[w] = "dispatched"
          BY <2>2, <3>1, <3>2, SettledWaves DEF RunInv
        <4>2. SettledRows.wave[w] = Settled(w)
          BY <4>1, SettledWaves DEF RunInv
        <4> QED
          BY <1>5, <2>2, <3>1, <3>2, <4>1, <4>2, SettledWaves DEF RunInv
      <3>4. (\A e \in Members(w) : ~Bad(e)) /\ Spent(w)
        BY <3>3, CompletedIsGood DEF OrderInv, DispatchedIsSpent
      <3> QED
        BY <1>2, <1>4, <3>4
    <2> QED
      BY <2>1, <2>2
  <1>9. t # NoTx
    BY <1>1, TypedIsOn
  <1> QED
    BY <1>1, <1>2, <1>3, <1>7, <1>8, <1>9, OrderTxStep

\* A pass ends, its rows written or not.
LEMMA EndKeepsOrder ==
  ASSUME RunInv, OrderInv, NEW p \in Passes, On(p), tx' = [tx EXCEPT ![p] = NoTx],
         UNCHANGED <<plan, revived, outcome, reported>>,
         \A e \in Devices : Bad(e)' => Bad(e), skipped \subseteq skipped',
         \A e \in Devices : ledger[e] # "none" => ledger'[e] # "none",
         \A w \in Waves : wave'[w] # wave[w] => wave'[w] \notin Voidable,
         \A w \in Waves : wave'[w] # wave[w] /\ wave'[w] = "dispatched" => Spent(w)',
         \A w \in Waves : w[1] \notin revived /\ wave'[w] # wave[w] /\ wave'[w] \in Closed =>
           \/ NoneAfter(w, wave')
           \/ (\A e \in Members(w) : ~Bad(e)') /\ (Spent(w)' \/ Quiet(w))
  PROVE  OrderInv'
  <1>1. tx'[p] = NoTx /\ \A q \in Passes \ {p} : tx'[q] = tx[q]
    BY DEF RunInv, CTypeOK
  <1>2. \A q \in Passes : On(q)' => On(q) /\ tx'[q] = tx[q]
    BY <1>1 DEF On
  <1>3. /\ \A w : Members(w)' = Members(w)
        /\ \A w \in Waves : Members(w) \subseteq Devices
    BY OneWaveEach DEF Members, RunInv
  <1>4. \A w \in Waves : Spent(w) => Spent(w)'
    BY <1>3 DEF Spent
  <1>5. \A w \in Waves : Quiet(w) => Quiet(w)'
    BY <1>2 DEF Quiet
  <1>6. \A q \in Passes, w \in Waves : On(q)' /\ SpentFor(q, w) => SpentFor(q, w)'
    BY <1>2, <1>3 DEF SpentFor, Handled
  <1>7. DispatchedIsSpent'
    BY <1>2, <1>4, <1>6 DEF OrderInv, DispatchedIsSpent
  <1>8. PendingIsQuiet'
    <2>1. \A w \in Waves : wave'[w] = "pending" => wave[w] = "pending"
      BY StatesApart
    <2> QED
      BY <1>2, <1>3, <2>1 DEF OrderInv, PendingIsQuiet
  <1>9. ViewsAreOld'
    BY <1>2 DEF OrderInv, ViewsAreOld
  <1>10. RowsInOrder'
    <2> SUFFICES ASSUME NEW w \in Waves, w[1] \notin revived, wave'[w] \in Closed,
                        ~NoneAfter(w, wave')
                 PROVE  (\A e \in Members(w) : ~Bad(e)') /\ (Spent(w)' \/ Quiet(w)')
      BY <1>3 DEF RowsInOrder, NoneAfter
    <2>1. CASE wave'[w] # wave[w]
      BY <1>5, <2>1
    <2>2. CASE wave'[w] = wave[w]
      <3>1. ~NoneAfter(w, wave)
        BY DEF NoneAfter
      <3>2. (\A e \in Members(w) : ~Bad(e)) /\ (Spent(w) \/ Quiet(w))
        BY <2>2, <3>1 DEF OrderInv, RowsInOrder
      <3> QED
        BY <1>3, <1>4, <1>5, <3>2
    <2> QED
      BY <2>1, <2>2
  <1>11. OutcomesCounted'
    BY DEF OrderInv, OutcomesCounted
  <1>12. ASSUME NEW q \in Passes, On(q)' PROVE ViewInOrder(q)'
    <2> SUFFICES ASSUME NEW w \in Waves, w[1] \notin revived, tx[q].wave[w] \in Closed,
                        ~NoneAfter(w, tx[q].wave)
                 PROVE  /\ \A e \in Members(w) : Bad(e)' => e \in tx[q].skips /\ w[1] \notin tx[q].todo
                        /\ SpentFor(q, w)' \/ Quiet(w)'
      BY <1>2, <1>3, <1>12 DEF ViewInOrder, NoneAfter
    <2>1. ViewInOrder(q)
      BY <1>2, <1>12 DEF OrderInv
    <2>2. /\ \A e \in Members(w) : Bad(e) => e \in tx[q].skips /\ w[1] \notin tx[q].todo
          /\ SpentFor(q, w) \/ Quiet(w)
      BY <2>1 DEF ViewInOrder
    <2> QED
      BY <1>3, <1>5, <1>6, <1>12, <2>2
  <1> QED
    BY <1>7, <1>8, <1>9, <1>10, <1>11, <1>12 DEF OrderInv

\* An abort leaves the rows as the last commit did; the runs it loses are exempt.
LEMMA AbortKeepsOrder ==
  ASSUME RunInv, OrderInv, NEW p \in Passes, Abort(p) PROVE OrderInv'
  <1>1. /\ On(p) /\ tx' = [tx EXCEPT ![p] = NoTx]
        /\ lost' = [d \in Devices |-> lost[d] + (IF tx[p].mine[d] # "none" THEN 1 ELSE 0)]
        /\ UNCHANGED <<db, approval, estate, asked, outcome, reported>>
    BY DEF Abort, On
  <1>2. ASSUME NEW e \in Devices, Bad(e)' PROVE Bad(e)
    <2>1. lost[e] \in Nat /\ lost'[e] \in {lost[e], lost[e] + 1} /\ lost'[e] = 0
      BY <1>1, <1>2 DEF RunInv, CTypeOK, Bad
    <2>2. lost[e] = 0
      BY <2>1
    <2> QED
      BY <1>1, <1>2, <2>2 DEF Bad, db
  <1>3. /\ UNCHANGED <<plan, revived, outcome, reported>>
        /\ skipped' = skipped /\ ledger' = ledger /\ wave' = wave
    BY <1>1 DEF db, approval
  <1> QED
    BY <1>1, <1>2, <1>3, EndKeepsOrder

\* The rows a commit writes are in order, those of waves decided meanwhile included.
LEMMA CommitKeepsOrder ==
  ASSUME RunInv, OrderInv, NEW p \in Passes, Commit(p) \/ CommitPartly(p) PROVE OrderInv'
  <1>1. /\ On(p) /\ TxTyped(tx[p]) /\ tx' = [tx EXCEPT ![p] = NoTx]
        /\ skipped' = skipped \cup tx[p].skips
        /\ \A w \in Waves : wave'[w] = IF tx[p].wave[w] # tx[p].base.wave[w]
                                       THEN tx[p].wave[w] ELSE wave[w]
        /\ \A d \in Devices : ledger'[d] = IF tx[p].mine[d] # "none"
                                           THEN tx[p].mine[d] ELSE ledger[d]
        /\ UNCHANGED <<acked, target, plan, approval, estate, runs>>
    BY CommitRows
  <1>2. UNCHANGED <<plan, revived, outcome, reported, asked, lost>>
    BY <1>1 DEF approval, runs
  <1>3. /\ \A e : Bad(e)' => Bad(e) /\ e \notin tx[p].skips
        /\ skipped \subseteq skipped'
    BY <1>1, <1>2 DEF Bad
  <1>4. \A e \in Devices : ledger[e] # "none" => ledger'[e] # "none"
    BY <1>1
  <1>5. ASSUME NEW w \in Waves, SpentFor(p, w) PROVE Spent(w)'
    <2>1. Members(w)' = Members(w) /\ Members(w) \subseteq Devices
      BY <1>2, OneWaveEach DEF Members, RunInv
    <2> QED
      BY <1>1, <1>5, <2>1 DEF SpentFor, Spent, Handled
  <1>6. \A w \in Waves : wave'[w] # wave[w] => /\ wave'[w] = tx[p].wave[w]
                                               /\ wave'[w] \notin Voidable
    BY <1>1 DEF OrderInv, ViewsAreOld
  <1>7. \A w \in Waves : wave'[w] # wave[w] /\ wave'[w] = "dispatched" => Spent(w)'
    BY <1>1, <1>5, <1>6 DEF OrderInv, DispatchedIsSpent
  <1>8. ASSUME NEW w \in Waves, w[1] \notin revived, wave'[w] # wave[w], wave'[w] \in Closed,
               ~NoneAfter(w, wave')
        PROVE  (\A e \in Members(w) : ~Bad(e)') /\ (Spent(w)' \/ Quiet(w))
    <2>1. ~NoneAfter(w, tx[p].wave)
      <3> SUFFICES ASSUME NoneAfter(w, tx[p].wave), NEW x \in Waves, x[1] = w[1], w[2] < x[2]
                   PROVE  wave'[x] \notin Voidable
        BY <1>8 DEF NoneAfter
      <3>1. tx[p].wave[x] \notin Voidable
        BY DEF NoneAfter
      <3>2. CASE tx[p].wave[x] # tx[p].base.wave[x]
        BY <1>1, <3>1, <3>2
      <3>3. CASE tx[p].wave[x] = tx[p].base.wave[x]
        BY <1>1, <1>8, <3>1, <3>3 DEF OrderInv, ViewsAreOld
      <3> QED
        BY <3>2, <3>3
    <2>2. /\ \A e \in Members(w) : Bad(e) => e \in tx[p].skips
          /\ SpentFor(p, w) \/ Quiet(w)
      BY <1>1, <1>6, <1>8, <2>1 DEF OrderInv, ViewInOrder
    <2> QED
      BY <1>3, <1>5, <2>2
  <1> QED
    BY <1>1, <1>2, <1>3, <1>4, <1>6, <1>7, <1>8, EndKeepsOrder

\* The decision is written on a wave that is still pending, or its site counts
\* as revived from now on.
LEMMA DecideKeepsOrder ==
  ASSUME RunInv, OrderInv, DecidesWave, NEW verdict \in {"approved", "denied"}, Decide(verdict)
  PROVE  OrderInv'
  <1>1. /\ deciding \in Waves /\ wave' = [wave EXCEPT ![deciding] = verdict]
        /\ revived' = IF wave[deciding] = "pending" THEN revived ELSE revived \cup {deciding[1]}
        /\ UNCHANGED <<plan, ledger, skipped, tx, asked, outcome, reported, lost>>
    BY DEF Decide, DecidesWave, runs
  <1>2. /\ revived \subseteq revived'
        /\ \A w \in Waves : w # deciding => wave'[w] = wave[w]
        /\ wave'[deciding] = verdict
        /\ deciding[1] \notin revived' => wave[deciding] = "pending"
    BY <1>1 DEF RunInv, CTypeOK
  <1>3. /\ \A p : On(p)' = On(p)
        /\ \A w : Members(w)' = Members(w)
        /\ \A e : Bad(e)' = Bad(e)
        /\ \A w : Spent(w)' = Spent(w)
        /\ \A p, w : SpentFor(p, w)' = SpentFor(p, w)
    BY <1>1 DEF On, Members, Bad, Spent, SpentFor, Handled
  <1>4. verdict # "dispatched" /\ verdict # "pending" /\ "denied" \notin Voidable
        /\ "approved" \notin Closed
    BY DEF Voidable, Closed
  <1>5. \A w \in Waves : w[1] \notin revived' /\ Quiet(w) => Quiet(w)'
    BY <1>1, <1>2, <1>3, StatesApart DEF Quiet
  <1>6. DispatchedIsSpent'
    BY <1>1, <1>2, <1>3, <1>4 DEF OrderInv, DispatchedIsSpent
  <1>7. PendingIsQuiet'
    <2>1. \A w \in Waves : wave'[w] = "pending" => wave[w] = "pending"
      BY <1>2, <1>4
    <2> QED
      BY <1>1, <1>2, <1>3, <2>1 DEF OrderInv, PendingIsQuiet
  <1>8. ViewsAreOld'
    <2>1. \A w \in Waves : w[1] \notin revived' /\ wave[w] \notin Voidable => wave'[w] \notin Voidable
      BY <1>2, StatesApart
    <2> QED
      BY <1>1, <1>2, <1>3, <2>1 DEF OrderInv, ViewsAreOld
  <1>9. RowsInOrder'
    <2> SUFFICES ASSUME NEW w \in Waves, w[1] \notin revived', wave'[w] \in Closed,
                        ~NoneAfter(w, wave')
                 PROVE  (\A e \in Members(w) : ~Bad(e)) /\ (Spent(w) \/ Quiet(w)')
      BY <1>3 DEF RowsInOrder, NoneAfter
    <2>1. CASE w = deciding
      <3>1. wave[w] = "pending" /\ w[1] \notin revived
        BY <1>2, <2>1
      <3>2. /\ \A e \in Members(w) : ~Bad(e)
            /\ \A p \in Passes : On(p) => tx[p].wave[w] \notin Runnable
        BY <3>1 DEF OrderInv, PendingIsQuiet
      <3>3. wave'[w] = "denied"
        BY <1>2, <1>4, <2>1
      <3>4. Quiet(w)'
        BY <1>1, <1>3, <1>4, <3>2, <3>3 DEF Quiet
      <3> QED
        BY <3>2, <3>4
    <2>2. CASE w # deciding
      <3>1. \A x \in Waves : x[1] = w[1] /\ wave[x] \notin Voidable => wave'[x] \notin Voidable
        BY <1>2, StatesApart
      <3>2. ~NoneAfter(w, wave)
        BY <3>1 DEF NoneAfter
      <3>3. (\A e \in Members(w) : ~Bad(e)) /\ (Spent(w) \/ Quiet(w))
        BY <1>2, <2>2, <3>2 DEF OrderInv, RowsInOrder
      <3> QED
        BY <1>5, <3>3
    <2> QED
      BY <2>1, <2>2
  <1>10. OutcomesCounted'
    BY <1>1 DEF OrderInv, OutcomesCounted
  <1>11. ASSUME NEW q \in Passes, On(q)' PROVE ViewInOrder(q)'
    <2> SUFFICES ASSUME NEW w \in Waves, w[1] \notin revived', tx[q].wave[w] \in Closed,
                        ~NoneAfter(w, tx[q].wave)
                 PROVE  /\ \A e \in Members(w) : Bad(e) => e \in tx[q].skips /\ w[1] \notin tx[q].todo
                        /\ SpentFor(q, w) \/ Quiet(w)'
      BY <1>1, <1>3 DEF ViewInOrder, NoneAfter
    <2>1. ViewInOrder(q)
      BY <1>3, <1>11 DEF OrderInv
    <2> QED
      BY <1>2, <1>5, <2>1 DEF ViewInOrder
  <1> QED
    BY <1>6, <1>7, <1>8, <1>9, <1>10, <1>11 DEF OrderInv

\* Steps that change neither rows nor views, and make nothing bad.
LEMMA OtherKeepsOrder ==
  ASSUME RunInv, OrderInv, UNCHANGED <<tx, plan, ledger, skipped, wave, revived>>,
         \A e \in Devices : Bad(e)' => Bad(e), OutcomesCounted'
  PROVE  OrderInv'
  <1>1. /\ \A p : On(p)' = On(p)
        /\ \A w : Members(w)' = Members(w)
        /\ \A w : Spent(w)' = Spent(w)
        /\ \A p, w : SpentFor(p, w)' = SpentFor(p, w)
        /\ \A w : Quiet(w)' = Quiet(w)
    BY DEF On, Members, Spent, SpentFor, Handled, Quiet
  <1>2. \A w \in Waves : Members(w) \subseteq Devices
    BY OneWaveEach DEF RunInv
  <1>3. DispatchedIsSpent'
    BY <1>1 DEF OrderInv, DispatchedIsSpent
  <1>4. PendingIsQuiet'
    BY <1>1, <1>2 DEF OrderInv, PendingIsQuiet
  <1>5. ViewsAreOld'
    BY <1>1 DEF OrderInv, ViewsAreOld
  <1>6. RowsInOrder'
    BY <1>1, <1>2 DEF OrderInv, RowsInOrder, NoneAfter
  <1>7. ASSUME NEW q \in Passes, On(q)' PROVE ViewInOrder(q)'
    <2>1. ViewInOrder(q)
      BY <1>1, <1>7 DEF OrderInv
    <2> QED
      BY <1>1, <1>2, <2>1 DEF ViewInOrder, NoneAfter
  <1> QED
    BY <1>3, <1>4, <1>5, <1>6, <1>7 DEF OrderInv

\* A device that succeeded has no second run to report, unless a pass died.
LEMMA ReportKeepsOrder ==
  ASSUME RunInv, OrderInv, NEW d \in Devices, NEW result, Report(d, result) PROVE OrderInv'
  <1>1. /\ reported[d] < asked[d] /\ reported' = [reported EXCEPT ![d] = @ + 1]
        /\ outcome' = [outcome EXCEPT ![d] = result]
        /\ UNCHANGED <<tx, plan, ledger, skipped, wave, revived, asked, lost>>
    BY DEF Report, db, approval
  <1>2. /\ asked \in [Devices -> Nat] /\ lost \in [Devices -> Nat]
        /\ reported \in [Devices -> Nat] /\ DOMAIN outcome = Devices
    BY DEF RunInv, CTypeOK
  <1>3. ASSUME NEW e \in Devices, Bad(e)' PROVE Bad(e)
    <2>1. asked[e] > 0 /\ lost[e] = 0 /\ e \notin skipped
      BY <1>1, <1>3 DEF Bad
    <2>2. CASE e # d
      BY <1>1, <1>2, <1>3, <2>1, <2>2 DEF Bad
    <2>3. CASE e = d
      <3>1. asked[d] <= 1 + lost[d]
        BY <1>2 DEF RunInv, RunsAccounted
      <3>2. reported[d] = 0
        BY <1>1, <1>2, <2>1, <2>3, <3>1
      <3>3. outcome[d] = "none"
        BY <1>2, <3>2 DEF OrderInv, OutcomesCounted
      <3> QED
        BY <2>1, <2>3, <3>3 DEF Bad
    <2> QED
      BY <2>2, <2>3
  <1>4. OutcomesCounted'
    <2> SUFFICES ASSUME NEW e \in Devices, outcome'[e] # "none" PROVE reported'[e] > 0
      BY DEF OutcomesCounted
    <2>1. CASE e = d
      BY <1>1, <1>2, <2>1
    <2>2. CASE e # d
      BY <1>1, <1>2, <2>2 DEF OrderInv, OutcomesCounted
    <2> QED
      BY <2>1, <2>2
  <1> QED
    BY <1>1, <1>3, <1>4, OtherKeepsOrder

\* Before a campaign runs no wave is closed but by not being there.
LEMMA EditKeepsOrder ==
  ASSUME RunInv, RunInv', OrderInv, status \in Editable,
         UNCHANGED <<ledger, skipped, tx, approval, estate, runs, aborts>>,
         \A w \in Waves : wave'[w] \in Voidable \cup {"none"}
  PROVE  OrderInv'
  <1>1. /\ \A p \in Passes : ~On(p)'
        /\ \A d : d \in Devices => asked'[d] = 0
    BY DEF RunInv, NothingBegun, On, runs
  <1>2. \A w \in Waves : \A e \in Members(w)' : ~Bad(e)'
    <2> SUFFICES ASSUME NEW w \in Waves, NEW e \in Members(w)' PROVE ~Bad(e)'
      OBVIOUS
    <2>1. e \in DOMAIN plan'[w[1]]
      BY DEF Members
    <2>2. e \in Devices
      BY <2>1, PairIsWave DEF RunInv, CTypeOK, At
    <2> QED
      BY <1>1, <2>2 DEF Bad
  <1>3. \A w \in Waves : wave'[w] # "dispatched" /\ (wave'[w] \notin Voidable => Quiet(w)')
    BY <1>1, StatesApart DEF Quiet
  <1>4. OutcomesCounted'
    BY DEF OrderInv, OutcomesCounted, runs
  <1>5. DispatchedIsSpent' /\ ViewsAreOld'
    BY <1>1, <1>3 DEF DispatchedIsSpent, ViewsAreOld
  <1>6. PendingIsQuiet'
    BY <1>1, <1>2 DEF PendingIsQuiet
  <1>7. RowsInOrder'
    BY <1>2, <1>3, StatesApart DEF RowsInOrder
  <1>8. \A p \in Passes : On(p)' => ViewInOrder(p)'
    BY <1>1
  <1> QED
    BY <1>4, <1>5, <1>6, <1>7, <1>8 DEF OrderInv

\* Every step of a pass keeps the order invariant.
LEMMA PassKeepsOrder ==
  ASSUME RunInv, OrderInv, NEW p \in Passes, Pass(p) PROVE OrderInv'
  <1>1. ASSUME NEW d \in Devices, NEW answer, Send(p, d, answer) PROVE OrderInv'
    BY <1>1, SendKeepsOrder
  <1> QED
    BY <1>1, BeginKeepsOrder, LeaveKeepsOrder, SkipKeepsOrder, StartKeepsOrder,
       CommitKeepsOrder, AbortKeepsOrder DEF Pass

\* Every step of the runner keeps the order invariant.
LEMMA OrderStep == RunInv /\ RunInv' /\ DecidesWave /\ OrderInv /\ [CNext]_cvars => OrderInv'
  <1> SUFFICES ASSUME RunInv, RunInv', DecidesWave, OrderInv, [CNext]_cvars PROVE OrderInv'
    OBVIOUS
  <1>1. ASSUME UNCHANGED <<tx, plan, ledger, skipped, wave, revived, runs>> PROVE OrderInv'
    <2>1. \A e : Bad(e)' => Bad(e)
      BY <1>1, NothingBad DEF runs
    <2>2. OutcomesCounted'
      BY <1>1 DEF OrderInv, OutcomesCounted, runs
    <2> QED
      BY <1>1, <2>1, <2>2, OtherKeepsOrder
  <1>2. ASSUME NEW a, NEW b, Preflight(a, b) PROVE OrderInv'
    BY <1>2, EditKeepsOrder DEF Preflight
  <1>3. ASSUME NEW x, Acknowledge(x) PROVE OrderInv'
    BY <1>1, <1>3 DEF Acknowledge, approval
  <1>4. ASSUME NEW a, Submit(a) PROVE OrderInv'
    <2>1. \A w \in Waves : wave'[w] \in Voidable \cup {"none"}
      BY <1>4 DEF Submit, Voidable
    <2>2. status \in Editable
      BY <1>4 DEF Submit, MaySubmit, Editable
    <2> QED
      BY <1>4, <2>1, <2>2, EditKeepsOrder DEF Submit
  <1>5. CASE Cancel
    BY <1>1, <1>5 DEF Cancel, approval
  <1>6. ASSUME NEW w \in Waves, Load(w) PROVE OrderInv'
    BY <1>1, <1>6 DEF Load, db
  <1>7. ASSUME NEW verdict \in {"approved", "denied"}, Decide(verdict) PROVE OrderInv'
    BY <1>7, DecideKeepsOrder
  <1>8. ASSUME NEW d \in Devices, NEW result, Report(d, result) PROVE OrderInv'
    BY <1>8, ReportKeepsOrder
  <1>9. CASE Change
    BY <1>1, <1>9 DEF Change, db, approval
  <1>10. CASE UNCHANGED cvars
    BY <1>1, <1>10 DEF cvars, db, approval
  <1> QED
    BY <1>2, <1>3, <1>4, <1>5, <1>6, <1>7, <1>8, <1>9, <1>10, PassKeepsOrder DEF CNext

\* The order invariant holds of a campaign that has not begun.
LEMMA OrderInit == CInit => OrderInv
  <1> SUFFICES ASSUME CInit PROVE OrderInv
    OBVIOUS
  <1>1. \A p \in Passes : ~On(p)
    BY DEF CInit, On
  <1>2. \A w \in Waves : wave[w] = "none"
    BY DEF CInit
  <1>3. \A w \in Waves : NoneAfter(w, wave)
    BY <1>2 DEF NoneAfter, Voidable
  <1>4. OutcomesCounted
    BY DEF CInit, OutcomesCounted
  <1> QED
    BY <1>1, <1>2, <1>3, <1>4
       DEF OrderInv, DispatchedIsSpent, PendingIsQuiet, ViewsAreOld, RowsInOrder

\* Both invariants hold throughout.
LEMMA OrderInvariant == CSpec => [](RunInv /\ DecidesWave /\ OrderInv)
  <1>1. CInit => OrderInv
    BY OrderInit
  <1>2. RunInv /\ DecidesWave /\ OrderInv /\ [CNext]_cvars /\ RunInv' => OrderInv'
    BY OrderStep
  <1> QED
    BY <1>1, <1>2, RunInvariant, PTL DEF CSpec

\* Only dispatch_wave asks.
LEMMA OnlySendAsks ==
  ASSUME [CNext]_cvars, asked' # asked
  PROVE  \E p \in Passes, d \in Devices, answer \in {"accepted", "refused", "lost"} :
           Send(p, d, answer)
  <1>1. \A a, b : ~Preflight(a, b) /\ ~Acknowledge(a) /\ ~Submit(a) /\ ~Load(a) /\ ~Decide(a)
    BY DEF Preflight, Acknowledge, Submit, Load, Decide, runs
  <1>2. ~Cancel /\ ~Change /\ ~(UNCHANGED cvars) /\ \A a, b : ~Report(a, b)
    BY DEF Cancel, Change, Report, cvars, runs
  <1>3. ASSUME NEW p \in Passes, Pass(p)
        PROVE  \E d \in Devices, answer \in {"accepted", "refused", "lost"} : Send(p, d, answer)
    BY <1>3 DEF Pass, Begin, FinishSite, HoldSite, HaltSite, RefuseWave, WithholdWave,
                SkipWave, StartWave, Commit, CommitPartly, Write, Abort, Leave, runs
  <1> QED
    BY <1>1, <1>2, <1>3 DEF CNext

\* _advance_site takes the lowest open wave of a site: when a pass asks for a
\* device there, every device of the earlier waves that was asked for has
\* succeeded, whichever pass read what and when, for any number of sites,
\* waves, aborted passes and changes of the estate.
THEOREM WavesRunInOrder == CSpec => EarlierWavesSucceeded
  <1> DEFINE Step == \A d \in Devices : asked'[d] > asked[d] /\ SiteOf[d] \notin revived =>
                       \A e \in DOMAIN plan[SiteOf[d]] :
                         /\ plan[SiteOf[d]][e] < plan[SiteOf[d]][d]
                         /\ asked[e] > 0 /\ lost[e] = 0 /\ e \notin skipped
                         => outcome[e] = "success"
  <1>1. ASSUME RunInv, OrderInv, [CNext]_cvars PROVE Step
    <2> SUFFICES ASSUME NEW d \in Devices, asked'[d] > asked[d], SiteOf[d] \notin revived,
                        NEW e \in DOMAIN plan[SiteOf[d]],
                        plan[SiteOf[d]][e] < plan[SiteOf[d]][d], Bad(e)
                 PROVE  FALSE
      BY DEF Bad
    <2>1. asked \in [Devices -> Nat] /\ asked' # asked
      BY <1>1 DEF RunInv, CTypeOK
    <2>2. PICK p \in Passes, f \in Devices, answer \in {"accepted", "refused", "lost"} :
            Send(p, f, answer)
      BY <1>1, <2>1, OnlySendAsks
    <2>3. /\ On(p) /\ f \in tx[p].queue /\ QueueIsWave(p) /\ asked' = [asked EXCEPT ![f] = @ + 1]
      BY <1>1, <2>1, <2>2, SendTx
    <2>4. f = d
      BY <2>1, <2>3
    <2>5. /\ Open(p) # {} /\ tx[p].wave[First(p)] \in Runnable /\ d \in Members(First(p))
          /\ tx[p].todo # {} /\ TxTyped(tx[p]) /\ ViewInOrder(p)
      BY <1>1, <2>3, <2>4 DEF QueueIsWave, RunInv, CTypeOK, OrderInv
    <2>6. First(p) \in Waves /\ First(p)[1] = Here(p) /\ Here(p) \in tx[p].todo
      BY <2>5, FirstWaveIsOpen, NextSiteIsToDo DEF First, Open, Here, TxTyped
    <2>7. SiteOf[d] = Here(p) /\ plan[SiteOf[d]][d] = First(p)[2]
      BY <1>1, <2>5, <2>6, OneWaveEach DEF RunInv
    <2> DEFINE w == <<Here(p), plan[Here(p)][e]>>
    <2>8. Here(p) \in Sites
      BY <2>6, PairIsWave
    <2>9. w \in Waves /\ w[1] = Here(p) /\ w[2] < First(p)[2] /\ e \in Members(w)
      <3>1. e \in DOMAIN plan[Here(p)] /\ plan[Here(p)][e] < First(p)[2]
        BY <2>7
      <3>2. plan[Here(p)][e] \in WaveNos
        BY <1>1, <2>8, <3>1 DEF RunInv, CTypeOK
      <3> QED
        BY <2>8, <3>1, <3>2 DEF Waves, Members
    <2> HIDE DEF w
    <2>10. tx[p].wave[w] \in Closed
      BY <2>5, <2>9, EarlierAreClosed DEF First, Open, Here
    <2>11. ~NoneAfter(w, tx[p].wave)
      BY <2>5, <2>6, <2>9, StatesApart DEF NoneAfter
    <2>12. w[1] \notin tx[p].todo
      BY <2>5, <2>7, <2>9, <2>10, <2>11 DEF ViewInOrder
    <2> QED
      BY <2>6, <2>9, <2>12
  <1>2. RunInv /\ OrderInv /\ [CNext]_cvars => [Step]_cvars
    BY <1>1
  <1> QED
    BY <1>2, OrderInvariant, PTL DEF CSpec, EarlierWavesSucceeded

=============================================================================
