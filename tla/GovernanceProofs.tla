-------------------------- MODULE GovernanceProofs --------------------------
(***************************************************************************)
(* Three ledgers of authority, each written by requests that load, wait    *)
(* and commit over one another: an agent's activation, a tenant's scope    *)
(* grants and the support access to a tenant.  What each still guarantees, *)
(* for every set of people, configurations and requests.                   *)
(***************************************************************************)
EXTENDS OperationalAgents, ScopeGrants, SupportAccess, FiniteSetTheorems, TLAPS

-----------------------------------------------------------------------------
(* Support access                                                          *)

LogRow == [who : Engineers \cup {NoUser},
           status : {"none", "requested", "approved", "denied", "revoked"},
           approved : Nat, revoked : BOOLEAN]

\* A request to insert has a user, one to settle or revoke has a row.
TabAt == {x \in [at : {"shut", "request", "approve", "deny", "revoke"},
                 who : Engineers \cup {NoUser}, entry : 0..MaxEntries] :
            /\ x.at = "request" => x.who \in Engineers
            /\ x.at \in {"approve", "deny", "revoke"} => x.entry \in Entries}

SATypeOK ==
    /\ hour \in Nat
    /\ log \in [Entries -> LogRow]
    /\ tab \in [Tabs -> TabAt]

\* The columns remember what was committed: whoever settles a row later, its
\* approval time is that of a consent and its revocation is never undone.
SupportInv ==
    /\ SATypeOK
    /\ \A r \in Entries :
         /\ log[r].status = "approved" => [entry |-> r, hour |-> log[r].approved] \in consents
         /\ r \in ended => log[r].revoked

\* tenant_scope admits only what the columns say.
LEMMA AdmissionIsConsent == SupportInv => AdmittedWasApproved
  <1> SUFFICES ASSUME SupportInv, NEW e \in Engineers, AdmittedToTenant(e)
               PROVE  \E c \in consents : /\ log[c.entry].who = e
                                          /\ hour < c.hour + TTL
                                          /\ c.entry \notin ended
    BY DEF AdmittedWasApproved
  <1>1. PICK r \in Entries : log[r].who = e /\ Live(r)
    BY DEF AdmittedToTenant, GetActive
  <1>2. /\ [entry |-> r, hour |-> log[r].approved] \in consents
        /\ hour < log[r].approved + TTL /\ r \notin ended
    BY <1>1 DEF SupportInv, Live
  <1> QED
    BY <1>1, <1>2

\* Where a request can be.
LEMMA TabPlaces ==
    /\ shut \in TabAt
    /\ \A e \in Engineers : [shut EXCEPT !.at = "request", !.who = e] \in TabAt
    /\ \A r \in Entries, v \in {"approve", "deny", "revoke"} :
         [shut EXCEPT !.at = v, !.entry = r] \in TabAt
  <1>0. 0 \in 0..MaxEntries /\ Entries \in SUBSET (0..MaxEntries)
    BY SupportAccessAssumption DEF Entries
  <1>1. shut \in TabAt
    BY <1>0 DEF TabAt, shut
  <1>2. ASSUME NEW e \in Engineers PROVE [shut EXCEPT !.at = "request", !.who = e] \in TabAt
    BY <1>0 DEF TabAt, shut
  <1>3. ASSUME NEW r \in Entries, NEW v \in {"approve", "deny", "revoke"}
        PROVE  [shut EXCEPT !.at = v, !.entry = r] \in TabAt
    BY <1>0 DEF TabAt, shut
  <1> QED
    BY <1>1, <1>2, <1>3

\* A request that only moves on.
LEMMA TabMoves ==
    ASSUME SupportInv, NEW t \in Tabs, NEW x \in TabAt,
           tab' = [tab EXCEPT ![t] = x], UNCHANGED <<hour, log, consents, ended>>
    PROVE  SupportInv'
  <1>1. SATypeOK'
    BY DEF SupportInv, SATypeOK
  <1> QED
    BY <1>1 DEF SupportInv

\* A commit that rewrites one row and closes its request.
LEMMA RowCommits ==
    ASSUME SupportInv, NEW t \in Tabs, NEW r \in Entries, NEW x \in LogRow,
           log' = [log EXCEPT ![r] = x], tab' = [tab EXCEPT ![t] = shut], hour' = hour,
           consents \in SUBSET consents', ended' \in SUBSET (ended \cup {r}),
           x.status = "approved" => [entry |-> r, hour |-> x.approved] \in consents',
           r \in ended' => x.revoked
    PROVE  SupportInv'
  <1>1. SATypeOK'
    BY TabPlaces DEF SupportInv, SATypeOK
  <1>2. \A q \in Entries : log'[q] = IF q = r THEN x ELSE log[q]
    BY DEF SupportInv, SATypeOK
  <1>3. ASSUME NEW q \in Entries
        PROVE  /\ log'[q].status = "approved"
                    => [entry |-> q, hour |-> log'[q].approved] \in consents'
               /\ q \in ended' => log'[q].revoked
    <2>1. CASE q = r
      BY <1>2, <2>1
    <2>2. CASE q # r
      BY <1>2, <2>2 DEF SupportInv
    <2> QED
      BY <2>1, <2>2
  <1> QED
    BY <1>1, <1>3 DEF SupportInv

\* Each commit writes the columns its own verdict sets, over whatever row.
LEMMA SupportStep == SupportInv /\ [SANext]_savars => SupportInv'
  <1> SUFFICES ASSUME SupportInv, [SANext]_savars PROVE SupportInv'
    OBVIOUS
  <1>0. SATypeOK
    BY DEF SupportInv
  <1>1. ASSUME NEW t \in Tabs, NEW x \in TabAt, tab' = [tab EXCEPT ![t] = x],
               UNCHANGED <<hour, log, consents, ended>>
        PROVE  SupportInv'
    BY <1>1, TabMoves
  <1>2. ASSUME NEW t \in Tabs, NEW e \in Engineers, AskAccess(t, e) PROVE SupportInv'
    BY <1>1, <1>2, TabPlaces DEF AskAccess
  <1>3. ASSUME NEW t \in Tabs, NEW r \in Entries, NEW verb \in {"approve", "deny"},
               SettleRequest(t, r, verb)
        PROVE  SupportInv'
    BY <1>1, <1>3, TabPlaces DEF SettleRequest
  <1>4. ASSUME NEW t \in Tabs, NEW users, RevokeAccess(t, users) PROVE SupportInv'
    <2>1. PICK r \in Entries : tab' = [tab EXCEPT ![t] = [shut EXCEPT !.at = "revoke", !.entry = r]]
      BY <1>4 DEF RevokeAccess, GetActive
    <2> QED
      BY <1>1, <1>4, <2>1, TabPlaces DEF RevokeAccess
  <1>5. ASSUME NEW t \in Tabs, CloseTab(t) PROVE SupportInv'
    BY <1>1, <1>5, TabPlaces DEF CloseTab
  <1>6. ASSUME NEW t \in Tabs, CommitRequest(t) PROVE SupportInv'
    <2>1. CASE UNCHANGED log
      BY <1>1, <1>6, <2>1, TabPlaces DEF CommitRequest
    <2>2. CASE ~UNCHANGED log
      <3> DEFINE x == [blank EXCEPT !.who = tab[t].who, !.status = "requested"]
      <3>0. \E r \in Entries :
              /\ log[r] = blank /\ \A s \in Entries : s < r => log[s] # blank
              /\ log' = [log EXCEPT ![r] = x]
        BY <1>6, <2>2, Zenon DEF CommitRequest
      <3>1. PICK r \in Entries : log[r] = blank /\ log' = [log EXCEPT ![r] = x]
        BY <3>0, Zenon
      <3>2. tab[t].who \in Engineers
        BY <1>0, <1>6 DEF CommitRequest, SATypeOK, TabAt
      <3>3. x \in LogRow /\ x.status = "requested"
        BY <3>2 DEF blank, LogRow
      <3>4. r \notin ended
        <4>1. log[r].revoked = FALSE
          <5> HIDE DEF x
          <5> QED  BY <3>1 DEF blank
        <4> QED
          BY <4>1 DEF SupportInv
      <3>5. tab' = [tab EXCEPT ![t] = shut] /\ UNCHANGED <<hour, consents, ended>>
        BY <1>6 DEF CommitRequest
      <3> HIDE DEF x
      <3> QED
        BY <3>1, <3>3, <3>4, <3>5, RowCommits
    <2> QED
      BY <2>1, <2>2
  <1>7. ASSUME NEW t \in Tabs, tab[t].at \in {"approve", "deny", "revoke"}
        PROVE  /\ tab[t].entry \in Entries
               /\ log[tab[t].entry] \in LogRow
               /\ hour \in Nat /\ (tab[t].entry \in ended => log[tab[t].entry].revoked)
    BY <1>0, <1>7 DEF SATypeOK, SupportInv, TabAt
  <1>8. ASSUME NEW t \in Tabs, CommitApproval(t) PROVE SupportInv'
    <2> DEFINE r == tab[t].entry
               x == [log[r] EXCEPT !.status = "approved", !.approved = hour]
    <2>1. /\ tab[t].at = "approve" /\ r \in Entries /\ log[r] \in LogRow /\ hour \in Nat
          /\ r \in ended => log[r].revoked
      BY <1>7, <1>8 DEF CommitApproval
    <2>2. log' = [log EXCEPT ![r] = x]
      BY <1>0, <1>8, <2>1 DEF CommitApproval, SATypeOK
    <2>3. x \in LogRow /\ x.approved = hour /\ x.revoked = log[r].revoked
      BY <2>1 DEF LogRow
    <2>4. /\ tab' = [tab EXCEPT ![t] = shut] /\ hour' = hour /\ ended' = ended
          /\ consents' = consents \cup {[entry |-> r, hour |-> hour]}
      BY <1>8 DEF CommitApproval
    <2> HIDE DEF r, x
    <2> QED
      BY <2>1, <2>2, <2>3, <2>4, RowCommits
  <1>9. ASSUME NEW t \in Tabs, CommitDenial(t) PROVE SupportInv'
    <2> DEFINE r == tab[t].entry
               x == [log[r] EXCEPT !.status = "denied"]
    <2>1. /\ tab[t].at = "deny" /\ r \in Entries /\ log[r] \in LogRow
          /\ r \in ended => log[r].revoked
      BY <1>7, <1>9 DEF CommitDenial
    <2>2. log' = [log EXCEPT ![r] = x]
      BY <1>0, <1>9, <2>1 DEF CommitDenial, SATypeOK
    <2>3. x \in LogRow /\ x.status = "denied" /\ x.revoked = log[r].revoked
      BY <2>1 DEF LogRow
    <2>4. tab' = [tab EXCEPT ![t] = shut] /\ hour' = hour /\ ended' = ended /\ consents' = consents
      BY <1>9 DEF CommitDenial
    <2> HIDE DEF r, x
    <2> QED
      BY <2>1, <2>2, <2>3, <2>4, RowCommits
  <1>10. ASSUME NEW t \in Tabs, CommitRevocation(t) PROVE SupportInv'
    <2> DEFINE r == tab[t].entry
               x == [log[r] EXCEPT !.status = "revoked", !.revoked = TRUE]
    <2>1. tab[t].at = "revoke" /\ r \in Entries /\ log[r] \in LogRow
      BY <1>7, <1>10 DEF CommitRevocation
    <2>2. log' = [log EXCEPT ![r] = x]
      BY <1>0, <1>10, <2>1 DEF CommitRevocation, SATypeOK
    <2>3. x \in LogRow /\ x.status = "revoked" /\ x.revoked
      BY <2>1 DEF LogRow
    <2>4. /\ tab' = [tab EXCEPT ![t] = shut] /\ hour' = hour
          /\ ended' = ended \cup {r} /\ consents' = consents
      BY <1>10 DEF CommitRevocation
    <2> HIDE DEF r, x
    <2> QED
      BY <2>1, <2>2, <2>3, <2>4, RowCommits
  <1>11. CASE HourPasses
    BY <1>11 DEF HourPasses, SupportInv, SATypeOK
  <1>12. CASE UNCHANGED savars
    BY <1>12 DEF savars, SupportInv, SATypeOK
  <1> QED
    BY <1>2, <1>3, <1>4, <1>5, <1>6, <1>8, <1>9, <1>10, <1>11, <1>12 DEF SANext

\* Whoever tenant_scope admits has a grant of his own that was approved less
\* than the TTL ago and not revoked, for any number of engineers, requests and
\* rows: an approval committed over a revocation does not revive it.
THEOREM SupportWasApproved == SASpec => []AdmittedWasApproved
  <1>1. SAInit => SupportInv
    BY SupportAccessAssumption DEF SAInit, SupportInv, SATypeOK, TabAt, LogRow, Entries, blank, shut
  <1> QED
    BY <1>1, SupportStep, AdmissionIsConsent, PTL DEF SASpec

-----------------------------------------------------------------------------
(* Scope grants                                                            *)

GrantRequest ==
    [at : {"loaded", "counted"},
     op : {"grant", "reassign", "revoke", "strict", "legacy_open"},
     key : Keys, to : Keys, new : GrantRow, seen : GrantRow, seenTo : GrantRow]

GTypeOK ==
    /\ grants \in [Keys -> GrantRow]
    /\ asked \in [Slots -> GrantRequest \cup {NoRequest}]
    /\ overtaken \in BOOLEAN

\* A row of a permanent administrator.
PermanentRow(row) == row.state = "live" /\ row.expiry = "never" /\ row.admin
PermanentIn(g) == \E p \in People : PermanentRow(g[<<p, "tenant">>])

\* What the guard of q counted: an administrator outside the rows q leaves, or
\* the one q makes.
PermanentAfter(q) ==
    \/ \E p \in People : <<p, "tenant">> \notin Leaving(q) /\ PermanentRow(grants[<<p, "tenant">>])
    \/ q.op \in {"grant", "reassign"} /\ q.to[2] = "tenant" /\ PermanentRow(q.new)

\* A row of the request has become, or is no longer, a permanent
\* administrator's since it was loaded.
Stale(q) ==
    \/ PermanentRow(grants[q.key]) # PermanentRow(q.seen)
    \/ PermanentRow(grants[q.to]) # PermanentRow(q.seenTo)

SomeAdmin(g) == \E p \in People : g[<<p, "tenant">>].state = "live" /\ g[<<p, "tenant">>].admin

Counted(r) == asked[r] # NoRequest /\ asked[r].at = "counted"

\* A request that has counted holds the tenant's lock.
CountedHoldsLock == \A r \in Slots : Counted(r) => tenantLock = r

\* While it holds the lock nothing that it counted goes away, unless a row is
\* overwritten behind its back; the guard may have counted a row that was stale,
\* and stays so.
CountStays ==
    ~overtaken => \A r \in Slots : Counted(r) =>
        IF asked[r].op = "strict" THEN SomeAdmin(grants)
        ELSE Stale(asked[r]) \/ (PermanentIn(grants) => PermanentAfter(asked[r]))

GrantInv == GTypeOK /\ CountedHoldsLock /\ CountStays

\* count_tenant_admins, over any pairs of key and row.
LEMMA AmongPairs ==
    ASSUME NEW pairs
    PROVE  /\ PermanentAmong(pairs) # {} <=> \E x \in pairs : x[1][2] = "tenant" /\ PermanentRow(x[2])
           /\ AdminsAmong(pairs) # {} =>
                \E x \in pairs : x[1][2] = "tenant" /\ x[2].state = "live" /\ x[2].admin
  BY Zenon DEF PermanentAmong, AdminsAmong, PermanentRow, Active

\* ... and over the rows of the table.
LEMMA AmongRows ==
    ASSUME NEW g
    PROVE  /\ Permanent(g) # {} <=> PermanentIn(g)
           /\ Admins(g) # {} => SomeAdmin(g)
  <1>1. ASSUME NEW x \in Pairs(g), x[1][2] = "tenant"
        PROVE  \E p \in People : x[2] = g[<<p, "tenant">>]
    <2>1. PICK p \in People, s \in GrantScopes : x = <<<<p, s>>, g[<<p, s>>]>>
      BY DEF Pairs, Keys
    <2> QED
      BY <1>1, <2>1
  <1>2. ASSUME NEW p \in People
        PROVE  \E x \in Pairs(g) : x[1][2] = "tenant" /\ x[2] = g[<<p, "tenant">>]
    <2>1. <<p, "tenant">> \in Keys
      BY DEF Keys, GrantScopes
    <2>2. <<<<p, "tenant">>, g[<<p, "tenant">>]>> \in Pairs(g)
      BY <2>1 DEF Pairs
    <2> QED
      BY <2>2
  <1>3. Permanent(g) # {} <=> PermanentIn(g)
    BY <1>1, <1>2, AmongPairs DEF Permanent, PermanentIn
  <1>4. Admins(g) # {} => SomeAdmin(g)
    BY <1>1, AmongPairs DEF Admins, SomeAdmin
  <1> QED
    BY <1>3, <1>4

\* ... and over what admin_transition expects to be left.
LEMMA AmongAfter ==
    ASSUME NEW q
    PROVE  PermanentAmong(After(q)) # {} => PermanentAfter(q)
  <1> SUFFICES ASSUME NEW x \in After(q), x[1][2] = "tenant", PermanentRow(x[2])
               PROVE  PermanentAfter(q)
    BY AmongPairs
  <1>1. CASE x \in Pairs(View(q)) /\ x[1] \notin Leaving(q)
    <2>1. PICK k \in Keys : x = <<k, View(q)[k]>>
      BY <1>1 DEF Pairs
    <2>2. View(q)[k] = grants[k]
      BY <1>1, <2>1 DEF View
    <2>3. PICK p \in People : k = <<p, "tenant">>
      BY <2>1 DEF Keys
    <2> QED
      BY <1>1, <2>1, <2>2, <2>3 DEF PermanentAfter
  <1>2. CASE q.op \in {"grant", "reassign"} /\ x = <<q.to, q.new>>
    BY <1>2 DEF PermanentAfter
  <1> QED
    BY <1>1, <1>2 DEF After

\* The request's view holds the permanent administrators there are, unless one
\* of its rows is stale.
LEMMA ViewIsAlike ==
    ASSUME NEW q \in GrantRequest, ~Stale(q)
    PROVE  PermanentIn(View(q)) <=> PermanentIn(grants)
  <1>1. ASSUME NEW row \in GrantRow, NEW other PROVE PermanentRow(Aged(row, other)) <=> PermanentRow(row)
    BY DEF Aged, PermanentRow, GrantRow
  <1>2. q.seen \in GrantRow /\ q.seenTo \in GrantRow
    BY DEF GrantRequest
  <1>3. Leaving(q) \subseteq {q.key, q.to}
    BY DEF Leaving
  <1>4. ASSUME NEW k \in Keys PROVE PermanentRow(View(q)[k]) <=> PermanentRow(grants[k])
    <2>1. CASE k \notin Leaving(q) \/ grants[k].state # "live"
      BY <2>1 DEF View
    <2>2. CASE k \in Leaving(q) /\ grants[k].state = "live" /\ k = q.key
      <3>1. View(q)[k] = Aged(q.seen, grants[k])
        BY <2>2 DEF View
      <3>2. PermanentRow(View(q)[k]) <=> PermanentRow(q.seen)
        BY <1>1, <1>2, <3>1
      <3> QED
        BY <2>2, <3>2 DEF Stale
    <2>3. CASE k \in Leaving(q) /\ grants[k].state = "live" /\ k # q.key
      <3>1. View(q)[k] = Aged(q.seenTo, grants[k]) /\ k = q.to
        BY <1>3, <2>3 DEF View
      <3>2. PermanentRow(View(q)[k]) <=> PermanentRow(q.seenTo)
        BY <1>1, <1>2, <3>1
      <3> QED
        BY <3>1, <3>2 DEF Stale
    <2> QED
      BY <2>1, <2>2, <2>3
  <1>5. \A p \in People : <<p, "tenant">> \in Keys
    BY DEF Keys, GrantScopes
  <1> QED
    BY <1>4, <1>5 DEF PermanentIn

\* A request that passed the guard has counted what it leaves.
LEMMA GuardCounts ==
    ASSUME NEW q \in GrantRequest, ~RefusedByGuard(q)
    PROVE  IF q.op = "strict" THEN SomeAdmin(grants)
           ELSE Stale(q) \/ (PermanentIn(grants) => PermanentAfter(q))
  <1>1. CASE q.op = "strict"
    BY <1>1, AmongRows DEF RefusedByGuard
  <1>2. CASE q.op # "strict"
    <2>1. PermanentIn(View(q)) => PermanentAfter(q)
      BY <1>2, AmongRows, AmongAfter DEF RefusedByGuard, RemovesLast, Permanent
    <2> QED
      BY <1>2, <2>1, ViewIsAlike
  <1> QED
    BY <1>1, <1>2

\* Two tables with the same permanent administrators and the same live ones.
Alike(g, h) ==
    \A k \in Keys : /\ PermanentRow(g[k]) <=> PermanentRow(h[k])
                    /\ g[k].state = h[k].state /\ g[k].admin = h[k].admin

\* A step that keeps the administrators and lets nobody pass the guard.
LEMMA NobodyCounts ==
    ASSUME GrantInv, GTypeOK', Alike(grants', grants), UNCHANGED overtaken,
           \A q \in Slots : Counted(q)' => Counted(q) /\ asked'[q] = asked[q] /\ tenantLock' = tenantLock
    PROVE  GrantInv'
  <1>1. CountedHoldsLock'
    BY DEF GrantInv, CountedHoldsLock
  <1>2. \A p \in People : <<p, "tenant">> \in Keys
    BY DEF Keys, GrantScopes
  <1>3. /\ SomeAdmin(grants') <=> SomeAdmin(grants)
        /\ PermanentIn(grants') <=> PermanentIn(grants)
    BY <1>2 DEF SomeAdmin, PermanentIn, Alike
  <1>4. ASSUME ~overtaken', NEW r \in Slots, Counted(r)'
        PROVE  IF asked'[r].op = "strict" THEN SomeAdmin(grants')
               ELSE Stale(asked[r])' \/ (PermanentIn(grants') => PermanentAfter(asked[r])')
    <2>1. /\ Counted(r) /\ asked'[r] = asked[r] /\ ~overtaken
          /\ IF asked[r].op = "strict" THEN SomeAdmin(grants)
             ELSE Stale(asked[r]) \/ (PermanentIn(grants) => PermanentAfter(asked[r]))
      BY <1>4 DEF GrantInv, CountStays
    <2> DEFINE q == asked[r]
    <2>2. PermanentAfter(q)' <=> PermanentAfter(q)
      <3>1. /\ \A p \in People : PermanentRow(grants'[<<p, "tenant">>]) <=> PermanentRow(grants[<<p, "tenant">>])
            /\ asked'[r] = asked[r]
        BY <1>2, <2>1 DEF Alike
      <3> QED
        BY <3>1, Zenon DEF PermanentAfter, Leaving, PermanentRow
    <2>3. Stale(q)' <=> Stale(q)
      <3>1. q.key \in Keys /\ q.to \in Keys
        BY <2>1 DEF GrantInv, GTypeOK, GrantRequest, Counted
      <3>2. /\ PermanentRow(grants'[q.key]) = PermanentRow(grants[q.key])
            /\ PermanentRow(grants'[q.to]) = PermanentRow(grants[q.to])
        BY <3>1 DEF Alike, PermanentRow
      <3>3. asked'[r] = asked[r]
        BY <2>1
      <3> QED
        BY <3>2, <3>3 DEF Stale, PermanentRow
    <2> QED
      BY <1>3, <2>1, <2>2, <2>3
  <1>5. CountStays'
    BY <1>4 DEF CountStays
  <1> QED
    BY <1>1, <1>5 DEF GrantInv

\* A request begins as a copy of the rows it is about.
LEMMA BeginKeeps ==
    ASSUME GrantInv, NEW r \in Slots,
           NEW op \in {"grant", "reassign", "revoke", "strict", "legacy_open"},
           NEW key \in Keys, NEW to \in Keys, NEW new \in GrantRow,
           Begin(r, op, key, to, new)
    PROVE  GrantInv'
  <1> DEFINE x == [at |-> "loaded", op |-> op, key |-> key, to |-> to, new |-> new,
                   seen |-> grants[key], seenTo |-> grants[to]]
  <1>1. /\ asked' = [asked EXCEPT ![r] = x]
        /\ UNCHANGED <<grants, mode, tenantLock, overtaken>>
    BY DEF Begin
  <1>2. x \in GrantRequest /\ x.at = "loaded"
    BY DEF GrantInv, GTypeOK, GrantRequest
  <1> HIDE DEF x
  <1>3. GTypeOK'
    BY <1>1, <1>2 DEF GrantInv, GTypeOK
  <1>4. \A q \in Slots : Counted(q)' => Counted(q) /\ asked'[q] = asked[q]
    BY <1>1, <1>2 DEF GrantInv, GTypeOK, Counted
  <1> QED
    BY <1>1, <1>3, <1>4, NobodyCounts DEF Alike

\* Every request that is asked for begins that way.
LEMMA AskKeeps ==
    ASSUME GrantInv, NEW r \in Slots, NEW caller \in People, Ask(r, caller)
    PROVE  GrantInv' /\ UNCHANGED <<grants, mode>>
  <1>0. NoRow \in GrantRow
    BY DEF NoRow, GrantRow
  <1>1. ASSUME NEW op, NEW key, NEW to, NEW new, Begin(r, op, key, to, new)
        PROVE  UNCHANGED <<grants, mode>>
    BY <1>1 DEF Begin
  <1>2. ASSUME NEW k \in Keys, AskRevoke(r, caller, k) PROVE GrantInv' /\ UNCHANGED <<grants, mode>>
    BY <1>0, <1>1, <1>2, BeginKeeps DEF AskRevoke
  <1>3. ASSUME NEW k \in Keys, NEW admin \in BOOLEAN, NEW e \in {"never", "later"},
               AskGrant(r, caller, k, admin, e)
        PROVE  GrantInv' /\ UNCHANGED <<grants, mode>>
    <2>1. [state |-> "live", admin |-> admin, expiry |-> e] \in GrantRow
      BY DEF GrantRow
    <2> QED
      BY <1>1, <1>3, <2>1, BeginKeeps DEF AskGrant
  <1>4. ASSUME NEW k \in Keys, NEW s \in GrantScopes, AskReassign(r, caller, k, s)
        PROVE  GrantInv' /\ UNCHANGED <<grants, mode>>
    <2>1. <<k[1], s>> \in Keys /\ grants[k] \in GrantRow
      BY DEF Keys, GrantInv, GTypeOK
    <2> QED
      BY <1>1, <1>4, <2>1, BeginKeeps DEF AskReassign
  <1>5. ASSUME NEW m \in {"strict", "legacy_open"}, AskMode(r, caller, m)
        PROVE  GrantInv' /\ UNCHANGED <<grants, mode>>
    <2>1. <<caller, "tenant">> \in Keys
      BY DEF Keys, GrantScopes
    <2> QED
      BY <1>0, <1>1, <1>5, <2>1, BeginKeeps DEF AskMode
  <1> QED
    BY <1>2, <1>3, <1>4, <1>5 DEF Ask

\* A request ends, refused or failed, and lets its lock go.
LEMMA EndKeeps ==
    ASSUME GrantInv, NEW r \in Slots, asked' = [asked EXCEPT ![r] = NoRequest],
           tenantLock' = tenantLock \/ tenantLock = r, UNCHANGED <<grants, overtaken>>
    PROVE  GrantInv'
  <1>1. \A q \in Slots : Counted(q)' => q # r /\ Counted(q) /\ asked'[q] = asked[q]
    BY DEF GrantInv, GTypeOK, Counted
  <1>2. \A q \in Slots : Counted(q)' => tenantLock' = tenantLock
    BY <1>1 DEF GrantInv, CountedHoldsLock
  <1>3. GTypeOK'
    BY DEF GrantInv, GTypeOK
  <1> QED
    BY <1>1, <1>2, <1>3, NobodyCounts DEF Alike

\* guard_last_admin, under the lock.
LEMMA GuardKeeps ==
    ASSUME GrantInv, NEW r \in Slots, Guard(r)
    PROVE  GrantInv'
  <1>1. CASE RefusedByGuard(asked[r])
    BY <1>1, EndKeeps DEF Guard
  <1>2. CASE ~RefusedByGuard(asked[r])
    <2> DEFINE q == asked[r]
               x == [q EXCEPT !.at = "counted"]
    <2>1. /\ asked[r] # NoRequest /\ tenantLock = NoRequest /\ tenantLock' = r
          /\ asked' = [asked EXCEPT ![r].at = "counted"]
          /\ UNCHANGED <<grants, overtaken>>
      BY <1>2 DEF Guard, LockFree
    <2>2. q \in GrantRequest
      BY <2>1 DEF GrantInv, GTypeOK
    <2>3. asked' = [asked EXCEPT ![r] = x]
      BY <2>1, <2>2 DEF GrantInv, GTypeOK
    <2>4. /\ x \in GrantRequest /\ x.op = q.op /\ x.key = q.key /\ x.to = q.to
          /\ x.new = q.new /\ x.seen = q.seen /\ x.seenTo = q.seenTo
      BY <2>2 DEF GrantRequest
    <2>5. IF q.op = "strict" THEN SomeAdmin(grants)
          ELSE Stale(q) \/ (PermanentIn(grants) => PermanentAfter(q))
      BY <1>2, <2>2, GuardCounts
    <2>6. (PermanentAfter(x) <=> PermanentAfter(q)) /\ (Stale(x) <=> Stale(q))
      BY <2>4, Zenon DEF PermanentAfter, Leaving, Stale
    <2> HIDE DEF x
    <2>7. GTypeOK'
      BY <2>1, <2>3, <2>4 DEF GrantInv, GTypeOK
    <2>8. \A p \in Slots : Counted(p)' => p = r
      BY <2>1, <2>3, GrantsAssumption DEF GrantInv, GTypeOK, Counted, CountedHoldsLock
    <2>9. CountedHoldsLock'
      BY <2>1, <2>8 DEF CountedHoldsLock
    <2>10. asked'[r] = x
      BY <2>3 DEF GrantInv, GTypeOK
    <2>11. (PermanentAfter(asked[r])' <=> PermanentAfter(x)) /\ (Stale(asked[r])' <=> Stale(x))
      <3>1. asked'[r] = x /\ grants' = grants
        BY <2>1, <2>10
      <3> QED
        BY <3>1, Zenon DEF PermanentAfter, Leaving, PermanentRow, Stale
    <2>12. IF asked'[r].op = "strict" THEN SomeAdmin(grants')
           ELSE Stale(asked[r])' \/ (PermanentIn(grants') => PermanentAfter(asked[r])')
      BY <2>1, <2>4, <2>5, <2>6, <2>10, <2>11
    <2>13. CountStays'
      BY <2>8, <2>12 DEF CountStays
    <2> QED
      BY <2>7, <2>9, <2>13 DEF GrantInv
  <1> QED
    BY <1>1, <1>2

\* An expiring grant is nobody's permanent one.
LEMMA ExpireKeeps ==
    ASSUME GrantInv, NEW k \in Keys, Expire(k)
    PROVE  GrantInv' /\ Alike(grants', grants)
  <1>1. GTypeOK'
    BY DEF Expire, GrantInv, GTypeOK, GrantRow
  <1>2. Alike(grants', grants)
    BY DEF Expire, GrantInv, GTypeOK, GrantRow, Alike, PermanentRow
  <1>3. \A q \in Slots : Counted(q)' => Counted(q) /\ asked'[q] = asked[q]
    BY DEF Expire, Counted
  <1> QED
    BY <1>1, <1>2, <1>3, NobodyCounts DEF Expire

\* A commit over rows that nobody changed meanwhile leaves what was counted.
LEMMA WriteLeavesCounted ==
    ASSUME GrantInv, NEW r \in Slots, Write(r), ~overtaken'
    PROVE  /\ ~overtaken
           /\ PermanentIn(grants) => PermanentIn(grants')
           /\ (mode = "legacy_open" /\ mode' = "strict") => SomeAdmin(grants')
           /\ ~Counted(r) => grants' = grants
  <1> DEFINE q == asked[r]
  <1>1. /\ q # NoRequest /\ q \in GrantRequest /\ grants \in [Keys -> GrantRow]
        /\ ~overtaken /\ grants[q.key] = q.seen /\ grants[q.to] = q.seenTo
        /\ q.at = "counted" \/ q.op = "legacy_open" \/ (q.op = "revoke" /\ q.seen.state = "revoked")
        /\ mode' = IF q.op \in {"strict", "legacy_open"} THEN q.op ELSE mode
    BY DEF Write, GrantInv, GTypeOK
  <1>2. /\ q.key \in Keys /\ q.to \in Keys /\ q.new \in GrantRow /\ q.seen \in GrantRow
        /\ q.seenTo \in GrantRow
    BY <1>1 DEF GrantRequest
  <1>3. grants' = [k \in Keys |->
          IF q.op \in {"grant", "reassign"} /\ k = q.to THEN Granted(q, k)
          ELSE IF q.op \in {"revoke", "reassign"} /\ k = q.key
               THEN [grants[k] EXCEPT !.state = "revoked"]
          ELSE grants[k]]
    BY DEF Write
  <1> HIDE DEF q
  <1>4. ASSUME q.op \notin {"grant", "reassign", "revoke"} PROVE grants' = grants
    <2>1. \A k \in Keys : grants'[k] = grants[k]
      BY <1>3, <1>4
    <2> QED
      BY <1>1, <1>3, <2>1
  <1>5. ASSUME q.op = "revoke", q.seen.state = "revoked" PROVE grants' = grants
    <2>1. [grants[q.key] EXCEPT !.state = "revoked"] = grants[q.key]
      BY <1>1, <1>2, <1>5 DEF GrantRow
    <2>2. \A k \in Keys : grants'[k] = grants[k]
      BY <1>3, <1>5, <2>1
    <2> QED
      BY <1>1, <1>3, <2>2
  <1>6. CASE q.at # "counted"
    <2>1. grants' = grants
      BY <1>1, <1>4, <1>5, <1>6
    <2>2. ~(mode = "legacy_open" /\ mode' = "strict")
      BY <1>1, <1>6
    <2> QED
      BY <1>1, <2>1, <2>2
  <1>7. CASE q.at = "counted"
    <2>0. ~Stale(q)
      BY <1>1 DEF Stale
    <2>1. IF q.op = "strict" THEN SomeAdmin(grants) ELSE PermanentIn(grants) => PermanentAfter(q)
      BY <1>1, <1>7, <2>0 DEF GrantInv, CountStays, Counted, q
    <2>2. Counted(r)
      BY <1>1, <1>7 DEF Counted, q
    <2>3. CASE q.op \in {"strict", "legacy_open"}
      BY <1>1, <1>4, <2>1, <2>2, <2>3
    <2>4. CASE q.op \in {"grant", "reassign", "revoke"}
      <3>1. ASSUME PermanentIn(grants) PROVE PermanentIn(grants')
        <4>0. PermanentAfter(q)
          BY <2>1, <2>4, <3>1
        <4>1. ASSUME NEW p \in People, <<p, "tenant">> \notin Leaving(q),
                     PermanentRow(grants[<<p, "tenant">>])
              PROVE  PermanentRow(grants'[<<p, "tenant">>])
          <5> DEFINE k == <<p, "tenant">>
          <5>1. k \in Keys
            BY DEF Keys, GrantScopes
          <5>2. ~(q.op \in {"grant", "reassign"} /\ k = q.to)
            BY <1>1, <4>1 DEF Leaving, PermanentRow
          <5>3. ~(q.op \in {"revoke", "reassign"} /\ k = q.key)
            BY <4>1 DEF Leaving
          <5> HIDE DEF k
          <5>4. grants'[k] = grants[k]
            BY <1>3, <5>1, <5>2, <5>3
          <5> QED
            BY <4>1, <5>4 DEF k
        <4>2. ASSUME q.op \in {"grant", "reassign"}, q.to[2] = "tenant", PermanentRow(q.new)
              PROVE  \E p \in People : PermanentRow(grants'[<<p, "tenant">>])
          <5>1. PICK p \in People : q.to = <<p, "tenant">>
            BY <1>2, <4>2 DEF Keys
          <5>2. grants'[q.to] = Granted(q, q.to)
            BY <1>2, <1>3, <4>2
          <5>3. Granted(q, q.to) = q.new \/ Granted(q, q.to) = Updated(q.seenTo, q.seenTo, q.new)
            BY <1>1 DEF Granted
          <5>4. PermanentRow(Updated(q.seenTo, q.seenTo, q.new))
            BY <1>2, <4>2 DEF Updated, PermanentRow, GrantRow
          <5> QED
            BY <4>2, <5>1, <5>2, <5>3, <5>4
        <4> QED
          BY <4>0, <4>1, <4>2 DEF PermanentAfter, PermanentIn
      <3> QED
        BY <1>1, <2>2, <2>4, <3>1
    <2> QED
      BY <1>1, <1>2, <2>3, <2>4 DEF GrantRequest
  <1> QED
    BY <1>6, <1>7

\* The commit frees the lock; what others counted still stands.
LEMMA WriteKeeps ==
    ASSUME GrantInv, NEW r \in Slots, Write(r)
    PROVE  GrantInv'
  <1> DEFINE q == asked[r]
  <1>1. q # NoRequest /\ q \in GrantRequest /\ grants \in [Keys -> GrantRow]
    BY DEF Write, GrantInv, GTypeOK
  <1>2. /\ q.new \in GrantRow /\ q.seenTo \in GrantRow
    BY <1>1 DEF GrantRequest
  <1>3. /\ asked' = [asked EXCEPT ![r] = NoRequest]
        /\ tenantLock' = IF tenantLock = r THEN NoRequest ELSE tenantLock
        /\ overtaken' = (overtaken \/ grants[q.key] # q.seen \/ grants[q.to] # q.seenTo)
        /\ grants' = [k \in Keys |->
             IF q.op \in {"grant", "reassign"} /\ k = q.to THEN Granted(q, k)
             ELSE IF q.op \in {"revoke", "reassign"} /\ k = q.key
                  THEN [grants[k] EXCEPT !.state = "revoked"]
             ELSE grants[k]]
    BY DEF Write
  <1> HIDE DEF q
  <1>4. GTypeOK'
    <2>1. ASSUME NEW k \in Keys PROVE Granted(q, k) \in GrantRow
      BY <1>1, <1>2 DEF Granted, Updated, GrantRow
    <2>2. ASSUME NEW k \in Keys PROVE [grants[k] EXCEPT !.state = "revoked"] \in GrantRow
      BY <1>1 DEF GrantRow
    <2>3. grants' \in [Keys -> GrantRow]
      BY <1>1, <1>3, <2>1, <2>2
    <2> QED
      BY <1>3, <2>3 DEF GrantInv, GTypeOK
  <1>5. \A s \in Slots : Counted(s)' => s # r /\ Counted(s) /\ asked'[s] = asked[s]
    BY <1>3 DEF GrantInv, GTypeOK, Counted
  <1>6. \A s \in Slots : Counted(s)' => ~Counted(r) /\ tenantLock' = tenantLock
    BY <1>3, <1>5 DEF GrantInv, CountedHoldsLock
  <1>7. CASE overtaken'
    <2>1. CountedHoldsLock'
      BY <1>5, <1>6 DEF GrantInv, CountedHoldsLock
    <2> QED
      BY <1>4, <1>7, <2>1 DEF GrantInv, CountStays
  <1>8. CASE ~overtaken' /\ Counted(r)
    <2>1. \A s \in Slots : ~Counted(s)'
      BY <1>6, <1>8
    <2> QED
      BY <1>4, <2>1 DEF GrantInv, CountStays, CountedHoldsLock
  <1>9. CASE ~overtaken' /\ ~Counted(r)
    <2>1. grants' = grants /\ ~overtaken /\ overtaken' = overtaken
      BY <1>4, <1>9, WriteLeavesCounted DEF GrantInv, GTypeOK
    <2> QED
      BY <1>4, <1>5, <1>6, <2>1, NobodyCounts DEF Alike
  <1> QED
    BY <1>7, <1>8, <1>9

\* Every step keeps the count of whoever holds the lock.
LEMMA GrantStep == GrantInv /\ [GNext]_gvars => GrantInv'
  <1> SUFFICES ASSUME GrantInv, [GNext]_gvars PROVE GrantInv'
    OBVIOUS
  <1>1. ASSUME NEW r \in Slots, NEW caller \in People, Ask(r, caller) PROVE GrantInv'
    BY <1>1, AskKeeps
  <1>2. ASSUME NEW r \in Slots, Guard(r) PROVE GrantInv'
    BY <1>2, GuardKeeps
  <1>3. ASSUME NEW r \in Slots, Write(r) PROVE GrantInv'
    BY <1>3, WriteKeeps
  <1>4. ASSUME NEW r \in Slots, Abandon(r) PROVE GrantInv'
    <2>1. tenantLock' = tenantLock \/ tenantLock = r
      BY <1>4 DEF Abandon
    <2> QED
      BY <1>4, <2>1, EndKeeps DEF Abandon
  <1>5. ASSUME NEW k \in Keys, Expire(k) PROVE GrantInv'
    BY <1>5, ExpireKeeps
  <1>6. CASE UNCHANGED gvars
    <2>1. GTypeOK' /\ Alike(grants', grants)
      BY <1>6 DEF gvars, GrantInv, GTypeOK, Alike
    <2>2. \A q \in Slots : Counted(q)' => Counted(q) /\ asked'[q] = asked[q]
      BY <1>6 DEF gvars, Counted
    <2> QED
      BY <1>6, <2>1, <2>2, NobodyCounts DEF gvars
  <1> QED
    BY <1>1, <1>2, <1>3, <1>4, <1>5, <1>6 DEF GNext

\* The administrators a step leaves, as long as nothing was overtaken.
AdminsLeft ==
    ~overtaken' =>
      /\ Permanent(grants) # {} => Permanent(grants') # {}
      /\ (mode = "legacy_open" /\ mode' = "strict") =>
           \E p \in People : /\ grants'[<<p, "tenant">>].state = "live"
                             /\ grants'[<<p, "tenant">>].admin

\* No step on the grants takes the last administrator away.
LEMMA GrantStepLeavesAdmins == GrantInv /\ [GNext]_gvars => AdminsLeft
  <1> SUFFICES ASSUME GrantInv, [GNext]_gvars, ~overtaken'
               PROVE  /\ PermanentIn(grants) => PermanentIn(grants')
                      /\ (mode = "legacy_open" /\ mode' = "strict") => SomeAdmin(grants')
    BY AmongRows DEF AdminsLeft, SomeAdmin
  <1>1. ASSUME UNCHANGED <<grants, mode>>
        PROVE  /\ PermanentIn(grants) => PermanentIn(grants')
               /\ (mode = "legacy_open" /\ mode' = "strict") => SomeAdmin(grants')
    BY <1>1
  <1>2. ASSUME NEW r \in Slots, NEW caller \in People, Ask(r, caller)
        PROVE  UNCHANGED <<grants, mode>>
    BY <1>2, AskKeeps
  <1>3. ASSUME NEW r \in Slots, Guard(r) \/ Abandon(r) PROVE UNCHANGED <<grants, mode>>
    BY <1>3 DEF Guard, Abandon
  <1>4. ASSUME NEW r \in Slots, Write(r)
        PROVE  /\ PermanentIn(grants) => PermanentIn(grants')
               /\ (mode = "legacy_open" /\ mode' = "strict") => SomeAdmin(grants')
    BY <1>4, WriteLeavesCounted
  <1>5. ASSUME NEW k \in Keys, Expire(k)
        PROVE  (PermanentIn(grants) => PermanentIn(grants')) /\ mode' = mode
    <2>1. Alike(grants', grants) /\ \A p \in People : <<p, "tenant">> \in Keys
      BY <1>5, ExpireKeeps DEF Keys, GrantScopes
    <2> QED
      BY <1>5, <2>1 DEF Expire, Alike, PermanentIn
  <1>6. CASE UNCHANGED gvars
    BY <1>1, <1>6 DEF gvars
  <1> QED
    BY <1>1, <1>2, <1>3, <1>4, <1>5, <1>6 DEF GNext

\* A23.8, with its one exception: whichever grants, reassignments, revocations
\* and flips of however many administrators overlap and whenever grants run
\* out, the guard keeps the last permanent administrator, and a tenant turns
\* strict only with one, unless a request wrote a row that had changed since
\* it was loaded.
THEOREM LastAdminHolds == GSpec => LastAdminIsGuarded
  <1>1. ASSUME GInit PROVE GrantInv
    <2> DEFINE first == [state |-> "live", admin |-> TRUE, expiry |-> "never"]
    <2>1. NoRow \in GrantRow /\ first \in GrantRow
      BY DEF NoRow, GrantRow
    <2> HIDE DEF first
    <2>2. \/ grants = [k \in Keys |-> IF k = <<Founder, "tenant">> THEN first ELSE NoRow]
          \/ grants = [k \in Keys |-> NoRow]
      BY <1>1 DEF GInit, first
    <2>3. \A r \in Slots : ~Counted(r)
      BY <1>1 DEF GInit, Counted
    <2>4. grants \in [Keys -> GrantRow]
      BY <2>1, <2>2
    <2> QED
      BY <1>1, <2>3, <2>4 DEF GInit, GrantInv, GTypeOK, CountedHoldsLock, CountStays
  <1>2. GSpec => [][AdminsLeft]_gvars
    <2>1. GrantInv /\ [GNext]_gvars => [AdminsLeft]_gvars
      BY GrantStepLeavesAdmins
    <2> QED
      BY <1>1, <2>1, GrantStep, PTL DEF GSpec
  <1> QED
    BY <1>2 DEF LastAdminIsGuarded, AdminsLeft

-----------------------------------------------------------------------------
(* The activation of an agent, when no two edits of it overlap             *)

PreflightRow == [ver : Nat, cfg : Configs, set : {RunsUnattended[l][c] : l \in Levels, c \in Configs}]

OTypeOK ==
    /\ version \in Nat /\ config \in Configs /\ level \in Levels
    /\ pre \in Seq(PreflightRow)
    /\ activated \in [ver : Nat, at : Nat]
    /\ DOMAIN req = Requests
    /\ \A r \in Requests : req[r] # NoReq =>
         /\ req[r].ver \in Nat
         /\ req[r].op = "preflight" => req[r].cfg \in Configs
         /\ req[r].op = "activating" => req[r].at \in Nat

Editing(r) == req[r] # NoReq /\ req[r].op = "edit"

\* The one edit under way has the version in the row, so that it makes one
\* that no row and no request has.
EditIsCurrent ==
    /\ \A r \in Requests : Editing(r) => req[r].ver = version
    /\ \A r, s \in Requests : Editing(r) /\ Editing(s) => r = s

\* Nothing is of a later version than the agent, and what is of its version
\* is of its configuration.
NothingAhead ==
    /\ \A r \in Requests : req[r] # NoReq /\ req[r].op \in {"preflight", "activate", "activating"} =>
         req[r].ver <= version
    /\ \A r \in Requests : req[r] # NoReq /\ req[r].op = "preflight" =>
         (req[r].ver = version => req[r].cfg = config)
    /\ \A i \in 1..Len(pre) : /\ pre[i].ver <= version
                              /\ pre[i].ver = version => pre[i].cfg = config
    /\ activated.ver <= version

\* A preflight row says what its configuration runs unattended at some level.
RowsAreHonest ==
    \A i \in 1..Len(pre) : \E l \in Levels : pre[i].set = RunsUnattended[l][pre[i].cfg]

\* The activation that is in force, or about to be, was made on a row of its
\* own version.
ActivatedOnRow ==
    /\ activated.at <= Len(pre)
    /\ astatus = "active" => activated.at > 0 /\ pre[activated.at].ver = activated.ver
    /\ \A r \in Requests : req[r] # NoReq /\ req[r].op = "activating" =>
         req[r].at \in 1..Len(pre) /\ pre[req[r].at].ver = req[r].ver

ReviewInv == OTypeOK /\ EditIsCurrent /\ NothingAhead /\ RowsAreHonest /\ ActivatedOnRow

\* The row of the activation is the review, and the classes are its classes.
LEMMA ReviewIsInvariant == ReviewInv => ActiveWasReviewed /\ UnattendedWasApproved
  <1> SUFFICES ASSUME ReviewInv PROVE ActiveWasReviewed /\ UnattendedWasApproved
    OBVIOUS
  <1>1. activated.at \in Nat /\ Len(pre) \in Nat /\ activated.at <= Len(pre)
    BY DEF ReviewInv, OTypeOK, ActivatedOnRow
  <1>2. ASSUME astatus = "active"
        PROVE  activated.at \in 1..Len(pre) /\ pre[activated.at].ver = activated.ver
    BY <1>1, <1>2 DEF ReviewInv, ActivatedOnRow
  <1>3. ASSUME astatus = "active", activated.ver = version
        PROVE  pre[activated.at].cfg = config
    BY <1>2, <1>3 DEF ReviewInv, NothingAhead
  <1>4. ActiveWasReviewed
    BY <1>2, <1>3 DEF ActiveWasReviewed
  <1>5. ASSUME Recovered # {} PROVE /\ astatus = "active" /\ Recovered = pre[activated.at].set
                                    /\ approval[[ver |-> activated.ver, set |-> Recovered]] = "approved"
    <2> DEFINE row == IF activated.at = 0 THEN NoPreflight ELSE pre[activated.at]
    <2>1. /\ astatus = "active" /\ row.ver = activated.ver
          /\ approval[[ver |-> row.ver, set |-> row.set]] = "approved"
          /\ Recovered = row.set
      BY <1>5 DEF Recovered
    <2>2. row = pre[activated.at]
      BY <1>2, <2>1
    <2> QED
      BY <2>1, <2>2
  <1>6. UnattendedWasApproved
    <2>1. ASSUME Recovered # {}, activated.ver = version
          PROVE  \E l \in Levels : Recovered = RunsUnattended[l][config]
      BY <1>2, <1>3, <1>5, <2>1 DEF ReviewInv, RowsAreHonest
    <2> QED
      BY <1>5, <2>1 DEF UnattendedWasApproved
  <1> QED
    BY <1>4, <1>6

\* A preflight row carries the number of the version it read.
LEMMA RowsTyped ==
    ASSUME OTypeOK PROVE \A i \in 1..Len(pre) : pre[i].ver \in Nat
  <1>1. \A i \in 1..Len(pre) : pre[i] \in PreflightRow
    BY DEF OTypeOK
  <1> QED
    BY <1>1 DEF PreflightRow

\* A request that loads the row, or ends, and changes nothing else.
LEMMA RequestsMove ==
    ASSUME ReviewInv, NEW r \in Requests, NEW row, req' = [req EXCEPT ![r] = row],
           UNCHANGED <<configuration, pre, activated, astatus, level>>,
           row # NoReq => /\ row.ver = version
                          /\ row.op # "activating"
                          /\ row.op = "preflight" => row.cfg = config
                          /\ row.op = "edit" => \A s \in Requests : ~Editing(s)
    PROVE  ReviewInv'
  <1>1. \A s \in Requests : req'[s] = IF s = r THEN row ELSE req[s]
    BY DEF ReviewInv, OTypeOK
  <1>2. UNCHANGED <<version, config, pre, activated, astatus, level>>
    BY DEF configuration
  <1>3. OTypeOK'
    BY <1>1, <1>2 DEF ReviewInv, OTypeOK
  <1>4. EditIsCurrent'
    BY <1>1, <1>2 DEF ReviewInv, EditIsCurrent, Editing
  <1>5. NothingAhead'
    BY <1>1, <1>2 DEF ReviewInv, OTypeOK, NothingAhead
  <1>6. RowsAreHonest' /\ ActivatedOnRow'
    BY <1>1, <1>2 DEF ReviewInv, RowsAreHonest, ActivatedOnRow
  <1> QED
    BY <1>3, <1>4, <1>5, <1>6 DEF ReviewInv

\* bump_version, of the only edit under way: a version nothing else has.
LEMMA EditKeeps ==
    ASSUME ReviewInv, NEW r \in Requests, NEW c \in Configs, CommitEdit(r, c)
    PROVE  ReviewInv'
  <1>1. /\ Editing(r) /\ req[r].ver = version /\ version' = version + 1 /\ config' = c
        /\ req' = [req EXCEPT ![r] = NoReq] /\ UNCHANGED <<pre, activated, astatus, level>>
    BY DEF CommitEdit, Ends, Editing, readiness, lifecycle, ReviewInv, EditIsCurrent
  <1>2. \A s \in Requests : req'[s] = IF s = r THEN NoReq ELSE req[s]
    BY <1>1 DEF ReviewInv, OTypeOK
  <1>3. OTypeOK'
    BY <1>1, <1>2 DEF ReviewInv, OTypeOK
  <1>4. EditIsCurrent'
    BY <1>1, <1>2 DEF ReviewInv, EditIsCurrent, Editing
  <1>5. NothingAhead'
    <2>1. version \in Nat /\ activated.ver \in Nat
          /\ \A i \in 1..Len(pre) : pre[i].ver \in Nat
      BY RowsTyped DEF ReviewInv, OTypeOK
    <2>2. \A s \in Requests : req[s] # NoReq => req[s].ver \in Nat
      BY DEF ReviewInv, OTypeOK
    <2> QED
      BY <1>1, <1>2, <2>1, <2>2 DEF ReviewInv, NothingAhead
  <1>6. RowsAreHonest' /\ ActivatedOnRow'
    BY <1>1, <1>2 DEF ReviewInv, RowsAreHonest, ActivatedOnRow
  <1> QED
    BY <1>3, <1>4, <1>5, <1>6 DEF ReviewInv

\* preflight_agent: the row it stores is of the version it loaded, so of the
\* agent's configuration if that is still the agent's version.
LEMMA PreflightKeeps ==
    ASSUME ReviewInv, NEW r \in Requests, NEW c \in Configs, CommitPreflight(r, c)
    PROVE  ReviewInv'
  <1> DEFINE row == [ver |-> req[r].ver, cfg |-> c, set |-> RunsUnattended[level][c]]
  <1>1. /\ req[r] # NoReq /\ req[r].op = "preflight" /\ c \in {req[r].cfg, config}
        /\ pre' = Append(pre, row) /\ req' = [req EXCEPT ![r] = NoReq]
        /\ UNCHANGED <<version, config, activated, astatus, level>>
    BY DEF CommitPreflight, Ends, configuration, lifecycle
  <1>2. \A s \in Requests : req'[s] = IF s = r THEN NoReq ELSE req[s]
    BY <1>1 DEF ReviewInv, OTypeOK
  <1>3. /\ row.ver \in Nat /\ row.ver <= version
        /\ row.ver = version => row.cfg = config
        /\ \E l \in Levels : row.set = RunsUnattended[l][row.cfg]
    BY <1>1 DEF ReviewInv, OTypeOK, NothingAhead
  <1>4. row \in PreflightRow
    <2>1. RunsUnattended[level][c] \in {RunsUnattended[l][d] : l \in Levels, d \in Configs}
      <3>1. level \in Levels
        BY DEF ReviewInv, OTypeOK
      <3> QED
        BY <3>1
    <2> QED
      BY <1>3, <2>1 DEF PreflightRow
  <1> HIDE DEF row
  <1>5. /\ pre' \in Seq(PreflightRow) /\ Len(pre') = Len(pre) + 1 /\ Len(pre) \in Nat
        /\ \A i \in 1..Len(pre') : pre'[i] = IF i = Len(pre) + 1 THEN row ELSE pre[i]
    BY <1>1, <1>4 DEF ReviewInv, OTypeOK
  <1>6. OTypeOK'
    BY <1>1, <1>2, <1>5 DEF ReviewInv, OTypeOK
  <1>7. EditIsCurrent'
    BY <1>1, <1>2 DEF ReviewInv, EditIsCurrent, Editing
  <1>8. NothingAhead'
    <2>1. \A i \in 1..Len(pre') : /\ pre'[i].ver <= version
                                  /\ pre'[i].ver = version => pre'[i].cfg = config
      <3> SUFFICES ASSUME NEW i \in 1..Len(pre')
                   PROVE  pre'[i].ver <= version /\ (pre'[i].ver = version => pre'[i].cfg = config)
        OBVIOUS
      <3>1. CASE i = Len(pre) + 1
        BY <1>3, <1>5, <3>1
      <3>2. CASE i \in 1..Len(pre)
        <4>1. pre'[i] = pre[i]
          BY <1>5, <3>2
        <4> QED
          BY <3>2, <4>1 DEF ReviewInv, NothingAhead
      <3> QED
        BY <1>5, <3>1, <3>2
    <2> QED
      BY <1>1, <1>2, <2>1 DEF ReviewInv, NothingAhead
  <1>9. RowsAreHonest'
    BY <1>3, <1>5 DEF ReviewInv, RowsAreHonest
  <1>10. ActivatedOnRow'
    BY <1>1, <1>2, <1>5 DEF ReviewInv, OTypeOK, ActivatedOnRow
  <1> QED
    BY <1>6, <1>7, <1>8, <1>9, <1>10 DEF ReviewInv

\* transition_agent("activate"): checked against the current row, of the
\* version loaded.
LEMMA CheckKeeps ==
    ASSUME ReviewInv, NEW r \in Requests, CheckActivate(r)
    PROVE  ReviewInv'
  <1> DEFINE row == [op |-> "activating", ver |-> req[r].ver, at |-> Len(pre)]
  <1>1. /\ req[r] # NoReq /\ req[r].op = "activate" /\ pre # <<>> /\ Current.ver = req[r].ver
        /\ req' = [req EXCEPT ![r] = row]
        /\ UNCHANGED <<version, config, pre, activated, astatus, level>>
    BY DEF CheckActivate, MayActivate, configuration, readiness, lifecycle
  <1>2. /\ Len(pre) \in Nat /\ Len(pre) > 0 /\ pre[Len(pre)].ver = req[r].ver
        /\ req[r].ver \in Nat /\ req[r].ver <= version
    BY <1>1 DEF ReviewInv, OTypeOK, NothingAhead, Current
  <1>3. row.op = "activating" /\ row.ver = req[r].ver /\ row.at = Len(pre)
    OBVIOUS
  <1> HIDE DEF row
  <1>4. \A s \in Requests : req'[s] = IF s = r THEN row ELSE req[s]
    BY <1>1 DEF ReviewInv, OTypeOK
  <1>5. OTypeOK'
    BY <1>1, <1>2, <1>3, <1>4 DEF ReviewInv, OTypeOK
  <1>6. EditIsCurrent' /\ RowsAreHonest'
    BY <1>1, <1>3, <1>4 DEF ReviewInv, EditIsCurrent, Editing, RowsAreHonest
  <1>7. NothingAhead'
    BY <1>1, <1>2, <1>3, <1>4 DEF ReviewInv, NothingAhead
  <1>8. ActivatedOnRow'
    BY <1>1, <1>2, <1>3, <1>4 DEF ReviewInv, ActivatedOnRow
  <1> QED
    BY <1>5, <1>6, <1>7, <1>8 DEF ReviewInv

\* ... and committed as it was checked.
LEMMA ActivateKeeps ==
    ASSUME ReviewInv, NEW r \in Requests, CommitActivate(r)
    PROVE  ReviewInv'
  <1>1. /\ req[r] # NoReq /\ req[r].op = "activating"
        /\ activated' = [ver |-> req[r].ver, at |-> req[r].at]
        /\ req' = [req EXCEPT ![r] = NoReq]
        /\ UNCHANGED <<version, config, pre, level>>
    BY DEF CommitActivate, Ends, configuration, readiness
  <1>2. \A s \in Requests : req'[s] = IF s = r THEN NoReq ELSE req[s]
    BY <1>1 DEF ReviewInv, OTypeOK
  <1>3. /\ req[r].at \in 1..Len(pre) /\ pre[req[r].at].ver = req[r].ver
        /\ req[r].ver \in Nat /\ req[r].ver <= version
    BY <1>1 DEF ReviewInv, OTypeOK, NothingAhead, ActivatedOnRow
  <1>4. OTypeOK'
    BY <1>1, <1>2, <1>3 DEF ReviewInv, OTypeOK
  <1>5. EditIsCurrent' /\ RowsAreHonest'
    BY <1>1, <1>2 DEF ReviewInv, EditIsCurrent, Editing, RowsAreHonest
  <1>6. NothingAhead'
    BY <1>1, <1>2, <1>3 DEF ReviewInv, NothingAhead
  <1>7. ActivatedOnRow'
    <2>1. activated'.at \in 1..Len(pre') /\ pre'[activated'.at].ver = activated'.ver
      BY <1>1, <1>3
    <2>2. activated'.at <= Len(pre') /\ activated'.at > 0
      BY <2>1
    <2>3. ASSUME NEW s \in Requests, req'[s] # NoReq, req'[s].op = "activating"
          PROVE  req'[s].at \in 1..Len(pre') /\ pre'[req'[s].at].ver = req'[s].ver
      BY <1>1, <1>2, <2>3 DEF ReviewInv, ActivatedOnRow
    <2> QED
      BY <2>1, <2>2, <2>3 DEF ActivatedOnRow
  <1> QED
    BY <1>4, <1>5, <1>6, <1>7 DEF ReviewInv

\* Editors: how many edits are under way at a time.
LEMMA NoEditUnderWay ==
    ASSUME Editors <= 1, Cardinality(UnderWay("edit")) < Editors
    PROVE  \A s \in Requests : ~Editing(s)
  <1>1. UnderWay("edit") \in SUBSET Requests
    BY DEF UnderWay
  <1>2. IsFiniteSet(UnderWay("edit"))
    BY <1>1, FS_Subset, OperationalAgentsAssumption
  <1>3. Cardinality(UnderWay("edit")) = 0
    BY <1>2, FS_CardinalityType, OperationalAgentsAssumption
  <1>4. UnderWay("edit") = {}
    BY <1>2, <1>3, FS_EmptySet
  <1> QED
    BY <1>4 DEF UnderWay, Editing

\* With at most one edit in flight, every step keeps the review invariant.
LEMMA ReviewStep ==
    ASSUME Editors <= 1, ReviewInv, [ONext]_ovars
    PROVE  ReviewInv'
  <1>1. ASSUME NEW r \in Requests, NEW row, LoadAgent(r, row),
               /\ row.ver = version /\ row.op # "activating"
               /\ row.op = "preflight" => row.cfg = config
               /\ row.op = "edit" => \A s \in Requests : ~Editing(s)
        PROVE  ReviewInv'
    BY <1>1, RequestsMove DEF LoadAgent, readiness, lifecycle
  <1>2. ASSUME NEW r \in Requests, req' = [req EXCEPT ![r] = NoReq],
               UNCHANGED <<configuration, pre, activated, astatus, level>>
        PROVE  ReviewInv'
    BY <1>2, RequestsMove
  <1>3. ASSUME NEW r \in Requests, BeginEdit(r) PROVE ReviewInv'
    <2>1. \A s \in Requests : ~Editing(s)
      BY <1>3, NoEditUnderWay DEF BeginEdit
    <2> QED
      BY <1>1, <1>3, <2>1 DEF BeginEdit
  <1>4. ASSUME NEW r \in Requests, BeginPreflight(r) PROVE ReviewInv'
    BY <1>1, <1>4 DEF BeginPreflight
  <1>5. ASSUME NEW r \in Requests, BeginAcknowledge(r) PROVE ReviewInv'
    BY <1>1, <1>5 DEF BeginAcknowledge
  <1>6. ASSUME NEW r \in Requests, BeginActivate(r) PROVE ReviewInv'
    BY <1>1, <1>6 DEF BeginActivate
  <1>7. ASSUME NEW r \in Requests, CommitAcknowledge(r) \/ RefuseActivation(r) PROVE ReviewInv'
    BY <1>2, <1>7 DEF CommitAcknowledge, RefuseActivation, Ends, readiness, lifecycle
  <1>8. ASSUME UNCHANGED <<version, config, pre, activated, req>>, level' \in Levels,
               astatus' = "active" => astatus = "active"
        PROVE  ReviewInv'
    BY <1>8 DEF ReviewInv, OTypeOK, EditIsCurrent, Editing, NothingAhead, RowsAreHonest, ActivatedOnRow
  <1>9. ASSUME NEW v, DecideActivation(v) PROVE ReviewInv'
    BY <1>8, <1>9 DEF DecideActivation, configuration, lifecycle, ReviewInv, OTypeOK
  <1>10. CASE Pause \/ Retire \/ SetLevel
    BY <1>8, <1>10 DEF Pause, Retire, SetLevel, configuration, readiness, lifecycle, ReviewInv, OTypeOK
  <1>11. CASE UNCHANGED ovars
    BY <1>8, <1>11 DEF ovars, ReviewInv, OTypeOK
  <1> QED
    BY <1>3, <1>4, <1>5, <1>6, <1>7, <1>9, <1>10, <1>11, EditKeeps, PreflightKeeps,
       CheckKeeps, ActivateKeeps
       DEF ONext

\* With at most one edit in flight, the review invariant holds throughout.
LEMMA ReviewInvariant == ASSUME Editors <= 1 PROVE OSpec => []ReviewInv
  <1>1. OInit => ReviewInv
    BY DEF OInit, ReviewInv, OTypeOK, EditIsCurrent, Editing, NothingAhead, RowsAreHonest,
           ActivatedOnRow, Levels
  <1>2. ReviewInv /\ [ONext]_ovars => ReviewInv'
    BY ReviewStep
  <1> QED
    BY <1>1, <1>2, PTL DEF OSpec

\* An agent that runs without drift runs a configuration a preflight of its
\* version reviewed: for any number of overlapping preflights, acknowledgements,
\* approvals and activations, and one edit at a time (bump_version counts from
\* what an edit loaded, so two that overlap share a version).
THEOREM ActivationWasReviewed == ASSUME Editors <= 1 PROVE OSpec => []ActiveWasReviewed
  BY ReviewInvariant, ReviewIsInvariant, PTL

\* What such an agent may do unattended was approved for the configuration it
\* runs, under the same overlaps and the same hypothesis.
THEOREM UnattendedIsApproved == ASSUME Editors <= 1 PROVE OSpec => []UnattendedWasApproved
  BY ReviewInvariant, ReviewIsInvariant, PTL

=============================================================================
