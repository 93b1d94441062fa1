---------------------------- MODULE ScopeGrants ----------------------------
(***************************************************************************)
(* The scope grants of one tenant and the rule that its last administrator *)
(* cannot be configured away (api/scope_grants.py, grant_integrity.py,     *)
(* scope.py, ScopeGrantRepo).                                              *)
(*                                                                         *)
(* A request resolves its caller's scope, loads the rows it is about, then *)
(* takes the tenant's lock, counts the administrators and writes.  What it *)
(* loaded before the lock it does not read again: the session returns the  *)
(* object it has, and its UPDATE names only the columns that differ from   *)
(* what was loaded.                                                        *)
(*                                                                         *)
(* Every grant names a role, so of its permissions only role.manage is     *)
(* kept; every token here holds role.manage.                               *)
(***************************************************************************)
EXTENDS Integers, FiniteSets

CONSTANTS
    People,    \* users of the tenant's realm
    GrantSites,     \* scopes other than the tenant
    Slots,     \* requests under way at a time
    Founder,   \* the owner tenant birth seeds
    MaxAsked,  \* bound on the number of requests
    NoRequest

GrantScopes == {"tenant"} \cup GrantSites
GrantRow == [state : {"none", "live", "revoked"}, admin : BOOLEAN,
        expiry : {"never", "later", "past"}]
NoRow == [state |-> "none", admin |-> FALSE, expiry |-> "never"]

ASSUME GrantsAssumption ==
    /\ "tenant" \notin GrantSites
    /\ Founder \in People
    /\ NoRequest \notin Slots
    /\ MaxAsked \in Nat

VARIABLES
    grants,     \* cc_scope_grants, by principal and scope
    mode,       \* scope_enforcement
    tenantLock, \* who holds the tenant's authorization lock
    asked,      \* the requests under way
    count,      \* requests so far
    overtaken   \* a row was written that had changed since it was loaded (history)

gvars == <<grants, mode, tenantLock, asked, count, overtaken>>

Keys == People \X GrantScopes

\* is_active
Active(row) == row.state = "live" /\ row.expiry # "past"

\* count_tenant_admins, over <<key, row>> pairs
AdminsAmong(pairs) ==
    {e[1][1] : e \in {x \in pairs : x[1][2] = "tenant" /\ Active(x[2]) /\ x[2].admin}}

\* ... with permanent_only
PermanentAmong(pairs) == AdminsAmong({x \in pairs : x[2].expiry = "never"})

Pairs(g) == {<<k, g[k]>> : k \in Keys}
Admins(g) == AdminsAmong(Pairs(g))
Permanent(g) == PermanentAmong(Pairs(g))

\* resolve: a principal no row ever named keeps, in the legacy posture, the
\* reach of the whole tenant.
NeverGranted(p) == \A s \in GrantScopes : grants[p, s].state = "none"

\* permits("role.manage", target)
Manages(p, s) ==
    \/ p \in Admins(grants)
    \/ Active(grants[p, s]) /\ grants[p, s].admin
    \/ mode = "legacy_open" /\ NeverGranted(p)

-----------------------------------------------------------------------------
(* A request: [at, op, key, to, new] with the rows it loaded.              *)

Begin(r, op, key, to, new) ==
    /\ asked[r] = NoRequest
    /\ count < MaxAsked /\ count' = count + 1
    /\ asked' = [asked EXCEPT ![r] =
                   [at |-> "loaded", op |-> op, key |-> key, to |-> to, new |-> new,
                    seen |-> grants[key], seenTo |-> grants[to]]]
    /\ UNCHANGED <<grants, mode, tenantLock, overtaken>>

\* create_grant, up to the lock: no self-grant, reach over the target.
AskGrant(r, caller, key, admin, expiry) ==
    /\ caller # key[1] /\ Manages(caller, key[2])
    /\ Begin(r, "grant", key, key, [state |-> "live", admin |-> admin, expiry |-> expiry])

\* reassign_grant, up to the lock: reach over both targets.
AskReassign(r, caller, key, s) ==
    /\ caller # key[1] /\ s # key[2]
    /\ Manages(caller, key[2]) /\ Manages(caller, s)
    /\ grants[key].state = "live"
    /\ Begin(r, "reassign", key, <<key[1], s>>, grants[key])

\* revoke_grant, up to the lock; one's own grant too, and a revoked one.
AskRevoke(r, caller, key) ==
    /\ Manages(caller, key[2])
    /\ grants[key].state # "none"
    /\ Begin(r, "revoke", key, key, NoRow)

\* set_enforcement, up to the lock.
AskMode(r, caller, m) ==
    /\ Manages(caller, "tenant")
    /\ Begin(r, m, <<caller, "tenant">>, <<caller, "tenant">>, NoRow)

\* exclude_ids: the rows of the request that it found before the lock.
Leaving(q) ==
    (IF q.op \in {"revoke", "reassign"} THEN {q.key} ELSE {})
      \cup (IF q.op \in {"grant", "reassign"} /\ q.seenTo.state # "none" THEN {q.to} ELSE {})

\* A loaded row's time runs out with the row's.
Aged(row, now) ==
    IF row.expiry = "later" /\ now.expiry = "past" THEN [row EXCEPT !.expiry = "past"] ELSE row

\* list_all, in the request's session: the rows not revoked, and of those the
\* request holds the objects it has, as they were loaded.
View(q) ==
    [k \in Keys |-> IF k \notin Leaving(q) \/ grants[k].state # "live" THEN grants[k]
                    ELSE Aged(IF k = q.key THEN q.seen ELSE q.seenTo, grants[k])]

\* admin_transition: without those rows, with the replacement.
After(q) ==
    {x \in Pairs(View(q)) : x[1] \notin Leaving(q)}
      \cup (IF q.op \in {"grant", "reassign"} THEN {<<q.to, q.new>>} ELSE {})

\* AdminTransition.removes_last
RemovesLast(before, after) ==
    \/ AdminsAmong(before) # {} /\ AdminsAmong(after) = {}
    \/ PermanentAmong(before) # {} /\ PermanentAmong(after) = {}

\* Mutant: the count is not serialized.
LockFreeAlways == TRUE

\* pg_advisory_chain_lock
LockFree == tenantLock = NoRequest

\* guard_last_admin, and the preflight of the strict flip.
RefusedByGuard(q) ==
    IF q.op = "strict" THEN Admins(grants) = {} ELSE RemovesLast(Pairs(View(q)), After(q))

Guard(r) ==
    LET q == asked[r] IN
    /\ q # NoRequest /\ q.at = "loaded"
    /\ q.op # "legacy_open" /\ ~(q.op = "revoke" /\ q.seen.state = "revoked")
    /\ LockFree
    /\ IF RefusedByGuard(q)
       THEN asked' = [asked EXCEPT ![r] = NoRequest] /\ UNCHANGED tenantLock
       ELSE asked' = [asked EXCEPT ![r].at = "counted"] /\ tenantLock' = r
    /\ UNCHANGED <<grants, mode, count, overtaken>>

\* What the UPDATE of a loaded row leaves in the table: the columns that are
\* set to the value they were loaded with are not written.
Updated(now, seen, new) ==
    [now EXCEPT !.state = IF new.state # seen.state THEN new.state ELSE @,
                !.admin = IF new.admin # seen.admin THEN new.admin ELSE @,
                !.expiry = IF new.expiry # seen.expiry THEN new.expiry ELSE @]

\* ScopeGrantRepo.grant: a row that was not there when it was looked for is
\* found now, and read for the first time.
Granted(q, k) ==
    IF q.seenTo.state = "none" THEN q.new ELSE Updated(grants[k], q.seenTo, q.new)

\* The write and the commit, which frees the lock.
Write(r) ==
    LET q == asked[r] IN
    /\ q # NoRequest
    /\ \/ q.at = "counted"
       \/ q.op = "legacy_open" \/ (q.op = "revoke" /\ q.seen.state = "revoked")
    /\ grants' = [k \in Keys |->
          IF q.op \in {"grant", "reassign"} /\ k = q.to THEN Granted(q, k)
          ELSE IF q.op \in {"revoke", "reassign"} /\ k = q.key
               THEN [grants[k] EXCEPT !.state = "revoked"]
          ELSE grants[k]]
    /\ mode' = IF q.op \in {"strict", "legacy_open"} THEN q.op ELSE mode
    /\ overtaken' = (overtaken \/ grants[q.key] # q.seen \/ grants[q.to] # q.seenTo)
    /\ tenantLock' = IF tenantLock = r THEN NoRequest ELSE tenantLock
    /\ asked' = [asked EXCEPT ![r] = NoRequest]
    /\ UNCHANGED count

\* A later check refuses the request, or it fails: its transaction is rolled
\* back and the lock is free.
Abandon(r) ==
    /\ asked[r] # NoRequest
    /\ asked' = [asked EXCEPT ![r] = NoRequest]
    /\ tenantLock' = IF tenantLock = r THEN NoRequest ELSE tenantLock
    /\ UNCHANGED <<grants, mode, count, overtaken>>

\* A grant's time is over.
Expire(k) ==
    /\ grants[k].expiry = "later"
    /\ grants' = [grants EXCEPT ![k].expiry = "past"]
    /\ UNCHANGED <<mode, tenantLock, asked, count, overtaken>>

\* seed_tenant_birth, or an older tenant pinned to the legacy posture.
GInit ==
    /\ \/ /\ mode = "strict"
          /\ grants = [k \in Keys |-> IF k = <<Founder, "tenant">>
                                      THEN [state |-> "live", admin |-> TRUE, expiry |-> "never"]
                                      ELSE NoRow]
       \/ mode = "legacy_open" /\ grants = [k \in Keys |-> NoRow]
    /\ tenantLock = NoRequest
    /\ asked = [r \in Slots |-> NoRequest]
    /\ count = 0 /\ overtaken = FALSE

Ask(r, caller) ==
    \/ \E k \in Keys : AskRevoke(r, caller, k)
    \/ \E k \in Keys, admin \in BOOLEAN, e \in {"never", "later"} : AskGrant(r, caller, k, admin, e)
    \/ \E k \in Keys, s \in GrantScopes : AskReassign(r, caller, k, s)
    \/ \E m \in {"strict", "legacy_open"} : AskMode(r, caller, m)

GNext ==
    \/ \E r \in Slots, caller \in People : Ask(r, caller)
    \/ \E r \in Slots : Guard(r) \/ Write(r) \/ Abandon(r)
    \/ \E k \in Keys : Expire(k)

GSpec == GInit /\ [][GNext]_gvars

-----------------------------------------------------------------------------
(* Properties.                                                             *)

\* A23.8: "the last administrator cannot be configured away", whichever
\* requests of whichever administrators overlap and whatever the clock does.
LastAdminStays == [][Permanent(grants) # {} => Permanent(grants') # {}]_gvars

\* The same as long as no request wrote a row that somebody else had changed
\* since it was loaded; and a tenant becomes strict only with an administrator
\* (whose grant may run out at that moment).
LastAdminIsGuarded ==
    [][~overtaken' =>
         /\ Permanent(grants) # {} => Permanent(grants') # {}
         /\ (mode = "legacy_open" /\ mode' = "strict") =>
              \E p \in People : /\ grants'[<<p, "tenant">>].state = "live"
                                /\ grants'[<<p, "tenant">>].admin]_gvars

=============================================================================
