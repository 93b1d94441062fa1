--------------------------- MODULE SupportAccess ----------------------------
(***************************************************************************)
(* Support access to one tenant in the Console: an engineer asks, a super  *)
(* administrator approves or denies, the grant admits its requester for    *)
(* SUPPORT_ACCESS_TTL_HOURS or until it is revoked.                        *)
(*                                                                         *)
(* A request to the API reads in one step and commits what it decided in a *)
(* later one, over whatever other requests have committed meanwhile; it    *)
(* writes only the columns it sets.                                        *)
(***************************************************************************)
EXTENDS Integers, FiniteSets

CONSTANTS
    Engineers,    \* platform_support users
    Tabs,         \* API requests at a time
    MaxEntries,   \* bound on SupportAccessLog rows
    TTL,          \* SUPPORT_ACCESS_TTL_HOURS
    MaxHour,      \* bound on the clock
    NoUser

Entries == 1..MaxEntries

ASSUME SupportAccessAssumption ==
    /\ NoUser \notin Engineers
    /\ TTL \in Nat \ {0} /\ MaxHour \in Nat /\ MaxEntries \in Nat

VARIABLES
    hour,
    log,       \* SupportAccessLog rows; who is NoUser where there is none
    tab,       \* what each API request is at
    consents,  \* observation: approvals that were committed, with their hour
    ended      \* observation: rows whose revocation was committed

savars == <<hour, log, tab, consents, ended>>

blank == [who |-> NoUser, status |-> "none", approved |-> 0, revoked |-> FALSE]
shut == [at |-> "shut", who |-> NoUser, entry |-> 0]

\* Mutant: get_active takes the status for the whole of a grant's state.
LiveByStatus(r) == log[r].status = "approved" /\ hour < log[r].approved + TTL

\* SupportAccessLogRepo.get_active: which rows are a live grant ...
Live(r) ==
    /\ log[r].status = "approved"
    /\ hour < log[r].approved + TTL
    /\ ~log[r].revoked

\* ... of the given requester, or of anybody; the one approved last comes first.
GetActive(users) ==
    LET live == {r \in Entries : log[r].who \in users /\ Live(r)}
    IN {r \in live : \A s \in live : log[s].approved <= log[r].approved}

GetPending(e) == {r \in Entries : log[r].who = e /\ log[r].status = "requested"}

\* request_support_access: neither an active grant nor a pending request.
AskAccess(t, e) ==
    /\ tab[t] = shut
    /\ GetActive({e}) = {} /\ GetPending(e) = {}
    /\ tab' = [tab EXCEPT ![t] = [shut EXCEPT !.at = "request", !.who = e]]
    /\ UNCHANGED <<hour, log, consents, ended>>

\* repo.request and the commit, unless uq_support_access_pending refuses it.
CommitRequest(t) ==
    LET e == tab[t].who
    IN /\ tab[t].at = "request"
       /\ \/ /\ GetPending(e) # {}
             /\ UNCHANGED log
          \/ /\ GetPending(e) = {}
             /\ \E r \in Entries :
                  /\ log[r] = blank /\ \A s \in Entries : s < r => log[s] # blank
                  /\ log' = [log EXCEPT ![r] = [blank EXCEPT !.who = e, !.status = "requested"]]
       /\ tab' = [tab EXCEPT ![t] = shut]
       /\ UNCHANGED <<hour, consents, ended>>

\* _settle_request, of a super administrator: loads the row and gates on
\* "requested".
SettleRequest(t, r, verb) ==
    /\ tab[t] = shut
    /\ log[r].status = "requested"
    /\ tab' = [tab EXCEPT ![t] = [shut EXCEPT !.at = verb, !.entry = r]]
    /\ UNCHANGED <<hour, log, consents, ended>>

\* repo.approve: the clock starts now.
CommitApproval(t) ==
    LET r == tab[t].entry
    IN /\ tab[t].at = "approve"
       /\ log' = [log EXCEPT ![r].status = "approved", ![r].approved = hour]
       /\ consents' = consents \cup {[entry |-> r, hour |-> hour]}
       /\ tab' = [tab EXCEPT ![t] = shut]
       /\ UNCHANGED <<hour, ended>>

CommitDenial(t) ==
    /\ tab[t].at = "deny"
    /\ log' = [log EXCEPT ![tab[t].entry].status = "denied"]
    /\ tab' = [tab EXCEPT ![t] = shut]
    /\ UNCHANGED <<hour, consents, ended>>

\* revoke_support_access: an engineer's own grant, or any for an administrator.
RevokeAccess(t, users) ==
    /\ tab[t] = shut
    /\ \E r \in GetActive(users) :
         tab' = [tab EXCEPT ![t] = [shut EXCEPT !.at = "revoke", !.entry = r]]
    /\ UNCHANGED <<hour, log, consents, ended>>

CommitRevocation(t) ==
    LET r == tab[t].entry
    IN /\ tab[t].at = "revoke"
       /\ log' = [log EXCEPT ![r].status = "revoked", ![r].revoked = TRUE]
       /\ ended' = ended \cup {r}
       /\ tab' = [tab EXCEPT ![t] = shut]
       /\ UNCHANGED <<hour, consents>>

\* The request fails before its commit.
CloseTab(t) ==
    /\ tab[t] # shut
    /\ tab' = [tab EXCEPT ![t] = shut]
    /\ UNCHANGED <<hour, log, consents, ended>>

HourPasses ==
    /\ hour < MaxHour /\ hour' = hour + 1
    /\ UNCHANGED <<log, tab, consents, ended>>

SAInit ==
    /\ hour = 0 /\ log = [r \in Entries |-> blank]
    /\ tab = [t \in Tabs |-> shut] /\ consents = {} /\ ended = {}

SANext ==
    \/ \E t \in Tabs :
         \/ \E e \in Engineers : AskAccess(t, e)
         \/ \E r \in Entries, verb \in {"approve", "deny"} : SettleRequest(t, r, verb)
         \/ \E users \in {{e} : e \in Engineers} \cup {Engineers} : RevokeAccess(t, users)
         \/ CommitRequest(t) \/ CommitApproval(t) \/ CommitDenial(t)
         \/ CommitRevocation(t) \/ CloseTab(t)
    \/ HourPasses

SASpec == SAInit /\ [][SANext]_savars

-----------------------------------------------------------------------------
(* Properties.                                                             *)

\* tenant_scope
AdmittedToTenant(e) == GetActive({e}) # {}

\* An engineer whom tenant_scope admits has a request of his own that an
\* administrator approved less than the TTL ago and that nobody revoked
\* since, although approvals, denials and revocations are committed over rows
\* that other requests have settled in between.
AdmittedWasApproved ==
    \A e \in Engineers : AdmittedToTenant(e) =>
      \E c \in consents : /\ log[c.entry].who = e
                          /\ hour < c.hour + TTL
                          /\ c.entry \notin ended

=============================================================================
