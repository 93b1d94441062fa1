------------------------------ MODULE Billing -------------------------------
(***************************************************************************)
(* The billing of one tenant in the Console: usage reports, true-up        *)
(* invoices, payments an administrator records, and the tenant's           *)
(* delinquency status, which a payment and an hourly reconciler both move. *)
(*                                                                         *)
(* Both work in a database transaction: what another transaction has not   *)
(* committed is not seen, a row that another one wrote cannot be written   *)
(* until it ends, and the first audit entry of a transaction takes a lock  *)
(* on the audit chain that is held to its end.  A payment takes the chain  *)
(* and then the tenant's row, the reconciler the row and then the chain;   *)
(* the database ends one of two transactions that wait for each other.     *)
(***************************************************************************)
EXTENDS Integers, FiniteSetsExt

CONSTANTS
    Cashiers,      \* administrators' manual-payment requests, at a time
    Reconciler,
    MaxInvoices,   \* bound on invoices
    NodeCommit,    \* sub.node_commit
    Counts,        \* node counts that usage reports carry
    Terms,         \* time from issue to due_at: 30 days in the code
    Day,           \* units of the clock in a day
    Grace,         \* days overdue before "restricted": 14 in the code
    MaxTime,       \* bound on the clock
    MaxAborts,     \* bound on requests and passes that fail
    NoInvoice

Bookkeepers == Cashiers \cup {Reconciler}
Invoices == 1..MaxInvoices

ASSUME BillingAssumption ==
    /\ Reconciler \notin Cashiers /\ NoInvoice \notin Invoices
    /\ Day \in Nat \ {0} /\ {Terms, Grace, MaxTime, MaxAborts} \subseteq Nat

VARIABLES
    clock,
    peak,      \* the largest node count on record for the period
    due,       \* Invoice.due_at of the invoices issued so far
    settled,   \* the invoices whose status is "paid"
    standing,  \* Tenant.delinquency_status
    books,     \* what each bookkeeper is at, and what it read
    aborts

bvars == <<clock, peak, due, settled, standing, books, aborts>>
closed == [at |-> "closed", inv |-> NoInvoice, saw |-> "current", verdict |-> "current"]

\* Usage reports count by their maximum (get_high_water); one that does not
\* raise it changes nothing here.
HighWater(n) == IF n > peak THEN n ELSE peak
ReportUsage(n) ==
    /\ n > peak
    /\ peak' = HighWater(n)
    /\ UNCHANGED <<clock, due, settled, standing, books, aborts>>

\* generate_all_trueups, for this tenant: an invoice whenever it is asked for.
TrueUp ==
    /\ peak > NodeCommit
    /\ Cardinality(DOMAIN due) < MaxInvoices
    /\ due' = [i \in 1..(Cardinality(DOMAIN due) + 1) |->
                 IF i \in DOMAIN due THEN due[i] ELSE clock + Terms]
    /\ UNCHANGED <<clock, peak, settled, standing, books, aborts>>

ClockTick ==
    /\ clock < MaxTime /\ clock' = clock + 1
    /\ UNCHANGED <<peak, due, settled, standing, books, aborts>>

\* InvoiceRepo.list_overdue and, in check_delinquency, days_overdue.
Overdue(paid) == {i \in DOMAIN due : i \notin paid /\ due[i] < clock}
DaysOverdue(paid) == (clock - Min({due[i] : i \in Overdue(paid)})) \div Day

\* Mutant: once restricted, a tenant stays restricted.
NewStandingSticky(current, paid) ==
    IF Overdue(paid) = {} THEN (IF current = "restricted" THEN current ELSE "current")
    ELSE IF DaysOverdue(paid) >= Grace THEN "restricted"
    ELSE IF DaysOverdue(paid) > 0 /\ current = "current" THEN "overdue"
    ELSE current

\* check_delinquency
NewStanding(current, paid) ==
    IF Overdue(paid) = {} THEN "current"
    ELSE IF DaysOverdue(paid) >= Grace /\ current \notin {"restricted", "suspended"} THEN "restricted"
    ELSE IF DaysOverdue(paid) > 0 /\ current = "current" THEN "overdue"
    ELSE current

\* Who holds the lock on the audit chain, and who has written the tenant's row.
HoldsChain(b) ==
    books[b].at \in (IF b = Reconciler THEN {"commit"} ELSE {"load", "judge", "write", "commit"})
HoldsTenant(b) ==
    books[b].at \in {"audit", "commit"} /\ books[b].verdict # books[b].saw
ChainFree == \A b \in Bookkeepers : ~HoldsChain(b)
TenantFree == \A b \in Bookkeepers : ~HoldsTenant(b)

\* manual_payment: the invoice is read and must be open.
ManualPayment(c, i) ==
    /\ books[c] = closed
    /\ i \in DOMAIN due \ settled
    /\ books' = [books EXCEPT ![c] = [closed EXCEPT !.at = "gated", !.inv = i]]
    /\ UNCHANGED <<clock, peak, due, settled, standing, aborts>>

\* _reconcile_once: the hourly pass comes to this tenant.
Reconcile ==
    /\ books[Reconciler] = closed
    /\ books' = [books EXCEPT ![Reconciler] = [closed EXCEPT !.at = "load"]]
    /\ UNCHANGED <<clock, peak, due, settled, standing, aborts>>

\* The first AuditRepo.append of the transaction: "invoice.paid" after the
\* invoice was written, or the reconciler's "delinquency.transition".
TakeChain(b) ==
    /\ ChainFree
    /\ books[b].at = (IF b = Reconciler THEN "audit" ELSE "gated")
    /\ books' = [books EXCEPT ![b].at = IF b = Reconciler THEN "commit" ELSE "load"]
    /\ UNCHANGED <<clock, peak, due, settled, standing, aborts>>

\* check_delinquency reads the tenant, and then the overdue invoices.
LoadTenant(b) ==
    /\ books[b].at = "load"
    /\ books' = [books EXCEPT ![b].at = "judge", ![b].saw = standing]
    /\ UNCHANGED <<clock, peak, due, settled, standing, aborts>>

Judge(b) ==
    LET v == NewStanding(books[b].saw, settled \cup {books[b].inv})
    IN /\ books[b].at = "judge"
       /\ books' = [books EXCEPT
            ![b] = IF v # books[b].saw THEN [@ EXCEPT !.at = "write", !.verdict = v]
                   ELSE IF b = Reconciler THEN closed
                   ELSE [@ EXCEPT !.at = "commit", !.verdict = v]]
       /\ UNCHANGED <<clock, peak, due, settled, standing, aborts>>

\* _transition writes the tenant's row.
WriteTenant(b) ==
    /\ books[b].at = "write" /\ TenantFree
    /\ books' = [books EXCEPT ![b].at = IF b = Reconciler THEN "audit" ELSE "commit"]
    /\ UNCHANGED <<clock, peak, due, settled, standing, aborts>>

CommitBooks(b) ==
    /\ books[b].at = "commit"
    /\ settled' = settled \cup ({books[b].inv} \ {NoInvoice})
    /\ standing' = IF books[b].verdict # books[b].saw THEN books[b].verdict ELSE standing
    /\ books' = [books EXCEPT ![b] = closed]
    /\ UNCHANGED <<clock, peak, due, aborts>>

\* The reconciler has the row and waits for the chain, a payment the reverse:
\* the database rolls one of them back, and the other gets what it waits for.
BreakDeadlock(c, victim) ==
    /\ books[Reconciler].at = "audit" /\ books[c].at = "write"
    /\ books' = [b \in Bookkeepers |->
                   IF b = victim THEN closed
                   ELSE IF b \in {c, Reconciler} THEN [books[b] EXCEPT !.at = "commit"]
                   ELSE books[b]]
    /\ UNCHANGED <<clock, peak, due, settled, standing, aborts>>

\* A request or a pass fails and is rolled back; the reconciler tries again an
\* hour later.
Rollback(b) ==
    /\ books[b].at \notin {"closed", "gated"}
    /\ aborts < MaxAborts /\ aborts' = aborts + 1
    /\ books' = [books EXCEPT ![b] = closed]
    /\ UNCHANGED <<clock, peak, due, settled, standing>>

BInit ==
    /\ clock = 0 /\ peak = 0 /\ due = [i \in {} |-> 0] /\ settled = {}
    /\ standing = "current"
    /\ books = [b \in Bookkeepers |-> closed] /\ aborts = 0

BNext ==
    \/ \E n \in Counts : ReportUsage(n)
    \/ TrueUp \/ ClockTick \/ Reconcile
    \/ \E c \in Cashiers, i \in Invoices : ManualPayment(c, i)
    \/ \E b \in Bookkeepers :
         \/ TakeChain(b) \/ LoadTenant(b) \/ Judge(b) \/ WriteTenant(b)
         \/ CommitBooks(b) \/ Rollback(b)
    \/ \E c \in Cashiers : \E victim \in {c, Reconciler} : BreakDeadlock(c, victim)

BSpec == BInit /\ [][BNext]_bvars

-----------------------------------------------------------------------------
(* Fairness and liveness.                                                  *)

\* The reconciler's loop goes on after every exception, a request handler
\* runs on, a lock that is free is granted, and the database ends a deadlock.
BFairness ==
    /\ \A b \in Bookkeepers :
         WF_bvars(\/ b = Reconciler /\ (Reconcile \/ TakeChain(b))
                  \/ LoadTenant(b) \/ Judge(b) \/ WriteTenant(b) \/ CommitBooks(b))
    /\ WF_bvars(\E c \in Cashiers : \E victim \in {c, Reconciler} : BreakDeadlock(c, victim))

BFairSpec == BSpec /\ BFairness

\* However payments and reconciler passes overlap, fail or end in a deadlock,
\* once the invoices and the clock come to rest, as the bounds make them, the
\* tenant's status comes to agree with its invoices: current when nothing is
\* overdue, not current when something is overdue by a day, restricted when
\* something is overdue by the whole grace.  The verdict of a payment or of a
\* pass on invoices that have changed since does not last.
StandingConverges ==
    <>[] IF Overdue(settled) = {} THEN standing = "current"
         ELSE /\ DaysOverdue(settled) > 0 => standing # "current"
              /\ DaysOverdue(settled) >= Grace => standing = "restricted"

=============================================================================
