---------------------------- MODULE WorkRegister ----------------------------
(***************************************************************************)
(* What the dispatch contract promises (harkeniq/dispatch_idempotency.py): *)
(* one idempotency key names at most one piece of work, the work a key     *)
(* names never changes, and it is executed at most once.  The Site         *)
(* Manager's directive queue (Directives) and Central Command's view of it *)
(* (Proposals) both implement this specification.                          *)
(***************************************************************************)
EXTENDS Naturals

CONSTANTS
    WorkKeys,  \* idempotency keys
    WorkItems, \* pieces of work
    Nothing    \* no work accepted yet

VARIABLES
    accepted,  \* the work each key names
    executed   \* how often its work was begun on the device

wvars == <<accepted, executed>>

WInit ==
    /\ accepted = [k \in WorkKeys |-> Nothing]
    /\ executed = [k \in WorkKeys |-> 0]

\* A key is bound to a piece of work, once and for all.
Accept(k, w) ==
    /\ accepted[k] = Nothing
    /\ accepted' = [accepted EXCEPT ![k] = w]
    /\ UNCHANGED executed

\* Its work is begun, once.
Execute(k) ==
    /\ accepted[k] # Nothing
    /\ executed[k] = 0
    /\ executed' = [executed EXCEPT ![k] = 1]
    /\ UNCHANGED accepted

WNext == \E k \in WorkKeys : Execute(k) \/ \E w \in WorkItems : Accept(k, w)

WSpec == WInit /\ [][WNext]_wvars

=============================================================================
