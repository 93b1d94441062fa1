---------------------------- MODULE Suppression ----------------------------
(***************************************************************************)
(* Correlated-conclusion suppression of one fault domain at a Site Manager *)
(* (suppression.py, and the calls of correlation/engine.py that feed it).  *)
(* While a domain is suppressed, its agents' leases forbid autonomous work.*)
(*                                                                         *)
(* The engine works on the same onset hooks and the same sweep as          *)
(* SiteIncidents; it neither reads nor writes the incidents, so the two    *)
(* modules are separate views of the handlers.  All of its state is in     *)
(* memory.  Ingest commits a member's state before it calls the hook, and  *)
(* the hook waits for the lock the sweep holds.                            *)
(***************************************************************************)
EXTENDS Integers, FiniteSets

CONSTANTS
    Watched,      \* <<device, event family>> of the domain's devices
    Governed,     \* the families with a policy for this kind of domain
    Threshold,    \* the policy's device count
    Span,         \* the policy's window_seconds, in ticks
    Stability,    \* STABILITY_PERIOD
    HairTrigger,  \* HAIR_TRIGGER_WINDOW
    MaxClock,     \* bound on the clock
    MaxRestarts   \* bound on restarts of the Site Manager

ASSUME SuppressionAssumption ==
    /\ IsFiniteSet(Watched)
    /\ Threshold \in [Governed -> Nat \ {0}] /\ Span \in [Governed -> Nat]
    /\ Stability \in Nat /\ HairTrigger \in Nat
    /\ MaxClock \in Nat /\ MaxRestarts \in Nat

Unset == -1

VARIABLES
    clock,      \* time.time()
    sick,       \* members whose stored state is not OK
    waiting,    \* onset hooks that wait for the lock
    recent,     \* _recent: events kept, per family
    active,     \* the domain is in _active
    clearAt,    \* SuppressionState.all_clear_at
    hairAt,     \* _hair_trigger
    reading,    \* what the sweep read: "no" sweep, "healthy" or "sick"
    restarts,
    \* Observation; no action reads it.
    served      \* when a member's onset was last evaluated since the last
                \* release or restart

svars == <<clock, sick, waiting, recent, active, clearAt, hairAt, reading,
           restarts, served>>
world == <<clock, sick>>
engine == <<recent, active, clearAt, hairAt>>

Families == {u[2] : u \in Watched}
NoneServed == [u \in Watched |-> Unset]

-----------------------------------------------------------------------------
\* Ingest commits the fault, a warning or worse (milder onsets are not
\* evaluated), and calls the hook.
FallIll(u) ==
    /\ u \notin sick
    /\ sick' = sick \cup {u} /\ waiting' = waiting \cup {u}
    /\ UNCHANGED <<clock, engine, reading, restarts, served>>

GetWell(u) ==
    /\ u \in sick /\ sick' = sick \ {u}
    /\ UNCHANGED <<clock, waiting, engine, reading, restarts, served>>

\* Mutant: only the events of this very moment are kept.
TrimAll(events, f) == {e \in events : e.at = clock}

\* _trim_window
Trim(events, f) == {e \in events : e.at > clock - Span[f]}

Distinct(events) == {e.device : e \in events}

\* evaluate, under the engine's lock: a suppressed domain learns nothing; one
\* that recovered lately is suppressed at once; otherwise the devices of the
\* window are counted.
Evaluate(u) ==
    LET f == u[2]
        event == [device |-> u[1], at |-> clock]
        kept == Trim(recent[f] \cup {event}, f)
        hair == hairAt # Unset /\ clock - hairAt < HairTrigger
        counts == ~active /\ ~hair /\ f \in Governed
        trigger == ~active /\ (hair \/ (counts /\ Cardinality(Distinct(kept)) >= Threshold[f]))
    IN /\ reading = "no"
       /\ u \in waiting /\ waiting' = waiting \ {u}
       /\ recent' = IF counts THEN [recent EXCEPT ![f] = kept] ELSE recent
       /\ active' = (active \/ trigger)
       /\ clearAt' = IF trigger THEN Unset ELSE clearAt
       /\ served' = [served EXCEPT ![u] = clock]
       /\ UNCHANGED <<world, hairAt, reading, restarts>>

\* _suppression_recovery: the members' states are read ...
SweepReads ==
    /\ active /\ reading = "no"
    /\ reading' = IF sick = {} THEN "healthy" ELSE "sick"
    /\ UNCHANGED <<world, waiting, engine, restarts, served>>

\* The stability clock after a check that does not release the domain.
ClearNext(healthy) ==
    IF ~healthy THEN Unset ELSE IF clearAt = Unset THEN clock ELSE clearAt

\* ... and check_auto_recovery judges by them.
SweepChecks ==
    LET healthy == reading = "healthy"
        release == active /\ healthy /\ clearAt # Unset /\ clock - clearAt >= Stability
    IN /\ reading # "no" /\ reading' = "no"
       /\ active' = (active /\ ~release)
       /\ hairAt' = IF release THEN clock ELSE hairAt
       /\ clearAt' = IF release \/ ~active THEN Unset ELSE ClearNext(healthy)
       /\ served' = IF release THEN NoneServed ELSE served
       /\ UNCHANGED <<world, waiting, recent, restarts>>

\* human_re_enable, from a request of its own that takes no lock.
ReEnable ==
    /\ active /\ active' = FALSE
    /\ clearAt' = Unset /\ served' = NoneServed
    /\ UNCHANGED <<world, waiting, recent, hairAt, reading, restarts>>

\* SuppressionEngine(): nothing survives the process; neither do its hooks.
RestartEngine ==
    /\ restarts < MaxRestarts /\ restarts' = restarts + 1
    /\ waiting' = {} /\ reading' = "no" /\ served' = NoneServed
    /\ recent' = [f \in Families |-> {}]
    /\ active' = FALSE /\ clearAt' = Unset /\ hairAt' = Unset
    /\ UNCHANGED <<world>>

Pass ==
    /\ clock < MaxClock /\ clock' = clock + 1
    /\ UNCHANGED <<sick, waiting, engine, reading, restarts, served>>

SInit ==
    /\ clock = 0 /\ sick = {} /\ waiting = {}
    /\ recent = [f \in Families |-> {}]
    /\ active = FALSE /\ clearAt = Unset /\ hairAt = Unset
    /\ reading = "no" /\ restarts = 0 /\ served = NoneServed

SNext ==
    \/ \E u \in Watched : FallIll(u) \/ GetWell(u) \/ Evaluate(u)
    \/ SweepReads \/ SweepChecks \/ ReEnable \/ RestartEngine \/ Pass

SSpec == SInit /\ [][SNext]_svars

-----------------------------------------------------------------------------
(* Properties.                                                             *)

\* Onsets of enough devices within the policy's window suppress the domain, and
\* so does a single one within the hair-trigger window of an automatic
\* release: it stays suppressed until it is released or the process restarts,
\* also if the sick member was not in the states the releasing sweep had read.
CorrelatedIsSuppressed ==
    \A u \in {v \in Watched : served[v] # Unset} :
      \/ active
      \/ /\ hairAt = Unset \/ served[u] < hairAt \/ served[u] - hairAt >= HairTrigger
         /\ u[2] \in Governed =>
              Cardinality({v[1] : v \in {w \in Watched :
                  /\ w[2] = u[2] /\ served[w] # Unset /\ served[w] <= served[u]
                  /\ served[w] > served[u] - Span[u[2]]}}) < Threshold[u[2]]

=============================================================================
