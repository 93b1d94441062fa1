---------------------------- MODULE StopSwitches ----------------------------
(***************************************************************************)
(* The stop switches and the halt they amount to at one site.              *)
(*                                                                         *)
(* Central Command keeps the tenant's stop in cc_stop_switch and pushes it *)
(* to the Site Manager on every flip and on every fleet poll               *)
(* (policy_push.py, fleet_poller.py).  The Site Manager keeps the halts of *)
(* three scopes in rows (stopswitch.py) and one flag in memory             *)
(* (autonomy.py); a site is halted when either says so.                    *)
(*                                                                         *)
(* A push carries the value its sender read, travels on its own channel    *)
(* and may be overtaken.  Pushes and commits of equal value are            *)
(* idempotent, so the ones in flight form a set.                           *)
(***************************************************************************)
EXTENDS Naturals

CONSTANTS
    Used,        \* the controls operators use
    MaxOps,      \* bound on their changes
    MaxDisruptions    \* bound on restarts and lost pushes

Scopes == {"tenant", "site", "site_manager"}

ASSUME SwitchAssumption ==
    /\ Used \subseteq Scopes \cup {"break_glass", "recovery"}
    /\ MaxOps \in Nat /\ MaxDisruptions \in Nat

VARIABLES
    ccStop,     \* cc_stop_switch of the tenant
    pushes,     \* PushPolicy requests on their way
    flag,       \* SMAutonomyEnforcer._stop_switch
    writing,    \* PushPolicy handlers between the flag and the row
    rows,       \* sm_stop_switches: the halt of each scope
    ops,        \* changes made by operators
    disruptions      \* restarts and losses

switchVars == <<ccStop, pushes, flag, writing, rows, ops, disruptions>>

SwitchTypeOK ==
    /\ ccStop \in BOOLEAN /\ flag \in BOOLEAN
    /\ pushes \subseteq BOOLEAN /\ writing \subseteq BOOLEAN
    /\ rows \in [Scopes -> BOOLEAN]
    /\ ops \in 0..MaxOps /\ disruptions \in Nat

-----------------------------------------------------------------------------

\* Variant for mutation: the rows alone decide.
HaltedByRows == \E s \in Scopes : rows[s]

\* site_halted: a persisted halt, or the flag.
Halted == flag \/ \E s \in Scopes : rows[s]

Operate(control) == control \in Used /\ ops < MaxOps /\ ops' = ops + 1

Fault == disruptions < MaxDisruptions /\ disruptions' = disruptions + 1

\* Central Command: the tenant's switch is flipped and pushed.
FlipTenantStop ==
    /\ Operate("tenant")
    /\ ccStop' = ~ccStop
    /\ pushes' = pushes \cup {~ccStop}
    /\ UNCHANGED <<flag, writing, rows, disruptions>>

\* The fleet poller pushes what the row says.  (Used without
\* "tenant" stands for a site that no Central Command manages.)
PollerPush ==
    /\ "tenant" \in Used
    /\ pushes' = pushes \cup {ccStop}
    /\ UNCHANGED <<ccStop, flag, writing, rows, ops, disruptions>>

PushLost(v) ==
    /\ v \in pushes
    /\ Fault
    /\ pushes' = pushes \ {v}
    /\ UNCHANGED <<ccStop, flag, writing, rows, ops>>

\* PushPolicy up to its await: a value that differs from the flag sets it.
PushPolicy(v) ==
    /\ v \in pushes
    /\ pushes' = pushes \ {v}
    /\ IF v # flag THEN flag' = v /\ writing' = writing \cup {v}
                   ELSE UNCHANGED <<flag, writing>>
    /\ UNCHANGED <<ccStop, rows, ops, disruptions>>

\* ... and the tenant's row is committed (set_halt).
PushCommit(v) ==
    /\ v \in writing
    /\ writing' = writing \ {v}
    /\ rows' = [rows EXCEPT !["tenant"] = v]
    /\ UNCHANGED <<ccStop, pushes, flag, ops, disruptions>>

\* The site's stop and the emergency halt of the local API.
SetHalt(scope) ==
    /\ scope \in {"site", "site_manager"}
    /\ Operate(scope)
    /\ rows' = [rows EXCEPT ![scope] = ~@]
    /\ UNCHANGED <<ccStop, pushes, flag, writing, disruptions>>

\* The break-glass switch of the local API: the flag alone.
SetStopSwitch ==
    /\ Operate("break_glass")
    /\ flag' = ~flag
    /\ UNCHANGED <<ccStop, pushes, writing, rows, disruptions>>

\* A restart keeps the rows and forgets the flag and the running handlers.
SmRestart ==
    /\ Fault
    /\ flag' = FALSE /\ writing' = {}
    /\ UNCHANGED <<ccStop, pushes, rows, ops>>

-----------------------------------------------------------------------------
SwitchInit ==
    /\ ccStop = FALSE /\ pushes = {}
    /\ flag = FALSE /\ writing = {}
    /\ rows = [s \in Scopes |-> FALSE]
    /\ ops = 0 /\ disruptions = 0

\* The steps that concern the switches alone.
Switching ==
    \/ FlipTenantStop \/ PollerPush
    \/ \E v \in BOOLEAN : PushLost(v) \/ PushPolicy(v) \/ PushCommit(v)
    \/ \E s \in Scopes : SetHalt(s)
    \/ SetStopSwitch

SwitchNext == Switching \/ SmRestart

SwitchSpec == SwitchInit /\ [][SwitchNext]_switchVars

\* The fleet poller runs for ever; a push that is not lost is served and a
\* handler that is not killed reaches its commit.
SwitchFairness ==
    /\ WF_switchVars(PollerPush)
    /\ \A v \in BOOLEAN : /\ WF_switchVars(PushPolicy(v))
                          /\ WF_switchVars(PushCommit(v))

SwitchFairSpec == SwitchSpec /\ SwitchFairness

-----------------------------------------------------------------------------
\* A tenant stop that stays reaches the site and stays in force, though
\* pushes are lost or overtaken, the Site Manager restarts between the flag
\* and the row and local operators use their own switches.
StopConverges == <>[]ccStop => <>[]Halted

\* fleet_poller.py: the push of each cycle re-converges the stop switch ("an
\* SM restart or missed immediate push heals here"), its lifting too.
LiftConverges == <>[]~ccStop => <>[]~rows["tenant"]

=============================================================================
