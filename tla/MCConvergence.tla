--------------------------- MODULE MCConvergence ----------------------------
(* What must eventually happen, component by component (see MCSiteParts).    *)
EXTENDS MCProposals, MCSiteApprovals, MCStopSwitches, Billing

VARIABLE focus

Parts == {"proposals", "approvals", "switches", "billing"}

ConvInit ==
    /\ focus \in Parts
    /\ PInit /\ Init /\ SwitchInit /\ BInit

ConvNext ==
    /\ focus' = focus
    /\ \/ focus = "proposals" /\ PNext /\ UNCHANGED <<vars, switchVars, bvars>>
       \/ focus = "approvals" /\ Next /\ UNCHANGED <<pvars, switchVars, bvars>>
       \/ focus = "switches" /\ SwitchNext /\ UNCHANGED <<pvars, vars, bvars>>
       \/ focus = "billing" /\ BNext /\ UNCHANGED <<pvars, vars, switchVars>>

ConvSpec ==
    ConvInit /\ [][ConvNext]_<<focus, pvars, vars, switchVars, bvars>>

\* PFairness, Fairness, SwitchFairness and BFairness, each for the component in
\* focus.
ConvFairness ==
    /\ \A s \in Passes, p \in Props : SF_pvars(focus = "proposals" /\ Pick(s, p))
    /\ \A s \in Passes :
          WF_pvars(focus = "proposals" /\ (Gate(s) \/ Withhold(s) \/ Claim(s)))
    /\ \A s \in Senders : WF_pvars(focus = "proposals" /\ (SmAnswer(s) \/ Record(s)))
    /\ \A p \in Props :
          /\ WF_pvars(focus = "proposals" /\ \E o \in {"SUCCESS", "FAILURE"} : Ingest(p, o))
          /\ WF_pvars(focus = "proposals" /\ Settle(p))
    /\ \A a \in Actions :
          /\ WF_vars(focus = "approvals" /\ SendReport(a))
          /\ WF_vars(focus = "approvals" /\ Serve(a))
          /\ WF_vars(focus = "approvals"
                     /\ (Execute(a) \/ \E s \in {"COMPLETED", "FAILED"} : Finish(a, s)))
    /\ \A h \in Pollers : WF_vars(focus = "approvals" /\ PollCommit(h))
    /\ \A v \in Devices : /\ WF_vars(focus = "approvals" /\ Answer(v))
                          /\ WF_vars(focus = "approvals" /\ StartPoll(v))
                          /\ WF_vars(focus = "approvals" /\ ApplyDecisions(v))
    /\ \A o \in Operators : WF_vars(focus = "approvals" /\ Commit(o))
    /\ WF_switchVars(focus = "switches" /\ PollerPush)
    /\ \A v \in BOOLEAN : /\ WF_switchVars(focus = "switches" /\ PushPolicy(v))
                          /\ WF_switchVars(focus = "switches" /\ PushCommit(v))
    /\ \A b \in Bookkeepers :
          WF_bvars(/\ focus = "billing"
                   /\ \/ b = Reconciler /\ (Reconcile \/ TakeChain(b))
                      \/ LoadTenant(b) \/ Judge(b) \/ WriteTenant(b) \/ CommitBooks(b))
    /\ WF_bvars(/\ focus = "billing"
                /\ \E c \in Cashiers : \E victim \in {c, Reconciler} : BreakDeadlock(c, victim))

ConvFairSpec == ConvSpec /\ ConvFairness

=============================================================================
