--------------------------- MODULE CampaignRunner ---------------------------
(***************************************************************************)
(* A Central Command campaign: one action class over devices of several    *)
(* sites (campaigns.py, campaign_runner.py, api/campaigns.py), and the     *)
(* decision on its site-waves (api/approvals.py).                          *)
(*                                                                         *)
(* A pass (advance_campaign) is ONE database transaction, run by the       *)
(* background loop and by an operator's request.  It works on the rows it  *)
(* loaded when it began, calls the Site Managers on its way, and commits   *)
(* the rows it changed at the end, or nothing when the process dies or the *)
(* transaction fails; the loop also commits what a pass that raised had    *)
(* come to.  Revalidation writes the target rows of the wave, whose row    *)
(* locks are held until then.                                              *)
(*                                                                         *)
(* A plan is the wave number of each device; its hash is the plan itself.  *)
(* No campaign is edited or planned again once submitted, so one row of    *)
(* the dispatch ledger is one device.                                      *)
(***************************************************************************)
EXTENDS Integers, FiniteSets

CONSTANTS
    Devices, Sites,
    SiteOf,       \* the site of a device
    Rank,         \* plan_site_order: a site's place among the sites, by name
    Layouts,      \* the plans Site Managers may make: functions [Devices -> Nat]
    Layout0,      \* what they would plan at first
    Declared,     \* what the devices may declare at first
    Concurrency,  \* site_concurrency
    MaxMishaps,   \* bound on passes that die or raise and changes of the estate, the
                  \* policy and the gates, together
    NoWave

Passes == {"loop", "operator"}
WaveNos == UNION {{l[d] : d \in Devices} : l \in Layouts}
Waves == Sites \X WaveNos
Editable == {"draft", "preflighted", "acknowledged"}
Terminal == {"completed", "halted", "cancelled"}
Closed == {"none", "completed", "failed", "denied", "voided"}
Runnable == {"autonomous", "approved"}
Voidable == {"autonomous", "approved", "pending"}
Dispatchable == {"eligible", "warned"}
NoTx == <<>>  \* a pass that is not under way

ASSUME CampaignAssumption ==
    /\ SiteOf \in [Devices -> Sites]
    /\ Rank \in [Sites -> Nat] /\ \A r, s \in Sites : Rank[r] = Rank[s] => r = s
    /\ Layouts \subseteq [Devices -> Nat] /\ Layout0 \in Layouts
    /\ Declared \subseteq [Devices -> {"permits", "denies", "lacks"}]
    /\ Concurrency \in Nat \ {0} /\ MaxMishaps \in Nat
    /\ NoWave \notin Waves

VARIABLES
    status,    \* CCCampaign.status
    acked,     \* acknowledgement_valid
    target,    \* CCCampaignTarget.applicability
    site,      \* CCCampaignSite.status
    plan,      \* the current CCCampaignPlan of each site
    wave,      \* CCCampaignWave.status
    ledger,    \* CCCampaignDispatch, by device
    skipped,   \* targets with status "skipped": narrowed away by a pass
    tx,        \* the transaction of each pass
    deciding,  \* the wave an approver's request has loaded
    layout,    \* what the Site Managers would plan now
    policy,    \* what each device declares now
    clear,     \* authority, autonomy and safety of the waves, now
    stop,      \* the tenant stop switch
    asked,     \* runs the Site Manager has queued, by device
    outcome,   \* the last outcome the poller ingested, by device
    reported,  \* runs that have reported
    aborts, changes,
    \* Observations; no action reads them.
    lost,      \* runs queued by passes that died
    revived    \* sites with a decision written over a wave no longer pending

estate == <<layout, policy, clear, stop, changes>>
runs == <<asked, outcome, reported, lost>>
db == <<status, acked, target, site, plan, wave, ledger, skipped>>
approval == <<deciding, revived>>
cvars == <<db, tx, approval, estate, runs, aborts>>

At(s) == {d \in Devices : SiteOf[d] = s}

\* target_applicability: what preflight says of a device from its declaration.
Applicability(d) ==
    CASE policy[d] = "permits" -> "eligible"
      [] policy[d] = "denies"  -> "warned"
      [] policy[d] = "lacks"   -> "excluded"

\* PlanCampaignWaves: the site batches exactly the devices it is asked about.
PlanNow(s, targets) ==
    [d \in {e \in At(s) : targets[e] \in Dispatchable} |-> layout[d]]
NoPlan == [d \in {} |-> 0]

Members(w) == {d \in DOMAIN plan[w[1]] : plan[w[1]][d] = w[2]}

-----------------------------------------------------------------------------
(* Before execution: preflight, acknowledge, submit, cancel                *)

\* preflight + plan_sites: every target gets a verdict, every site with a
\* dispatchable target a branch; a site whose call fails stays pending and
\* keeps the plan it had, one that does not resolve is skipped.
Preflight(unreachable, unresolved) ==
    LET targets == [d \in Devices |-> Applicability(d)]
        live == {SiteOf[d] : d \in {e \in Devices : targets[e] \in Dispatchable}}
        planned == live \ (unreachable \cup unresolved)
    IN /\ status \in Editable
       /\ target' = targets
       /\ site' = [s \in Sites |-> IF s \in live \ unresolved THEN "pending" ELSE "skipped"]
       /\ plan' = [s \in Sites |-> IF s \in planned THEN PlanNow(s, targets) ELSE plan[s]]
       /\ wave' = [w \in Waves |-> "none"]
       /\ status' = "preflighted" /\ acked' = FALSE
       /\ UNCHANGED <<ledger, skipped, tx, approval, estate, runs, aborts>>

\* acknowledge: a person excludes targets and accepts the warned rest.
Acknowledge(excluded) ==
    /\ status \in Editable \ {"draft"}
    /\ target' = [d \in Devices |->
                    IF d \in excluded /\ target[d] \in Dispatchable
                    THEN "excluded" ELSE target[d]]
    /\ site' = [s \in Sites |->
                    IF site[s] = "pending" /\ \A d \in At(s) : target'[d] \notin Dispatchable
                    THEN "skipped" ELSE site[s]]
    /\ acked' = TRUE /\ status' = "acknowledged"
    /\ UNCHANGED <<plan, wave, ledger, skipped, tx, approval, estate, runs, aborts>>

\* can_seek_approval
MaySubmit ==
    /\ status \in {"preflighted", "acknowledged"}
    /\ \E d \in Devices : target[d] \in Dispatchable
    /\ acked \/ \A d \in Devices : target[d] # "warned"

\* submit_campaign + build_waves: a row for every wave of every stored plan.
Submit(autonomous) ==
    /\ MaySubmit
    /\ wave' = [w \in Waves |->
                  IF site[w[1]] # "skipped" /\ Members(w) # {}
                  THEN IF autonomous THEN "autonomous" ELSE "pending"
                  ELSE "none"]
    /\ \E w \in Waves : wave'[w] # "none"
    /\ status' = IF autonomous THEN "running" ELSE "awaiting"
    /\ UNCHANGED <<acked, target, site, plan, ledger, skipped, tx, approval, estate, runs, aborts>>

\* cancel_campaign: only the campaign row is written.
Cancel ==
    /\ status \notin Terminal
    /\ status' = "cancelled"
    /\ UNCHANGED <<acked, target, site, plan, wave, ledger, skipped, tx, approval, estate, runs, aborts>>

\* _decide_campaign_wave loads the wave and checks that it is pending ...
Load(w) ==
    /\ deciding = NoWave /\ wave[w] = "pending"
    /\ deciding' = w
    /\ UNCHANGED <<db, tx, estate, runs, aborts, revived>>

\* ... and writes its status after several awaits.
Decide(verdict) ==
    /\ deciding # NoWave
    /\ wave' = [wave EXCEPT ![deciding] = verdict]
    /\ deciding' = NoWave
    /\ revived' = IF wave[deciding] = "pending" THEN revived ELSE revived \cup {deciding[1]}
    /\ UNCHANGED <<status, acked, target, site, plan, ledger, skipped, tx, estate, runs, aborts>>

-----------------------------------------------------------------------------
(* A pass                                                                  *)

\* void_site_waves
Void(waves, s) ==
    [w \in Waves |-> IF w[1] = s /\ waves[w] \in Voidable THEN "voided" ELSE waves[w]]

\* Mutant: only failures are looked for, a device without an outcome is not one.
SettledUnheard(w) ==
    LET accepted == {d \in Members(w) : ledger[d] = "accepted"}
    IN IF accepted = {} \/ \E d \in accepted : outcome[d] = "failure"
       THEN "failed" ELSE "completed"

\* settle_dispatched_waves: what becomes of one dispatched wave.
Settled(w) ==
    LET accepted == {d \in Members(w) : ledger[d] = "accepted"}
        refused  == {d \in Members(w) : ledger[d] = "refused"}
    IN CASE accepted = {} -> "failed"
         [] \E d \in accepted : outcome[d] = "none" -> "dispatched"
         [] OTHER -> IF refused = {} /\ \A d \in accepted : outcome[d] = "success"
                     THEN "completed" ELSE "failed"

\* ... and of the rows of the campaign: a failed wave halts its site, which
\* loses its later waves.
SettledRows ==
    LET failed == {w \in Waves : wave[w] = "dispatched" /\ Settled(w) = "failed"}
        halted == {w[1] : w \in failed}
    IN [site |-> [s \in Sites |-> IF s \in halted THEN "halted" ELSE site[s]],
        wave |-> [w \in Waves |->
                    CASE wave[w] = "dispatched" -> Settled(w)
                      [] w[1] \in halted /\ wave[w] \in Voidable -> "voided"
                      [] OTHER -> wave[w]]]

\* The sites a pass works on: the running ones, then as many pending ones as
\* site_concurrency leaves room for.
Active(sites) ==
    LET running == {s \in Sites : sites[s] = "running"}
        startable == {s \in Sites : sites[s] = "pending"}
        room == Concurrency - Cardinality(running)
    IN running \cup
       {s \in startable : Cardinality({r \in startable : Rank[r] < Rank[s]}) < room}

\* advance_campaign up to its first site.  The operator's request also moves
\* a campaign that awaits approval to running.  With the stop switch active
\* the pass does no more than that.
Begin(p) ==
    /\ tx[p] = NoTx /\ status \in {"running", "awaiting"}
    /\ LET rows == IF stop THEN [site |-> site, wave |-> wave] ELSE SettledRows
       IN tx' = [tx EXCEPT ![p] =
            [base |-> [site |-> site, wave |-> wave],
             site |-> rows.site, wave |-> rows.wave,
             todo |-> IF stop THEN {} ELSE Active(rows.site),
             ended |-> stop,
             queue |-> {}, locked |-> {}, skips |-> {},
             mine |-> [d \in Devices |-> "none"],
             campaign |-> IF p = "operator" /\ status = "awaiting" THEN "running" ELSE ""]]
    /\ UNCHANGED <<db, approval, estate, runs, aborts>>

\* The site a pass comes to next (the running ones come first), that site's
\* open waves and the first of them, as the pass loaded them.
NextSite(t) ==
    LET running == {s \in t.todo : t.site[s] = "running"}
        next == IF running # {} THEN running ELSE t.todo
    IN CHOOSE s \in next : \A r \in next : Rank[s] <= Rank[r]
OpenWaves(t) == {w \in Waves : w[1] = NextSite(t) /\ t.wave[w] \notin Closed}
FirstWave(t) == CHOOSE w \in OpenWaves(t) : \A x \in OpenWaves(t) : w[2] <= x[2]

Here(p) == NextSite(tx[p])
Open(p) == OpenWaves(tx[p])
First(p) == FirstWave(tx[p])
AtSite(p) == tx[p] # NoTx /\ tx[p].todo # {} /\ tx[p].queue = {}

\* The pass leaves the site with these rows.
Leave(p, sites, waves) ==
    /\ tx' = [tx EXCEPT ![p].site = sites, ![p].wave = waves, ![p].todo = @ \ {Here(p)}]
    /\ UNCHANGED <<db, approval, estate, runs, aborts>>

\* _advance_site: no wave is open, so the branch is finished.
FinishSite(p) ==
    /\ AtSite(p) /\ Open(p) = {}
    /\ Leave(p, [tx[p].site EXCEPT ![Here(p)] = "completed"], tx[p].wave)

\* The first wave is settling, or not authorised.
HoldSite(p) ==
    /\ AtSite(p) /\ Open(p) # {} /\ tx[p].wave[First(p)] \notin Runnable
    /\ Leave(p, tx[p].site, tx[p].wave)

Authorised(p) == AtSite(p) /\ Open(p) # {} /\ tx[p].wave[First(p)] \in Runnable

\* _halt_site: the site is gone, or cannot be asked for its plan.
HaltSite(p) ==
    /\ Authorised(p)
    /\ Leave(p, [tx[p].site EXCEPT ![Here(p)] = "halted"], Void(tx[p].wave, Here(p)))

\* Mutant: the replan asks for every target of the stored plan
PlanIsCurrentAll(s) == [d \in DOMAIN plan[s] |-> layout[d]] = plan[s]

\* The site is asked again for the plan of the targets that may be dispatched.
PlanIsCurrent(s) == PlanNow(s, target) = plan[s]

\* A changed plan refuses the wave and voids every authorisation of the site.
RefuseWave(p) ==
    /\ Authorised(p) /\ ~PlanIsCurrent(Here(p))
    /\ Leave(p, [tx[p].site EXCEPT ![Here(p)] = "pending"], Void(tx[p].wave, Here(p)))

\* An approver's authority has lapsed, or the site's autonomy or the global
\* safety gate holds the wave: it is withheld as it is.
WithholdWave(p) ==
    /\ Authorised(p) /\ PlanIsCurrent(Here(p)) /\ ~clear
    /\ Leave(p, tx[p].site, tx[p].wave)

\* revalidate_target
StillCapable(d) == policy[d] = "permits" \/ (policy[d] = "denies" /\ acked)

\* revalidate_wave writes the target rows of the wave: another pass that
\* holds them is waited for.
Revalidating(p) ==
    /\ Authorised(p) /\ PlanIsCurrent(Here(p)) /\ clear
    /\ \A q \in Passes \ {p} :
         tx[q] # NoTx => tx[q].locked \cap Members(First(p)) = {}

SkipWave(p) ==
    /\ Revalidating(p) /\ \A d \in Members(First(p)) : ~StillCapable(d)
    /\ tx' = [tx EXCEPT ![p].wave[First(p)] = "completed",
                        ![p].locked = @ \cup Members(First(p)),
                        ![p].skips = @ \cup Members(First(p)),
                        ![p].todo = @ \ {Here(p)}]
    /\ UNCHANGED <<db, approval, estate, runs, aborts>>

StartWave(p) ==
    /\ Revalidating(p) /\ \E d \in Members(First(p)) : StillCapable(d)
    /\ tx' = [tx EXCEPT ![p].site[Here(p)] = "running",
                        ![p].locked = @ \cup Members(First(p)),
                        ![p].skips = @ \cup {d \in Members(First(p)) : ~StillCapable(d)},
                        ![p].queue = {d \in Members(First(p)) : StillCapable(d)}]
    /\ UNCHANGED <<db, approval, estate, runs, aborts>>

\* Mutant: dispatch_wave without already_dispatched
SendAgain(p, d, answer) ==
    /\ tx[p] # NoTx /\ d \in tx[p].queue
    /\ LET last == tx[p].queue = {d}
       IN /\ asked' = IF answer = "refused" THEN asked ELSE [asked EXCEPT ![d] = @ + 1]
          /\ tx' = [tx EXCEPT
                      ![p].mine[d] = IF answer = "accepted" THEN "accepted" ELSE "refused",
                      ![p].queue = @ \ {d},
                      ![p].wave[First(p)] = IF last THEN "dispatched" ELSE @,
                      ![p].todo = IF last THEN @ \ {Here(p)} ELSE @]
    /\ UNCHANGED <<db, approval, estate, outcome, reported, lost, aborts>>

\* dispatch_wave, one device: already in the ledger, or DispatchAction and
\* its row.  The answer of a directive that was queued may be lost, which
\* the code takes for a refusal.  After the last device the wave is marked.
Send(p, d, answer) ==
    /\ tx[p] # NoTx /\ d \in tx[p].queue
    /\ LET known == ledger[d] # "none" \/ tx[p].mine[d] # "none"
           last == tx[p].queue = {d}
       IN /\ known => answer = "refused"
          /\ asked' = IF known \/ answer = "refused" THEN asked
                      ELSE [asked EXCEPT ![d] = @ + 1]
          /\ tx' = [tx EXCEPT
                      ![p].mine[d] = IF known THEN @
                                     ELSE IF answer = "accepted" THEN "accepted" ELSE "refused",
                      ![p].queue = @ \ {d},
                      ![p].wave[First(p)] = IF last THEN "dispatched" ELSE @,
                      ![p].todo = IF last THEN @ \ {Here(p)} ELSE @]
    /\ UNCHANGED <<db, approval, estate, outcome, reported, lost, aborts>>

\* campaign_terminal_state over the branches that are not skipped.
CampaignState(sites) ==
    LET live == {s \in Sites : sites[s] # "skipped"}
    IN IF live = {} \/ \E s \in live : sites[s] \in {"pending", "running"} THEN ""
       ELSE IF \E s \in live : sites[s] = "halted" THEN "halted" ELSE "completed"

\* A commit: the rows the pass changed are written over whatever they hold by
\* now.
Write(p, end) ==
    LET t == tx[p]
    IN /\ site' = [s \in Sites |-> IF t.site[s] # t.base.site[s] THEN t.site[s] ELSE site[s]]
       /\ wave' = [w \in Waves |-> IF t.wave[w] # t.base.wave[w] THEN t.wave[w] ELSE wave[w]]
       /\ ledger' = [d \in Devices |-> IF t.mine[d] # "none" THEN t.mine[d] ELSE ledger[d]]
       /\ skipped' = skipped \cup t.skips
       /\ status' = IF end # "" THEN end
                    ELSE IF t.campaign # "" THEN t.campaign ELSE status
       /\ tx' = [tx EXCEPT ![p] = NoTx]
       /\ UNCHANGED <<acked, target, plan, approval, estate, runs>>

\* settle_campaign and the commit of a pass that came to its end.
Commit(p) ==
    /\ tx[p] # NoTx /\ tx[p].todo = {}
    /\ Write(p, IF tx[p].ended THEN "" ELSE CampaignState(tx[p].site))
    /\ UNCHANGED aborts

\* run_campaigns_once catches what advance_campaign raises and commits the
\* session all the same: what the pass had come to is written.
CommitPartly(p) ==
    /\ p = "loop" /\ tx[p] # NoTx
    /\ aborts + changes < MaxMishaps /\ aborts' = aborts + 1
    /\ Write(p, "")

\* The process dies, or the transaction fails: every row of the pass is gone,
\* what it asked of the Site Managers is not.  (A pass that dies before it has
\* asked anything leaves no trace at all.)
Abort(p) ==
    /\ tx[p] # NoTx /\ \E d \in Devices : tx[p].mine[d] # "none"
    /\ aborts + changes < MaxMishaps /\ aborts' = aborts + 1
    /\ lost' = [d \in Devices |-> lost[d] + (IF tx[p].mine[d] # "none" THEN 1 ELSE 0)]
    /\ tx' = [tx EXCEPT ![p] = NoTx]
    /\ UNCHANGED <<db, approval, estate, asked, outcome, reported>>

-----------------------------------------------------------------------------
(* The estate                                                              *)

\* The node runs the directive and the poller ingests its outcome.
Report(d, result) ==
    /\ reported[d] < asked[d]
    /\ reported' = [reported EXCEPT ![d] = @ + 1]
    /\ outcome' = [outcome EXCEPT ![d] = result]
    /\ UNCHANGED <<db, tx, approval, estate, asked, lost, aborts>>

Change ==
    /\ aborts + changes < MaxMishaps
    /\ changes' = changes + 1
    /\ \/ layout' \in Layouts \ {layout} /\ UNCHANGED <<policy, clear, stop>>
       \/ /\ \E d \in Devices, now \in {"permits", "denies", "lacks"} :
               now # policy[d] /\ policy' = [policy EXCEPT ![d] = now]
          /\ UNCHANGED <<layout, clear, stop>>
       \/ clear' = ~clear /\ UNCHANGED <<layout, policy, stop>>
       \/ stop' = ~stop /\ UNCHANGED <<layout, policy, clear>>
    /\ UNCHANGED <<db, tx, approval, runs, aborts>>

-----------------------------------------------------------------------------
CInit ==
    /\ status = "draft" /\ acked = FALSE
    /\ target = [d \in Devices |-> "excluded"]
    /\ site = [s \in Sites |-> "skipped"]
    /\ plan = [s \in Sites |-> NoPlan]
    /\ wave = [w \in Waves |-> "none"]
    /\ ledger = [d \in Devices |-> "none"]
    /\ skipped = {}
    /\ tx = [p \in Passes |-> NoTx]
    /\ deciding = NoWave
    /\ layout = Layout0
    /\ policy \in Declared
    /\ clear = TRUE /\ stop = FALSE
    /\ asked = [d \in Devices |-> 0]
    /\ outcome = [d \in Devices |-> "none"]
    /\ reported = [d \in Devices |-> 0]
    /\ lost = [d \in Devices |-> 0]
    /\ revived = {}
    /\ aborts = 0 /\ changes = 0

Pass(p) ==
    \/ Begin(p) \/ FinishSite(p) \/ HoldSite(p) \/ HaltSite(p) \/ RefuseWave(p)
    \/ WithholdWave(p) \/ SkipWave(p) \/ StartWave(p)
    \/ \E d \in Devices, answer \in {"accepted", "refused", "lost"} : Send(p, d, answer)
    \/ Commit(p) \/ CommitPartly(p) \/ Abort(p)

CNext ==
    \/ \E lostSites, unknown \in SUBSET Sites : Preflight(lostSites, unknown)
    \/ \E excluded \in SUBSET Devices : Acknowledge(excluded)
    \/ \E autonomous \in BOOLEAN : Submit(autonomous)
    \/ Cancel
    \/ \E w \in Waves : Load(w)
    \/ \E verdict \in {"approved", "denied"} : Decide(verdict)
    \/ \E p \in Passes : Pass(p)
    \/ \E d \in Devices, result \in {"success", "failure"} : Report(d, result)
    \/ Change

CSpec == CInit /\ [][CNext]_cvars

-----------------------------------------------------------------------------
(* Properties                                                              *)

\* A device runs an action of the campaign at most once, whatever the loop and
\* the operator's requests do at the same time; only a pass that died after
\* asking the Site Manager (its ledger row went with it) adds a run.  The row
\* locks of revalidate_wave and the ledger read after them are what it takes.
NoRepeatedRun == \A d \in Devices : asked[d] <= 1 + lost[d]

\* A device the operator excluded never runs, although the stored plan and the
\* waves built from it still hold the device: the plan asked for again at
\* dispatch, without it, is another plan, and the wave is refused.
ExcludedNeverRuns == \A d \in Devices : asked[d] > 0 => target[d] \in Dispatchable

\* Within a site a device is asked only when every device of the earlier waves
\* that was asked has succeeded (settle_dispatched_waves before _advance_site,
\* the lowest open wave, _halt_site), whichever pass read what and when.  A
\* site where a decision was written over a voided wave is left out: there the
\* order is lost.
EarlierWavesSucceeded ==
    [][\A d \in Devices : asked'[d] > asked[d] /\ SiteOf[d] \notin revived =>
         \A e \in DOMAIN plan[SiteOf[d]] :
           /\ plan[SiteOf[d]][e] < plan[SiteOf[d]][d]
           /\ asked[e] > 0 /\ lost[e] = 0 /\ e \notin skipped
           => outcome[e] = "success"]_cvars

=============================================================================
