-------------------------- MODULE FirmwareCampaigns --------------------------
(***************************************************************************)
(* Firmware campaigns (harkeniq_sm/firmware_orchestrator.py) over the      *)
(* directive transport (AgentDirectedUpdater of directives.py).  A         *)
(* campaign's devices are planned into waves; each `advance` call runs the *)
(* current wave, one device after the other: queue an update, wait until   *)
(* the agent settled it or the deadline passed, roll back and halt on the  *)
(* first failure.  Calls run concurrently and die with the Site Manager.   *)
(***************************************************************************)
EXTENDS Directives, Sequences, SequencesExt

CONSTANTS
    Campaigns,
    Order,        \* the devices in sorted order
    Domains,      \* fault domains: sets of devices
    MaxWaveSize,
    Callers,      \* concurrent advance calls
    NoCampaign,
    MaxSmCrashes, \* bound on Site Manager restarts
    PlanSize      \* bound on the devices of the plans WavePlanSafe looks at

ASSUME FirmwareAssumption ==
    /\ Order \in Seq(Devices) /\ Range(Order) = Devices /\ IsInjective(Order)
    /\ MaxWaveSize \in Nat \ {0} /\ MaxSmCrashes \in Nat /\ PlanSize \in Nat
    /\ Ids \subseteq Nat
    /\ {"FIRMWARE_UPDATE", "FIRMWARE_ROLLBACK"} \subseteq Kinds
    /\ NoCampaign \notin Campaigns

VARIABLES
    camp,     \* campaigns: status, current_wave, waves planned, target status
    caller,   \* where each advance call stands
    version,  \* the firmware on each device
    crashes   \* Site Manager restarts so far

fvars == <<camp, caller, version, crashes>>
vars == <<dvars, fvars>>

NoPlan == [status |-> "none", wave |-> 0, plan |-> <<>>, target |-> <<>>]
IdleCall == [pc |-> "idle", camp |-> NoCampaign, wave |-> 0, todo |-> {}, id |-> NoId]

TargetStatus == {"pending", "completed", "rolled_back", "failed"}

\* Plans and target columns: functions on some of the devices.
OnDevices(S) == UNION {[D -> S] : D \in SUBSET Devices}

FTypeOK ==
    /\ TypeOK
    /\ camp \in [Campaigns ->
                  [status : {"none", "draft", "approved", "running", "halted",
                             "completed"},
                   wave : Nat, plan : OnDevices(Nat), target : OnDevices(TargetStatus)]]
    /\ \A c \in Campaigns : DOMAIN camp[c].target = DOMAIN camp[c].plan
    /\ caller \in [Callers ->
                    [pc : {"idle", "loop", "update", "rollback"},
                     camp : Campaigns \cup {NoCampaign}, wave : Nat,
                     todo : SUBSET Devices, id : Ids \cup {NoId}]]
    /\ version \in [Devices -> {"old", "new"}]
    /\ crashes \in 0..MaxSmCrashes

-----------------------------------------------------------------------------
(* Planning.                                                               *)

\* The fault domains of a set that device d belongs to.
DomainsIn(doms, d) == {D \in doms : d \in D}

\* Variant for mutation: the size cap alone separates devices.
FitsBySize(p, d, w, doms, cap) == Cardinality({e \in DOMAIN p : p[e] = w}) < cap

\* Whether wave w of a partial plan p has room for device d.
Fits(p, d, w, doms, cap) ==
    /\ Cardinality({e \in DOMAIN p : p[e] = w}) < cap
    /\ \A e \in DOMAIN p : p[e] = w => DomainsIn(doms, e) \cap DomainsIn(doms, d) = {}

\* The earliest wave with room; one wave per device already placed is enough.
EarliestWave(p, d, doms, cap) ==
    CHOOSE w \in 0..Cardinality(DOMAIN p) :
        /\ Fits(p, d, w, doms, cap)
        /\ \A u \in 0..(w - 1) : ~Fits(p, d, u, doms, cap)

\* The partial plan p with device d in its earliest wave.
Place(p, d, doms, cap) ==
    [e \in DOMAIN p \cup {d} |-> IF e = d THEN EarliestWave(p, d, doms, cap) ELSE p[e]]

\* plan_waves: the devices of devs in the given order, each in the earliest
\* wave.
PlanWaves(devs, order, doms, cap) ==
    LET part[n \in 0..Len(order)] ==
            IF n = 0 THEN <<>>
            ELSE IF order[n] \in devs THEN Place(part[n - 1], order[n], doms, cap)
            ELSE part[n - 1]
    IN  part[Len(order)]

WaveCount(p) == 1 + Max({p[d] : d \in DOMAIN p})

\* create_campaign.
CreateCampaign(c, devs) ==
    /\ camp[c] = NoPlan /\ devs # {}
    /\ camp' = [camp EXCEPT ![c] =
                  [status |-> "draft", wave |-> 0,
                   plan |-> PlanWaves(devs, Order, Domains, MaxWaveSize),
                   target |-> [d \in devs |-> "pending"]]]
    /\ UNCHANGED <<dvars, caller, version, crashes>>

\* approve.
ApproveCampaign(c) ==
    /\ camp[c].status = "draft"
    /\ camp' = [camp EXCEPT ![c].status = "approved"]
    /\ UNCHANGED <<dvars, caller, version, crashes>>

-----------------------------------------------------------------------------
(* advance.                                                                *)

\* The call reads the campaign, its wave and the wave's pending targets.
AdvanceBegin(o, c) ==
    /\ caller[o] = IdleCall
    /\ camp[c].status \in {"approved", "running"}
    /\ camp' = [camp EXCEPT ![c].status = "running"]
    /\ caller' = [caller EXCEPT ![o] =
         [pc |-> "loop", camp |-> c, wave |-> camp[c].wave, id |-> NoId,
          todo |-> {d \in DOMAIN camp[c].plan :
                      camp[c].plan[d] = camp[c].wave /\ camp[c].target[d] = "pending"}]]
    /\ UNCHANGED <<dvars, version, crashes>>

\* The place in the order of the first device of S.
FirstPlace(S) == CHOOSE k \in DOMAIN Order :
    Order[k] \in S /\ \A l \in DOMAIN Order : Order[l] \in S => k <= l

NextDevice(o) == Order[FirstPlace(caller[o].todo)]

FreshId == CHOOSE i \in Ids \ Live : \A j \in Ids \ Live : i <= j

Queue(v, w) ==
    /\ Ids \ Live # {}
    /\ Enqueue(FreshId, v, w, NoKey)
    /\ UNCHANGED <<outcome, dispatchVars, agentVars, faults>>

\* updater.update: queues the directive and waits for it.
QueueUpdate(o) ==
    /\ caller[o].pc = "loop" /\ caller[o].todo # {}
    /\ Queue(NextDevice(o), "FIRMWARE_UPDATE")
    /\ caller' = [caller EXCEPT ![o].pc = "update", ![o].id = FreshId]
    /\ UNCHANGED <<camp, version, crashes>>

\* Variant for mutation: there is no deadline.
WaitedForever(o, result) ==
    LET s == dir[caller[o].id].status IN
    \/ result = "completed" /\ s = "completed"
    \/ result = "failed" /\ s = "failed"

\* wait_for_completion.
Waited(o, result) ==
    LET s == dir[caller[o].id].status IN
    \/ result = "completed" /\ s = "completed"
    \/ result = "failed" /\ s = "failed"
    \/ result = "timed_out" /\ s \notin Settled

\* The update succeeded.
UpdateDone(o) ==
    LET d == NextDevice(o) IN
    /\ caller[o].pc = "update" /\ Waited(o, "completed")
    /\ camp' = [camp EXCEPT ![caller[o].camp].target[d] = "completed"]
    /\ caller' = [caller EXCEPT ![o].pc = "loop", ![o].todo = @ \ {d}, ![o].id = NoId]
    /\ UNCHANGED <<dvars, version, crashes>>

\* It failed, or is not settled at the deadline: queue the rollback.
UpdateFails(o, result) ==
    /\ result \in {"failed", "timed_out"}
    /\ caller[o].pc = "update" /\ Waited(o, result)
    /\ Queue(NextDevice(o), "FIRMWARE_ROLLBACK")
    /\ caller' = [caller EXCEPT ![o].pc = "rollback", ![o].id = FreshId]
    /\ UNCHANGED <<camp, version, crashes>>

\* Variant for mutation: the campaign goes on after a failed device.
HaltContinues(o, result) ==
    LET d == NextDevice(o) IN
    /\ caller[o].pc = "rollback" /\ Waited(o, result)
    /\ camp' = [camp EXCEPT ![caller[o].camp].target[d] =
                   IF result = "completed" THEN "rolled_back" ELSE "failed"]
    /\ caller' = [caller EXCEPT ![o].pc = "loop", ![o].todo = @ \ {d}, ![o].id = NoId]
    /\ UNCHANGED <<dvars, version, crashes>>

\* The rollback is settled or given up: the campaign halts.
Halt(o, result) ==
    LET d == NextDevice(o) IN
    /\ caller[o].pc = "rollback" /\ Waited(o, result)
    /\ camp' = [camp EXCEPT ![caller[o].camp] =
                  [@ EXCEPT !.target[d] =
                       IF result = "completed" THEN "rolled_back" ELSE "failed",
                     !.status = "halted"]]
    /\ caller' = [caller EXCEPT ![o] = IdleCall]
    /\ UNCHANGED <<dvars, version, crashes>>

\* The wave is complete: next wave, or the campaign is.
WaveDone(o) ==
    LET c == caller[o].camp
        w == caller[o].wave + 1
    IN
    /\ caller[o].pc = "loop" /\ caller[o].todo = {}
    /\ camp' = [camp EXCEPT ![c] =
                  IF w >= WaveCount(camp[c].plan) THEN [@ EXCEPT !.status = "completed"]
                                                  ELSE [@ EXCEPT !.wave = w]]
    /\ caller' = [caller EXCEPT ![o] = IdleCall]
    /\ UNCHANGED <<dvars, version, crashes>>

\* The Site Manager restarts: the calls are gone, the rows stay.
SmCrash ==
    /\ crashes < MaxSmCrashes /\ crashes' = crashes + 1
    /\ \E o \in Callers : caller[o] # IdleCall
    /\ caller' = [o \in Callers |-> IdleCall]
    /\ UNCHANGED <<dvars, camp, version>>

-----------------------------------------------------------------------------
(* The device.                                                             *)

\* The end of a firmware task.  A failed flash may have changed the bank.
Flash(i, result) ==
    LET d == dir[i].dev
        to == IF dir[i].kind = "FIRMWARE_UPDATE" THEN "new" ELSE "old"
    IN
    /\ End(i, result)
    /\ \/ version' = [version EXCEPT ![d] = to]
       \/ result = "failure" /\ UNCHANGED version
    /\ UNCHANGED <<camp, caller, crashes>>

\* A task is background work of the agent: two can run on one device.
FWork(i) ==
    \/ (Begin(i) \/ Refuse(i) \/ Report(i) \/ ReportLost(i)) /\ UNCHANGED fvars
    \/ \E result \in {"success", "failure"} : Flash(i, result)

-----------------------------------------------------------------------------
FInit ==
    /\ DInit
    /\ camp = [c \in Campaigns |-> NoPlan]
    /\ caller = [o \in Callers |-> IdleCall]
    /\ version = [d \in Devices |-> "old"]
    /\ crashes = 0

CallStep(o) ==
    \/ QueueUpdate(o) \/ UpdateDone(o) \/ WaveDone(o)
    \/ \E result \in {"failed", "timed_out"} : UpdateFails(o, result)
    \/ \E result \in {"completed", "failed", "timed_out"} : Halt(o, result)

FNext ==
    \/ \E c \in Campaigns, devs \in SUBSET Devices : CreateCampaign(c, devs)
    \/ \E c \in Campaigns : ApproveCampaign(c)
    \/ \E o \in Callers, c \in Campaigns : AdvanceBegin(o, c)
    \/ \E o \in Callers : CallStep(o)
    \/ SmCrash
    \/ \E v \in Devices : Transport(v) /\ UNCHANGED fvars
    \/ \E i \in Ids : FWork(i)

FSpec == FInit /\ [][FNext]_vars

\* An advance call goes on: its wait ends when the directive is settled or at
\* the deadline at the latest.
FFairSpec == FSpec /\ \A o \in Callers : WF_vars(CallStep(o))

-----------------------------------------------------------------------------
(* Properties.                                                             *)

Updating == {i \in Live : dir[i].kind = "FIRMWARE_UPDATE" /\ task[i] = "running"}

\* No wave of plan p holds two devices of a fault domain, exceeds the cap or
\* is empty.
PlanIsSafe(p, doms, cap) ==
    /\ \A D \in doms : \A d, e \in D \cap DOMAIN p : d # e => p[d] # p[e]
    /\ \A d \in DOMAIN p : \A w \in 0..p[d] :
          Cardinality({e \in DOMAIN p : p[e] = w}) \in 1..cap

\* Every set of up to PlanSize devices, fault domains among them and cap.
PlannerIsSafe ==
    \A n \in 0..PlanSize, cap \in 1..PlanSize :
    \A doms \in SUBSET {D \in SUBSET (1..n) : Cardinality(D) > 1} :
        LET p == PlanWaves(1..n, [k \in 1..n |-> k], doms, cap)
        IN  DOMAIN p = 1..n /\ PlanIsSafe(p, doms, cap)

\* plan_waves puts each device in one wave, no two of a fault domain in the
\* same, within the size cap and without empty waves: the campaign's own plan
\* at all times, and the planner on every input of up to PlanSize devices.
WavePlanSafe ==
    /\ \A c \in Campaigns : PlanIsSafe(camp[c].plan, Domains, MaxWaveSize)
    /\ PlannerIsSafe

\* firmware_orchestrator.py: "never update >1 device per fault domain
\* simultaneously", on the devices themselves, as long as the Site Manager has
\* not restarted under a running call (the update it left behind may still
\* run when the next call has moved on).
OneUpdatingPerDomain ==
    crashes = 0 =>
      \A i, j \in Updating : dir[i].dev # dir[j].dev =>
          \A D \in Domains : ~({dir[i].dev, dir[j].dev} \subseteq D)

\* "Wave N+1 starts only after every device in wave N completed" and "The
\* campaign HALTS.  It never auto-continues past a failure": when an update is
\* queued, every device of an earlier wave is a completed target and the
\* campaign is not halted; a halted campaign stays halted.
WavesInOrder ==
    [][/\ \A o \in Callers :
            caller[o].pc = "loop" /\ caller'[o].pc = "update" =>
              LET k == camp[caller[o].camp] IN
              /\ k.status # "halted"
              /\ \A d \in DOMAIN k.plan : k.plan[d] < caller[o].wave
                                          => k.target[d] = "completed"
       /\ \A c \in Campaigns : camp[c].status = "halted" => camp'[c].status = "halted"]_vars

\* Every advance call returns, also when a directive is never settled.
AdvanceReturns == \A o \in Callers : caller[o] # IdleCall ~> caller[o] = IdleCall

\* "On the FIRST device failure the device is rolled back": while a device is
\* recorded as rolled back it runs its previous firmware.
RolledBackIsOld ==
    \A c \in Campaigns : \A d \in DOMAIN camp[c].target :
        camp[c].target[d] = "rolled_back" => version[d] = "old"

=============================================================================
