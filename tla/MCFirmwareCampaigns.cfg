SPECIFICATION FFairSpec
CONSTANTS
    v1 = v1
    v2 = v2
    c1 = c1
    o1 = o1
    NoKey = NoKey
    NoDirective = NoDirective
    NoId = 0
    NoCampaign = NoCampaign
    Ids = {1, 2, 3, 4, 5}
    Kinds = {"FIRMWARE_UPDATE", "FIRMWARE_ROLLBACK"}
    Requests = {}
    ReqKey <- MCNone
    ReqDevice <- MCNone
    ReqKind <- MCNone
    Campaigns = {c1}
    Devices = {v1, v2}
    Order <- MCOrder
    Domains <- MCDomains
    MaxWaveSize = 2
    Callers = {o1}
    MaxFaults = 1
    MaxSmCrashes = 1
    PlanSize = 4
INVARIANTS
    WavePlanSafe
    OneUpdatingPerDomain
PROPERTIES
    WavesInOrder
    AdvanceReturns
CHECK_DEADLOCK FALSE
