SPECIFICATION FSpec
CONSTANTS
    v1 = v1
    v2 = v2
    c1 = c1
    o1 = o1
    NoKey = NoKey
    NoDirective = NoDirective
    NoId = 0
    NoCampaign = NoCampaign
    Ids = {1, 2, 3}
    Kinds = {"FIRMWARE_UPDATE", "FIRMWARE_ROLLBACK"}
    Requests = {}
    ReqKey <- MCNone
    ReqDevice <- MCNone
    ReqKind <- MCNone
    Campaigns = {c1}
    Devices = {v1, v2}
    Order <- MCOrder
    Domains <- MCDomains
    MaxWaveSize = 2
    Callers = {o1}
    MaxFaults = 0
    MaxSmCrashes = 0
    PlanSize = 0
INVARIANTS
    RolledBackIsOld
CHECK_DEADLOCK FALSE
