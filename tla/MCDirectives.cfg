SPECIFICATION DFairSpec
CONSTANTS
    r1 = r1
    r2 = r2
    r3 = r3
    r4 = r4
    v1 = v1
    v2 = v2
    k1 = k1
    reboot = reboot
    NoKey = NoKey
    NoDirective = NoDirective
    NoId = 0
    Ids = {1, 2, 3}
    Devices = {v1, v2}
    Kinds = {reboot}
    Requests = {r1, r2, r3, r4}
    ReqKey <- MCReqKey
    ReqDevice <- MCReqDevice
    ReqKind <- MCReqKind
    MaxFaults = 1
INVARIANTS
    OneRunPerProposal
    AckNamesOwnWork
    CompletedRan
PROPERTIES
    PendingIsSettled
    ImplementsRegister
CHECK_DEADLOCK FALSE
