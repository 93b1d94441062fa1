SPECIFICATION GateSpec
CONSTANTS
    h1 = h1
    g1 = g1
    Works = {h1, g1}
    Basis <- MCBasis
    Risk <- MCRisk
    NoLease = NoLease
    Used = {"site_manager", "recovery"}
    LeaseTime = 1
    GraceTime = 1
    ReplyTime = 1
    MaxPerWindow = 1
    Window = 2
    Cooldown = 1
    HistoryMax = 1
    HistoryKept = 1
    MinOutcomes = 1
    MaxTime = 3
    MaxOps = 1
    MaxDisruptions = 1
INVARIANTS
    RateLimitHolds
PROPERTIES
    HaltFences
    DropBackFences
CHECK_DEADLOCK FALSE
