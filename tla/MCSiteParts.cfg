SPECIFICATION SiteSpec
CONSTANTS
    \* SiteApprovals: two actions of one fault domain.
    a1 = a1  a2 = a2
    v1 = v1  v2 = v2
    o1 = o1  o2 = o2  h1 = h1
    NoAction = NoAction
    Actions = {a1, a2}
    Devices = {v1}
    DeviceOf <- MCDeviceOfSame
    Domains <- MCDomainOfOne
    Operators = {o1}
    Pollers = {h1}
    MaxLosses = 0
    MaxReports = 1
    \* SiteIncidents
    n1 = n1  n2 = n2
    Nodes = {n1, n2}
    Units <- MCUnits
    SiteOf <- MCSiteOf
    RuleScopes = {"pdu", "tor"}
    KindOf <- MCKindOf
    UnitsOf <- MCUnitsOf
    NodesOf <- MCNodesOf
    Quorum = 2
    CorrelationWindow = 0
    StaleAfter = 1
    LastMoment = 1
    MaxSlips = 1
    \* Suppression
    Watched <- MCWatched
    Governed = {"power"}
    Threshold <- MCThreshold
    Span <- MCSpan
    Stability = 2
    HairTrigger = 2
    MaxClock = 4
    MaxRestarts = 1
    \* ClaimMesh
    Peers = {1, 2}
    MaxClaims = 2
    Vacant = Vacant
    \* Playbooks: three steps, the second has a rollback.
    StepCount = 3
    Undoable = {1}
    MaxExecs = 4
    Drivers = {y1, y2}
    MaxMishaps = 3
    NoExec = NoExec
INVARIANTS
    OneWavePerDomain
    FaultHasIncident
    ParentStaysOpen
    CorrelatedIsSuppressed
    SameClaimsSameOwner
    LapsedEvidenceIsKept
    CompletedIsAccounted
SYMMETRY MCActionsAlike
CHECK_DEADLOCK FALSE
