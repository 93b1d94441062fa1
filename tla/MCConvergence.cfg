SPECIFICATION ConvFairSpec
CONSTANTS
    \* Proposals: one operation that two proposals of one agent ask for.
    p1 = p1  p2 = p2
    g1 = g1
    op1 = op1  op2 = op2
    s1 = s1  s2 = s2
    u1 = u1  u2 = u2
    k1 = k1
    Nobody = Nobody
    Gone = Gone
    Idle = Idle
    NoSub = NoSub
    Refused = Refused
    Props = {p1, p2}
    Agents = {g1}
    AgentOf <- OneAgent
    OpOf <- OneOp
    Passes = {s1}
    Approvers = {u1}
    Needed = 1
    AdmitLimit = 2
    Budget = 1
    SubKeys = {k1}
    AttemptMax = 1
    MaxLoss = 1
    \* SiteApprovals: one device outside every fault domain.
    a1 = a1  a2 = a2
    v1 = v1  v2 = v2
    o1 = o1  o2 = o2  h1 = h1
    NoAction = NoAction
    Actions = {a1}
    Devices = {v1}
    DeviceOf <- MCDeviceOfOne
    Domains = {}
    Operators = {o1}
    Pollers = {h1}
    MaxLosses = 2
    MaxReports = 2
    \* StopSwitches
    Used <- AllControls
    MaxOps = 3
    MaxDisruptions = 2
    \* Billing
    Cashiers = {cashier}
    Reconciler = Reconciler
    NoInvoice = NoInvoice
    MaxInvoices = 2
    NodeCommit = 1
    Counts = {2}
    Terms = 1
    Day = 2
    Grace = 2
    MaxTime = 5
    MaxAborts = 1
INVARIANTS
    OneRunPerOperation
PROPERTIES
    ApprovedIsDelivered
    OnlyStaleCommitsReopen
    OutcomeReachesSite
    StopConverges
    StandingConverges
CHECK_DEADLOCK FALSE
