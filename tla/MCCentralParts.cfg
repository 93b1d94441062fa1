SPECIFICATION CentralSpec
CONSTANTS
    \* Proposals: two operations of one agent, two approvals each.
    p1 = p1  p2 = p2
    g1 = g1
    op1 = op1  op2 = op2
    s1 = s1  s2 = s2
    u1 = u1  u2 = u2
    k1 = k1
    Nobody = Nobody
    Gone = Gone
    Idle = Idle
    NoSub = NoSub
    Refused = Refused
    Props = {p1, p2}
    Agents = {g1}
    AgentOf <- OneAgent
    OpOf <- TwoOps
    Passes = {s1, s2}
    Approvers = {u1, u2}
    Needed = 2
    AdmitLimit = 2
    Budget = 1
    SubKeys = {}
    AttemptMax = 1
    MaxLoss = 1
    \* OperationalAgents
    c1 = c1  c2 = c2  x = x  y = y
    Configs = {c1, c2}
    RunsUnattended <- MCUnattended
    Warned = {c2}
    MaxVersion = 2
    MaxPreflights = 2
    Requests = {r1, r2}
    Editors = 1
    NoReq = NoReq
    NoSubject = NoSubject
    \* ScopeGrants
    ann = ann  bob = bob
    People = {ann, bob}
    GrantSites = {"s1"}
    Slots = {q1, q2}
    Founder = ann
    NoRequest = NoRequest
    MaxAsked = 3
    \* AgentActions: one fault, two operators and the console.
    a1 = a1  a2 = a2  a3 = a3
    fan = fan  drift = drift
    o1 = o1  o2 = o2
    NoId = NoId
    SensorFaults = {fan}
    ConfigFaults = {drift}
    Ids = {a1}
    FaultOf <- MCFaultOfOne
    Operators = {o1, o2}
    Console = TRUE
    MaxFaults = 2
    \* SupportAccess
    e1 = e1  e2 = e2  tab1 = tab1  tab2 = tab2
    Engineers = {e1, e2}
    Tabs = {tab1, tab2}
    MaxEntries = 2
    TTL = 2
    MaxHour = 3
    NoUser = NoUser
SYMMETRY Interchangeable
INVARIANTS
    OneSender
    ChargedWithinBudget
    DecisionGoverns
    ActiveWasReviewed
    UnattendedWasApproved
    ReexecutionHasACause
    AdmittedWasApproved
PROPERTIES
    RegisterSpec
    LastAdminIsGuarded
CHECK_DEADLOCK FALSE
