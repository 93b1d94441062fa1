SPECIFICATION Spec
CONSTANTS
    a1 = a1
    a2 = a2
    v1 = v1
    v2 = v2
    o1 = o1
    o2 = o2
    h1 = h1
    NoAction = NoAction
    Actions = {a1, a2}
    Devices = {v1, v2}
    DeviceOf <- MCDeviceOf
    Domains <- MCDomains
    Operators = {o1, o2}
    Pollers = {h1}
    MaxLosses = 0
    MaxReports = 2
INVARIANTS
    OneWavePerDomain
CHECK_DEADLOCK FALSE
