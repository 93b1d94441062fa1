SPECIFICATION FairSpec
CONSTANTS
    a1 = a1
    a2 = a2
    a3 = a3
    fan = fan
    o1 = o1
    o2 = o2
    drift = drift
    NoId = NoId
    SensorFaults = {fan}
    ConfigFaults = {drift}
    Ids = {a1, a2, a3}
    FaultOf <- MCFaultOf
    Operators = {}
    Console = FALSE
    MaxFaults = 2
INVARIANTS
    ExecutedWasApproved
    OneOpenPerSensorFault
PROPERTIES
    ApprovedIsSettled
