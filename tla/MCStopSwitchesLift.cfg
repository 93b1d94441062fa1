SPECIFICATION SwitchFairSpec
CONSTANTS
    Used <- TenantOnly
    MaxOps = 2
    MaxDisruptions = 1
PROPERTIES
    LiftConverges
CHECK_DEADLOCK FALSE
