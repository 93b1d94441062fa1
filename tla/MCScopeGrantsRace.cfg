SPECIFICATION GSpec
CONSTANTS
    ann = ann
    bob = bob
    People = {ann, bob}
    GrantSites = {}
    Slots = {q1, q2}
    Founder = ann
    NoRequest = NoRequest
    MaxAsked = 4
PROPERTIES LastAdminStays
CHECK_DEADLOCK FALSE
