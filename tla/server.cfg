SPECIFICATION Spec
CONSTANTS
    p1 = p1
    p2 = p2
    c1 = c1
    ann = ann
    bob = bob
    k1 = k1
    k2 = k2
    Idle = Idle
    NoUser = NoUser
    NoKey = NoKey
    Torn = Torn
    Procs = {p1, p2}
    Clients = {c1}
    Emails = {ann, bob}
    SigningKeys = {k1, k2}
    Migrations = 1
    MaxStarts = 2
    MaxRequests = 2
    MaxResets = 1
INVARIANTS
    OneOfEach
    TokensOutliveRestarts
    ServedToTheEnd
PROPERTIES
    StopsInTheEnd
CHECK_DEADLOCK FALSE
