SPECIFICATION Spec
CONSTANTS
    gm1 = gm1
    gm2 = gm2
    ann = ann
    ayla = ayla
    arin = arin
    party = party
    i1 = i1
    i2 = i2
    n1 = n1
    blank = blank
    ink = ink
    Idle = Idle
    NoRow = NoRow
    Keep = Keep
    Tabs = {gm1, gm2, ann}
    GMTabs = {gm1, gm2}
    Characters = {ayla, arin}
    Groups = {party}
    Names = {n1}
    Texts = {blank, ink}
    RowIds = {i1, i2}
    MaxDay = 1
    MaxRequests = 3
    Owners <- MCOwners
SYMMETRY Symmetric
INVARIANTS
    TypeOK
    AdvanceExact
    MembershipHistory
    OneRowEach
PROPERTIES
    PlayersKeepToTheirOwn
CHECK_DEADLOCK FALSE
