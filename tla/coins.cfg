SPECIFICATION Spec
CONSTANTS
    gm = gm
    ann = ann
    hero = hero
    party = party
    rope = rope
    i1 = i1
    i2 = i2
    i3 = i3
    i4 = i4
    NoRow = NoRow
    Idle = Idle
    NoReply = NoReply
    Users = {gm, ann}
    GMs = {gm}
    Characters = {hero}
    Groups = {party}
    Access <- MCAccess
    Codes = {1, 2, 3}
    ItemNames = {rope}
    Ids = {i1, i2, i3, i4}
    Files <- MCFiles
    Ratios = {3}
    Amounts = {5}
    Purses <- MCPurses
    Half = 32
    MaxBalances = 1
    MaxStarts = 2
SYMMETRY Symmetric
CHECK_DEADLOCK FALSE
INVARIANTS
    BalancesStand
    SeededAsFile
    AnswersExact
