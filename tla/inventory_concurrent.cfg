SPECIFICATION Spec
CONSTANTS
    ann = ann
    annsBag = annsBag
    bob = bob
    bobsBag = bobsBag
    cave = cave
    i1 = i1
    i2 = i2
    i3 = i3
    party = party
    rope = rope
    NoLine = NoLine
    Idle = Idle
    Users = {ann, bob}
    GMs = {}
    Characters = {annsBag, bobsBag}
    Groups = {party}
    Locations = {cave}
    Names = {rope}
    LineIds = {i1, i2, i3}
    MaxQuantity = 2
    MaxInFlight = 2
    Access <- MCAccess
SYMMETRY Symmetric
INVARIANTS
    TypeOK
    NoEmptyLine
PROPERTIES
    FreshMoveIsExact
