SPECIFICATION Spec
CONSTANTS
    ann = ann
    annsBag = annsBag
    bob = bob
    bobsBag = bobsBag
    cave = cave
    gm = gm
    i1 = i1
    i2 = i2
    i3 = i3
    party = party
    rope = rope
    torch = torch
    NoLine = NoLine
    Idle = Idle
    Users = {bob, gm}
    GMs = {gm}
    Characters = {bobsBag}
    Groups = {party}
    Locations = {cave}
    Names = {rope, torch}
    LineIds = {i1, i2, i3}
    MaxQuantity = 2
    MaxInFlight = 1
    Access <- MCAccess
SYMMETRY Symmetric
PROPERTIES
    OnlyWithAccess
    EntriesMatchChanges
    KeepsLedger
