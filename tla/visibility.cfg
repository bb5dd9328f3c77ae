SPECIFICATION Spec
CONSTANTS
    gm = gm
    ann = ann
    bob = bob
    ayla = ayla
    arin = arin
    bree = bree
    party = party
    general = general
    partys = partys
    aylas = aylas
    d1 = d1
    cave = cave
    Campaign = Campaign
    NoDoc = NoDoc
    Idle = Idle
    Unread = Unread
    Users = {gm, ann, bob}
    GMs = {gm}
    Characters = {ayla, arin, bree}
    Groups = {party}
    Repos = {general, partys, aylas}
    DocIds = {d1}
    Locations = {cave}
    MaxDay = 1
    MaxChanges = 2
    MaxMeanwhile = 2
    Matches <- MCMatches
    Owner <- MCOwner
    Owning <- MCOwning
    Starts <- MCStarts
INVARIANTS
    ReadersAgree
    PlacesAgree
    RevealedWhenShown
    EntriesSurface
PROPERTIES
    MoreReachNeverHides
    AnswersOfOneMoment
