SPECIFICATION Spec
CONSTANTS
    a = a
    b = b
    d1 = d1
    d2 = d2
    g = g
    general = general
    p = p
    private = private
    s1 = s1
    shared = shared
    x = x
    Unborn = Unborn
    Deleted = Deleted
    NoPage = NoPage
    Idle = Idle
    Tabs = {g, p}
    GMTabs = {g}
    DocIds = {d1, d2}
    SecIds = {s1}
    CharacterRepos = {private}
    GroupRepos = {shared}
    OtherRepos = {general}
    Paths = {a, b}
    Days = {0}
    Texts = {x}
    Secrets = {}
    MaxVersion = 2
    MaxSections = 0
    MaxRepeats = 0
    MaxInFlight = 1
    Reach <- MCGroupReach
    DirectShares <- MCSharedWithP
PROPERTIES
    CollisionWarned
