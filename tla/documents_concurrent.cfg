SPECIFICATION Spec
CONSTANTS
    a = a
    d1 = d1
    g = g
    p = p
    private = private
    s1 = s1
    s2 = s2
    s3 = s3
    secret = secret
    shared = shared
    x = x
    Unborn = Unborn
    Deleted = Deleted
    NoPage = NoPage
    Idle = Idle
    Tabs = {g, p}
    GMTabs = {g}
    DocIds = {d1}
    SecIds = {s1, s2, s3}
    CharacterRepos = {private}
    GroupRepos = {shared}
    OtherRepos = {}
    Paths = {a}
    Days = {0, 1}
    Texts = {x, secret}
    Secrets = {secret}
    MaxVersion = 2
    MaxSections = 2
    MaxRepeats = 1
    MaxInFlight = 2
    Reach <- MCReach
    DirectShares <- MCNoShares
SYMMETRY Symmetric
INVARIANTS
    TypeOK
    SecretsStayHidden
    NoOrphanSections
    PositionsDistinct
    DocumentHasEntry
PROPERTIES
    FreshSaveIsSafe
