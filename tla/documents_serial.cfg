SPECIFICATION Spec
CONSTANTS
    a = a
    d1 = d1
    g = g
    p = p
    private = private
    s1 = s1
    s2 = s2
    secret = secret
    shared = shared
    x = x
    Unborn = Unborn
    Deleted = Deleted
    NoPage = NoPage
    Idle = Idle
    Tabs = {g, p}
    GMTabs = {g}
    DocIds = {d1}
    SecIds = {s1, s2}
    CharacterRepos = {private}
    GroupRepos = {shared}
    OtherRepos = {}
    Paths = {a}
    Days = {0}
    Texts = {x, secret}
    Secrets = {secret}
    MaxVersion = 4
    MaxSections = 2
    MaxRepeats = 1
    MaxInFlight = 1
    Reach <- MCReach
    DirectShares <- MCNoShares
SYMMETRY Symmetric
PROPERTIES
    NoSilentOverwrite
    GMOnlyUntouched
