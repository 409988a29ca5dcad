SPECIFICATION Spec
CONSTANTS
    a = a
    Long = {p2}
    Packets = {p1, p2, p3}
    Peers = {a, b}
    Threads = {t1}
    SlotIds = {1, 2, 3, 4, 5, 6}
    RuleSets <- MCRuleSets
    Owns <- MCOwns
    Routable = {p1, p2}
    Timeout <- MCTimeout
    Versions <- MCVersions
    VersionMod = 3
    MaxReloads = 2
    MaxTime = 2
INVARIANT PurgeRemovesExpired
INVARIANT PurgeIsClosedForm
PROPERTY RefreshExtends
