SPECIFICATION Spec
CONSTANTS
    a = a
    Long = {}
    Packets = {p1}
    Peers = {a}
    Threads = {t1, t2}
    SlotIds = {1, 2, 3, 4, 5}
    RuleSets <- MCRuleSets
    Owns <- MCOwns
    Routable = {p1}
    Timeout <- MCTimeout
    Versions <- MCVersions
    VersionMod = 3
    MaxReloads = 2
    MaxTime = 2
INVARIANT TypeOK
INVARIANT FlowsAreScheduled
INVARIANT EntriesAreAllowed
PROPERTY PassesAreAllowed
