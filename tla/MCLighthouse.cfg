SPECIFICATION Spec
CONSTANTS
    Hosts <- MCHosts
    StaticHosts <- MCStaticHosts
    Targets <- MCTargets
    Peers <- MCPeers
    Publications <- MCPublications
    Answers <- MCAnswers
    Calls = {c1, c2}
    Builder = builder
    V4Size = 4
    MapBase = 8
    PortSize = 4
    MaxMetas = 3
INVARIANT WaitersAreRegistered
INVARIANT KnownIsNotAwaited
INVARIANT PublishedIsLearned
INVARIANT LighthousesHaveTunnels
PROPERTY AnswerWakes
PROPERTY CallsReturn
CHECK_DEADLOCK FALSE
