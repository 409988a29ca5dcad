SPECIFICATION Spec
CONSTANTS
    a = a
    b = b
    t1 = t1
    t2 = t2
    Nodes = {a, b, c}
    Indexes = {i1, i2, i3}
    Verified = {a, b, c}
    KnownAddrs <- StaleAddrs
    Tasks = {t1, t2, t3}
    NodeOf <- MCNodeOf
    MaxEph = 4
    MaxSends = 2
SYMMETRY IndexSymmetry
INVARIANT TypeOK
INVARIANT IndexIsEstablished
INVARIANT ConnectedMeansTunnel
INVARIANT WaitersAreReachable
INVARIANT InitiatorHasPeer
INVARIANT DeliveredAsSent
INVARIANT NoNonceReuse
CHECK_DEADLOCK FALSE
