SPECIFICATION Spec
CONSTANTS
    a = a
    b = b
    t1 = t1
    t2 = t2
    Nodes = {a, b}
    Indexes = {i1, i2, i3}
    Verified = {a, b}
    KnownAddrs <- PairAddrs
    Tasks = {t1}
    NodeOf <- MCNodeOf
    MaxEph = 3
    MaxSends = 1
SYMMETRY IndexSymmetry
INVARIANT SendersAreUnderstood
CHECK_DEADLOCK FALSE
