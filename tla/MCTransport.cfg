SPECIFICATION TunnelSpec
CONSTANTS
    WORD_BITS = 2
    WORDS = 2
    WINDOW_SIZE = 4
    MaxCounter = 7
    Payloads = {p1}
    PacketTypes = {MESSAGE, LIGHTHOUSE}
    MaxDamaged = 1
SYMMETRY TypeSymmetry
INVARIANT TypeOK
INVARIANT WindowExact
INVARIANT NoNonceReuse
INVARIANT DeliveredOnceAsSent
INVARIANT AcceptedMeansDelivered
PROPERTY ImplementsFilter
PROPERTY ImplementsWindow
