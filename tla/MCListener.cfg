SPECIFICATION Spec
CONSTANTS
    ADDR_BITS = 3
    Certs <- MCCerts
    Packets <- MCPackets
    Multicast = {0}
    Ours = {1}
    Rules <- MCRules
    MaxRead = 2
    MaxQueued = 1
    MaxHandshakes = 2
INVARIANT ForwardedIsOwned
INVARIANT ForwardedIsAskedFor
PROPERTY PacketsAreSettled
PROPERTY EndsTogether
CHECK_DEADLOCK FALSE
