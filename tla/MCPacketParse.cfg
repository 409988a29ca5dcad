SPECIFICATION Spec
CONSTANTS
    V4Packets <- MCV4Packets
    V6Packets <- MCV6Packets
    Filler = 6
INVARIANT ParsesAsBuilt
INVARIANT ReadsInBounds
INVARIANT ReplyIsSameFlow
PROPERTY WalkTerminates
CHECK_DEADLOCK FALSE
