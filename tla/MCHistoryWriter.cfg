SPECIFICATION FairSpec
CONSTANTS
    v1 = v1  v2 = v2  s = s
    Conns = {v1, v2, s}
    Kinds <- ConnKinds
    Size <- Sizes
    Slots = 2
    Bytes = 4
    QueueSize = 1
    MaxErrors = 1
    None = None
CHECK_DEADLOCK FALSE
INVARIANTS
    TypeOK
    Accounting
    ShutdownAcknowledged
    JoinedBeforeRelease
PROPERTIES
    Implements
    ShutdownCompletes
    EventsSettle
