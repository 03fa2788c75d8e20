SPECIFICATION FairSpec
CONSTANTS
    Procs = {p1, p2, p3}
    None = None
    Dead = Dead
    MaxCrashes = 1
CHECK_DEADLOCK FALSE
INVARIANTS
    TypeOK
    OverlapNeverSucceeds
    SomeoneSucceeds
    NothingLeft
PROPERTY
    EveryoneEnds
