SPECIFICATION FairSpec
CONSTANTS
    a = a
    b = b
    v = v
    None = None
    StaleAge = 4
    MaxDelay = 2
    Onboards = {a, b}
    Validates = {v}
    Builds = {"old", "new", "other"}
    OldBuilds = {"old"}
    Scenarios <- Machines
INVARIANTS
    TypeOK
    OneRestart
    LockAlive
    QuietIsCurrent
PROPERTIES
    EveryRunEnds
    OrphanReaped
