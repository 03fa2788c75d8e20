SPECIFICATION FairSpec
CONSTANTS
    Ids = {a, b, c}
    ManagedFiles = 2
    None = None
    Torn = Torn
    Many = Many
    MaxAborts = 2
    StrayFiles = FALSE
INVARIANTS
    TypeOK
    CurrentComplete
    PredecessorKept
    NoTempPileUp
    SuccessSettled
PROPERTIES
    RetentionExact
    NoRollback
    AlwaysUsable
    EditedFilesKept
    RecoveryCompletes
