SPECIFICATION FairSpec
CONSTANTS
    Ids = {a, b, c}
    ManagedFiles = 2
    None = None
    Torn = Torn
    Many = Many
    MaxAborts = 0
    StrayFiles = TRUE
PROPERTY
    ForcedPartialRotates
