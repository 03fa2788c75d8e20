SPECIFICATION Spec
CONSTANTS
    Repos = {r}
    Files = {f, g}
    Requests = {p, q}
    Jobs = {j}
    Locks = {l1, l2}
    None = None
    Deployments <- AllDeployments
CHECK_DEADLOCK FALSE
SYMMETRY CheckSymmetry
INVARIANTS
    TypeOK
    OneAtATime
    LockAccounting
    WarmupOwned
    VerdictMatchesLedger
PROPERTIES
    LedgerKept
