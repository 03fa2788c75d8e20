SPECIFICATION FairSpec
CONSTANTS
    Repos = {r}
    Files = {f}
    Requests = {p, q}
    Jobs = {j}
    Locks = {l1, l2}
    None = None
    Deployments <- WarmupOnly
CHECK_DEADLOCK FALSE
PROPERTIES
    EveryRequestAnswered
