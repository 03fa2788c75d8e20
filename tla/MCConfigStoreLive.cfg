SPECIFICATION FairSpec
CONSTANTS
    p1 = p1  p2 = p2  o1 = o1  o2 = o2
    repo = repo  x = x  y = y
    alice = alice  bob = bob  root = root
    Registers = {p1, p2}
    Onboards = {o1, o2}
    Repos = {repo}
    Configs = {x, y}
    Callers = {alice, bob, root}
    Local = Local
    Admins = Admins
    None = None
    Listed <- Admin
    Scenarios <- Short
PROPERTIES EventuallySynced
CHECK_DEADLOCK FALSE
