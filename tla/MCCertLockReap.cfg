SPECIFICATION Spec
CONSTANTS
    Procs = {p1, p2, p3}
    None = None
    Dead = Dead
    MaxCrashes = 0
CHECK_DEADLOCK FALSE
SYMMETRY ProcSymmetry
INVARIANT
    MutualExclusion
