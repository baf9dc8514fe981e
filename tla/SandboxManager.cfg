SPECIFICATION Spec
CONSTANTS
    b1 = b1
    b2 = b2
    Workload <- MCTwo
    Sandboxes = {b1, b2}
    Ops = {o1, o2}
    Procs = {p1, p2}
    Permits = 1
    MaxRules = 1
    Nil = Nil
SYMMETRY Sym
INVARIANTS
    NoOrphanDaemon
    GoneIsClean
    RuleWhileRunning
CHECK_DEADLOCK FALSE
