SPECIFICATION FairSpec
CONSTANTS
    b1 = b1
    b2 = b2
    Workload <- MCAll
    Sandboxes = {b1}
    Ops = {o1, o2}
    Procs = {p1, p2}
    Permits = 1
    MaxRules = 1
    Nil = Nil
PROPERTIES
    CallsReturn
    
CHECK_DEADLOCK FALSE
