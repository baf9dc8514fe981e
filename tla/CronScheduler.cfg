SPECIFICATION Spec
CONSTANTS
    a = a
    b = b
    Jobs = {a, b}
    Schedule <- MCShort
    Offset <- MCOffset
    DeleteAfterRun = {b}
    Slow = {a, b}
    Raising = {a}
    Edited = {a}
    FirstJobs = {a, b}
    HasFile = TRUE
    Allowed = {"controller", "run_now", "restart"}
    MaxEdits = 1
    MaxTime = 3
    Horizon = 4
    Nil = Nil
INVARIANTS ResultOnce UndisturbedOnce UndisturbedDelivered
CHECK_DEADLOCK FALSE
