SPECIFICATION FairSpec
CONSTANTS
    a = a
    b = b
    Jobs = {a, b}
    Schedule <- MCSchedule
    Offset <- MCWide
    DeleteAfterRun = {}
    Slow = {b}
    Raising = {a, b}
    Edited = {b}
    FirstJobs = {a, b}
    HasFile = TRUE
    Allowed = {"controller", "external", "fail", "restart"}
    MaxEdits = 1
    MaxTime = 3
    Horizon = 4
    Nil = Nil
PROPERTY ResultFollows
INVARIANTS NothingMissed NextOccurrenceIsPlanned PushHasWake
CHECK_DEADLOCK FALSE
