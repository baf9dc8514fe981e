SPECIFICATION FairSpec
CONSTANTS
    Starts = {a}
    Stops = {b, c}
    Restarts = {d}
    Crashing = {a}
    Nil = Nil
INVARIANTS
    ServicesExclusive
    StopsAimAtHolder
    RunningIsVisible
    NoServicesLeft
PROPERTY CommandsSettle
CHECK_DEADLOCK FALSE
