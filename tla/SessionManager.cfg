SPECIFICATION Spec
CONSTANTS
    s1 = s1
    s2 = s2
    t1 = t1
    t2 = t2
    t3 = t3
    t4 = t4
    c1 = c1
    c2 = c2
    Nil = Nil
    Absent = Absent
    Sessions = {s1, s2}
    Tasks = {t1, t2, t3, t4}
    Cancellers = {c1, c2}
    Streams = {t4}
    SessionOf <- MCSessionOf1234
SYMMETRY SymUnary
INVARIANTS
    OneTaskPerSession
    QueuedIsServed
    UnaryIsVisible
PROPERTIES
    NewestFirst
CHECK_DEADLOCK FALSE
