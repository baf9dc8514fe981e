SPECIFICATION Spec
CONSTANTS
    s1 = s1
    s2 = s2
    r1 = r1
    r2 = r2
    m1 = m1
    m2 = m2
    c1 = c1
    a1 = a1
    a2 = a2
    Nil = Nil
    Sessions = {s1, s2}
    Sends = {r1, r2}
    Supplements = {m1}
    Cancels = {}
    Approvals = {a1}
    SessionOf <- MCSessionOf
INVARIANT AsideIsReleased
CHECK_DEADLOCK FALSE
