SPECIFICATION FairSpec
CONSTANTS
    s1 = s1
    s2 = s2
    r1 = r1
    r2 = r2
    m1 = m1
    m2 = m2
    c1 = c1
    a1 = a1
    a2 = a2
    Nil = Nil
    Sessions = {s1}
    Sends = {r1}
    Supplements = {m1}
    Cancels = {c1}
    Approvals = {a1, a2}
    SessionOf <- MCSessionOf
INVARIANTS ApprovalsAccounted SupplementsAccounted CancelIsThorough
PROPERTIES GivenOnce CancelsEnd ChatsStart
CHECK_DEADLOCK FALSE
