SPECIFICATION Spec
CONSTANTS
    k1 = k1
    k2 = k2
    a = a
    b = b
    s1 = s1
    Nil = Nil
    Absent = Absent
    Sessions = {s1}
    Tasks = {a, b}
    Streams = {a, b}
    SessionOf <- MCSessionOf
    Chats = {k1}
    MaxConns = 2
INVARIANTS
    LatestStreamFound
    PushFindsConnection
PROPERTY
    ImplementsQueue
CHECK_DEADLOCK FALSE
