SPECIFICATION LoopSpec
CONSTANTS
    k1 = k1
    k2 = k2
    a = a
    b = b
    s1 = s1
    Nil = Nil
    Absent = Absent
    Sessions = {s1}
    Tasks = {a, b}
    Streams = {a}
    SessionOf <- MCSessionOf
    Chats = {k1, k2}
    MaxConns = 1
PROPERTIES
    CancelIsEffective
    CloseEnds
    ChatCancelEnds
    HandlersEnd
CHECK_DEADLOCK FALSE
