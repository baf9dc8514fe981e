SPECIFICATION FairSpec
CONSTANTS
    k1 = k1
    k2 = k2
    r1 = r1
    r2 = r2
    Nil = Nil
    Calls = {k1, k2}
    Streams = {k1}
    Rids = {r1, r2}
    RidOf <- RidUnique
    MaxChunks = 2
    MaxPushes = 1
    MaxConnects = 2
INVARIANTS
    QueueHasCaller
    RightAnswers
    NothingMissing
PROPERTIES
    QueueKeptWhileWaiting
    ImplementsRpc
    StreamEndsOrLost
CHECK_DEADLOCK FALSE
