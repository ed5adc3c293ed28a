SPECIFICATION FairSpec
CONSTANTS
    w1 = w1
    w2 = w2
    r1 = r1
    p = p
    Requests = {w1, w2, r1}
    Paths = {p}
    Kind <- MCKind
    Path <- MCPath
    BulkAck = BulkAck
    MaxQueueLength = 2
    RequestTimeout = 1
    MaxQueueWait = 2
    MaxDelay = 2
    MaxLost = 1
    MaxPushes = 1
INVARIANTS
    NoForeignAck
    ReadYourWrites
PROPERTIES
    EveryCallSettles
    ImplementsContract
