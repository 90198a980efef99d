CONSTANTS
    d1 = d1
    d2 = d2
    c1 = c1
    c2 = c2
    l1 = l1
    n1 = n1
    None = None
    Devices = {d1, d2}
    Conns = {c1, c2}
    Logouts = {}
    Notifiers = {n1}
    MaxConnections = 2
    MaxQueueMessages = 2
    MaxQueueBytes = 3
    NoticeBytes = 2
    HeartbeatTimeout = 1
    DbFails = FALSE
    MaxTime = 1
SPECIFICATION PSpec
SYMMETRY Symmetry
INVARIANTS
    QueuesMatchSockets
    QueueExact
    OpenIsOwned
CHECK_DEADLOCK FALSE
