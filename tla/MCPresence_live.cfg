CONSTANTS
    d1 = d1
    d2 = d2
    c1 = c1
    c2 = c2
    l1 = l1
    n1 = n1
    None = None
    Devices = {d1}
    Conns = {c1, c2}
    Logouts = {l1}
    Notifiers = {}
    MaxConnections = 2
    MaxQueueMessages = 2
    MaxQueueBytes = 3
    NoticeBytes = 2
    HeartbeatTimeout = 1
    DbFails = TRUE
    MaxTime = 0
SPECIFICATION PFairSpec
PROPERTIES
    LoggedOutGoes
    Greeted
CHECK_DEADLOCK FALSE
