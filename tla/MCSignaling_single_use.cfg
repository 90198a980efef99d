CONSTANTS
    d1 = d1
    d2 = d2
    t1 = t1
    t2 = t2
    r1 = r1
    s1 = s1
    s2 = s2
    None = None
    Devices = {d1, d2}
    Transfers = {t1}
    Requests = {r1}
    Operations = {"create", "accept", "cancel"}
    Listeners = {}
    Leavers = {d1, d2}
    DbFails = TRUE
    MaxActivePerAccount = 1
    MaxActivePerDevice = 1
    Lifetime = 2
    DbLead = 0
    MaxTime = 3
    Sockets = {s1, s2}
    Kinds = {"sdp_offer"}
    MaxCandidates = 1
    MaxPerTransfer = 2
    MaxPerAccount = 3
    Retention = 3
    MaxRestarts = 0
SPECIFICATION SigSpec
SYMMETRY Symmetry
INVARIANTS
    SingleUseWhileLive
PROPERTY ControlSpec
CHECK_DEADLOCK FALSE
