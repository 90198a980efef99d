CONSTANTS
    d1 = d1
    d2 = d2
    t1 = t1
    r1 = r1
    r2 = r2
    None = None
    Devices = {d1, d2}
    Transfers = {t1}
    Requests = {r1, r2}
    Operations = {"create", "accept", "reject", "cancel", "expire", "get", "list"}
    Listeners = {d1, d2}
    Leavers = {d1, d2}
    DbFails = TRUE
    MaxActivePerAccount = 1
    MaxActivePerDevice = 1
    Lifetime = 1
    DbLead <- Behind
    MaxTime = 2
SPECIFICATION Spec
SYMMETRY Symmetry
INVARIANTS
    TypeOK
    NoticeOnce
    AcceptanceRecorded
PROPERTY LifecycleSpec
CHECK_DEADLOCK FALSE
