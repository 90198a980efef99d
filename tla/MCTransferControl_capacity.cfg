CONSTANTS
    d1 = d1
    d2 = d2
    d3 = d3
    t1 = t1
    t2 = t2
    t3 = t3
    r1 = r1
    r2 = r2
    None = None
    Devices = {d1, d2, d3}
    Transfers = {t1, t2, t3}
    Requests = {r1, r2}
    Operations = {"create"}
    Listeners = {}
    Leavers = {d1}
    DbFails = TRUE
    MaxActivePerAccount = 2
    MaxActivePerDevice = 2
    Lifetime = 1
    DbLead = 0
    MaxTime = 1
SPECIFICATION FairSpec
INVARIANT CapacityBound
PROPERTY HandlersReturn
CHECK_DEADLOCK FALSE
