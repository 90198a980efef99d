CONSTANTS
    d1 = d1
    d2 = d2
    t1 = t1
    t2 = t2
    r1 = r1
    s1 = s1
    None = None
    Devices = {d1, d2}
    Transfers = {t1, t2}
    Requests = {r1}
    Operations = {"create", "cancel"}
    Listeners = {}
    Leavers = {}
    DbFails = FALSE
    MaxActivePerAccount = 2
    MaxActivePerDevice = 2
    Lifetime = 1
    DbLead = 0
    MaxTime = 2
    Sockets = {s1}
    Kinds = {"ice_candidate"}
    MaxCandidates = 2
    MaxPerTransfer = 2
    MaxPerAccount = 3
    Retention = 2
    MaxRestarts = 1
SPECIFICATION SigSpec
SYMMETRY Symmetry
INVARIANTS
    BudgetExact
CHECK_DEADLOCK FALSE
