CONSTANTS
    Devices = {d1, d2, d3}
    Requests = {r1, r2}
    Sessions = {s0, s1, s2}
    Logins = {c1}
    Registrations = {g1, g2}
    Bootstraps = {k1}
    Codes = {o1}
    First = d1
    FirstSession = s0
    MaxFailures = 2
    MaxWrongProofs = 1
    DbFails = TRUE
    None = None
SPECIFICATION ASpec
SYMMETRY Symmetry
INVARIANTS
    CodeLinksOnce
    ProofUsedOnce
    LogoutEndsSessions
CHECK_DEADLOCK FALSE
