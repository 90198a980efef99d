SYMMETRY Symmetry
CONSTANTS
    Ids = {s1, s2}
    Tickets = {k1}
    Workers = {w1, w2}
    IdleLife = 2
    AbsoluteLife = 3
    TicketLife = 1
    Retention = 1
    Batch = 1
    MaxTime = 3
    MaxSecrets = 1
SPECIFICATION Spec
INVARIANTS
    TicketOnce
    RotationLine
PROPERTIES
    NothingAfterLogout
    OverStaysOver
    CleanupSpares
