CONSTANTS
    Requests = {r1, r2, r3}
    e1 = e1
    e2 = e2
    n1 = n1
    Buckets <- MCBuckets
    Wants <- MCWants
    Limit <- MCLimit
    Window = 1
    DbFails = TRUE
    None = None
    MaxTime = 1
    Devices = {d1, d2, d3}
    Sender = d1
    Recipient = d2
    Deadline = 1
    Payloads <- MCPayloads
    MaxAsks = 2
    MaxClock = 1
    m1 = m1
    m2 = m2
    v1 = v1
    v2 = v2
    v3 = v3
    v4 = v4
    Emails = {m1, m2}
    Spellings = {v1, v2, v3, v4}
    Normal <- MCNormal
    Users = {u1, u2}
    Attempts = {b1, b2}
    MaxGrants = 2
    MaxEvents = 1
    Invalid = Invalid
    NoOne = NoOne
    Gone = Gone
SPECIFICATION ServicesSpec
INVARIANTS
    GrantsBounded
    IssuedToEntitled
    ParserIsExact
    GuessesPerMailbox
    CollisionIsTwin
PROPERTIES
    AllOrNothing
    RequestsFinish
CHECK_DEADLOCK FALSE
