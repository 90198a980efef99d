CONSTANTS
    MaxCandidates <- TwoAndOne
    MaxQueued = 1
    MaxPending = 1
    MaxTroubles = 1
SPECIFICATION FairSpec
INVARIANTS
    OneSession
    GoneAfterCleanup
    CandidatesKept
    EngineListens
PROPERTY BothConnect
CHECK_DEADLOCK FALSE
