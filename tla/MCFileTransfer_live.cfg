CONSTANTS
    Chunks = 2
    High = 3
    Low = 0
    MaxFrame = 2
    Control = 1
    Cancellers = {"sender", "recipient"}
    Leavers = {"recipient"}
    Drops = TRUE
    Damages = FALSE
    ReadFails = FALSE
SPECIFICATION FFairSpec
PROPERTIES
    Delivers
    SendFileSettles
CHECK_DEADLOCK FALSE
