CONSTANTS
    Chunks = 2
    High = 3
    Low = 0
    MaxFrame = 2
    Control = 1
    Cancellers = {"sender", "recipient"}
    Leavers = {"sender", "recipient"}
    Drops = TRUE
    Damages = TRUE
    ReadFails = TRUE
SPECIFICATION FSpec
INVARIANTS
    NonceOnce
    ReceiptMeansDelivered
    Backpressure
CHECK_DEADLOCK FALSE
