SPECIFICATION Spec
CONSTANTS
    d1 = d1
    d2 = d2
    u1 = u1
    u2 = u2
    Syncs <- Handlers
    Events = {"completed"}
    NoEvent = "no event"
    EventOf <- HandledEvent
    MaxTries = 1
    MaxRestarts = 0
    None = None
SYMMETRY Interchangeable
INVARIANTS ProcessedIsCredited
CHECK_DEADLOCK FALSE
