SPECIFICATION Spec
CONSTANTS
    Calls <- FourCalls
    Target <- Sides
    MaxCrashes = 0
    NoSnapshot = "none"
INVARIANTS EscrowPaysOneSide
CHECK_DEADLOCK FALSE
