SPECIFICATION Spec
CONSTANTS
    Calls <- FourCalls
    Target <- Sides
    MaxCrashes = 1
    NoSnapshot = "none"
INVARIANTS OneSidePaid SettledIsPaid
CHECK_DEADLOCK FALSE
