SPECIFICATION FairSpec
CONSTANTS
    c1 = c1
    c2 = c2
    Commands <- TwoCommands
    NoSnapshot = NoSnapshot
    MaxCalls = 2
    MaxCrashes = 2
INVARIANTS LossIsExplained AppRowFollowsLedger AnsweredIsKept
PROPERTIES StoreCatchesUp
CHECK_DEADLOCK FALSE
