SPECIFICATION ReachSpec
CONSTANTS
    Machines <- AllGraphs
    Unknown = "unknown"
    None = "none"
INVARIANTS NothingAheadIsLost SearchIsReachability
CHECK_DEADLOCK FALSE
