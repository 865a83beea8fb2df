CONSTANTS
    Calls <- MCCalls
    Processes = {"p", "q"}
    ProcessOf <- MCProcessOf
    Users = {"ann", "bob", "user"}
    Superadmins = {"ann", "bob"}
    First <- MCFirst
    Expiring = {"u1"}
    Requests <- MCRequests
    MaxSessions = 2
SPECIFICATION Spec
INVARIANTS
    TypeOK
    LostUpdateIsExplained
    RevokedStaysRevoked
    ExchangedOnce
    LastSuperadminIsKept
CHECK_DEADLOCK FALSE
