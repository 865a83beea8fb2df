CONSTANTS
    Calls <- MCCalls
    Rows <- MCRows
    Values <- MCValues
    Absent = Absent
    Projected <- MCProjected
    NoSnapshot = NoSnapshot
    NoRow = NoRow
    MaxRestarts = 1
    Funding <- MCFunding
    StartFunding = 1
    ProfitRate = 12
    InterestRate = 7
    MaxAttempts = 2
    Scenarios <- MCScenarios
SPECIFICATION Spec
INVARIANTS
    TypeOK
    StoreAgrees
    FundingIsCounted
    LoansRepayWhatIsExpected
    CertificateIsEarned
    OneOfEach
    PaidIsEnrolled
    PayoutShows
    RefundedOnce
PROPERTIES
    CollectsWhatItChanges
    FinalCertificatesStay
CHECK_DEADLOCK FALSE
