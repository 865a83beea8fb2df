SPECIFICATION Spec
CONSTANTS
    Requests = {"topup", "again", "withdraw", "release", "refund"}
    Keys <- AllKeys
    Wallets <- AllWallets
    Cases <- AllCases
    NoCase = "no case"
    NoRequest = "no request"
    KeyOf <- MCKeyOf
    WalletOf <- MCWalletOf
    KindOf <- MCKindOf
    AmountOf <- MCAmountOf
    CaseOf <- MCCaseOf
    Opening <- MCOpening
    Reserved <- MCReserved
    CaseStart <- MCStart
    InstantsDistinct = FALSE
INVARIANTS LedgerExplainsBalance AppliedOncePerKey AnswersAgree OneSidePaid
PROPERTIES SettlementIsFinal
CHECK_DEADLOCK FALSE
