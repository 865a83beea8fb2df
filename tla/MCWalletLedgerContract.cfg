SPECIFICATION FairSpec
CONSTANTS
    Requests = {"topup", "again", "withdraw", "refund"}
    Keys <- AllKeys
    Wallets <- AllWallets
    Cases <- AllCases
    NoCase = "no case"
    NoRequest = "no request"
    KeyOf <- MCKeyOf
    WalletOf <- MCWalletOf
    KindOf <- MCKindOf
    AmountOf <- MCAmountOf
    CaseOf <- MCCaseOf
    Opening <- MCOpening
    Reserved <- MCReserved
    CaseStart <- MCStart
    InstantsDistinct = TRUE
PROPERTIES KeepsContract EveryCallIsAnswered
CHECK_DEADLOCK FALSE
