SPECIFICATION MCSpec
CONSTANTS
    c1 = c1
    t1 = t1
    sp = sp
    ZERO = ZERO
    Clients = {c1}
    Tokens = {t1}
    Payees = {sp}
    MaxRails = 2
    Providers = {1}
    Miners = {1}
    AllocationIds = {1, 2}
    Sectors = {1, 2}
    PaymentsContracts = {fp}
    EPOCHS_PER_MONTH = 1
    MaxEpoch = 3
    SPTerms <- MCTerms
    TokenLists <- MCTokenLists
    Prices = {}
    Commissions = {1}
    LockupAmounts = {1}
    Cids <- MCCids
    BlacklistEntries <- MCBlacklistEntries
    PieceBatches <- MCPieceBatches
    Answers <- MCAnswers
    Notifications <- MCNotifications
    Batches <- MCBatches
    Deposits = {3}
    Limits <- MCLimits
    MaxFunds = 6
PROPERTIES
    BlacklistBlocksSettlement
CHECK_DEADLOCK FALSE
