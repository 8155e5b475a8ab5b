SPECIFICATION MCSpec
CONSTANTS
    c1 = c1
    t1 = t1
    sp = sp
    fp = fp
    Made = {0, 1}
    Balances = {8}
    Allowed = {0}
    ZERO = ZERO
    Clients = {c1}
    Tokens = {t1}
    Payees = {sp}
    MaxRails = 3
    Providers = {1}
    Miners = {1}
    AllocationIds = {1, 2, 3}
    Sectors = {1}
    PaymentsContracts = {fp}
    EPOCHS_PER_MONTH = 2
    MaxEpoch = 0
    SPTerms = {}
    TokenLists = {}
    Prices = {1}
    Commissions = {1}
    LockupAmounts = {1, 5}
    Cids <- MCCids
    BlacklistEntries = {}
    PieceBatches = {}
    Answers <- MCAnswers
    Notifications = {}
    Batches = {}
    Deposits = {5}
    Limits <- MCLimits
    MaxFunds = 20
    MaxRuns = 2
    User = c1
    MaxUint256 = 255
    Pieces <- MCPieces
    Wallets <- MCWallets
INVARIANTS
    CFFTypeOK
    SetupSuffices
    SetupLasts
    DealsMatchAllocations
CHECK_DEADLOCK FALSE
