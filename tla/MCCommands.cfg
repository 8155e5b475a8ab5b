SPECIFICATION MCSpec
CONSTANTS
    c1 = c1
    t1 = t1
    sp = sp
    fp = fp
    ZERO = ZERO
    Clients = {c1}
    Tokens = {t1}
    Payees = {sp}
    MaxRails = 3
    Providers = {1}
    Miners = {1}
    AllocationIds = {1, 2, 3}
    Sectors = {1}
    PaymentsContracts = {fp}
    EPOCHS_PER_MONTH = 1
    MaxEpoch = 1
    SPTerms = {}
    TokenLists = {}
    Prices = {}
    Commissions = {1, 101}
    LockupAmounts = {1}
    Cids <- MCCids
    BlacklistEntries <- MCBlacklistEntries
    PieceBatches = {}
    Answers = {}
    Notifications <- MCNotifications
    Batches = {}
    Deposits = {}
    Limits = {}
    MaxFunds = 20
    MaxRuns = 1
    User = c1
    MaxUint256 = 255
    Wallets <- MCWallets
    Terminals = {1, 2}
    BYTES_PER_TB = 4
    Registrations <- MCRegistrations
    ConfigUpdates <- MCConfigUpdates
    TokenUpdates <- MCTokenUpdates
    TokenAdditions <- MCTokenAdditions
    Environment = fp
    ContractFlags = {ZERO}
    Approvals <- MCApprovals
    AllowanceSets <- MCAllowanceSets
    Withdrawals <- MCWithdrawals
    ExampleSizes = {1, 2}
    ExampleTerms = {1, 2}
INVARIANTS
    CommandsTypeOK
    NeverPanics
    PricesAsAsked
    QuotesAreCosts
    ReportsAreTrue
    RailShownIsAllocations
PROPERTIES
    UpdateKeepsTerms
    UpdateKeepsAllowances
    ApprovalNeverLowers
    CheckedWithdrawals
    CommandsEnd
CHECK_DEADLOCK FALSE
