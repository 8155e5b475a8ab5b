SPECIFICATION MCSpec
CONSTANTS
    c1 = c1
    t1 = t1
    sp = sp
    fp = fp
    Made = 2
    ZERO = ZERO
    Clients = {c1}
    Tokens = {t1}
    Payees = {sp}
    MaxRails = 3
    Providers = {1}
    Miners = {1}
    AllocationIds = {1, 2, 3}
    Sectors = {1, 2}
    PaymentsContracts = {fp}
    EPOCHS_PER_MONTH = 1
    MaxEpoch = 2
    SPTerms = {}
    TokenLists = {}
    Prices = {}
    Commissions = {1}
    LockupAmounts = {1}
    Cids <- MCCids
    BlacklistEntries = {}
    PieceBatches <- MCPieceBatches
    Answers <- MCAnswers
    Notifications = {}
    Batches = {}
    Deposits = {}
    Limits = {}
    MaxFunds = 7
    BATCH_SIZE = 2
    UntilEpochs = {0}
    MaxRuns = 1
INVARIANTS
    SuccessMeansSucceeded
CHECK_DEADLOCK FALSE
