SPECIFICATION MCSpec
CONSTANTS
    c1 = c1
    t1 = t1
    sp = sp
    fp = fp
    Made = 1
    ZERO = ZERO
    Clients = {c1}
    Tokens = {t1}
    Payees = {sp}
    MaxRails = 2
    Providers = {1}
    Miners = {1}
    AllocationIds = {1, 2}
    Sectors = {1, 2}
    PaymentsContracts = {fp}
    EPOCHS_PER_MONTH = 1
    MaxEpoch = 1
    SPTerms = {}
    TokenLists = {}
    Prices = {}
    Commissions = {1}
    LockupAmounts = {1}
    Cids <- MCCids
    BlacklistEntries = {}
    PieceBatches <- MCPieceBatches
    Answers <- MCAnswers
    Notifications = {}
    Batches = {}
    Deposits = {}
    Limits = {}
    MaxFunds = 7
    BATCH_SIZE = 1
    UntilEpochs = {0}
    MaxRuns = 1
PROPERTIES
    CommandEnds
CHECK_DEADLOCK FALSE
