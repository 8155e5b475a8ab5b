SPECIFICATION MCSpec
CONSTANTS
    c1 = c1
    c2 = c2
    t1 = t1
    t2 = t2
    sp1 = sp1
    sp2 = sp2
    ZERO = ZERO
    Clients = {c1, c2}
    Tokens = {t1, t2}
    Payees = {sp1, sp2}
    MaxRails = 2
    Providers = {1, 2}
    Miners = {1}
    AllocationIds = {1, 2}
    Sectors = {1}
    PaymentsContracts = {fp}
    EPOCHS_PER_MONTH = 1
    MaxEpoch = 0
    SPTerms <- MCTerms
    TokenLists <- MCTokenLists
    Prices = {1, 2}
    Commissions = {0, 1}
    LockupAmounts = {0, 1}
    Cids <- MCCids
    BlacklistEntries = {}
    PieceBatches <- MCPieceBatches
    Answers <- MCAnswers
    Notifications = {}
    Batches = {}
    Deposits = {1}
    Limits <- MCLimits
    MaxFunds = 1
SYMMETRY MCSymmetry
INVARIANTS
    RegistryConsistent
    IndexesAgree
    RailBinding
    GuardReleased
PROPERTIES
    RemovalKeepsOthers
    DeactivationIsFinal
    CreatedAsOffered
    BatchesAreAtomic
CHECK_DEADLOCK FALSE
