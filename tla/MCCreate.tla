------------------------------ MODULE MCCreate ------------------------------
(***************************************************************************)
(* `allocations create-from-file' for a client who has some tokens, and    *)
(* perhaps an account and an approval from before, while the owner changes *)
(* the offer and the lockup amount.                                        *)
(***************************************************************************)
EXTENDS CreateFromFile

CONSTANTS
    c1, t1, sp, fp,
    Made,           \* the numbers of allocations made before: 0 or 1
    Balances,       \* tokens the user may have at first
    Allowed         \* what the payments contract may take of them

MCPiece ==
    [pieceCid |-> <<1>>, size |-> 1, provider |-> 1, termMin |-> 2, termMax |-> 2,
     paymentTokenAddress |-> t1]

MCCids == {<<1>>}

MCPieces == {MCPiece}

\* An answer may be without allocations.
MCAnswers == {<<>>} \cup {<<a>> : a \in AllocationIds}

MCWallets ==
    {[t \in {t1} |-> [balance |-> p[1], allowances |-> [c \in {fp} |-> p[2]]]] :
        p \in {q \in Balances \X Allowed : q[2] <= q[1]}}

Account1 == <<c1, t1>>

Limit(rate, lockup, period) ==
    [isApproved |-> TRUE, rateAllowance |-> rate, lockupAllowance |-> lockup,
     maxLockupPeriod |-> period]

\* Left by earlier commands, or set by hand, the last one without a period.
MCLimits == {Limit(0, 20, 2), Limit(1, 2, 2), Limit(1, 20, 2), Limit(9, 2, 2),
             Limit(9, 20, 0)}

Offer(price) == <<[token |-> t1, isActive |-> TRUE, pricePerBytePerEpoch |-> price]>>

Offered(price, lockup) ==
    [Initialized(fp, 1, lockup) EXCEPT
        !.spConfigs[1] =
            [paymentAddress |-> sp, minPieceSize |-> 1, maxPieceSize |-> 1,
             minTermLength |-> 1, maxTermLength |-> 2, isActive |-> TRUE,
             supportedTokens |-> Offer(price)],
        !.registeredSPIds = <<1>>]

\* A new user, or one who has deposited and approved.
Accounts ==
    {PayInit} \cup
    {SetOperatorApproval(Deposit(PayInit, Account1, d, 0), Account1, limits) :
        d \in Deposits, limits \in Limits}

\* A rail of an activated allocation, opened and activated in block 0.
Opened(p) ==
    LET r == p.nextRailId
        created == ModifyRailLockup(CreateRail(p, t1, c1, sp, 1, 0), r, 0, 1, 0)
    IN  ModifyRailLockup(ModifyRailPayment(created, r, 1, 0), r,
                         EPOCHS_PER_MONTH, 0, 0)

Active ==
    [client |-> c1, provider |-> 1, activated |-> TRUE, pieceCidHash |-> <<1>>,
     paymentToken |-> t1, pieceSize |-> 1, railId |-> 1,
     pricePerBytePerEpoch |-> 1, sectorNumber |-> 1]

WithActive(state) ==
    [state EXCEPT !.allocationInfos[1] = Active,
                  !.allocationIdsByClient[c1] = <<1>>,
                  !.allocationIdsByProvider[1] = <<1>>,
                  !.railIdToAllocationId[1] = 1]

\* The account can have paid for that allocation.
Affords(p) == p.accounts[Account1].funds >= 3 /\ p.approvals[Account1].rateAllowance >= 1

\* A client without an allocation starts the command once, one with an
\* allocation up to MaxRuns times.
MCInit ==
    /\ \E made \in Made, price \in Prices, lockup \in LockupAmounts, account \in Accounts :
          /\ made = 1 => Affords(account)
          /\ s = IF made = 0 THEN Offered(price, lockup)
                 ELSE WithActive(Offered(price, lockup))
          /\ pay = [c \in {fp} |-> IF made = 0 THEN account ELSE Opened(account)]
          /\ cmd = [NotStarted EXCEPT !.run = IF made = 0 THEN MaxRuns - 1 ELSE 0]
    /\ epoch = 0
    /\ call = Idle
    /\ txs = <<>>
    /\ wallet \in Wallets
    /\ deals = <<>>

\* What others do, in the block the command starts in.
Environment ==
    \/ \E price \in Prices, active \in BOOLEAN : updateSPToken(1, t1, price, active)
    \/ \E amount \in LockupAmounts : setAllocationLockupAmount(amount)
    \/ \E r \in RailIds : terminateRail(fp, r) \/ settleRail(fp, r)

\* With everything, or with neither the setup nor Curio.
Executes == \E piece \in Pieces, all \in BOOLEAN : execute(fp, piece, all, all)

MCNext ==
    \/ Executes \/ Command \/ requestFails \/ interrupt \/ Mine
    \/ Others(Environment)

MCSpec == MCInit /\ [][MCNext]_cffVars
=============================================================================
