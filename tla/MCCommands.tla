----------------------------- MODULE MCCommands -----------------------------
(***************************************************************************)
(* Two terminals of the diamond's owner, or two of a user, whose commands  *)
(* overlap in every way.  Nobody else has the key.                         *)
(***************************************************************************)
EXTENDS Commands

CONSTANTS c1, t1, sp, fp

MCCids == {<<1>>}

MCBlacklistEntries == {<<1, 1>>}

OfferedTerms(payee, minPiece, maxPiece, minTerm, maxTerm) ==
    [paymentAddress |-> payee, minPieceSize |-> minPiece, maxPieceSize |-> maxPiece,
     minTermLength |-> minTerm, maxTermLength |-> maxTerm]

\* All terms; some of them; a range that is empty with the registered terms;
\* and no address.
All == OfferedTerms(sp, 1, 2, 1, 2)
Some == OfferedTerms(sp, 2, 0, 0, 3)
Empty == OfferedTerms(sp, 0, 0, 5, 0)
Nowhere == OfferedTerms(ZERO, 1, 1, 1, 1)

Input(price, active) == [token |-> t1, price |-> price, isActive |-> active]

Registration(given, tokens, file, dryRun) ==
    [actorId |-> 1, given |-> given, tokens |-> tokens, file |-> file, dryRun |-> dryRun]

MCRegistrations ==
    {Registration(All, <<Input(9, TRUE)>>, FALSE, dryRun) : dryRun \in BOOLEAN} \cup
    {Registration(Nowhere, <<Input(9, TRUE)>>, FALSE, FALSE),
     Registration(All, <<>>, TRUE, FALSE),
     Registration(All, <<Input(9, FALSE)>>, TRUE, FALSE),
     Registration(All, <<Input(9, TRUE), Input(5, TRUE)>>, FALSE, FALSE)}

MCConfigUpdates ==
    {[actorId |-> 1, given |-> given, dryRun |-> FALSE] :
        given \in {All, Some, Empty, Nowhere}} \cup
    {[actorId |-> 1, given |-> Some, dryRun |-> TRUE]}

TokenUpdate(price, active, inactive) ==
    [actorId |-> 1, token |-> t1, price |-> price, active |-> active,
     inactive |-> inactive]

MCTokenUpdates == {TokenUpdate(3, TRUE, FALSE), TokenUpdate(9, TRUE, TRUE)}

MCTokenAdditions == {[actorId |-> 1, token |-> t1, price |-> 9]}

Approval1(amount, unlimited, checkOnly) ==
    [contract |-> ZERO, token |-> t1, amount |-> amount, unlimited |-> unlimited,
     checkOnly |-> checkOnly]

MCApprovals ==
    {Approval1(<<>>, FALSE, FALSE), Approval1(<<5>>, FALSE, FALSE),
     Approval1(<<2>>, TRUE, FALSE), Approval1(<<>>, FALSE, TRUE)}

Allowance(approved, rate, lockup, period, unlimited, checkOnly) ==
    [contract |-> ZERO, token |-> t1, approved |-> approved, rate |-> rate,
     lockup |-> lockup, period |-> period, unlimited |-> unlimited,
     checkOnly |-> checkOnly]

MCAllowanceSets ==
    {Allowance(TRUE, <<5>>, <<>>, <<>>, FALSE, FALSE),
     Allowance(TRUE, <<>>, <<5>>, <<>>, FALSE, FALSE),
     Allowance(FALSE, <<>>, <<>>, <<5>>, FALSE, FALSE),
     Allowance(TRUE, <<>>, <<>>, <<>>, TRUE, FALSE),
     Allowance(TRUE, <<>>, <<>>, <<>>, FALSE, TRUE)}

Withdrawal(amount, to, checkBalance) ==
    [contract |-> ZERO, token |-> t1, amount |-> amount, to |-> to,
     checkBalance |-> checkBalance]

MCWithdrawals ==
    {Withdrawal(<<2>>, FALSE, TRUE), Withdrawal(<<4>>, TRUE, TRUE),
     Withdrawal(<<2>>, TRUE, FALSE)}

Entry(price) == <<[token |-> t1, pricePerBytePerEpoch |-> price, isActive |-> TRUE]>>

Deployed == Initialized(fp, 0, 0)

WithProvider(state) ==
    [state EXCEPT
        !.spConfigs[1] =
            [paymentAddress |-> sp, minPieceSize |-> 1, maxPieceSize |-> 2,
             minTermLength |-> 1, maxTermLength |-> 2, isActive |-> TRUE,
             supportedTokens |-> Entry(1)],
        !.registeredSPIds = <<1>>]

Key1 == <<c1, t1>>

Limit(rate, lockup, period) ==
    [isApproved |-> TRUE, rateAllowance |-> rate, lockupAllowance |-> lockup,
     maxLockupPeriod |-> period]

\* A user without an allocation; or one with allocation 2, whose rail 1 is
\* activated, and then allocation 1, whose rail 2 is not.
Fresh1 == SetOperatorApproval(Deposit(PayInit, Key1, 3, 0), Key1, Limit(2, 3, 1))

Railed ==
    LET p == SetOperatorApproval(Deposit(PayInit, Key1, 3, 0), Key1, Limit(2, 3, 1))
        rail1 == ModifyRailLockup(CreateRail(p, t1, c1, sp, 0, 0), 1, 0, 0, 0)
        active == ModifyRailLockup(ModifyRailPayment(rail1, 1, 1, 0), 1, 1, 0, 0)
    IN  CreateRail(active, t1, c1, sp, 0, 0)

Info(rail, activated) ==
    [client |-> c1, provider |-> 1, activated |-> activated, pieceCidHash |-> <<1>>,
     paymentToken |-> t1, pieceSize |-> 1, railId |-> rail,
     pricePerBytePerEpoch |-> 1, sectorNumber |-> IF activated THEN 1 ELSE 0]

WithAllocations(state) ==
    [state EXCEPT !.allocationInfos[1] = Info(2, FALSE),
                  !.allocationInfos[2] = Info(1, TRUE),
                  !.allocationIdsByClient[c1] = <<2, 1>>,
                  !.allocationIdsByProvider[1] = <<2, 1>>,
                  !.railIdToAllocationId = [r \in RailIds |-> IF r <= 2 THEN 3 - r ELSE 0]]

MCWallets ==
    {[t \in {t1} |-> [balance |-> 2, allowances |-> [c \in {fp} |-> a]]] : a \in {0, 3}}

MCInit ==
    /\ wallet \in Wallets
    /\ \/ s \in {Deployed, WithProvider(Deployed)} /\ pay = [c \in {fp} |-> Fresh1]
       \/ /\ s = WithAllocations(WithProvider(Deployed))
          /\ pay = [c \in {fp} |-> Railed]
          /\ wallet[t1].allowances[fp] = 3
    /\ epoch = 0
    /\ call = Idle
    /\ txs = <<>>
    /\ cmds = [t \in Terminals |-> NotStarted]

\* The second terminal is used after the first.
InTurn(t) == \A u \in Terminals : u < t => cmds[u].run > 0

Names == {cmds[t].name : t \in Terminals} \ {"none"}

RegistryNames ==
    {"registerSP", "updateSPConfig", "updateSPToken", "addSPToken", "removeSPToken",
     "deactivateSP", "listSPs", "querySP"}

\* The settings that other commands ask for, or need.
SwitchNames == {"pause", "blacklistSector"}

MoneyNames == {"approveToken", "setOperatorApproval", "withdraw"}

QueryNames == {"queryAccount", "queryOperatorApproval", "queryRail", "query"}

\* The wallet and the allocations do not matter to the owner's commands, nor
\* does the registration to the user's.  Commands about the registry overlap
\* with one another, and so do those about money; what one kind reads the
\* others do not change.  Without a provider a registration comes first, and
\* a user with allocations runs one command.
OwnerStarts ==
    /\ s.allocationIdsByClient[c1] = <<>> /\ wallet[t1].allowances[fp] = 0
    /\ \E t \in Terminals :
          /\ InTurn(t)
          /\ \/ Names \subseteq RegistryNames /\ StartsSP(t)
             \/ Names \subseteq SwitchNames /\ isRegisteredSP(1) /\ StartsAdmin(t)
    /\ Names = {} /\ ~isRegisteredSP(1) => cmds'[1].name \in {"registerSP", "listSPs"}

UserStarts ==
    /\ isRegisteredSP(1)
    /\ Names = {} \/ s.allocationIdsByClient[c1] = <<>>
    /\ epoch = 0 /\ \A r \in RailIds : pay[fp].rails[r].endEpoch = 0
    /\ \E t \in Terminals :
          /\ InTurn(t)
          /\ \/ Names \subseteq MoneyNames /\ StartsPayments(t)
             \/ Names = {} /\ StartsQuery(t)

MCNotifications ==
    {<<[sectorNumber |-> 1, dataCid |-> <<0, 1>>, pieceSize |-> 1, allocationId |-> 1]>>}

\* The user's rails go on, and may be ended and settled, around one command, and
\* the pending allocation may be activated while it is looked at, or while a
\* withdrawal is on its way.
Outside ==
    /\ Names # {} /\ Names \subseteq MoneyNames \cup QueryNames
    /\ \E t \in Terminals : cmds[t].run = 0
    /\ \/ \E r \in RailIds : terminateRail(fp, r) \/ settleRail(fp, r)
       \/ Tick
       \/ /\ Names \subseteq {"query", "withdraw"}
          /\ \E pieces \in Notifications : handleSectorContentChanged(1, pieces)

MCNext ==
    \/ OwnerStarts \/ UserStarts
    \/ \E t \in Terminals : Answered(t) \/ Fails(t)
    \/ mine
    \/ Others(Outside \/ CallStep)

MCSpec == MCInit /\ [][MCNext]_termVars /\ CmdFairness
=============================================================================
