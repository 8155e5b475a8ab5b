------------------------------ MODULE Commands ------------------------------
(***************************************************************************)
(* The owner's and the user's commands together, on the diamond and the    *)
(* payments contracts: what becomes of their transactions, and what may go *)
(* wrong between the answer a command decides by and the block its         *)
(* transaction is in.                                                      *)
(***************************************************************************)
EXTENDS OwnerCommands, PaymentsCommands, DDOProperties

CONSTANTS
    ExampleSizes, ExampleTerms      \* for which `sp query' shows the costs

----------------------------------------------------------------------------
(* The transactions on the chain.                                          *)

\* What a transaction says beyond the flags of its command.
Argument(c) ==
    CASE c.name = "updateSPConfig" -> Defaulted(c.args.given, c.read.config)
      [] c.name = "approveToken" -> [amount |-> ApprovalAmount(c)]
      [] c.name = "setOperatorApproval" -> Allowances(c)
      [] OTHER -> <<>>

Effect(tx) ==
    \/ OwnerTransactions(tx) /\ UNCHANGED wallet
    \/ PaymentsTransactions(tx)

Estimates(tx) == ENABLED Effect(tx)

mine ==
    LET i == NextNonce
    IN  /\ call = Idle
        /\ i \in DOMAIN txs
        /\ \/ Effect(txs[i]) /\ Receipt(i, "succeeded")
           \/ /\ ~Estimates(txs[i])
              /\ Receipt(i, "reverted")
              /\ UNCHANGED <<s, pay, epoch, call, wallet>>
        /\ UNCHANGED cmds

Sends(t) ==
    /\ call = Idle
    /\ At(t) = "send"
    /\ UNCHANGED <<s, pay, epoch, call, wallet>>

send(t) ==
    LET tx == Transaction(t, Argument(cmds[t]))
    IN  /\ Sends(t)
        /\ \/ Estimates(tx) /\ Sent(t, tx)
           \/ ~Estimates(tx) /\ Goes(t, <<"failed">>) /\ UNCHANGED txs

----------------------------------------------------------------------------
(* Failures of a request.                                                  *)

\* The error comes after the transaction was accepted.
sendFails(t) ==
    LET tx == Transaction(t, Argument(cmds[t]))
    IN  /\ Sends(t)
        /\ Estimates(tx)
        /\ txs' = Append(txs, tx)
        /\ Goes(t, <<"failed">>)

\* A provider whose terms cannot be read is shown as such, and the list goes on.
rowFails(t) ==
    /\ Asks
    /\ cmds[t].name = "listSPs" /\ At(t) = "config"
    /\ NextRowOf(t)

\* GetSPConfig takes a provider whose tokens cannot be read as one without
\* tokens.
tokensFail(t) ==
    /\ cmds[t].name # "listSPs"
    /\ Learns(t, "tokens", <<>>, AfterTokens(cmds[t]))

\* A dry run of the registration goes on without the answer.
Optional(t) == cmds[t].name = "registerSP" /\ At(t) = "config"

requestFails(t) ==
    /\ Asks
    /\ ~Ended(t)
    /\ At(t) # "tokens"
    /\ ~(cmds[t].name = "listSPs" /\ At(t) = "config")
    /\ Goes(t, IF At(t) \in DOMAIN AfterFailure THEN AfterFailure[At(t)]
               ELSE IF Optional(t) THEN <<"done">>
               ELSE <<"failed">>)

Fails(t) ==
    \/ sendFails(t) \/ rowFails(t) \/ tokensFail(t) \/ requestFails(t) \/ interrupt(t)

----------------------------------------------------------------------------
\* `ddo sp'.
StartsSP(t) ==
    \/ \E flags \in Registrations : executeRegisterSP(t, flags)
    \/ \E flags \in ConfigUpdates : executeUpdateSPConfig(t, flags)
    \/ \E flags \in TokenUpdates : executeUpdateSPToken(t, flags)
    \/ \E flags \in TokenAdditions : executeAddSPToken(t, flags)
    \/ \E p \in Providers :
          \/ \E token \in Tokens : executeRemoveSPToken(t, p, token)
          \/ executeDeactivateSP(t, p)
          \/ executeQuerySP(t, p)
    \/ executeListSPs(t)

\* `ddo admin'.
StartsAdmin(t) ==
    \/ \E c \in PaymentsContracts \cup {ZERO} : setPaymentsContractCommand(t, c)
    \/ \E bps \in Commissions : setCommissionRateCommand(t, bps)
    \/ \E amount \in LockupAmounts : setLockupAmountCommand(t, amount)
    \/ pauseCommand(t) \/ unpauseCommand(t) \/ pausedCommand(t)
    \/ \E entry \in BlacklistEntries :
          \/ \E remove \in BOOLEAN : blacklistSectorCommand(t, entry, remove)
          \/ isSectorBlacklistedCommand(t, entry)

\* `ddo approve-token', `ddo payments' and `ddo allocations query'.
StartsPayments(t) ==
    \/ \E flags \in Approvals : executeApproveToken(t, flags)
    \/ \E flags \in AllowanceSets : executeSetOperatorAllowance(t, flags)
    \/ \E flags \in Withdrawals : executeWithdraw(t, flags)

StartsQuery(t) ==
    \/ \E flag \in ContractFlags :
          \/ \E token \in Tokens :
                \/ executeQueryAccount(t, flag, token)
                \/ executeQueryOperatorApproval(t, flag, token)
          \/ \E r \in RailIds : executeQueryRail(t, flag, r)
    \/ executeQuery(t)

\* A step of a command whose requests are answered.
Answered(t) ==
    \/ getSPConfig(t) \/ getSPSupportedTokens(t) \/ getAllSPIds(t)
    \/ getPaused(t) \/ isSectorBlacklisted(t)
    \/ GetBalance(t) \/ GetAllowance(t) \/ GetAccount(t) \/ GetOperatorApproval(t)
    \/ GetRail(t) \/ GetAllocationInfo(t) \/ GetAllocationRailInfo(t)
    \/ GetAllocationIdsForClient(t) \/ GetAllocationIdsForProvider(t)
    \/ send(t) \/ waitForTransaction(t)

Others(step) == step /\ UNCHANGED <<txs, wallet, cmds>>

CmdInit ==
    /\ Init
    /\ txs = <<>>
    /\ wallet \in Wallets
    /\ cmds = [t \in Terminals |-> NotStarted]

CmdNext ==
    \/ \E t \in Terminals :
          \/ StartsSP(t) \/ StartsAdmin(t) \/ StartsPayments(t) \/ StartsQuery(t)
          \/ Answered(t) \/ Fails(t)
    \/ mine
    \/ Others(Next)

\* The node answers in the end, and takes the transactions into blocks, although
\* others keep sending theirs; a call that runs comes to its end.
CmdFairness ==
    /\ \A t \in Terminals : SF_termVars(Answered(t))
    /\ SF_termVars(mine)
    /\ WF_termVars(Others(CallStep))

CmdSpec == CmdInit /\ [][CmdNext]_termVars /\ CmdFairness

----------------------------------------------------------------------------
(* What the commands promise.                                              *)

\* Every terminal is at a step of its command, and no transaction says more
\* than the chain's numbers hold; transactions are mined in order.
CommandsTypeOK ==
    /\ \A t \in Terminals :
          /\ cmds[t].run \in 0 .. MaxRuns
          /\ cmds[t].tx \in 0 .. Len(txs) /\ cmds[t].seen \in 0 .. Len(txs)
          /\ At(t) \in Ends \cup
                {"config", "tokens", "ids", "paused", "blacklisted", "balance",
                 "allowance", "verify", "account", "approval", "rail", "info",
                 "railInfo", "idsOfClient", "idsOfProvider", "send", "wait"}
    /\ \A i \in DOMAIN txs :
          /\ txs[i].status \in Statuses /\ txs[i].seen \in 0 .. i - 1
          /\ txs[i].fn = "approveToken" => txs[i].arg.amount \in 0 .. MaxUint256
    /\ InNonceOrder
    /\ wallet \in WalletState

\* The list of the providers, and the second look of a dry run, take it that a
\* provider that is listed, or was registered a moment ago, has terms: no
\* command of the owner takes them away.
NeverPanics == \A t \in Terminals : At(t) # "panicked"

Succeeds(i) == txs[i].status = "pending" /\ txs'[i].status = "succeeded"

\* The transaction is the first of the key to be mined after its command
\* began to ask.
Fresh(i) == txs[i].seen = i - 1

\* `sp update config' changes what it is given and nothing else, if no other
\* transaction of the owner comes between the terms it has read and its own:
\* otherwise it puts back what was read.
UpdateKeepsTerms ==
    [][\A i \in DOMAIN txs :
          Succeeds(i) /\ Fresh(i) /\ txs[i].fn = "updateSPConfig" =>
              LET p == txs[i].args.actorId
                  given == txs[i].args.given
              IN  s'.spConfigs[p] =
                    [s.spConfigs[p] EXCEPT
                        !.paymentAddress = given.paymentAddress,
                        !.minPieceSize = Or(given.minPieceSize, @),
                        !.maxPieceSize = Or(given.maxPieceSize, @),
                        !.minTermLength = Or(given.minTermLength, @),
                        !.maxTermLength = Or(given.maxTermLength, @)]
      ]_termVars

\* `payments set-operator-allowance' changes the allowances it is given and
\* keeps the others, on the same condition.
UpdateKeepsAllowances ==
    [][\A i \in DOMAIN txs :
          Succeeds(i) /\ Fresh(i) /\ txs[i].fn = "setOperatorApproval"
              /\ ~txs[i].args.unlimited =>
              LET args == txs[i].args
                  k == KeyOf(args)
              IN  pay'[args.contract].approvals[k] =
                    [pay[args.contract].approvals[k] EXCEPT
                        !.isApproved = args.approved,
                        !.rateAllowance = ElseRead(args.rate, @),
                        !.lockupAllowance = ElseRead(args.lockup, @),
                        !.maxLockupPeriod = ElseRead(args.period, @)]
      ]_termVars

\* `approve-token' never lowers an allowance, so it cannot take one back; only
\* one that another approval has overtaken may.
ApprovalNeverLowers ==
    [][\A i \in DOMAIN txs :
          Succeeds(i) /\ Fresh(i) /\ txs[i].fn = "approveToken" =>
              wallet'[txs[i].args.token].allowances[txs[i].args.contract] >
                  wallet[txs[i].args.token].allowances[txs[i].args.contract]
      ]_termVars

\* The prices a command asks for the token, one for each entry of the token.
AskedOf(tx, p, token) ==
    IF tx.status # "succeeded" THEN {}
    ELSE CASE tx.fn = "registerSP" /\ tx.args.actorId = p ->
                 {tx.args.tokens[i].price :
                     i \in {j \in DOMAIN tx.args.tokens : tx.args.tokens[j].token = token}}
           [] tx.fn \in {"addSPToken", "updateSPToken"} /\ tx.args.actorId = p
                 /\ tx.args.token = token -> {tx.args.price}
           [] OTHER -> {}

\* Whatever was registered, added, updated and removed, a provider's price
\* for a token, shown for a terabyte and a month, is the price that was last
\* asked for, rounded down by less than a step: the provider never asks for
\* more than it was told to.
PricesAsAsked ==
    \A p \in Providers :
        \A k \in DOMAIN s.spConfigs[p].supportedTokens :
            LET entry == s.spConfigs[p].supportedTokens[k]
                asking == {i \in DOMAIN txs : AskedOf(txs[i], p, entry.token) # {}}
                shown == ConvertBytesPerEpochToTBPerMonth(entry.pricePerBytePerEpoch)
            IN  asking # {} =>
                  \E asked \in AskedOf(txs[Max(asking)], p, entry.token) :
                      shown <= asked /\ asked < shown + Step

\* The example costs that `sp query' shows for an active token, of an active
\* provider, are what the contract asks for such a piece, if no transaction
\* has come since the query began: the terms and the tokens are two questions.
QuotesAreCosts ==
    \A t \in Terminals :
        /\ cmds[t].name = "querySP" /\ At(t) = "done"
        /\ {"config", "tokens"} \subseteq DOMAIN cmds[t].read
        /\ cmds[t].seen = MinedCount
        /\ cmds[t].read.config.isActive
        => \A k \in DOMAIN cmds[t].read.tokens, size \in ExampleSizes, term \in ExampleTerms :
              LET config == cmds[t].read.config
                  entry == cmds[t].read.tokens[k]
                  piece == [provider |-> cmds[t].args.actorId, size |-> size,
                            termMin |-> term, paymentTokenAddress |-> entry.token]
              IN  /\ entry.isActive
                  /\ size \in config.minPieceSize .. config.maxPieceSize
                  /\ term \in config.minTermLength .. config.maxTermLength
                  => /\ CanCalculateStorageCost(piece)
                     /\ StorageCost(piece) = ExampleCost(entry, size, term)

\* A withdrawal with its balance checked, that is not sent yet; its account
\* between the transactions; and whether the contract would grant it.
Checked(t) ==
    cmds[t].name = "withdraw" /\ At(t) = "send" /\ "account" \in DOMAIN cmds[t].read

AccountOf(t) == committed.pay[Target(t)].accounts[KeyOf(cmds[t].args)]

Granted(t) ==
    CanWithdraw(committed.pay[Target(t)], KeyOf(cmds[t].args), cmds[t].args.amount[1], epoch)

NothingLocked(account) == account.lockupCurrent = 0 /\ account.lockupRate = 0

\* The user's own transactions, by a command or by other means.
UserActs ==
    \/ MinedCount' # MinedCount
    \/ call.fn = "create" /\ call.client = User
    \/ \E c \in PaymentsContracts, token \in Tokens, amount \in Deposits :
          Others(withdraw(c, <<User, token>>, amount))

\* A notification of a miner is through, and has activated an allocation.
Activates ==
    \E a \in AllocationIds : /\ ~committed.s.allocationInfos[a].activated
                             /\ committed'.s.allocationInfos[a].activated

\* A withdrawal that the check lets pass while nothing is locked in the account
\* would be granted, and that remains so, whatever becomes of the rails, until
\* a transaction of the user or the activation of an allocation is through:
\* blocks, endings, settlements and what reverts do not spoil it.
CheckedWithdrawals ==
    [][\A t \in Terminals :
          /\ Checked(t)'
          /\ IF Checked(t)
             THEN NothingLocked(AccountOf(t)) /\ Granted(t) /\ ~UserActs /\ ~Activates
             ELSE NothingLocked(cmds'[t].read.account)
          => (NothingLocked(AccountOf(t)) /\ Granted(t))'
      ]_termVars

\* What a command shows as the new allowance or approval is what it has set,
\* if its transaction succeeded and no later one is mined.
ReportsAreTrue ==
    \A t \in Terminals :
        LET c == cmds[t]
        IN  /\ At(t) = "done" /\ "verify" \in DOMAIN c.read
            /\ c.tx = MinedCount /\ txs[c.tx].status = "succeeded"
            => IF c.name = "approveToken" THEN c.read.verify = txs[c.tx].arg.amount
               ELSE \A field \in DOMAIN txs[c.tx].arg :
                        c.read.verify[field] = txs[c.tx].arg[field]

\* The rail that `allocations query' shows is paid by the allocation's client
\* in its token, at the price agreed for its size if the allocation is shown as
\* activated.  The rail is a second question: an allocation that is shown as
\* pending may be activated in between, but nothing else can become of it.
RailShownIsAllocations ==
    \A t \in Terminals :
        LET read == cmds[t].read
        IN  /\ cmds[t].name = "query" /\ At(t) = "done"
            /\ "railInfo" \in DOMAIN read /\ read.railInfo # NoRail
            => /\ read.railInfo.from = read.info.client
               /\ read.railInfo.token = read.info.paymentToken
               /\ read.railInfo.rate \in {pricePerEpoch(read.info)} \cup
                                            IF read.info.activated THEN {} ELSE {0}

\* Every command ends, in success or failure, as long as the node answers and
\* takes transactions into blocks: also one whose transaction reverts.
CommandsEnd == \A t \in Terminals : ~Ended(t) ~> Ended(t)
=============================================================================
