--------------------------- MODULE CreateFromFile ---------------------------
(***************************************************************************)
(* The command `ddo allocations create-from-file' for one prepared piece:  *)
(* it sees to the client's ERC-20 allowance, deposit and operator approval *)
(* (CheckAndSetupPayments), asks the diamond for the allocation and offers *)
(* the deal to the provider's Curio service.                               *)
(*                                                                         *)
(* The deals the service has are external.                                 *)
(***************************************************************************)
EXTENDS Wallet

CONSTANT Pieces     \* what may have been prepared

ASSUME PiecesAssumption == Pieces \subseteq PieceInfo

VARIABLES
    cmd,        \* the running command
    deals       \* the deals the Curio service has, oldest first

cffVars == <<s, pay, epoch, call, txs, cmd, wallet, deals>>

NoPiece == [pieceCid |-> <<>>, size |-> 0, provider |-> 0, termMin |-> 0,
            termMax |-> 0, paymentTokenAddress |-> ZERO]

NoAccount == [funds |-> 0, lockupCurrent |-> 0, lockupRate |-> 0,
              lockupLastSettledAt |-> 0]

NoApproval == [isApproved |-> FALSE, rateAllowance |-> 0, lockupAllowance |-> 0,
               maxLockupPeriod |-> 0, rateUsage |-> 0, lockupUsage |-> 0]

\* cost, price, lockup, account and approval are as the command has read them;
\* seen is the number of transactions that were in blocks when it read the
\* approval.
NotStarted ==
    [run |-> 0, at |-> "start", contract |-> ZERO, piece |-> NoPiece,
     setup |-> FALSE, curio |-> FALSE, cost |-> 0, price |-> 0, lockup |-> 0,
     account |-> NoAccount, approval |-> NoApproval, seen |-> 0, receipt |-> 0,
     i |-> 1]

Ended == {"start", "done", "failed"}

----------------------------------------------------------------------------
(* What is asked for, from what was read (pkg/utils/payments.go).          *)

\* The user's account at the payments contract, for the piece's token.
UserKey == <<User, cmd.piece.paymentTokenAddress>>

Rate == cmd.price * cmd.piece.size

RequiredDeposit ==
    IF cmd.lockup > 2 * cmd.cost THEN 2 * cmd.lockup ELSE 2 * cmd.cost

\* The account is taken as it was last settled.
Missing(account) == RequiredDeposit - (account.funds - account.lockupCurrent)

Deficit == Missing(cmd.account)

\* Twice the amount, and above half of MaxUint256 that half: Div changes its
\* receiver, so this is not the unlimited approval the comment speaks of.
ApproveAmount(required) == Min2(2 * required, MaxUint256 \div 2)

LockupAllowance == 2 * cmd.lockup

RateShort(approval) == approval.rateAllowance - approval.rateUsage < Rate

LockupShort(approval) ==
    approval.lockupAllowance - approval.lockupUsage < LockupAllowance

\* Wrong on purpose: the rate is not looked at.
SufficesLockup(approval) == approval.isApproved /\ ~LockupShort(approval)

Suffices(approval) ==
    approval.isApproved /\ ~RateShort(approval) /\ ~LockupShort(approval)

\* Wrong on purpose: what is allowed is what is needed, whatever is in use.
NewLimitsAlone ==
    [isApproved |-> TRUE, rateAllowance |-> Rate,
     lockupAllowance |-> LockupAllowance, maxLockupPeriod |-> EPOCHS_PER_MONTH]

\* What is short is raised by what is needed, on top of what was allowed; an
\* operator that is not approved is allowed both on top.
NewLimits ==
    LET read == cmd.approval
        raised(short, allowance, needed) ==
            IF ~read.isApproved \/ short THEN allowance + needed ELSE allowance
    IN  [isApproved |-> TRUE,
         rateAllowance |-> raised(RateShort(read), read.rateAllowance, Rate),
         lockupAllowance |->
             raised(LockupShort(read), read.lockupAllowance, LockupAllowance),
         maxLockupPeriod |-> EPOCHS_PER_MONTH]

----------------------------------------------------------------------------
(* Transactions of the command, and what becomes of them on the chain.     *)

Tx(fn, arg) ==
    [run |-> cmd.run, fn |-> fn, contract |-> cmd.contract, arg |-> arg,
     status |-> "pending", events |-> <<>>]

Sends == {"approve", "deposit", "setOperatorApproval", "request"}

NextTx ==
    CASE cmd.at = "approve" ->
            Tx("approve", [key |-> UserKey, amount |-> ApproveAmount(Deficit)])
      [] cmd.at = "deposit" ->
            Tx("deposit", [key |-> UserKey, amount |-> Deficit])
      [] cmd.at = "setOperatorApproval" ->
            Tx("setOperatorApproval", [key |-> UserKey, limits |-> NewLimits])
      [] cmd.at = "request" -> Tx("createAllocationRequests", cmd.piece)

CanCreate(piece) ==
    /\ notPaused /\ nonReentrant
    /\ validPieceForSP(piece)
    /\ s.paymentsContract # ZERO
    /\ piece.size # 0
    /\ CanOpenRail(pay[s.paymentsContract], piece, User)

Estimates(tx) ==
    /\ tx.fn = "deposit" => CanPull(tx.contract, tx.arg.key[2], tx.arg.amount)
    /\ tx.fn = "createAllocationRequests" => CanCreate(tx.arg)

Sent == Estimates(NextTx) /\ txs' = Append(txs, NextTx)
Refused == ~Estimates(NextTx) /\ UNCHANGED txs

\* The verified registry has not given these ids yet, and gives them in order.
Fresh(ids) ==
    \A i \in DOMAIN ids : \A a \in AllocationIds :
        a < ids[i] <=> s.allocationInfos[a].client # ZERO \/ \E j \in 1 .. i - 1 : ids[j] = a

minePayment(i) ==
    LET tx == txs[i]
    IN  /\ Receipt(i, "succeeded")
        /\ \/ /\ tx.fn = "approve"
              /\ approve(tx.contract, tx.arg.key[2], tx.arg.amount)
           \/ /\ tx.fn = "deposit"
              /\ transferFrom(tx.contract, tx.arg.key[2], tx.arg.amount)
              /\ pay' = [pay EXCEPT ![tx.contract] =
                    Deposit(@, tx.arg.key, tx.arg.amount, epoch)]
              /\ UNCHANGED <<s, epoch, call>>
           \/ /\ tx.fn = "setOperatorApproval"
              /\ setOperatorApproval(tx.contract, tx.arg.key, tx.arg.limits)
              /\ UNCHANGED wallet

\* The registry may also refuse: it knows the user's DataCap.
mineRequest(i) ==
    LET tx == txs[i]
    IN  /\ tx.fn = "createAllocationRequests"
        /\ UNCHANGED wallet
        /\ \/ /\ \E ids \in Answers :
                    /\ Fresh(ids)
                    /\ createAllocationRequests(User, <<tx.arg>>, ids)
              /\ Receipt(i, "running")
           \/ Receipt(i, "reverted") /\ UNCHANGED chainVars

mine ==
    LET i == NextNonce
    IN  /\ call = Idle
        /\ i \in DOMAIN txs
        /\ \/ minePayment(i)
           \/ mineRequest(i)
           \/ /\ ~Estimates(txs[i])
              /\ Receipt(i, "reverted")
              /\ UNCHANGED <<s, pay, epoch, call, wallet>>
        /\ UNCHANGED <<cmd, deals>>

mineLoop ==
    /\ Mining
    /\ createAllocation
    /\ UNCHANGED <<txs, cmd, wallet, deals>>

\* The receipt of a creation holds an event for each of its allocations.
mineReturn ==
    \E i \in DOMAIN txs :
        /\ txs[i].status = "running"
        /\ createReturn
        /\ txs' = [txs EXCEPT ![i].status = "succeeded",
                              ![i].events = call.newAllocations]
        /\ UNCHANGED <<cmd, wallet, deals>>

mineRevert ==
    \E i \in DOMAIN txs :
        /\ txs[i].status = "running"
        /\ createRevert
        /\ Receipt(i, "reverted")
        /\ UNCHANGED <<cmd, wallet, deals>>

Mine == mine \/ mineLoop \/ mineReturn \/ mineRevert

----------------------------------------------------------------------------
(* executeCreateFromFile and CheckAndSetupPayments, request by request.    *)

Asks == call = Idle /\ UNCHANGED <<s, pay, epoch, call, wallet>>

Goto(step) == cmd' = [cmd EXCEPT !.at = step]

\* The data is prepared, and its cost asked for a first time, before the
\* first transaction.
execute(contract, piece, setup, curio) ==
    /\ Asks
    /\ cmd.at \in Ended
    /\ cmd.run < MaxRuns
    /\ CanCalculateStorageCost(piece)
    /\ cmd' = [NotStarted EXCEPT
                  !.run = cmd.run + 1,
                  !.at = IF setup THEN "costs" ELSE "request",
                  !.contract = contract, !.piece = piece,
                  !.setup = setup, !.curio = curio]
    /\ UNCHANGED <<txs, deals>>

Reads(step) == Asks /\ cmd.at = step /\ UNCHANGED <<txs, deals>>

\* CalculateStorageCosts asks for the cost and then for the price.
calculateStorageCost ==
    /\ Reads("costs")
    /\ \/ /\ CanCalculateStorageCost(cmd.piece)
          /\ cmd' = [cmd EXCEPT !.at = "price", !.cost = StorageCost(cmd.piece)]
       \/ ~CanCalculateStorageCost(cmd.piece) /\ Goto("failed")

getAndValidateSPPrice ==
    LET provider == cmd.piece.provider
        token == cmd.piece.paymentTokenAddress
    IN  /\ Reads("price")
        /\ \/ /\ supportsToken(provider, token)
              /\ cmd' = [cmd EXCEPT !.at = "lockup",
                                    !.price = SPPrice(provider, token)]
           \/ ~supportsToken(provider, token) /\ Goto("failed")

getAllocationLockupAmount ==
    /\ Reads("lockup")
    /\ cmd' = [cmd EXCEPT !.at = "account", !.lockup = s.allocationLockupAmount]

\* Wrong on purpose: a deposit is made in any case.
getAccountAndDeposit ==
    /\ Reads("account")
    /\ cmd' = [cmd EXCEPT !.at = "balance",
                          !.account = pay[cmd.contract].accounts[UserKey]]

getAccount ==
    LET account == pay[cmd.contract].accounts[UserKey]
    IN  /\ Reads("account")
        /\ cmd' = [cmd EXCEPT
                      !.at = IF Missing(account) > 0 THEN "balance" ELSE "approval",
                      !.account = account]

getBalance ==
    /\ Reads("balance")
    /\ Goto(IF wallet[UserKey[2]].balance < Deficit THEN "failed" ELSE "allowance")

getAllowance ==
    /\ Reads("allowance")
    /\ Goto(IF wallet[UserKey[2]].allowances[cmd.contract] >= Deficit
            THEN "deposit" ELSE "approve")

\* A transaction that is not accepted ends the command.
SendsThen(step, wait) ==
    /\ Asks
    /\ cmd.at = step
    /\ UNCHANGED deals
    /\ \/ Sent /\ Goto(wait)
       \/ Refused /\ Goto("failed")

sendApprove == SendsThen("approve", "waitApprove")
sendDeposit == SendsThen("deposit", "waitDeposit")
sendOperatorApproval == SendsThen("setOperatorApproval", "waitApproval")
sendRequest == SendsThen("request", "waitRequest")

\* Where a wait leads, whatever the receipt says.
AfterWait ==
    [waitApprove |-> "deposit", waitDeposit |-> "approval",
     waitApproval |-> "request"]

waitForTransaction ==
    /\ cmd.at \in DOMAIN AfterWait
    /\ Reads(cmd.at)
    /\ Waited
    /\ Goto(AfterWait[cmd.at])

getOperatorApproval ==
    LET approval == pay[cmd.contract].approvals[UserKey]
    IN  /\ Reads("approval")
        /\ cmd' = [cmd EXCEPT
                      !.at = IF Suffices(approval) THEN "request"
                             ELSE "setOperatorApproval",
                      !.approval = approval, !.seen = NextNonce - 1]

\* Wrong on purpose: a receipt without events is a receipt without deals.
EventsMayBeMissing(events) == TRUE

\* ParseAllocationCreatedEvents.
EventsFound(events) == events # <<>>

waitForReceipt ==
    /\ Reads("waitRequest")
    /\ Waited
    /\ cmd' = [cmd EXCEPT
                  !.receipt = Len(txs),
                  !.at = IF ~cmd.curio THEN "done"
                         ELSE IF EventsFound(txs[Len(txs)].events) THEN "store"
                         ELSE "failed"]

----------------------------------------------------------------------------
(* submitToCurio: one deal for each allocation in the receipt.             *)

Created == txs[cmd.receipt].events

Current == Len(deals)

Stored ==
    deals' = Append(deals, [allocationId |-> Created[cmd.i], state |-> "stored"])

Advanced(state) == deals' = [deals EXCEPT ![Current].state = state]

Curio == Asks /\ UNCHANGED txs

store ==
    /\ Curio
    /\ cmd.at = "store"
    /\ IF cmd.i <= Len(Created) THEN Stored /\ Goto("upload")
       ELSE UNCHANGED deals /\ Goto("done")

uploadSerial ==
    /\ Curio
    /\ cmd.at = "upload"
    /\ Advanced("uploaded")
    /\ Goto("finalize")

uploadSerialFinalize ==
    /\ Curio
    /\ cmd.at = "finalize"
    /\ Advanced("finalized")
    /\ cmd' = [cmd EXCEPT !.at = "store", !.i = @ + 1]

----------------------------------------------------------------------------
(* Failures.                                                               *)

\* A request fails, perhaps after it was granted.  The waits of the payment
\* setup only log the error; without the receipt of the creation the command
\* ends without a deal and without an error.
requestFails ==
    /\ Asks
    /\ cmd.at \notin Ended
    /\ cmd.at = "store" => cmd.i <= Len(Created)
    /\ Goto(IF cmd.at \in DOMAIN AfterWait THEN AfterWait[cmd.at]
            ELSE IF cmd.at = "waitRequest" THEN "done" ELSE "failed")
    /\ \/ UNCHANGED <<txs, deals>>
       \/ cmd.at \in Sends /\ Sent /\ UNCHANGED deals
       \/ cmd.at = "store" /\ Stored /\ UNCHANGED txs
       \/ cmd.at = "upload" /\ Advanced("uploaded") /\ UNCHANGED txs
       \/ cmd.at = "finalize" /\ Advanced("finalized") /\ UNCHANGED txs

interrupt ==
    /\ Asks
    /\ cmd.at \notin Ended
    /\ Goto("failed")
    /\ UNCHANGED <<txs, deals>>

Command ==
    \/ calculateStorageCost \/ getAndValidateSPPrice
    \/ getAllocationLockupAmount \/ getAccount
    \/ getBalance \/ getAllowance \/ sendApprove \/ sendDeposit
    \/ getOperatorApproval \/ sendOperatorApproval \/ waitForTransaction
    \/ sendRequest \/ waitForReceipt
    \/ store \/ uploadSerial \/ uploadSerialFinalize

Others(step) == step /\ ~Mining /\ UNCHANGED <<txs, cmd, wallet, deals>>

Execute ==
    \E c \in PaymentsContracts, piece \in Pieces, setup, curio \in BOOLEAN :
        execute(c, piece, setup, curio)

CFFInit ==
    /\ Init
    /\ txs = <<>>
    /\ cmd = NotStarted
    /\ wallet \in Wallets
    /\ deals = <<>>

CFFNext ==
    \/ Execute \/ Command \/ requestFails \/ interrupt \/ Mine
    \/ Others(Next)

CFFSpec == CFFInit /\ [][CFFNext]_cffVars

----------------------------------------------------------------------------
(* What the command promises.                                              *)

\* The command's variables have their types; at most one of its transactions
\* is in the running call, and none is mined before an earlier one.
CFFTypeOK ==
    /\ cmd \in [run: 0 .. MaxRuns,
               at: Ended \cup Sends \cup DOMAIN AfterWait \cup
                   {"costs", "price", "lockup", "account", "balance", "allowance",
                    "approval", "waitRequest", "store", "upload", "finalize"},
               contract: PaymentsContracts \cup {ZERO},
               piece: PieceInfo \cup {NoPiece}, setup: BOOLEAN, curio: BOOLEAN,
               cost: Nat, price: Nat, lockup: Nat, account: Account, approval: Approval,
               seen: 0 .. Len(txs), receipt: 0 .. Len(txs), i: Nat \ {0}]
    /\ \A i \in DOMAIN txs :
          /\ txs[i].run \in 1 .. MaxRuns /\ txs[i].status \in Statuses
          /\ txs[i].contract \in PaymentsContracts
          /\ txs[i].events \in Seq(AllocationIds)
          /\ txs[i].fn \in {"approve", "deposit"} =>
                txs[i].arg \in [key: Clients \X Tokens, amount: Nat]
          /\ txs[i].fn = "setOperatorApproval" =>
                txs[i].arg \in
                   [key: Clients \X Tokens,
                    limits: [isApproved: BOOLEAN, rateAllowance: Nat,
                             lockupAllowance: Nat, maxLockupPeriod: Nat]]
          /\ txs[i].fn = "createAllocationRequests" => txs[i].arg \in PieceInfo
    /\ InNonceOrder
    /\ wallet \in WalletState
    /\ deals \in Seq([allocationId: AllocationIds,
                      state: {"stored", "uploaded", "finalized"}])

\* What the account that was read has become by the command's own deposit and
\* the passing of time.
Expected ==
    SettledAccount([cmd.account EXCEPT !.funds = @ + Max2(0, Deficit)], epoch)

\* The setup is done, every transaction of it has succeeded, and nobody else
\* has touched the account, the use of the approval or what the owner set.
\* When the command read the approval, no earlier run's change of it was under
\* way: that one may put less in its place.
SetUp ==
    LET p == pay[cmd.contract]
        approval == p.approvals[UserKey]
    IN  /\ cmd.at = "request" /\ cmd.setup
        /\ call = Idle
        /\ \A i \in DOMAIN txs :
              /\ txs[i].run = cmd.run => txs[i].status = "succeeded"
              /\ i > cmd.seen /\ txs[i].fn = "setOperatorApproval" =>
                    txs[i].run = cmd.run
        /\ SettledAccount(p.accounts[UserKey], epoch) = Expected
        /\ approval.rateUsage = cmd.approval.rateUsage
        /\ approval.lockupUsage = cmd.approval.lockupUsage
        /\ s.paymentsContract = cmd.contract
        /\ s.allocationLockupAmount = cmd.lockup
        /\ validPieceForSP(cmd.piece)
        /\ p.nextRailId \in RailIds

\* The operator never has in use more than it was allowed, as is the case
\* unless the user lowers an allowance by hand.
WithinAllowance ==
    /\ cmd.approval.rateUsage <= cmd.approval.rateAllowance
    /\ cmd.approval.lockupUsage <= cmd.approval.lockupAllowance

OpensRail == CanOpenRail(pay[cmd.contract], cmd.piece, User)

\* The payment setup does what it is for: whatever balance, allowance,
\* deposit and approval there were, once it is through the client can pay for
\* the allocation, if no other rail of the account streams meanwhile.  (What
\* such a rail has locked since the account was last settled is not taken off
\* the funds that getAccount shows.)
SetupSuffices ==
    SetUp /\ WithinAllowance /\ cmd.account.lockupRate = 0 => OpensRail

\* The allocation that is about to be asked for, as its activation finds it.
ActivatesRail ==
    LET p == pay[cmd.contract]
    IN  canActivateRail(OpenedRail(p, cmd.piece, User),
                        [railId |-> p.nextRailId,
                         pricePerBytePerEpoch |-> cmd.price,
                         pieceSize |-> cmd.piece.size])

\* The deposit and the approval also last for the activation, if the term is
\* a month at least, a month's price no more than twice the lockup that the
\* owner has fixed, the approval's own period a month, and the price has not
\* changed between the two questions about it.
SetupLasts ==
    /\ SetUp /\ WithinAllowance /\ cmd.account.lockupRate = 0
    /\ cmd.piece.termMin >= EPOCHS_PER_MONTH
    /\ cmd.cost = Rate * cmd.piece.termMin
    /\ Rate * EPOCHS_PER_MONTH <= LockupAllowance
    /\ pay[cmd.contract].approvals[UserKey].maxLockupPeriod >= EPOCHS_PER_MONTH
    => ActivatesRail

\* The comment on the lockup allowance: it "must cover the contract's
\* allocationLockupAmount (fixed lockup per rail) plus the ongoing rate-based
\* lockup".
AllowanceCoversMonth ==
    SetUp /\ WithinAllowance =>
        LET approval == pay[cmd.contract].approvals[UserKey]
        IN  Rate * EPOCHS_PER_MONTH <=
               approval.lockupAllowance - approval.lockupUsage

\* No deal is offered to the Curio service for an allocation that is not the
\* user's, none twice; and a command that ends well after it saw the receipt
\* has offered all that were created, at least one, to the end.
DealsMatchAllocations ==
    /\ \A k \in DOMAIN deals : s.allocationInfos[deals[k].allocationId].client = User
    /\ \A k, l \in DOMAIN deals :
          deals[k].allocationId = deals[l].allocationId => k = l
    /\ cmd.at = "done" /\ cmd.curio /\ cmd.receipt # 0 =>
          /\ Created # <<>>
          /\ \A k \in DOMAIN Created :
                \E d \in DOMAIN deals :
                    deals[d] = [allocationId |-> Created[k], state |-> "finalized"]
=============================================================================
