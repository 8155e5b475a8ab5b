# Verification of the DDO diamond and its client

This directory models the direct-data-onboarding contracts of this repository
(`contracts/src/diamond`, a Solidity diamond on the Filecoin EVM) together with
the payment-rail contract they drive, model-checks them with TLC and proves
their main invariants with TLAPS. The Go client (`internal/`, `pkg/`) sends the
transactions whose effects are modelled here. Its two long workflows, `sp
settle` and `allocations create-from-file` with its payment setup, and its
shorter commands, which read, compute, send one transaction and report, are
modelled as processes against the diamond.

## 1. Inventory

### The contracts

| Component | State | Operations | What makes it correct |
|---|---|---|---|
| `LibDDOStorage` | `DDOState`: allocations, lists by client and by provider, provider configurations, rail-to-allocation map, blacklist, pause flag, reentrancy status | guards used by every facet | the guard is released on every way out |
| `SPFacet` | `spConfigs`, `registeredSPIds` | register, update, add/update/remove token, deactivate (owner) | one entry per provider and per token, swap-and-pop removes the right one, deactivation is final |
| `AdminFacet` | payments contract, commission, lockup amount, pause, blacklist | one setter each (owner), `rescueFIL` | a setter never breaks agreements already made |
| `AllocationFacet` | allocations, their indexes and rails | `createAllocationRequests`, `handle_filecoin_method`, `settleSpPayment`, `settleSpTotalPayment` | whole batch or nothing; one rail per allocation; terms as offered; activated once, for the sector named; no allocation passed over when settling |
| `ValidatorFacet` | none of its own | `validatePayment`, `railTerminated` (called by the payments contract) | pays the agreed amount, nothing for a blacklisted sector |
| `LibDiamond`, `Diamond`, `DiamondCutFacet`, `DiamondLoupeFacet`, `OwnershipFacet` | selector and facet tables, owner, interface flags | add/replace/remove selectors, route a call, transfer ownership | the two tables agree after any sequence of cuts |
| `InitDiamond` | writes the initial storage | `init`, run by the deployment's cut | storage starts in a legal state |
| `ViewFacet` | none | read-only queries | relies on the indexes agreeing |
| `VerifRegSerializationDiamond` | none | CBOR of the allocation requests and of the answer | decoding an encoding gives it back |
| `FilecoinPayV1` (a submodule, not in the repository) | accounts, operator approvals, rails | deposit, withdraw, approve operator, create/modify/terminate/settle rail | what is locked is there; usage within allowances |

### The Go client

| Component | State | Operations | What makes it correct |
|---|---|---|---|
| `internal/commands/allocations`, `pkg/utils/payments.go`, `pkg/contract/token` | none on disk | a chain of transactions: ERC-20 approval, deposit, operator approval, allocation request, then the deal for the provider's Curio service | after the setup the client can pay for the allocation; deals match what was created |
| `internal/commands/sp/settle.go` | none | settlement at once, then in batches of 50 | every activated allocation is settled, failures are noticed |
| `internal/commands/sp` (register, update, remove-token, deactivate, list, query) | none | reads of terms and tokens, conversion of prices, one `SPFacet` transaction each | what is not asked for stays as it is; prices are those asked for; what is quoted is what the contract takes |
| `internal/commands/admin` | none | eight commands: one `AdminFacet` transaction or one question each | ends whatever becomes of its transaction |
| `internal/commands/payments`, `approve_token.go`, `allocations/query.go` | none | reads of wallet, account, approval, rail or allocation; an ERC-20 approval, an operator approval or a withdrawal | allowances that are not given are kept; a checked withdrawal is accepted; what is reported is what was set; the rail shown is the allocation's |
| `pkg/curio` | none | HTTP calls: store, upload, finalize, poll status, find the service | offers what was created, once |
| `pkg/contract/*` | none | bindings: one question or one transaction each | says what the chain says |
| `pkg/types`, `internal/config`, ABI descriptions | none | structs, environment, constants | |

### How they interact, and what is hard

* A client deposits into its account of the payments contract and approves the
  diamond as operator; `createAllocationRequests` moves DataCap, learns the new
  ids from the verified registry and, piece by piece, opens a rail for each.
* A miner actor reports sealed sectors; the matching pending allocations are
  activated, which starts their rails: a rate, and a month of lockup.
* Anyone settles a rail, at the diamond or at the payments contract; the
  payments contract calls the diamond back (`validatePayment`), which finds the
  allocation by the rail's number.
* The client may withdraw, lower its approval or end a rail at any moment, the
  owner may change offers, commission, lockup, pause, blacklist and even the
  payments contract in between.

There is no thread and no message queue: the hard part is the *order of
transactions of several actors*, whose state (the account, the rail, the offer,
the blacklist) is read by a later transaction of somebody else, and the
*partial failure of loops* that call another contract in every iteration and
must leave no trace when a late iteration fails. A command of the client adds a
second kind: it decides by *answers that may be out of date* when its
transaction is mined, because the same key is used in another terminal or
because the chain has gone on. `PROJECT.json` lists the
hazards at their lines and the property that covers each.

## 2. Modules

    FilecoinPay        pure operators on the state of one payments contract
      LibDDOStorage    variables, structs, guards, running transaction, revert
        SPFacet  AdminFacet  AllocationFacet
          DDODiamond       facets + clients + blocks: Init, Next, Spec
            DDOProperties  type invariant, invariants, action properties
              MCOffers                             instance for TLC
              DDORefinement    the diamond implements AllocationLifecycle
                MCPayments                         instance for TLC
              DDOProofs -> TransactionProofs       theorems of the diamond
                CommandProofs                      of the short commands, with Commands
                CreateProofs                       of create-from-file, with CreateFromFile
                LifecycleProofs                    of the refinement
                  LockupProofs                     of what accounts lock for their rails
                  SettleProofs                     of `sp settle`, with SettleCLI
            Sender         the node and the chain as a command meets them
              SettleCLI        the command `sp settle`
                MCSettle                           instance for TLC
              Wallet           the user's tokens and ERC-20 allowances
                CreateFromFile   `allocations create-from-file`, payment setup
                  MCCreate                         instance for TLC
                Terminal         commands as lists of steps, several at once
                  OwnerCommands    `sp register`, ..., `admin`
                  PaymentsCommands `approve-token`, `payments`, queries
                    Commands         both, on the diamond
                      MCCommands                   instance for TLC

    AllocationLifecycle  allocations seen from outside: agreements

    DiamondTable       the diamond seen from outside: selectors to facets, owner
    LibDiamond         the tables that implement it, cut by cut
      MCDiamond        instance for TLC
      DiamondProofs    theorems

The groups of `FilecoinPay` and of `DiamondTable` meet in the routes: every
operation of `DDODiamond` is a function of a facet, reached because the
deployment's cut routes its selector there, and `InitDiamond.init`, which
`LibDiamond` runs in a cut, leaves the storage `DDODiamond` starts from. They
share no other state (each has a storage structure at a position of its own), so
they are checked apart.

**State.** `s` is `DDOState`, field by field under the source's names; `pay` is
the state of every payments contract; `epoch` is `block.number`; `call` is the
frame of the running transaction. A mapping's missing key reads as the zero
struct (`NoAllocation`, `NoSPConfig`), `ZERO` is `address(0)`.

**Transactions.** A call without a loop is one step. A call with a loop
(`createAllocationRequests`, a sector notification, `settleSpTotalPayment`) is
one step per iteration, as the EVM runs it: no other transaction starts while
`call` is not `Idle`, the frame saves the storage it began with, and `Revert`
puts that back. So *partial failure* is explored at every iteration and the
invariants hold in the middle of a batch as well. `committed` (in
`DDOProperties`) is the storage everybody else sees: the running storage
between transactions, the saved one during a call. The action properties speak
of it and so of transactions taken whole.

**Checks and reverts.** A call whose checks fail before it writes is simply not
enabled. A check that fails inside a loop is an action of its own
(`createRevert`, `notifyRevert`, `settleRevert`).

**Correspondence.** Every action has the name of the function it models. The
loop of `createAllocationRequests` is `createAllocation` (an iteration with the
three calls of `_initiatePaymentRail`), `createRevert` and `createReturn`; the
two nested loops of `_processSectorContentChanged` are one loop over the pairs
of sector and piece in the order they are visited: `activatePiece`,
`rejectPiece`, `notifyRevert`, `notifyReturn`; the loop of
`settleSpTotalPayment` is `settleNext`, `settleSkip`, `settleRevert`,
`settleReturn`. `stripPrefix` models the removal of the CBOR tag's byte. Line
ranges are in `PROJECT.json` under `map`.

**AllocationLifecycle.** What the diamond promises about allocations, without
lists, rails, accounts and running calls. An agreement is made, takes effect
once (not after it was ended), is ended once with a month's notice, is settled
epoch by epoch and never beyond its end, and is over when it is settled to it.
`DDORefinement` reads an agreement off an allocation and its rail together, in
the `committed` storage and at the payments contract of the moment. So the
refinement `LifecycleSpec` says at once that a batch is one transaction
whatever piece fails, that no epoch is paid twice, that a transaction of one
kind touches nothing of another, and that the diamond's and the payments
contract's halves of an allocation do not come apart.

**LibDiamond.** `ds` is `DiamondStorage` (the three interface flags are one:
`init` sets them together), `paymentsContract` the one slot of `DDOState` that
`init` tests. A cut is executed one selector per step (`addFunctions`,
`replaceFunctions`, `removeFunctions`), `call` holds the loop counters, among
them the position that the code reads before the loop and counts up in it;
`cutReturn` and `initReturn` end it, `cutRevert` puts the saved tables back.
`DiamondTable` knows nothing of positions and arrays: a cut is one step after
which every selector is where the last entry naming it says. `TableSpec` is that
specification under the mapping `facetOf[x] = facetAddress(committed, x)`, where
`committed` is again what is seen between transactions: cuts are atomic, do what
they say, never touch a function of the diamond itself, and are over for good
once `diamondCut` has no route.

**FilecoinPay.** The payments contract is a git submodule whose code is not in
this repository. The module states what the facets call, what
`pkg/contract/payments` reads (fields of rails, accounts, approvals) and what
`contracts/test/diamond/DiamondSettlementTest.sol` asserts of it: lazily settled
accounts, allowances, fixed and streaming lockup, termination, settlement with
a validator's answer, deletion of a rail that is paid out. It is marked
external in the map. Left out: network fee, the split between payee and
commission (`paid` is what the payer is charged), the queue of past rates (a
rail's rate is set once), termination by the operator (no facet does it).

**Sender.** What the commands share. `txs` are the transactions a command
has sent, in the order of their nonces, which is the order the network includes
them in. What `contract.Transact` does is in `Estimates`, `Sent` and `Refused`
of each command: the node executes the call on the storage of that moment and
refuses one that would revert; a transaction that was accepted may revert all
the same (`mine`, `mineRevert`), because it is included later. Any request may
return an error (`nodeFails`, `requestFails`), one that sends a transaction
perhaps after the node has it; `interrupt` is the end of the process at any
point. Everybody else (`Others`) takes the steps of `DDODiamond` in between.
Requests see the storage between transactions, so a command's steps are taken
when `call` is `Idle`.

**SettleCLI.** The composition of `DDODiamond` with one client process. `cli` is
`executeSettle` between two requests to the node: the step it is `at`, the flags
as it resolved them, `total` and `startIndex` of the batch loop. `Outcome` runs
`settleSpTotalPayment` to its end without changing anything, for the estimate.
`awaited` (the transactions whose receipt the command has seen) and `due` (what
there was to settle when it began) are history for the properties. Errors before
the first transaction change nothing and are not steps; `--dry-run` sends
nothing; gas is not counted, and a call that runs out of it looks to the command
like any that reverts.

**CreateFromFile.** `executeCreateFromFile`, `CheckAndSetupPayments` and
`submitToCurio` as one process, one step per request: `cmd` holds where it is
and what it has read (`cost`, `price`, `lockup`, `account`, `approval`), and
`RequiredDeposit`, `Deficit`, `LockupAllowance`, `Suffices`, `NewLimits` are
what it makes of it, so that what was read may be out of date when it is used
(`seen`, how many transactions were in blocks when it read the approval, is
history for the properties).
The waits of the setup go on whatever the receipt or the error (`AfterWait`);
without the receipt of the creation the command ends without an error and
without a deal. `wallet` is the client's ERC-20 balance and allowance (module
`Wallet`), `deals` what the Curio service has been offered; both are external.
`mineRequest` gives the transaction to `createAllocationRequests` of
`AllocationFacet` and lets it run piece by piece. One prepared piece, as the
command has; the account read is the raw one, as it was last settled
(`accounts`), while the payments contract settles it first. Left out: the
preparation of the data, the zero address as token (native FIL), and the polling
of a deal's status.

**Terminal.** A short command is a list of steps (`todo`): the requests it
makes in their order, `send`, `wait`, and the end it comes to. `Learns` is a
request that is answered: the answer goes to `read`, under the step's name, and
later steps decide by `read` and never by the chain. `Sent` and the wait are
those of `contract.Transact` and `WaitForTransaction`. Several terminals run
commands with one key; their transactions share the nonces of `txs`. `seen`
counts how many of them were mined when the command first asked.

**OwnerCommands, PaymentsCommands.** One definition for each command, from its
flags to its steps (`executeUpdateSPConfig`, ...), one for each request
(`getSPConfig`, `GetAllowance`, ...), with the early ends it may lead to, and
one for each transaction's effect (`RegisterSP`, `Approve`, ...), which is the
facet's operation with the arguments the command computed. What a command puts
together from flags and answers is an operator of its own: `Defaulted` (terms
that are not given), `ConvertTBPerMonthToBytesPerEpoch`, `ApprovalAmount`,
`GivenAllowances`. A command that only asks has no `send`.

**Commands.** `mine` gives the next transaction to the diamond or the payments
contract, or lets it revert; `Fails` are the errors of every request, an
answer lost after the transaction was accepted (`sendFails`), and the end of the
process. What follows an error differs: a list goes on with the next provider
(`rowFails`), tokens that cannot be read are taken for none (`tokensFail`),
after a wait or a last look that fails the command still ends well
(`AfterFailure`).

**Wrong on purpose.** Operators under such a comment are not part of the model:
each is a definition with a plausible bug. Substituting it for the definition
that follows it must make TLC report the property it is paired with under
`mutants`, which shows that the property can fail.

## 3. Runs

| Run | Instance | Question |
|---|---|---|
| `payments` | 1 client, 1 provider, 2 allocations in 2 sectors, 4 blocks, month = 1 block, funds up to 6, price 1 | Do agreements and money stay right whatever order creation, activation, deposits, withdrawals, terminations, blacklisting, single and batch settlements come in, and is the diamond, from outside, the agreements of `AllocationLifecycle`? |
| `offers` | without a payments contract: 2 providers, 2 tokens, 2 prices; with one: 2 interchangeable clients, 1 provider, 3 payees of which one is no address, batches of 1 and 2 pieces, 5 registry answers | Does any order of the six registry operations produce a duplicate, remove the wrong entry or bring a deactivated provider back? Are allocations indexed once, bound to their rail, made as offered at that moment, whole batch or nothing, while the owner changes everything? |
| `diamond` | 4 selectors, among them those of `diamondCut` and `transferOwnership`; 2 facets, the diamond itself, an address without code; 2 owners; cuts of 1 to 3 selectors and of 2 entries | Do the tables agree after every selector of any sequence of cuts, and do cuts do what they say? |
| `settle` | 2 active allocations, a third that may be made meanwhile, `BATCH_SIZE` 2 for 50, 2 blocks, the command started twice | Has a `sp settle` that ends well settled what it was asked to, in one transaction or in batches, whatever fails, whatever others do, and also when an earlier run was interrupted with transactions still under way? |
| `settle_ends` | 1 active allocation, a second that may be made meanwhile, `BATCH_SIZE` 1, 2 blocks | Does the command come to an end, although the list grows and others keep the chain busy? |
| `create` | a client with no account, or with a deposit of 5 and one of five approvals; no earlier allocation, or an activated one and two runs of the command; 8 tokens; 2 lockup amounts; a month of 2 blocks | Can the client pay when the payment setup is through, and are deals offered for what was created, whatever fails between two requests and whatever others change? |
| `commands` | two terminals, one command each, of the owner (registry, or switches) or of a user (money, or queries); a user without allocations or with an activated and a pending one; prices 3, 5 and 9 at a step of 4 | Does a command change, show and quote what it was asked for, whatever the other terminal does in between and whatever fails, and does it end? |
| `blacklist`, `settle_all`, `migration`, `settle_receipt`, `setup_month` | as `payments` (two payments contracts in `migration`), as `settle`, as `create` with price 2 | Five statements of the repository the code does not keep, see below. |

What the passing runs show:

* `RailTerms`: a pending allocation's rail has rate 0 and no streaming lockup;
  an activated one has the agreed price for its size and a month of lockup,
  until the rail is deleted.
* `AnswersAreTrue`: a piece is answered `true` only if this notification
  activated its allocation, there and in its sector, and for each allocation the
  notification activates one piece is answered `true`; also when an allocation
  is named twice (`<<Sealed(1, 1), Sealed(1, 2)>>` is among the inputs). Each
  half has a mutant: a second piece accepted for the same allocation, and an
  activation that is answered `false`.
* `BatchSettlesAll`: a batch that returns has passed over nothing in its range.
* `Solvent`, `MonthIsLocked`: accounts never lock more than they hold, and hold
  what all activated allocations have earned and the month of notice of each.
* `AllocationsAreFinal`, `PaidAsAgreed`: the only change to an allocation is its
  one activation; what a rail is paid is price times size times the epochs
  settled, or nothing while its sector is blacklisted.
* `LifecycleSpec`: the refinement above. Its mutant does not notice that the
  payments contract refuses an activation: an agreement that was ended then
  takes effect.
* `IndexesAgree`, `RailBinding`: lists and maps agree in the middle of a batch,
  after it, and after its revert; the answers `<<2, 2>>`, `<<>>` and an id in use
  are among the inputs.
* `CreatedAsOffered`, `BatchesAreAtomic`, `GuardReleased`,
  `RegistryConsistent`, `RemovalKeepsOthers`, `DeactivationIsFinal`: as their
  comments say.

* `TablesAgree`: each selector and each facet is where its recorded position
  says, and nowhere else; `LoupeTellsRouting`: `facets()` lists what the
  fallback routes. `TableSpec`: the refinement above.
* `SuccessMeansSettled`: when `sp settle` says it is done and what it waited for
  succeeded, every rail that was due when it began has been settled as far as it
  could be then. `BatchesPartition`: wherever the batches stop, each position of
  the list up to there has been in exactly one mined batch of this run, neither
  left out nor settled twice.
* `CommandEnds`: a started command reaches its end.
* `UpdateKeepsTerms`, `UpdateKeepsAllowances`, `ApprovalNeverLowers`: what
  `sp update config`, `payments set-operator-allowance` and `approve-token` were
  not given stays, and an ERC-20 allowance is never lowered. The first two fill
  in what they *read*, so all three hold on the condition that no other
  transaction of the key is mined between a command's first question and its own
  transaction; the run has the other orders too, in which the second terminal
  puts back what the first has changed.
* `PricesAsAsked`: whatever order of registration, additions, updates and
  removals, a price on chain is the last one asked for, less the remainder of
  the conversion. The check is of history against storage: a transaction that
  reverts or is overtaken must not count.
* `QuotesAreCosts`: the example costs of `sp query` are what the contract asks,
  if no transaction comes between its two questions and the token is active.
* `CheckedWithdrawals`: a withdrawal that passes the balance check while nothing
  is locked in the account would be granted, and that stays so through blocks,
  terminations, settlements and calls that revert, until the user sends
  something or a miner's notification activates an allocation. Both exceptions
  are needed: the check looks at funds that include what is locked, and an
  activation locks a month without the user doing anything. The run has rails
  that end and are paid out, and the pending allocation's activation, between
  the check and the withdrawal.
* `ReportsAreTrue`: the approval or allowance that is shown as new is the one
  that was set, if the transaction succeeded and nothing came after it.
* `RailShownIsAllocations`: the rail shown for an allocation, in two requests
  and with settlements, terminations, deletions and its own activation in
  between, is paid by its client at its price, in spite of rail numbers that
  differ from allocation ids. An allocation shown as pending may be shown with
  the rate it has by the second question.
* `NeverPanics`: the two places that use a provider's terms without looking
  whether there are any only ask for providers that have some.
* `CommandsEnd`: each of the commands comes to an end, also one whose
  transaction reverts.
* `SetupSuffices`: when `create-from-file` comes to its allocation request, its
  transactions have succeeded and nobody else has touched the account and the
  offer, the client can pay for the allocation. An earlier run that was
  interrupted must not have had an approval under way when this one read its
  limits: of three runs, the third may read the limits that the first has raised,
  and find them enough, before those of the second, which are lower, are mined
  over them. The property holds for accounts without a streaming rail: the deposit is computed from `funds - lockupCurrent` as last
  settled, and what a rail has locked since is missing from it.
* `SetupLasts`: the activation finds deposit and allowance as well, if the term
  and the period allowed are a month at least and a month's price is no more
  than twice the fixed lockup; `setup_month` shows that the last condition is
  needed.
* `DealsMatchAllocations`: every deal is for an allocation of the client, none
  twice, and a command that ends well after it saw a receipt has offered and
  finalized a deal for each allocation of it, and there was one: also a creation
  that reverted, whose status the wait does not look at, is noticed by then.

**Bounds and why they are enough.** The properties relate an allocation to its
rail, to its client's account and to one other allocation of the same client or
provider, so two of each make every interference appear: two rails on one
account, a batch whose second element fails, one sector blacklisted and the
other not. Four blocks with a month of one block let a rail be created,
activated, settled in part, ended and paid out with a block in between; funds of
6 cover two rails to their end, and 3 (one deposit) do not, so accounts run dry
in the middle. `MaxEpoch`, `MaxRails` and `MaxFunds` are bounds of the model
only: time, rail numbers and funds are unbounded in the code. Because of them
the model stops when they are used up, hence `CHECK_DEADLOCK FALSE`. Amounts are
unbounded integers: they are `uint256` under Solidity 0.8, which reverts on
overflow, and no value reaches that width. `offers` treats its two clients alike
and declares them symmetric; it has no liveness property. In the others nothing
is interchangeable.

A swap involves the removed entry, the last one and, in a replacement, the
target facet's array. Four selectors on three facets contain all three kinds
with one entry to spare; the cuts remove first, last and only functions, name a
selector twice, replace within a cut what it added, name an address without
code, remove what does not exist, and ask for the initialization twice. An owner
may remove `diamondCut` and `transferOwnership`; nothing can happen then, hence
`CHECK_DEADLOCK FALSE` there too.

For `sp settle` what matters is whether the list is a multiple of the batch, one
more, or one less: batches of 2 over a list of 2 that may become 3 (and in
`settle_ends` of 1 over a list of 1 that may become 2) contain a full batch, a
last batch that reaches beyond the list, and one more batch than the first. A
single allocation (`execute(0, 1, u)`) is among the commands. `MCSettle` starts
where registration, deposit and activation have brought the diamond, by the
operations of `FilecoinPay` themselves. `MaxRuns` bounds how often the command
is started.

For `create-from-file` the five approvals (`MCLimits`) are the cases of the
setup's decision: short of rate, of lockup, of both, of neither, and one with a
period of 0; with no account at all there is no approval. A deposit of 5 is
enough for one lockup amount and short for the other, a new client's deposit is
affordable for one and not for the other. The command runs within one block:
the rail of a pending allocation does not stream, and the one property that
speaks of a later activation evaluates it in that block. Two runs are enough for
one to overtake the other (what a third adds is in the proofs); a client without an allocation starts the command
once. Two ids are left for the two runs.

For the short commands two terminals with one command each are enough for one
to overtake the other at any of its steps. The owner's commands overlap with
those that read what they write, the registry's among themselves and the
switches among themselves, and so do the user's about money; blocks, ended and
settled rails come around a single command, and the activation of the pending
allocation around a query or a withdrawal, the commands that it could mislead.
A step (`BYTES_PER_TB` of 4 and a
month of one block) of 4 and prices of 3, 5 and 9 contain a price that becomes
0, one that is rounded and two that become different ones. `MaxUint256` is 255:
above every amount, and what does not fit is cut off as the binding does. The
flags contain each that is given and left out; terms with an empty range, no
address, a duplicate token; the number of allocations makes rail 1 the rail of
allocation 2.

`MCPayments` keeps the owner's part of the next-state relation to the actions
that bear on payments, and `MCOffers` leaves out blocks and settlements; between
the two of them every action of `DDODiamond`'s `Next` is taken.

**Fairness.** The contracts are passive, and nothing obliges anybody to send a
transaction: `Spec` and the specification of the diamond assume no fairness, and
all their properties are safety properties. `CLISpec` assumes what the command's
code rests on. `SF(Command)`: a process that is not interrupted goes on whenever
the node answers; strong, because it asks only between two transactions of
others, who may keep the node busy. `SF(mine)`: the network includes a
transaction it has accepted. `WF` of the steps of a running call: the EVM runs a
call to its end. Failures, interrupts, new commands, blocks and the transactions
of others are not fair: the first ones may happen, none has to. Without
`SF(mine)` the command may not end: `WaitForTransaction` asks for the receipt
until it is there and has no timeout. The mutant of `CommandEnds`, a wait for a
receipt of success, hangs on the first transaction that reverts.

`CmdSpec` assumes the same: `SF` of each terminal's answered steps and of `mine`,
strong because a notification of somebody else may run between any two of them,
and `WF` of the steps of a running call. Starts, failures, interrupts and the
transactions of others are not fair. Its liveness mutant waits for a receipt of
success as well.

### Where the code does not do what the repository says

* `blacklist`: for a blacklisted sector the validator answers amount 0 *and*
  full progress, so the settlement succeeds, and the epochs are gone unpaid even
  if the sector is taken off the list later. The settlement test's comment
  expects a revert, and the README of the repository says settlement is blocked.
* `settle_all`: one allocation whose client ended the rail, and whose rail was
  paid out and deleted, makes `settleSpTotalPayment` revert for every range that
  holds it, while other rails of the provider are due.
* `migration`: after `setPaymentsContract` an older allocation's rail number
  means somebody else's rail in the new contract, and its activation sets that
  rail's rate.
* `settle_receipt`: `sp settle` waits for the receipt of the one transaction for
  all allocations and does not look at its status. If it was accepted and then
  reverts (a rail was ended and paid out meanwhile), the command reports
  that all allocations are settled; the message and the branch for that case say
  it falls back to batches.
* `setup_month`: the lockup allowance that the payment setup asks for is twice
  the fixed lockup, whatever the price. Its comment says that it must cover the
  rate-based lockup too; with a month's price above it the activation fails.

Smaller disagreements, which have no run:

* The comment in `removeFunctions` of `LibDiamond` has a removal of a missing
  function do nothing, where the code reverts.
* `CheckAndApprove` halves its `maxUint256` in place, so that the "unlimited"
  approval is for half of it (`ApproveAmount`).
* `approve-token` without an amount approves twice the balance, where its help
  says unlimited (`ApprovalAmount`); and since it stops at an allowance that is
  large enough, it can neither lower nor revoke one (`Sufficient`).
* `BYTES_PER_TB` is 2^40 in the client and 10^12 in `SPFacet`'s own conversion,
  so the two show different prices for one entry.
* A price below one step becomes 0 without a word.
* `sp update token` needs a price and sets the active flag each time: changing
  the price of an inactive token activates it. `payments
  set-operator-allowance` approves again in the same way.
* The unlimited period is 525600 epochs, "1 year ... assuming ~1 minute per
  epoch", which is half a year at the 30 seconds used elsewhere.
* `withdraw` shows as available what is locked, too (`Reach`).
* `sp query` says that no tokens are configured when the request for them failed
  (`tokensFail`), and shows example costs of a provider that is deactivated.
* "mined successfully" is printed for a transaction that reverted
  (`waitForTransaction`).
* `create-from-file --dry-run` says that it calculates costs, and returns
  before it does.

## 4. Proofs

TLAPS proves, for every value of the constants:

* `DDOProofs`: `TypeCorrect` (`Spec => []TypeOK`) and `Solvency`
  (`Spec => []Solvent`). The inductive invariant is
  `IInv == TypeOK /\ Solvent`. The two need each other: funds and lockups stay
  natural numbers only if nothing locked is ever spent, and that accounts are
  sound can only be said of states with the right types. One lemma per action;
  the arithmetic is in its first part, where each operation of the payments
  contract is shown to keep `PaySound` from its own guard. The steps it speaks of
  are those of `AnyNext`: the actions with any arguments of their types, of which
  the constants' choice is a part (`NextIsAny`). The lemmas about steps here and in
  the next modules are about `AnyNext`, because a command sends arguments of
  its own.

  In its second part: `GuardRelease` (`GuardReleased` is inductive on top of
  `IInv`), `RailsBound` (`RailBinding`) and `RailsAsAgreed` (`RailTerms`). The
  invariant for the last two is `AllocationInv`: `IInv`, the binding and the
  terms of rails for the running state and for the saved one (a revert must land
  in a good state), and that a creation runs with a payments contract set.
  Binding and terms go together because activation reaches the rail through the
  allocation: that it leaves the rails of others alone needs the binding, and
  that a fresh rail number is in nobody's hands needs the bound on
  `nextRailId`. They assume `SingleContract`, that the owner never replaces the
  payments contract by another one; the run `migration` shows that without it
  the terms do not hold.

* `TransactionProofs`: what a transaction as a whole does. `TransactionInv` says
  of a running call that the owner's settings are those of its beginning and
  that no allocation of its beginning is gone or changed but for its one
  activation; `AllocationFinality` (`AllocationsAreFinal`) follows, because a
  property of committed states needs to know what the steps since the beginning
  have added up to. `CreateInv` says that a running creation has made exactly as
  many allocations as it has passed pieces, each as offered by a configuration
  that is the one of its beginning; from it come `AtomicBatches`
  (`BatchesAreAtomic`) and `OfferedCreations` (`CreatedAsOffered`).
  `ExactIndexes` (`IndexesAgree`) is inductive as it stands: an append adds one
  position for the value appended. `TrueAnswers` (`AnswersAreTrue`) and
  `SettlesWholeBatch` (`BatchSettlesAll`) are invariants of loops. The first is
  carried in both directions from piece to piece: an answer `true` has activated
  its allocation, and what has been activated since the call began has an
  answer `true`. The second rests on lemmas about the payments contract: how far an account can be settled never
  goes back, and settling one rail takes nothing from another rail of the same
  account, so what an earlier iteration has settled stays settled.
  Of the registry: `ConsistentRegistry` (`RegistryConsistent`), `RemovalIsExact`
  (`RemovalKeepsOthers`) and `FinalDeactivation` (`DeactivationIsFinal`). The
  invariant adds to `RegistryConsistent` that a provider that is not registered
  has no tokens: registration appends to what is there and checks for duplicates
  only within what it is given.
* `LifecycleProofs`: `ImplementsLifecycle` (`Spec => LifecycleSpec`) and
  `AgreedPayments` (`PaidAsAgreed`), with `SingleContract`. Two invariants carry
  them. `RailsInv` says that rails are settled neither past the present nor past
  their end, and that a rail without an allocation does not exist and was not
  paid on (so that a new agreement starts at zero). `Progress` says what a running
  call has done to the agreements since it began, as a step of
  `AllocationLifecycle` from the saved state to the running one; a return is that
  step, a revert a stutter. Every step of the diamond is then one of: make a
  batch, activate for a miner, end, settle, a block, or nothing that is visible.

* `LockupProofs`: `MonthAlwaysLocked` (`MonthIsLocked`), with `SingleContract`.
  That an account holds what all its allocations together ask for does not
  follow from anything about one rail; the invariant is `LockupInv`
  (`LockupInvariance`): what an account has locked is the sum over *all* its rails
  of what each locks in it (`LockOf`: the fixed lockup, and the rate times the
  epochs from its settlement to the end it is paid for), the account's rate is
  the sum of the rates that still stream, and no streaming rail is settled
  further than its account. The payments contract never computes these sums: it
  adds a change here and takes one away there, when an account is settled as far as
  its funds go, a rail is modified, ended, settled, deleted. Each of these
  operations has a lemma that the two sides change alike (`SettledCounts`,
  `LockupLedger`, `PaymentLedger`, `TerminateLedger`, `SettledLedger`,
  `FinalizeLedger`); two of them hold only as the diamond uses the contract, and
  the hypotheses say how: the rate is set once, on a rail that had none, and a
  rail that streams has a period of notice. From `LockupInv` to `MonthIsLocked` is
  one comparison of sums: different allocations have different rails
  (`RailBinding`), what an allocation asks for is what its rail locks
  (`RailTerms`), no rail locks less than nothing (`RailsInv`), and accounts lock
  no more than they hold (`Solvent`).

  The sums are folds, and what a fold computes is induction over the set. No
  induction principle that takes an operator is used: `SubsetInduction` says that
  a *set of subsets* that is closed as the recursion asks is the whole powerset,
  since a minimal missing one would have its rest in it, and `SumExists`,
  `RecursionIsSum`, `TotalPlus`, `TotalChange` and `TotalImage` are about sums as
  functions on the powerset.

* `SettleProofs`: the command `sp settle` beside the diamond, under `CLISpec`.
  Its settlements carry arguments the diamond's own specification does not
  offer, so `CLISpec` does not imply `Spec`. What both have in common is `Steps`:
  a step is one of the diamond's actions, or the beginning of a settlement
  with some arguments, and the lemmas of `TransactionProofs` are about `Steps`.
  `BothInvariance` carries the diamond's invariants over with them.
  `CommandTypeCorrect` (`CLITypeOK`) needs `CLIInv`: what the command asks for is
  what it was started with, the transactions of a run ask for the same, the one
  waited for is the last one. Its lemma `NonceOrder` says that the number of
  transactions a node has mined or is running is the number of the last of them,
  because the chain takes them in order; on it rests that at most one runs.
  `ExactBatches` (`BatchesPartition`) needs `BatchInv`: each batch of the run ends
  before the position reached, but for the one sent last, and each position up to
  there is covered by exactly one batch that is in a block. An answer that is
  lost moves no position, and a batch waited for is mined before the next.

  `SettledOnSuccess` (`SuccessMeansSettled`), with `SingleContract`, rests on
  `DueInv`: whatever was due when the command began belongs to an allocation at
  a position of the provider's list (or to the one that was named), could be
  settled all the while, has been settled if a transaction of the run that
  covers the position succeeded, and the command comes past the position, or to
  its end, only after it has waited for such a transaction. `could be settled all
  the while` is where everybody else comes in: deposits, withdrawals,
  terminations, new rails, activations, other settlements and blocks may lie
  between two transactions of the command, and none of them may bring a rail
  back. `Onward` says so, one lemma per operation of the payments contract;
  `Advance` adds that lists only grow and that an activation is final;
  `GroundInv` carries it, and `RailsInv`, through calls that stop half-way.
  `CallInv` ties the running call to the transaction it was sent as, so that the
  return of the call pays what `SettleInv` of `TransactionProofs` says it does.

* `CommandProofs`: the short commands beside the diamond, under `CmdSpec`, in any
  number of terminals. `CommandsInvariance` is the ground: `CommandsInv` says of
  each terminal that what is left of its list is an end of a plan of its command
  (`ListInv`), that it has read what the steps before asked for, with the types of
  the answers (`TerminalsInv`), that what it is about to send, and what is in
  `txs`, are arguments the contracts take (`SendingAll`), and that the diamond's
  invariants hold beside it. `CommandsTypes` (`CommandsTypeOK`) follows, and
  `TermsAreThere` (`NeverPanics`): a provider that was listed never loses its
  terms again, only its activity.

  `UpdatesKeepTerms`, `UpdatesKeepAllowances`, `ApprovalsRaise`, `TrueReports` and
  `TrueQuotes` share one argument: as long as `seen`, the number of transactions
  mined when the command first asked, still is the number mined, what was read
  under a step's name is what the storage says now (`ConfigRead` and its like).
  Every step either mines a transaction, which ends the hypothesis for all
  commands but the sender, or leaves the storage asked about alone. `PricesAsked`
  (`PricesAsAsked`) ties the storage to history instead: what each transaction in
  `txs` has done to the list of asked prices is what its effect has done to the
  provider's tokens, and the rounding is a lemma on its own
  (`shown <= asked < shown + Step`). `TrueRails` (`RailShownIsAllocations`), with
  `SingleContract`, carries over the answered question: what was shown of an
  allocation stays true of it, but that it may be activated, and its rail serves
  it until it is deleted (`AllocationInv`).

  Where a theorem is about what nobody else changes, it says so in a hypothesis of
  its own: `OwnerAlone`, that configurations change by the owner's transactions in
  `txs` only (nobody else has the owner's key), and `UserAlone`, the same of the
  limits the user has approved. `[][CmdNext]` has the owner and the clients act as
  others too, so the hypotheses are not idle; the run's `Outside` meets them.
  `ApprovalsRaise` assumes `AmountsFit` and `BalancesFit`, that the amounts given
  and twice the balances fit into a word: larger ones are cut off where the call is
  packed, and an approval may then be lower.

* `CreateProofs`: `create-from-file` beside the diamond, under `CFFSpec`, run after
  run. `CreationsInvariance` is the ground: `CreationInv` is the diamond's
  invariants, which must be carried over because the command sends arguments of
  its own, and `CommandInv`: transactions are in blocks in the order of their
  nonces and ask for what the contracts take, the command has read what the steps
  before asked for (`Fits`), and whatever is running for a transaction of its own
  is a creation for the user. `CreateTypeCorrect` (`CFFTypeOK`) follows.

  `DealsAreCreated` (`DealsMatchAllocations`) needs a tie from a deal back to what
  was committed. `MadeSoFar` says that the events of a receipt name allocations
  of the user's, that no two events of any receipts name the same, and, of the
  running creation, that the ids it has passed were nobody's when it began.
  `DealsInv` says that each deal is for an event of an earlier run, or of this
  run's receipt at a position it has passed, so none is offered twice; and that
  a run at its last steps has finalized one deal for every event passed. An
  interrupt in the middle, an answer lost after the service has stored
  something, a creation that reverts and a receipt that never comes are each a
  step of it.

  `SetupIsEnough` (`SetupSuffices`) and `SetupIsLasting` (`SetupLasts`) have two
  halves. One is arithmetic, for every price, size, lockup amount and limit:
  from the limits that the four cases of the decision arrive at, and the account
  that was expected, `RailOpens` derives each requirement of the payments
  contract, and `PendingActivates` those of the activation, where the fixed
  lockup is exchanged for a month at the price. The other is `LimitsInv`, about
  the chain: as long as no approval of an earlier run was under way when the
  limits were read, the limits are those that were read until the run's own are
  mined, and its own from then on, through the creations of earlier runs that
  revert in between. It was this invariant that showed that the property was
  false as it stood for three runs, which the bound of two in the run had hidden.
  The hypothesis of both, `ApprovalAlone`, is that while a run lasts the limits of
  its approval change only when one of the command's transactions is mined: the
  user does not set them by hand meanwhile. `CFFNext` has everybody else act too,
  and so the user in another terminal, so it is not idle; the `Environment` of the
  run meets it. Other approvals, deposits, the use of this one, and what the
  owner sets are free; where they matter, `SetUp` names them.

* `DiamondProofs`: `DiamondTypeCorrect` (`TypeOK`), `TablesCorrect`
  (`TablesAgree`) and `LoupeCorrect` (`LoupeTellsRouting`). The invariant is
  `TablesInv`: types, agreement, and `Counted`, that the position the loop
  counts up still is the length of the target facet's array although the same
  iteration removed the selector elsewhere. It is what makes an addition land
  where its recorded position says. One lemma per operation on the tables
  states what it does to the agreement; in between a facet may be listed without
  functions, or have lost its last one, and the lemmas name it (`open`).
  `ImplementsTable` (`Spec => TableSpec`) adds `CutInv`: in the middle of a cut a
  selector is where the last entry done so far that names it puts it, or else
  where it was, and the diamond's own functions are where they were.

Assumptions used are the named ones of the modules: `MaxRailsAssumption`,
`IdsAssumption` (provider and allocation ids are not 0), `CidsAssumption`,
`ZeroAssumption` (`address(0)` is nobody's), `EpochsAssumption`,
`MinersAssumption`, `InputsAssumption` (inputs have the types of the ABI), and
for the diamond `AddressesAssumption`, `SelectorsAssumption` and
`RequestsAssumption` (the same of cuts). TLC
evaluates them in every run. `SingleContract` is not among them: it is a
hypothesis of the theorems that need it, and says that `PaymentsContracts` has
one member at most, so that `setPaymentsContract` can be called at any time but
never for another contract. The code does not enforce that, and the run
`migration` shows what is lost without it.

Only model-checked, because they are out of the prover's reach: liveness under
fairness (`CommandEnds`, `CommandsEnd`), and `ENABLED`, by which the node
estimates a transaction. `CheckedWithdrawals` is only model-checked too, for its
length: it needs a lemma for each operation on an account. Every other property
of the passing runs has a theorem. No module here has a RECURSIVE operator.

## 5. Not modelled, and why

* `ViewFacet`: read-only; the views the commands ask are their requests, the
  others read single variables. Of `DiamondLoupeFacet`, `facets` is modelled,
  because a property is about it.
* What happens behind a route: a selector routed to a facet that lacks the
  function, and initializations other than `InitDiamond.init` (any code may run
  in a cut).
* `MockAllocationFacet`: a test double.
* `rescueFIL`, `_receiveDataCap`: no state of the diamond; the FIL balance and
  the event are looked at by nobody.
* `VerifRegSerializationDiamond`: it calls the writers and readers of a CBOR
  library that is not in the repository, field by field in the order of the
  struct; its own arithmetic is the size of the buffer, which grows. The model
  takes what is decoded.
* The ABI descriptions in `pkg/contract` (two thirds of the Go lines that are
  not modelled), `pkg/types` and the reading of the environment: no operations.
* Bindings that no command calls: `CreateRail`, `ModifyRailPayment`,
  `ModifyRailLockup`, `TerminateRail`, `SettleRail` of `pkg/contract/payments` and
  the lists of rails. What the payments contract does at such a call is there,
  as the step of a client or a facet.
* `allocations query-claim-info` and the queries of the payments contract's
  constants: they read state that nothing in the repository writes.
* In the short commands, what is printed, the reading of the token file and the
  dry runs of the two token commands, which ask and send nothing.
* The preparation of the data, which a library does; the search for a provider's
  service (whether one is given or found is the argument `curio` of `execute`;
  without one the command makes the allocation, warns and offers no deal); and
  `DealStatus`, which no command calls.
* `termMin`, `termMax` are checked against the offer and then only forwarded;
  `downloadURL` and `expirationOffset` reach events and the registry only.

Hazards no property covers, with the reason in `PROJECT.json`: notifications
refused during a pause, a second run after a failure behind the transaction, and
the account read as last settled.

## 6. Plan

Done: the modules of section 2, and a theorem for every property of the passing
runs but the three of section 4. What could come next:

* the claims of the verified registry, which `query-claim-info` reads and which
  would let a sector expire;
* the fees of the payments contract, once its source is beside this code: they
  are part of the amount charged here;
* the theorems that assume `SingleContract`, for a diamond whose owner changes
  the payments contract, should the code come to remember with an allocation
  which contract its rail is in.
