----------------------------- MODULE SettleCLI -----------------------------
(***************************************************************************)
(* The command `ddo sp settle' (internal/commands/sp/settle.go) against    *)
(* the diamond, while everybody else sends their transactions.             *)
(***************************************************************************)
EXTENDS Sender

CONSTANTS
    BATCH_SIZE,     \* allocations the fallback settles in one transaction
    UntilEpochs     \* values of the flag --until-epoch; 0 if it is not given

ASSUME SettleAssumption == /\ BATCH_SIZE \in Nat \ {0}
                           /\ UntilEpochs \subseteq Nat

VARIABLE cli        \* the running command

cliVars == <<s, pay, epoch, call, cli, txs>>

NotStarted ==
    [run |-> 0, at |-> "start", providerId |-> 0, allocationId |-> 0,
     untilEpoch |-> 0, total |-> 0, startIndex |-> 0, awaited |-> {}, due |-> {}]

\* Where the command has come to its end.
Ended == {"start", "done", "failed"}

----------------------------------------------------------------------------
(* What the node does.                                                     *)

\* What settling the allocation in state p of the payments contract leads to:
\* nothing if it reverts.
SettledBy(p, a, until) ==
    LET info == s.allocationInfos[a]
        answer == validatePayment(info.railId, Proposal(p, info.railId, until, epoch))
    IN  IF ~payable(info) THEN {p}
        ELSE IF CanSettleRail(p, info.railId, until, epoch, answer)
        THEN {SettleRail(p, info.railId, until, epoch, answer)}
        ELSE {}

\* The same for a part of a list of allocations, one after the other.
Outcome(ids, until, first, last) ==
    LET reached[i \in (first - 1) .. last] ==
            IF i < first THEN {pay[s.paymentsContract]}
            ELSE UNION {SettledBy(p, ids[i], until) : p \in reached[i - 1]}
    IN  reached[last]

\* Whether the transaction would succeed on the storage of this moment.
\* ids and positions are those settleSpTotalPayment starts with.
Estimates(tx) ==
    IF tx.allocationId # 0
    THEN LET info == s.allocationInfos[tx.allocationId]
         IN  /\ info.activated
             /\ info.railId # 0
             /\ CanSettle(s.paymentsContract, info.railId, tx.untilEpoch)
    ELSE LET ids == s.allocationIdsByProvider[tx.providerId]
             last == LastPosition(tx.startIndex, tx.batchSize, Len(ids))
         IN  /\ ids # <<>>
             /\ FirstPosition(tx.startIndex) <= last =>
                   Outcome(ids, tx.untilEpoch, FirstPosition(tx.startIndex), last) # {}

\* The next transaction of the command enters a block.  A call with a loop
\* then runs on in the steps of the facet.
mine ==
    LET i == NextNonce
        tx == txs[i]
    IN  /\ call = Idle
        /\ i \in DOMAIN txs
        /\ UNCHANGED cli
        /\ \/ /\ tx.allocationId # 0
              /\ settleSpPayment(tx.allocationId, tx.untilEpoch)
              /\ Receipt(i, "succeeded")
           \/ /\ tx.allocationId # 0
              /\ ~Estimates(tx)
              /\ Receipt(i, "reverted")
              /\ UNCHANGED chainVars
           \/ /\ tx.allocationId = 0
              /\ settleSpTotalPayment(tx.providerId, tx.untilEpoch,
                                      tx.startIndex, tx.batchSize)
              /\ Receipt(i, "running")

mineLoop ==
    /\ Mining
    /\ settleNext \/ settleSkip
    /\ UNCHANGED <<cli, txs>>

mineReturn ==
    \E i \in DOMAIN txs :
        /\ txs[i].status = "running"
        /\ settleReturn
        /\ Receipt(i, "succeeded")
        /\ UNCHANGED cli

\* Gas is not counted: a call that runs out of it looks to the command like
\* any other that reverts.
mineRevert ==
    \E i \in DOMAIN txs :
        /\ txs[i].status = "running"
        /\ settleRevert
        /\ Receipt(i, "reverted")
        /\ UNCHANGED cli

----------------------------------------------------------------------------
(* Transactions of the command.                                            *)

\* Wrong on purpose: the last batch is cut to what remains of the list.
NextTxCut ==
    [run |-> cli.run, allocationId |-> cli.allocationId,
     providerId |-> cli.providerId, untilEpoch |-> cli.untilEpoch,
     startIndex |-> cli.startIndex, status |-> "pending",
     batchSize |-> IF cli.at = "batch"
                   THEN Min2(BATCH_SIZE, cli.total - cli.startIndex) ELSE 0]

\* SettleSpPayment if an allocation is named, else SettleSpTotalPayment.
NextTx ==
    [run |-> cli.run, allocationId |-> cli.allocationId,
     providerId |-> cli.providerId, untilEpoch |-> cli.untilEpoch,
     startIndex |-> cli.startIndex, status |-> "pending",
     batchSize |-> IF cli.at = "batch" THEN BATCH_SIZE ELSE 0]

\* contract.Transact: estimate, sign, send.
Sent == Estimates(NextTx) /\ txs' = Append(txs, NextTx)
Refused == ~Estimates(NextTx) /\ UNCHANGED txs

Await == cli.awaited \cup {Len(txs)}

----------------------------------------------------------------------------
(* executeSettle.                                                          *)

Asks == call = Idle /\ UNCHANGED chainVars

Goto(step) == cli' = [cli EXCEPT !.at = step]

\* The rails that have something to settle now, and how far that goes.
Due(ids, until) ==
    LET p == pay[s.paymentsContract]
    IN  {<<s.allocationInfos[a].railId,
           SettleTo(p, s.allocationInfos[a].railId, until, epoch)>> :
            a \in {b \in ids : /\ s.allocationInfos[b].activated
                               /\ RailExists(p, s.allocationInfos[b].railId)}}

Listed(providerId) ==
    {s.allocationIdsByProvider[providerId][i] :
        i \in DOMAIN s.allocationIdsByProvider[providerId]}

\* The flags, the epoch, the provider's registration and the address of the
\* payments contract, all of them read before the first transaction.
execute(providerId, allocationId, untilFlag) ==
    LET until == IF untilFlag = 0 THEN epoch ELSE untilFlag
        target == IF allocationId # 0 THEN s.allocationInfos[allocationId].provider
                  ELSE providerId
        ids == IF allocationId # 0 THEN {allocationId} ELSE Listed(providerId)
    IN  /\ Asks
        /\ cli.at \in Ended
        /\ cli.run < MaxRuns
        /\ providerId # 0 \/ allocationId # 0
        /\ target # 0 /\ isRegisteredSP(target)
        /\ cli' = [NotStarted EXCEPT
                      !.run = cli.run + 1,
                      !.at = IF allocationId # 0 THEN "single" ELSE "all",
                      !.providerId = providerId, !.allocationId = allocationId,
                      !.untilEpoch = until, !.due = Due(ids, until)]
        /\ UNCHANGED txs

sendSingle ==
    /\ Asks
    /\ cli.at = "single"
    /\ \/ Sent /\ Goto("waitSingle")
       \/ Refused /\ Goto("failed")

waitSingle ==
    /\ Asks
    /\ cli.at = "waitSingle"
    /\ Waited
    /\ cli' = [cli EXCEPT !.at = "done", !.awaited = Await]
    /\ UNCHANGED txs

\* All at once; any error is answered with the batches.
sendAll ==
    /\ Asks
    /\ cli.at = "all"
    /\ \/ Sent /\ Goto("waitAll")
       \/ Refused /\ Goto("list")

waitAll ==
    /\ Asks
    /\ cli.at = "waitAll"
    /\ Waited
    /\ cli' = [cli EXCEPT !.at = "done", !.awaited = Await]
    /\ UNCHANGED txs

\* The list is read once, it may grow while the batches are settled.
getAllocationIds ==
    /\ Asks
    /\ cli.at = "list"
    /\ cli' = [cli EXCEPT
                  !.at = "batch",
                  !.total = Len(s.allocationIdsByProvider[cli.providerId])]
    /\ UNCHANGED txs

sendBatch ==
    /\ Asks
    /\ cli.at = "batch"
    /\ cli.startIndex < cli.total
    /\ \/ Sent /\ Goto("waitBatch")
       \/ Refused /\ Goto("failed")

\* Wrong on purpose: the last element of a batch is not counted out.
NextBatchOverlong == cli.startIndex + BATCH_SIZE + 1

NextBatch == cli.startIndex + BATCH_SIZE

waitBatch ==
    /\ Asks
    /\ cli.at = "waitBatch"
    /\ Waited
    /\ cli' = [cli EXCEPT !.at = "batch", !.startIndex = NextBatch,
                          !.awaited = Await]
    /\ UNCHANGED txs

batchesDone ==
    /\ Asks
    /\ cli.at = "batch"
    /\ cli.startIndex >= cli.total
    /\ Goto("done")
    /\ UNCHANGED txs

\* A request to the node fails, a transaction perhaps after the node has it.
nodeFails ==
    /\ Asks
    /\ cli.at \notin Ended
    /\ cli.at = "batch" => cli.startIndex < cli.total
    /\ Goto(IF cli.at \in {"all", "waitAll"} THEN "list" ELSE "failed")
    /\ \/ UNCHANGED txs
       \/ cli.at \in {"single", "all", "batch"} /\ Sent

interrupt ==
    /\ Asks
    /\ cli.at \notin Ended
    /\ Goto("failed")
    /\ UNCHANGED txs

Command ==
    \/ sendSingle \/ waitSingle \/ sendAll \/ waitAll
    \/ getAllocationIds \/ sendBatch \/ waitBatch \/ batchesDone

Mine == mine \/ mineLoop \/ mineReturn \/ mineRevert

Execute ==
    \E p \in Providers \cup {0}, a \in AllocationIds \cup {0}, u \in UntilEpochs :
        execute(p, a, u)

\* Everybody else, between the transactions of the command.
Others(step) == step /\ ~Mining /\ UNCHANGED <<cli, txs>>

CLIInit == Init /\ cli = NotStarted /\ txs = <<>>

CLINext == Execute \/ Command \/ nodeFails \/ interrupt \/ Mine \/ Others(Next)

\* The command goes on when the node answers, and the network includes what
\* it accepted, although others keep sending transactions; a call that runs
\* comes to its end.  Failures and interrupts need not happen.
CLIFairness ==
    /\ SF_cliVars(Command)
    /\ SF_cliVars(mine)
    /\ WF_cliVars(mineLoop \/ mineReturn \/ mineRevert)
    /\ WF_cliVars(Others(CallStep))

CLISpec == CLIInit /\ [][CLINext]_cliVars /\ CLIFairness

----------------------------------------------------------------------------
(* What the command promises.                                              *)

TxRecord ==
    [run: 1 .. MaxRuns, allocationId: AllocationIds \cup {0},
     providerId: Providers \cup {0}, untilEpoch: Nat, startIndex: Nat,
     batchSize: {0, BATCH_SIZE},
     status: Statuses]

\* The command's variables have their types; at most one of its transactions
\* is in the running call, and none is mined before an earlier one.
CLITypeOK ==
    /\ cli \in [run: 0 .. MaxRuns,
               at: Ended \cup {"single", "waitSingle", "all", "waitAll",
                              "list", "batch", "waitBatch"},
               providerId: Providers \cup {0},
               allocationId: AllocationIds \cup {0}, untilEpoch: Nat,
               total: Nat, startIndex: Nat, awaited: SUBSET DOMAIN txs,
               due: SUBSET (RailIds \X Nat)]
    /\ txs \in Seq(TxRecord)
    /\ InNonceOrder

SettledTo(railId, until) ==
    LET rail == pay[s.paymentsContract].rails[railId]
    IN  rail.from = ZERO \/ rail.settledUpTo >= until

\* A command that ends without an error has settled, as far as it could be
\* when the command began, every rail it was asked to settle, provided that
\* the transactions it waited for succeeded: whether it took one transaction
\* or several, whatever was allocated, ended or settled by others meanwhile,
\* and whatever other transactions of its own are still under way.
SuccessMeansSettled ==
    cli.at = "done" /\ (\A i \in cli.awaited : txs[i].status = "succeeded")
        => \A d \in cli.due : SettledTo(d[1], d[2])

\* Positions of the provider's list a transaction settles, if it is of this
\* run and in a block.
Passed(i) ==
    IF txs[i].run = cli.run /\ txs[i].batchSize # 0 /\ Mined(i)
    THEN FirstPosition(txs[i].startIndex) ..
            LastPosition(txs[i].startIndex, txs[i].batchSize, cli.total)
    ELSE {}

\* Wherever the batches stop, at an error or an interrupt, each position up
\* to the one they reached has been in exactly one mined batch of this run.
BatchesPartition ==
    \A k \in 1 .. cli.startIndex :
        k <= cli.total => Cardinality({i \in DOMAIN txs : k \in Passed(i)}) = 1

\* A command that was started comes to an end, although the provider's list
\* may grow while it settles and others keep the chain busy.
CommandEnds == cli.at \notin Ended ~> cli.at \in Ended

\* "All allocations settled": the command says so only if the transactions it
\* waited for did not revert.  Its own message is that it falls back to the
\* batches when the one for all allocations does.
SuccessMeansSucceeded ==
    cli.at = "done" /\ cli.allocationId = 0
        => \A i \in cli.awaited : txs[i].status = "succeeded"
=============================================================================
