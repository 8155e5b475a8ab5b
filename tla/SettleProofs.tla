---------------------------- MODULE SettleProofs ----------------------------
(***************************************************************************)
(* The command `sp settle' and the diamond together.  The command's        *)
(* transactions are settlements with arguments of its own, so every step   *)
(* is of a kind that TransactionProofs knows, and the diamond's invariants *)
(* hold beside the command.  On top of them: the types of the command,     *)
(* that its batches cover the list once, and that a command that succeeds  *)
(* has settled what it was asked to.                                       *)
(***************************************************************************)
EXTENDS LifecycleProofs, SettleCLI

----------------------------------------------------------------------------
(* Nonces.                                                                 *)

\* The transactions of the key that are mined, or in the running call, are the
\* first ones, and NextNonce is the one after them.
LEMMA NonceOrder ==
    ASSUME txs \in Seq(TxRecord), InNonceOrder
    PROVE  /\ NextNonce \in Nat \ {0}
           /\ \A i \in DOMAIN txs : i < NextNonce <=> txs[i].status # "pending"
<1> DEFINE N == {i \in DOMAIN txs : txs[i].status # "pending"}
           T == {i \in Nat : i >= 1 /\ i \notin N}
<1>1. DOMAIN txs = 1 .. Len(txs) /\ Len(txs) \in Nat
  OBVIOUS
<1>2. PICK m \in T : \A i \in T : m <= i
  <2>1. Len(txs) + 1 \in T
    BY <1>1
  <2> QED BY <2>1, MinExists
<1>3. \A i \in 1 .. (m - 1) : i \in N
  BY <1>2
<1>4. ASSUME NEW j \in N, m < j
      PROVE  FALSE
  <2>1. m \in DOMAIN txs
    BY <1>1, <1>2, <1>4
  <2>2. Mined(m)
    BY <1>4, <2>1 DEF InNonceOrder
  <2> QED BY <1>2, <2>1, <2>2 DEF Mined
<1>5. N = 1 .. (m - 1)
  BY <1>1, <1>2, <1>3, <1>4
<1>6. Cardinality(N) = m - 1
  <2>1. 1 \in Int /\ m - 1 \in Int /\ m >= 1 /\ m \in Nat
    BY <1>2
  <2>2. Cardinality(1 .. (m - 1)) = IF 1 > m - 1 THEN 0 ELSE (m - 1) - 1 + 1
    BY <2>1, FS_Interval
  <2>3. Cardinality(1 .. (m - 1)) = m - 1
    BY <2>1, <2>2
  <2> QED BY <2>3, <1>5
<1>7. NextNonce = m
  BY <1>2, <1>6 DEF NextNonce
<1>8. ASSUME NEW i \in DOMAIN txs
      PROVE  i < m <=> txs[i].status # "pending"
  <2>1. i \in N <=> txs[i].status # "pending"
    OBVIOUS
  <2>2. i \in Nat /\ i >= 1
    BY <1>1
  <2> HIDE DEF N
  <2> QED BY <1>2, <1>5, <2>1, <2>2
<1>9. m \in Nat \ {0}
  BY <1>2
<1> HIDE DEF N, T
<1> QED BY <1>7, <1>8, <1>9

\* With no call running, all transactions before the next one are mined.
LEMMA NextPending ==
    ASSUME txs \in Seq(TxRecord), InNonceOrder,
           \A i \in DOMAIN txs : txs[i].status # "running",
           NEW n, n = NextNonce, n \in DOMAIN txs
    PROVE  /\ txs[n].status = "pending"
           /\ \A i \in DOMAIN txs : i < n => Mined(i)
           /\ \A i \in DOMAIN txs : i > n => txs[i].status = "pending"
<1>1. \A i \in DOMAIN txs : txs[i].status \in Statuses /\ i \in Nat
  <2>1. \A tx \in TxRecord : tx.status \in Statuses
    BY DEF TxRecord
  <2>2. \A i \in DOMAIN txs : txs[i] \in TxRecord /\ i \in Nat
    OBVIOUS
  <2> QED BY <2>1, <2>2
<1>2. n \in Nat /\ \A i \in DOMAIN txs : i < n <=> txs[i].status # "pending"
  BY NonceOrder
<1>3. ~(n < n)
  BY <1>2
<1>4. txs[n].status = "pending"
  BY <1>2, <1>3
<1>5. ASSUME NEW i \in DOMAIN txs, i < n
      PROVE  Mined(i)
  BY <1>1, <1>2, <1>5 DEF Mined, Statuses
<1>6. ASSUME NEW i \in DOMAIN txs, i > n
      PROVE  txs[i].status = "pending"
  BY <1>1, <1>2, <1>6
<1> QED BY <1>4, <1>5, <1>6

----------------------------------------------------------------------------
(* What the command has asked for.                                         *)

Sends == {"single", "all", "batch"}
Waits == {"waitSingle", "waitAll", "waitBatch"}

CLIRecord(sent) ==
    [run: 0 .. MaxRuns, at: Ended \cup Sends \cup Waits \cup {"list"},
     providerId: Providers \cup {0}, allocationId: AllocationIds \cup {0},
     untilEpoch: Nat, total: Nat, startIndex: Nat, awaited: SUBSET sent,
     due: SUBSET (RailIds \X Nat)]

\* The command is started for one allocation or for a provider, and settles in
\* batches from the first position on.
Asked(c) ==
    /\ c.at # "start" => c.run # 0
    /\ c.at \in {"single", "waitSingle"} => c.allocationId # 0
    /\ c.at \in {"all", "waitAll", "list", "batch", "waitBatch"} =>
          c.allocationId = 0 /\ c.providerId # 0
    /\ c.at \in {"single", "waitSingle", "all", "waitAll", "list"} =>
          c.startIndex = 0

\* What the transaction asks for is what the command asks for.
SameRequest(tx, c) ==
    /\ tx.allocationId = c.allocationId
    /\ tx.providerId = c.providerId
    /\ tx.untilEpoch = c.untilEpoch

\* The transactions of this run ask for what the command asks for; none is of a
\* later run.
Requested(c, list) ==
    \A i \in DOMAIN list :
        /\ list[i].run <= c.run
        /\ list[i].allocationId = 0 => list[i].providerId # 0
        /\ list[i].batchSize = 0 => list[i].startIndex = 0
        /\ list[i].run = c.run => SameRequest(list[i], c)

\* The transaction the command waits for is its last one.
Awaiting(c, list) ==
    c.at \in Waits =>
        /\ Len(list) \in DOMAIN list
        /\ list[Len(list)].run = c.run
        /\ list[Len(list)].startIndex = c.startIndex
        /\ list[Len(list)].batchSize = IF c.at = "waitBatch" THEN BATCH_SIZE ELSE 0

\* A transaction that runs is a settlement of a provider's list.
Runs == \A i \in DOMAIN txs : txs[i].status = "running" => call.fn = "settle"

CLIInv == CLITypeOK /\ Asked(cli) /\ Requested(cli, txs) /\ Awaiting(cli, txs) /\ Runs

\* The fields of the command.
LEMMA CommandFields ==
    ASSUME CLITypeOK
    PROVE  /\ cli \in CLIRecord(DOMAIN txs)
           /\ cli.run \in 0 .. MaxRuns
           /\ cli.at \in Ended \cup Sends \cup Waits \cup {"list"}
           /\ cli.providerId \in Providers \cup {0}
           /\ cli.allocationId \in AllocationIds \cup {0}
           /\ cli.untilEpoch \in Nat /\ cli.total \in Nat /\ cli.startIndex \in Nat
           /\ cli.awaited \in SUBSET DOMAIN txs
           /\ cli.due \in SUBSET (RailIds \X Nat)
           /\ txs \in Seq(TxRecord) /\ DOMAIN txs = 1 .. Len(txs) /\ Len(txs) \in Nat
           /\ InNonceOrder
<1>1. txs \in Seq(TxRecord) /\ InNonceOrder
  BY DEF CLITypeOK
<1>2. cli \in CLIRecord(DOMAIN txs)
  BY DEF CLITypeOK, CLIRecord, Sends, Waits
<1> QED BY <1>1, <1>2 DEF CLIRecord

\* A transaction's fields, and what makes the types of the command's variables.
LEMMA TxFields ==
    ASSUME NEW tx \in TxRecord
    PROVE  /\ tx.run \in 1 .. MaxRuns
           /\ tx.allocationId \in AllocationIds \cup {0}
           /\ tx.providerId \in Providers \cup {0}
           /\ tx.untilEpoch \in Nat /\ tx.startIndex \in Nat
           /\ tx.batchSize \in {0, BATCH_SIZE}
           /\ tx.status \in Statuses
BY DEF TxRecord

\* The transaction the command is about to send.
LEMMA NextTxType ==
    ASSUME CLITypeOK, Asked(cli), cli.at \in Sends
    PROVE  /\ NextTx \in TxRecord
           /\ NextTx.run = cli.run /\ NextTx.status = "pending"
           /\ SameRequest(NextTx, cli)
           /\ NextTx.allocationId = 0 => NextTx.providerId # 0
           /\ NextTx.startIndex = cli.startIndex
           /\ NextTx.batchSize = IF cli.at = "batch" THEN BATCH_SIZE ELSE 0
           /\ NextTx.batchSize = 0 => NextTx.startIndex = 0
<1>1. /\ cli.run \in 0 .. MaxRuns /\ cli.providerId \in Providers \cup {0}
      /\ cli.allocationId \in AllocationIds \cup {0}
      /\ cli.untilEpoch \in Nat /\ cli.startIndex \in Nat
  BY CommandFields
<1>2. /\ cli.run # 0
      /\ cli.allocationId = 0 => cli.providerId # 0
      /\ cli.at # "batch" => cli.startIndex = 0
  BY DEF Asked, Sends
<1>3. cli.run \in 1 .. MaxRuns
  BY <1>1, <1>2, MaxRunsAssumption
<1>4. NextTx \in TxRecord
  BY <1>1, <1>3 DEF NextTx, TxRecord, Statuses
<1> QED BY <1>2, <1>4, SettleAssumption DEF NextTx, SameRequest

\* What a step of the command does, other than its start: it moves on, and sends
\* the next transaction or none.
Moves ==
    /\ call = Idle /\ UNCHANGED vars
    /\ cli.at \notin Ended
    /\ cli'.run = cli.run /\ cli'.providerId = cli.providerId
    /\ cli'.allocationId = cli.allocationId
    /\ cli'.untilEpoch = cli.untilEpoch /\ cli'.due = cli.due
    /\ Asked(cli')
    /\ \/ txs' = txs /\ cli' \in CLIRecord(DOMAIN txs) /\ cli'.at \notin Waits
       \/ /\ cli.at \in Sends
          /\ txs' = Append(txs, NextTx)
          /\ cli' \in CLIRecord(DOMAIN txs)
          /\ cli'.startIndex = cli.startIndex
          /\ cli'.at \in Waits =>
                (cli.at = "batch" <=> cli'.at = "waitBatch")

LEMMA CommandMoves ==
    ASSUME IInv, CLITypeOK, Asked(cli), Awaiting(cli, txs),
           Command \/ nodeFails \/ interrupt
    PROVE  Moves
<1>0. /\ cli \in CLIRecord(DOMAIN txs) /\ cli.startIndex \in Nat
      /\ cli.awaited \in SUBSET DOMAIN txs
  BY CommandFields
<1>1. call = Idle /\ UNCHANGED vars
  BY DEF Command, nodeFails, interrupt, sendSingle, waitSingle, sendAll, waitAll,
         getAllocationIds, sendBatch, waitBatch, batchesDone, Asks, chainVars, vars
<1>2. cli.at \notin Ended
  BY DEF Command, nodeFails, interrupt, sendSingle, waitSingle, sendAll, waitAll,
         getAllocationIds, sendBatch, waitBatch, batchesDone, Ended
<1>3. ASSUME NEW step \in Ended \cup Sends \cup Waits \cup {"list"}, Goto(step)
      PROVE  /\ cli' \in CLIRecord(DOMAIN txs)
             /\ cli'.run = cli.run /\ cli'.providerId = cli.providerId
             /\ cli'.allocationId = cli.allocationId
             /\ cli'.untilEpoch = cli.untilEpoch /\ cli'.due = cli.due
             /\ cli'.startIndex = cli.startIndex /\ cli'.at = step
  BY <1>0, <1>3 DEF Goto, CLIRecord
<1>4. CASE sendSingle
  <2>1. CASE Sent /\ Goto("waitSingle")
    BY <1>1, <1>2, <1>3, <1>4, <2>1
       DEF Moves, sendSingle, Sent, Sends, Waits, Asked, Ended
  <2>2. CASE Refused /\ Goto("failed")
    BY <1>1, <1>2, <1>3, <1>4, <2>2
       DEF Moves, sendSingle, Refused, Sends, Waits, Asked, Ended
  <2> QED BY <1>4, <2>1, <2>2 DEF sendSingle
<1>5. CASE sendAll
  <2>1. CASE Sent /\ Goto("waitAll")
    BY <1>1, <1>2, <1>3, <1>5, <2>1
       DEF Moves, sendAll, Sent, Sends, Waits, Asked, Ended
  <2>2. CASE Refused /\ Goto("list")
    BY <1>1, <1>2, <1>3, <1>5, <2>2
       DEF Moves, sendAll, Refused, Sends, Waits, Asked, Ended
  <2> QED BY <1>5, <2>1, <2>2 DEF sendAll
<1>6. CASE sendBatch
  <2>1. CASE Sent /\ Goto("waitBatch")
    BY <1>1, <1>2, <1>3, <1>6, <2>1
       DEF Moves, sendBatch, Sent, Sends, Waits, Asked, Ended
  <2>2. CASE Refused /\ Goto("failed")
    BY <1>1, <1>2, <1>3, <1>6, <2>2
       DEF Moves, sendBatch, Refused, Sends, Waits, Asked, Ended
  <2> QED BY <1>6, <2>1, <2>2 DEF sendBatch
<1>7. CASE waitSingle \/ waitAll \/ waitBatch
  <2>1. Len(txs) \in DOMAIN txs /\ Await \in SUBSET DOMAIN txs
    BY <1>0, <1>7 DEF Awaiting, waitSingle, waitAll, waitBatch, Await, Waits
  <2>2. NextBatch \in Nat
    BY <1>0, SettleAssumption DEF NextBatch
  <2>3. txs' = txs
    BY <1>7 DEF waitSingle, waitAll, waitBatch
  <2>4. CASE waitBatch
    <3>1. cli' = [cli EXCEPT !.at = "batch", !.startIndex = NextBatch,
                             !.awaited = Await]
      BY <2>4 DEF waitBatch
    <3>2. cli' \in CLIRecord(DOMAIN txs)
      BY <1>0, <2>1, <2>2, <3>1 DEF CLIRecord, Sends
    <3> QED BY <1>0, <1>1, <1>2, <2>3, <2>4, <3>1, <3>2
            DEF Moves, waitBatch, Waits, Asked, CLIRecord
  <2>5. CASE waitSingle \/ waitAll
    <3>1. cli' = [cli EXCEPT !.at = "done", !.awaited = Await]
      BY <2>5 DEF waitSingle, waitAll
    <3>2. cli' \in CLIRecord(DOMAIN txs)
      BY <1>0, <2>1, <3>1 DEF CLIRecord, Ended
    <3> QED BY <1>0, <1>1, <1>2, <2>3, <2>5, <3>1, <3>2
            DEF Moves, waitSingle, waitAll, Waits, Asked, CLIRecord
  <2> QED BY <1>7, <2>4, <2>5
<1>8. CASE getAllocationIds
  <2>1. PICK total : total = Len(s.allocationIdsByProvider[cli.providerId])
    OBVIOUS
  <2>2. /\ cli' = [cli EXCEPT !.at = "batch", !.total = total]
        /\ txs' = txs /\ cli.at = "list"
    BY <1>8, <2>1 DEF getAllocationIds
  <2>3. total \in Nat
    <3>1. cli.providerId \in Providers
      BY <2>2, CommandFields DEF Asked
    <3> QED BY <2>1, <3>1, SoundParts DEF DDOState
  <2>4. cli' \in CLIRecord(DOMAIN txs)
    BY <1>0, <2>2, <2>3 DEF CLIRecord, Sends
  <2> QED BY <1>0, <1>1, <1>2, <2>2, <2>4 DEF Moves, Waits, Asked, CLIRecord
<1>9. CASE batchesDone
  BY <1>1, <1>2, <1>3, <1>9 DEF Moves, batchesDone, Waits, Asked, Ended
<1>10. CASE interrupt
  BY <1>1, <1>2, <1>3, <1>10 DEF Moves, interrupt, Waits, Asked, Ended
<1>11. CASE nodeFails
  <2>1. (Goto("list") /\ cli.at \in {"all", "waitAll"}) \/ Goto("failed")
    BY <1>11 DEF nodeFails
  <2>2. txs' = txs \/ (cli.at \in Sends /\ txs' = Append(txs, NextTx))
    BY <1>11 DEF nodeFails, Sent, Sends
  <2> QED BY <1>1, <1>2, <1>3, <2>1, <2>2 DEF Moves, Waits, Asked, Ended
<1> QED BY <1>4, <1>5, <1>6, <1>7, <1>8, <1>9, <1>10, <1>11 DEF Command

----------------------------------------------------------------------------
(* The command beside the diamond.                                         *)

\* The steps the diamond takes while the command runs are of the kinds that
\* keep its invariants.
LEMMA CLISteps ==
    ASSUME IInv, CLIInv, [CLINext]_cliVars
    PROVE  IInv' /\ Steps
<1>1. CASE UNCHANGED vars
  BY <1>1, IInvStep DEF Steps
<1>2. CASE [AnyNext]_vars
  BY <1>2, IInvStep, StepKinds
<1>3. CASE mine
  <2>1. PICK i, tx : i = NextNonce /\ tx = txs[i]
    OBVIOUS
  <2>2. i \in DOMAIN txs /\ call = Idle
    BY <1>3, <2>1 DEF mine
  <2>3. tx \in TxRecord /\ (tx.allocationId = 0 => tx.providerId # 0)
    BY <2>1, <2>2, CommandFields DEF CLIInv, Requested
  <2>4. /\ tx.allocationId \in AllocationIds \cup {0}
        /\ tx.providerId \in Providers \cup {0}
        /\ tx.untilEpoch \in Nat /\ tx.startIndex \in Nat /\ tx.batchSize \in Nat
    BY <2>3, TxFields, SettleAssumption
  <2>5. CASE tx.allocationId # 0 /\ settleSpPayment(tx.allocationId, tx.untilEpoch)
    <3>1. call' = Idle
      BY <2>5 DEF settleSpPayment
    <3>2. tx.allocationId \in AllocationIds
      BY <2>4, <2>5
    <3>3. Whole
      BY <2>2, <2>4, <2>5, <3>1, <3>2 DEF Whole
    <3> QED BY <2>4, <2>5, <3>2, <3>3, SettleOneStep DEF Steps
  <2>6. CASE UNCHANGED chainVars
    BY <1>1, <2>6 DEF chainVars, vars
  <2>7. CASE /\ tx.allocationId = 0
             /\ settleSpTotalPayment(tx.providerId, tx.untilEpoch,
                                     tx.startIndex, tx.batchSize)
    <3>1. tx.providerId \in Providers
      BY <2>3, <2>4, <2>7
    <3>2. /\ call' # Idle /\ call'.saved = Snapshot
          /\ UNCHANGED <<pay, epoch>>
      BY <2>7 DEF settleSpTotalPayment, Idle
    <3>3. Begins
      BY <2>2, <2>4, <2>7, <3>1, <3>2 DEF Begins
    <3> QED BY <2>4, <2>7, <3>1, <3>3, SettleStarts DEF Steps
  <2> QED BY <1>3, <2>1, <2>5, <2>6, <2>7 DEF mine
<1>4. CASE mineLoop \/ mineReturn \/ mineRevert
  BY <1>2, <1>4 DEF mineLoop, mineReturn, mineRevert, AnyNext, AnyAllocation
<1>5. CASE Command \/ nodeFails \/ interrupt
  BY <1>1, <1>5, CommandMoves DEF CLIInv, Moves
<1>6. CASE Execute
  BY <1>1, <1>6 DEF Execute, execute, Asks, chainVars, vars
<1>7. CASE Others(Next)
  BY <1>2, <1>7, NextIsAny, SoundParts DEF Others
<1>8. CASE UNCHANGED cliVars
  BY <1>1, <1>8 DEF cliVars, vars
<1> QED BY <1>3, <1>4, <1>5, <1>6, <1>7, <1>8 DEF CLINext, Mine

\* A receipt changes the status of its transaction and nothing else.
LEMMA ReceiptKeeps ==
    ASSUME txs \in Seq(TxRecord), NEW i \in DOMAIN txs, NEW status \in Statuses,
           Receipt(i, status)
    PROVE  /\ txs' \in Seq(TxRecord) /\ DOMAIN txs' = DOMAIN txs /\ Len(txs') = Len(txs)
           /\ txs'[i].status = status
           /\ \A j \in DOMAIN txs \ {i} : txs'[j] = txs[j]
           /\ \A j \in DOMAIN txs :
                 /\ txs'[j].run = txs[j].run
                 /\ txs'[j].allocationId = txs[j].allocationId
                 /\ txs'[j].providerId = txs[j].providerId
                 /\ txs'[j].untilEpoch = txs[j].untilEpoch
                 /\ txs'[j].startIndex = txs[j].startIndex
                 /\ txs'[j].batchSize = txs[j].batchSize
<1>1. txs' = [txs EXCEPT ![i] = [txs[i] EXCEPT !.status = status]]
  BY DEF Receipt
<1>2. txs[i] \in TxRecord
  OBVIOUS
<1>3. PICK tx : tx = [txs[i] EXCEPT !.status = status]
  OBVIOUS
<1>4. /\ tx \in TxRecord /\ tx.status = status
      /\ tx.run = txs[i].run /\ tx.allocationId = txs[i].allocationId
      /\ tx.providerId = txs[i].providerId /\ tx.untilEpoch = txs[i].untilEpoch
      /\ tx.startIndex = txs[i].startIndex /\ tx.batchSize = txs[i].batchSize
  BY <1>2, <1>3 DEF TxRecord
<1>5. txs' = [txs EXCEPT ![i] = tx]
  BY <1>1, <1>3
<1>6. /\ txs' \in Seq(TxRecord) /\ DOMAIN txs' = DOMAIN txs /\ Len(txs') = Len(txs)
      /\ txs'[i] = tx /\ \A j \in DOMAIN txs \ {i} : txs'[j] = txs[j]
  BY <1>4, <1>5
<1> QED BY <1>4, <1>6

\* One more transaction, at the end.
LEMMA SentKeeps ==
    ASSUME txs \in Seq(TxRecord), NEW tx \in TxRecord, txs' = Append(txs, tx)
    PROVE  /\ txs' \in Seq(TxRecord)
           /\ Len(txs') = Len(txs) + 1 /\ DOMAIN txs' = 1 .. Len(txs')
           /\ DOMAIN txs' = DOMAIN txs \cup {Len(txs')}
           /\ txs'[Len(txs')] = tx
           /\ \A i \in DOMAIN txs : txs'[i] = txs[i] /\ i < Len(txs')
<1>1. /\ Len(txs) \in Nat /\ DOMAIN txs = 1 .. Len(txs)
      /\ Len(Append(txs, tx)) = Len(txs) + 1
  OBVIOUS
<1> QED BY <1>1

\* The receipts the command's transactions get: of the first one that has none,
\* or of the one that runs.
Mines(i, status) ==
    /\ i \in DOMAIN txs
    /\ Receipt(i, status)
    /\ UNCHANGED cli
    /\ \A j \in DOMAIN txs : j < i => Mined(j)
    /\ \A j \in DOMAIN txs : j > i => txs[j].status = "pending"
    /\ ~Mined(i)
    /\ \/ /\ status = "succeeded" /\ call = Idle /\ call' = Idle
          /\ txs[i].allocationId # 0
          /\ settleSpPayment(txs[i].allocationId, txs[i].untilEpoch)
       \/ /\ status = "reverted" /\ UNCHANGED vars
       \/ /\ status = "running" /\ call = Idle /\ call'.fn = "settle"
          /\ txs[i].allocationId = 0
          /\ settleSpTotalPayment(txs[i].providerId, txs[i].untilEpoch,
                                  txs[i].startIndex, txs[i].batchSize)
       \/ /\ txs[i].status = "running"
          /\ status = "succeeded" /\ settleReturn
       \/ /\ txs[i].status = "running"
          /\ status = "reverted" /\ settleRevert

LEMMA MineKinds ==
    ASSUME CLIInv, Mine
    PROVE  mineLoop \/ \E i \in DOMAIN txs, status \in Statuses : Mines(i, status)
<1>0. txs \in Seq(TxRecord) /\ InNonceOrder
  BY CommandFields DEF CLIInv
<1>1. CASE mine
  <2>1. PICK i : i = NextNonce
    OBVIOUS
  <2>2. /\ call = Idle /\ i \in DOMAIN txs /\ UNCHANGED cli
        /\ \/ /\ txs[i].allocationId # 0
              /\ settleSpPayment(txs[i].allocationId, txs[i].untilEpoch)
              /\ Receipt(i, "succeeded")
           \/ Receipt(i, "reverted") /\ UNCHANGED chainVars
           \/ /\ txs[i].allocationId = 0
              /\ settleSpTotalPayment(txs[i].providerId, txs[i].untilEpoch,
                                      txs[i].startIndex, txs[i].batchSize)
              /\ Receipt(i, "running")
    BY <1>1, <2>1 DEF mine
  <2>3. \A j \in DOMAIN txs : txs[j].status # "running"
    BY <2>2 DEF CLIInv, Runs, Idle
  <2>4. /\ txs[i].status = "pending"
        /\ \A j \in DOMAIN txs : j < i => Mined(j)
        /\ \A j \in DOMAIN txs : j > i => txs[j].status = "pending"
    BY <1>0, <2>1, <2>2, <2>3, NextPending
  <2>5. ~Mined(i)
    BY <2>4 DEF Mined
  <2>6. CASE /\ txs[i].allocationId # 0
             /\ settleSpPayment(txs[i].allocationId, txs[i].untilEpoch)
             /\ Receipt(i, "succeeded")
    <3>1. call' = Idle
      BY <2>6 DEF settleSpPayment
    <3>2. Mines(i, "succeeded")
      BY <2>2, <2>4, <2>5, <2>6, <3>1 DEF Mines
    <3> QED BY <2>2, <3>2 DEF Statuses
  <2>7. CASE Receipt(i, "reverted") /\ UNCHANGED chainVars
    <3>1. UNCHANGED vars
      BY <2>7 DEF chainVars, vars
    <3>2. Mines(i, "reverted")
      BY <2>2, <2>4, <2>5, <2>7, <3>1 DEF Mines
    <3> QED BY <2>2, <3>2 DEF Statuses
  <2>8. CASE /\ txs[i].allocationId = 0
             /\ settleSpTotalPayment(txs[i].providerId, txs[i].untilEpoch,
                                     txs[i].startIndex, txs[i].batchSize)
             /\ Receipt(i, "running")
    <3>1. call'.fn = "settle"
      BY <2>8 DEF settleSpTotalPayment
    <3>2. Mines(i, "running")
      BY <2>2, <2>4, <2>5, <2>8, <3>1 DEF Mines
    <3> QED BY <2>2, <3>2 DEF Statuses
  <2> QED BY <2>2, <2>6, <2>7, <2>8
<1>2. ASSUME NEW i \in DOMAIN txs, txs[i].status = "running"
      PROVE  /\ \A j \in DOMAIN txs : j < i => Mined(j)
             /\ \A j \in DOMAIN txs : j > i => txs[j].status = "pending"
             /\ ~Mined(i)
  <2>1. ~Mined(i)
    BY <1>2 DEF Mined
  <2> QED BY <1>0, <1>2, <2>1 DEF InNonceOrder
<1>3. CASE mineReturn
  <2>1. PICK i \in DOMAIN txs : /\ txs[i].status = "running" /\ settleReturn
                                /\ Receipt(i, "succeeded") /\ UNCHANGED cli
    BY <1>3 DEF mineReturn
  <2>2. Mines(i, "succeeded")
    BY <1>2, <2>1 DEF Mines
  <2> QED BY <2>1, <2>2 DEF Statuses
<1>4. CASE mineRevert
  <2>1. PICK i \in DOMAIN txs : /\ txs[i].status = "running" /\ settleRevert
                                /\ Receipt(i, "reverted") /\ UNCHANGED cli
    BY <1>4 DEF mineRevert
  <2>2. Mines(i, "reverted")
    BY <1>2, <2>1 DEF Mines
  <2> QED BY <2>1, <2>2 DEF Statuses
<1> QED BY <1>1, <1>3, <1>4 DEF Mine

\* A receipt keeps what is known of the command.
LEMMA CLIInvMines ==
    ASSUME CLIInv, NEW i \in DOMAIN txs, NEW status \in Statuses, Mines(i, status)
    PROVE  CLIInv'
<1>0. /\ txs \in Seq(TxRecord) /\ InNonceOrder /\ DOMAIN txs = 1 .. Len(txs)
      /\ cli \in CLIRecord(DOMAIN txs) /\ Len(txs) \in Nat
  BY CommandFields DEF CLIInv
<1>1. /\ txs' \in Seq(TxRecord) /\ DOMAIN txs' = DOMAIN txs /\ Len(txs') = Len(txs)
      /\ txs'[i].status = status
      /\ \A j \in DOMAIN txs \ {i} : txs'[j] = txs[j]
      /\ \A j \in DOMAIN txs :
            /\ txs'[j].run = txs[j].run
            /\ txs'[j].allocationId = txs[j].allocationId
            /\ txs'[j].providerId = txs[j].providerId
            /\ txs'[j].untilEpoch = txs[j].untilEpoch
            /\ txs'[j].startIndex = txs[j].startIndex
            /\ txs'[j].batchSize = txs[j].batchSize
  BY <1>0, ReceiptKeeps DEF Mines
<1>2. cli' = cli
  BY DEF Mines
<1>3. /\ \A j \in DOMAIN txs : j < i => Mined(j)
      /\ \A j \in DOMAIN txs : j > i => txs[j].status = "pending"
  BY DEF Mines
<1>4. InNonceOrder'
  <2> SUFFICES ASSUME NEW j \in DOMAIN txs, NEW k \in DOMAIN txs, j < k,
                      txs'[k].status # "pending"
               PROVE  txs'[j].status \in {"succeeded", "reverted"}
    BY <1>1 DEF InNonceOrder, Mined
  <2>1. k = i \/ k < i
    BY <1>0, <1>1, <1>3
  <2>2. j < i
    BY <1>0, <2>1
  <2>3. Mined(j) /\ j # i
    BY <1>0, <1>3, <2>2
  <2> QED BY <1>1, <2>3 DEF Mined
<1>5. CLITypeOK'
  <2>1. cli' \in CLIRecord(DOMAIN txs')
    BY <1>0, <1>1, <1>2
  <2> QED BY <1>1, <1>4, <2>1 DEF CLITypeOK, CLIRecord, Sends, Waits
<1>6. Requested(cli', txs')
  BY <1>1, <1>2 DEF CLIInv, Requested, SameRequest
<1>7. Awaiting(cli', txs')
  BY <1>1, <1>2 DEF CLIInv, Awaiting
<1>8. Runs'
  <2> SUFFICES ASSUME NEW j \in DOMAIN txs, txs'[j].status = "running"
               PROVE  call'.fn = "settle"
    BY <1>1 DEF Runs
  <2>1. CASE j # i
    <3>1. txs[j].status = "running" /\ ~Mined(j)
      BY <1>1, <2>1 DEF Mined
    <3> QED BY <1>0, <1>3, <2>1, <3>1
  <2>2. CASE j = i
    BY <1>1, <2>2 DEF Mines
  <2> QED BY <2>1, <2>2
<1> QED BY <1>2, <1>5, <1>6, <1>7, <1>8 DEF CLIInv

\* So does a step of the command.
LEMMA CLIInvMoves ==
    ASSUME CLIInv, Moves
    PROVE  CLIInv'
<1>0. /\ txs \in Seq(TxRecord) /\ InNonceOrder /\ DOMAIN txs = 1 .. Len(txs)
      /\ cli \in CLIRecord(DOMAIN txs) /\ Len(txs) \in Nat
      /\ cli.run \in 0 .. MaxRuns
  BY CommandFields DEF CLIInv
<1>1. Asked(cli') /\ cli'.run = cli.run
  BY DEF Moves
<1>2. call.fn # "settle" /\ call' = call
  BY DEF Moves, Idle, vars
<1>3. CASE txs' = txs /\ cli' \in CLIRecord(DOMAIN txs) /\ cli'.at \notin Waits
  <2>1. CLITypeOK'
    BY <1>0, <1>3 DEF CLITypeOK, CLIRecord, InNonceOrder, Mined, Sends, Waits
  <2>2. Requested(cli', txs')
    BY <1>3 DEF CLIInv, Requested, SameRequest, Moves
  <2>3. Awaiting(cli', txs')
    BY <1>3 DEF Awaiting
  <2>4. Runs'
    BY <1>2, <1>3 DEF CLIInv, Runs
  <2> QED BY <1>1, <2>1, <2>2, <2>3, <2>4 DEF CLIInv
<1>4. CASE /\ cli.at \in Sends /\ txs' = Append(txs, NextTx)
           /\ cli' \in CLIRecord(DOMAIN txs)
           /\ cli'.startIndex = cli.startIndex
           /\ cli'.at \in Waits => (cli.at = "batch" <=> cli'.at = "waitBatch")
  <2>1. PICK tx : tx = NextTx
    OBVIOUS
  <2>2. /\ tx \in TxRecord /\ tx.run = cli.run /\ tx.status = "pending"
        /\ SameRequest(tx, cli)
        /\ tx.allocationId = 0 => tx.providerId # 0
        /\ tx.startIndex = cli.startIndex
        /\ tx.batchSize = IF cli.at = "batch" THEN BATCH_SIZE ELSE 0
        /\ tx.batchSize = 0 => tx.startIndex = 0
    BY <1>4, <2>1, NextTxType DEF CLIInv
  <2>3. /\ txs' \in Seq(TxRecord) /\ Len(txs') = Len(txs) + 1
        /\ DOMAIN txs' = 1 .. Len(txs')
        /\ DOMAIN txs' = DOMAIN txs \cup {Len(txs')}
        /\ txs'[Len(txs')] = tx
        /\ \A i \in DOMAIN txs : txs'[i] = txs[i] /\ i < Len(txs')
    BY <1>0, <1>4, <2>1, <2>2, SentKeeps
  <2>4. InNonceOrder'
    <3> SUFFICES ASSUME NEW j \in DOMAIN txs', NEW k \in DOMAIN txs', j < k,
                        txs'[k].status # "pending"
                 PROVE  txs'[j].status \in {"succeeded", "reverted"}
      BY DEF InNonceOrder, Mined
    <3>1. k \in DOMAIN txs
      BY <2>2, <2>3
    <3>2. j \in DOMAIN txs
      BY <1>0, <2>3, <3>1
    <3> QED BY <1>0, <2>3, <3>1, <3>2 DEF InNonceOrder, Mined
  <2>5. CLITypeOK'
    <3>1. cli' \in CLIRecord(DOMAIN txs')
      BY <1>4, <2>3 DEF CLIRecord
    <3> QED BY <2>3, <2>4, <3>1 DEF CLITypeOK, CLIRecord, Sends, Waits
  <2>6. Requested(cli', txs')
    <3> SUFFICES ASSUME NEW j \in DOMAIN txs'
                 PROVE  /\ txs'[j].run <= cli'.run
                        /\ txs'[j].allocationId = 0 => txs'[j].providerId # 0
                        /\ txs'[j].batchSize = 0 => txs'[j].startIndex = 0
                        /\ txs'[j].run = cli'.run => SameRequest(txs'[j], cli')
      BY DEF Requested
    <3>1. CASE j \in DOMAIN txs
      BY <1>1, <2>3, <3>1 DEF CLIInv, Requested, SameRequest, Moves
    <3>2. CASE j = Len(txs')
      BY <1>0, <1>1, <2>2, <2>3, <3>2 DEF SameRequest, Moves
    <3> QED BY <2>3, <3>1, <3>2
  <2>7. Awaiting(cli', txs')
    BY <1>1, <1>4, <2>2, <2>3 DEF Awaiting
  <2>8. Runs'
    <3> SUFFICES ASSUME NEW j \in DOMAIN txs'
                 PROVE  txs'[j].status # "running"
      BY DEF Runs
    <3>1. CASE j \in DOMAIN txs
      BY <1>2, <2>3, <3>1 DEF CLIInv, Runs
    <3>2. CASE j = Len(txs')
      BY <2>2, <2>3, <3>2
    <3> QED BY <2>3, <3>1, <3>2
  <2> QED BY <1>1, <2>5, <2>6, <2>7, <2>8 DEF CLIInv
<1> QED BY <1>3, <1>4 DEF Moves

\* What is due when the command starts is a set of rails and epochs.
LEMMA DueTyped ==
    ASSUME IInv, InfoInv, NEW ids \in SUBSET AllocationIds, NEW until \in Nat
    PROVE  Due(ids, until) \in SUBSET (RailIds \X Nat)
<1> DEFINE c == s.paymentsContract
           paid == {b \in ids : /\ s.allocationInfos[b].activated
                                /\ RailExists(pay[c], s.allocationInfos[b].railId)}
<1>1. ASSUME NEW a \in paid
      PROVE  <<s.allocationInfos[a].railId,
               SettleTo(pay[c], s.allocationInfos[a].railId, until, epoch)>>
                 \in RailIds \X Nat
  <2>1. PICK r : r = s.allocationInfos[a].railId
    OBVIOUS
  <2>2. /\ r \in RailIds /\ pay[c].rails[r].from # ZERO
        /\ s.allocationInfos[a].activated /\ a \in AllocationIds
    BY <1>1, <2>1 DEF RailExists
  <2>3. c # ZERO
    BY <2>2 DEF InfoInv, InfosSound
  <2>4. PaySound(pay[c], epoch) /\ epoch \in Nat
    BY <2>3, SoundParts DEF DDOState
  <2>5. PICK p : p = pay[c]
    OBVIOUS
  <2>6. Key(p, r) \in Clients \X Tokens
    BY <2>2, <2>4, <2>5, LiveRails DEF RailExists
  <2>7. /\ SettledAccount(p.accounts[Key(p, r)], epoch).lockupLastSettledAt \in Nat
        /\ p.rails[r].endEpoch \in Nat
    BY <2>2, <2>4, <2>5, <2>6, SoundNumbers
  <2>8. SettleTo(p, r, until, epoch) \in Nat
    BY <2>7 DEF SettleTo, Min2
  <2> QED BY <2>1, <2>2, <2>5, <2>8
<1> HIDE DEF paid
<1>2. Due(ids, until) =
          {<<s.allocationInfos[a].railId,
             SettleTo(pay[c], s.allocationInfos[a].railId, until, epoch)>> : a \in paid}
  BY DEF Due, paid
<1> QED BY <1>1, <1>2

\* The start of the command.
LEMMA Starts ==
    ASSUME IInv, InfoInv, CLIInv, Execute
    PROVE  CLIInv'
<1>1. PICK p \in Providers \cup {0}, a \in AllocationIds \cup {0}, u \in UntilEpochs :
          execute(p, a, u)
  BY DEF Execute
<1>2. PICK until, target, ids :
          /\ until = IF u = 0 THEN epoch ELSE u
          /\ target = IF a # 0 THEN s.allocationInfos[a].provider ELSE p
          /\ ids = IF a # 0 THEN {a} ELSE Listed(p)
  OBVIOUS
<1>3. /\ call = Idle /\ UNCHANGED chainVars /\ txs' = txs
      /\ cli.run < MaxRuns /\ (p # 0 \/ a # 0)
      /\ target # 0
      /\ cli' = [NotStarted EXCEPT
                    !.run = cli.run + 1, !.at = IF a # 0 THEN "single" ELSE "all",
                    !.providerId = p, !.allocationId = a,
                    !.untilEpoch = until, !.due = Due(ids, until)]
  BY <1>1, <1>2 DEF execute, Asks
<1>4. /\ txs \in Seq(TxRecord) /\ InNonceOrder /\ cli.run \in 0 .. MaxRuns
      /\ Requested(cli, txs)
  BY CommandFields DEF CLIInv
<1>5. until \in Nat
  BY <1>2, SoundParts, SettleAssumption
<1>6. ids \in SUBSET AllocationIds
  <2>1. CASE a # 0
    BY <1>2, <2>1
  <2>2. CASE a = 0
    <3>1. p \in Providers
      BY <1>2, <1>3, <2>2
    <3>2. s.allocationIdsByProvider[p] \in Seq(AllocationIds)
      BY <3>1, SoundParts DEF DDOState
    <3> QED BY <1>2, <2>2, <3>2 DEF Listed
  <2> QED BY <2>1, <2>2
<1>7. PICK due : due = Due(ids, until)
  OBVIOUS
<1>8. due \in SUBSET (RailIds \X Nat)
  BY <1>5, <1>6, <1>7, DueTyped
<1>9. cli' = [run |-> cli.run + 1, at |-> IF a # 0 THEN "single" ELSE "all",
              providerId |-> p, allocationId |-> a, untilEpoch |-> until,
              total |-> 0, startIndex |-> 0, awaited |-> {}, due |-> due]
  BY <1>3, <1>7 DEF NotStarted
<1>10. cli.run + 1 \in 1 .. MaxRuns
  BY <1>3, <1>4, MaxRunsAssumption
<1>11. CLITypeOK'
  <2>1. cli' \in CLIRecord(DOMAIN txs)
    BY <1>5, <1>8, <1>9, <1>10 DEF CLIRecord, Sends
  <2> QED BY <1>3, <1>4, <2>1
          DEF CLITypeOK, CLIRecord, InNonceOrder, Mined, Sends, Waits
<1>12. Asked(cli')
  <2>1. a = 0 => p # 0
    BY <1>2, <1>3
  <2> QED BY <1>9, <1>10, <2>1 DEF Asked
<1>13. Requested(cli', txs')
  <2>1. \A i \in DOMAIN txs : txs[i] \in TxRecord
    BY <1>4
  <2>2. \A i \in DOMAIN txs : txs[i].run \in 1 .. MaxRuns
    BY <2>1, TxFields
  <2> QED BY <1>3, <1>4, <1>9, <2>2, MaxRunsAssumption DEF Requested
<1>14. Awaiting(cli', txs')
  BY <1>9 DEF Awaiting, Waits
<1>15. Runs'
  BY <1>3 DEF CLIInv, Runs, chainVars
<1> QED BY <1>11, <1>12, <1>13, <1>14, <1>15 DEF CLIInv

\* Every step keeps what is known of the command.
LEMMA CLIInvStep ==
    ASSUME IInv, InfoInv, CLIInv, [CLINext]_cliVars
    PROVE  CLIInv'
<1>1. CASE UNCHANGED <<cli, txs>> /\ (~Mining \/ call'.fn = call.fn)
  BY <1>1 DEF CLIInv, CLITypeOK, Runs, Mining, InNonceOrder, Mined
<1>2. CASE mineLoop
  <2>1. call' = [call EXCEPT !.i = @ + 1] /\ UNCHANGED <<cli, txs>>
    BY <1>2 DEF mineLoop, settleNext, settleSkip, Continue
  <2>2. call.fn = "settle"
    BY <1>2 DEF mineLoop, settleNext, settleSkip, settling
  <2>3. call'.fn = call.fn
    BY <2>1, <2>2, SettleFrameType DEF SettleFrame
  <2> QED BY <1>1, <2>1, <2>3
<1>3. CASE Mine /\ ~mineLoop
  <2>1. PICK i \in DOMAIN txs, status \in Statuses : Mines(i, status)
    BY <1>3, MineKinds
  <2> QED BY <2>1, CLIInvMines
<1>4. CASE Command \/ nodeFails \/ interrupt
  BY <1>4, CommandMoves, CLIInvMoves DEF CLIInv
<1>5. CASE Execute
  BY <1>5, Starts
<1>6. CASE Others(Next)
  BY <1>1, <1>6 DEF Others
<1>7. CASE UNCHANGED cliVars
  BY <1>1, <1>7 DEF cliVars
<1> QED BY <1>2, <1>3, <1>4, <1>5, <1>6, <1>7 DEF CLINext

\* Nothing is sent when the command has not been started.
LEMMA CLIInvInit ==
    ASSUME CLIInit
    PROVE  CLIInv
<1>1. /\ cli = [run |-> 0, at |-> "start", providerId |-> 0, allocationId |-> 0,
                untilEpoch |-> 0, total |-> 0, startIndex |-> 0, awaited |-> {},
                due |-> {}]
      /\ txs = <<>>
  BY DEF CLIInit, NotStarted
<1>2. txs \in Seq(TxRecord) /\ DOMAIN txs = {} /\ InNonceOrder
  BY <1>1 DEF InNonceOrder
<1>3. CLITypeOK
  BY <1>1, <1>2, MaxRunsAssumption DEF CLITypeOK, Ended
<1> QED BY <1>1, <1>2, <1>3 DEF CLIInv, Asked, Requested, Awaiting, Runs, Waits

----------------------------------------------------------------------------
(* The diamond and the command.                                            *)

\* What holds of the diamond and of the command while both go on.
BothInv ==
    /\ IInv /\ TransactionInv /\ CreateInv /\ OnlyCreationMakes /\ InfoInv
    /\ SettleInv /\ CLIInv

LEMMA BothInvStep ==
    ASSUME BothInv, [CLINext]_cliVars
    PROVE  BothInv'
<1>1. IInv' /\ Steps
  BY CLISteps DEF BothInv
<1>2. CLIInv'
  BY CLIInvStep DEF BothInv
<1>3. TransactionInv'
  BY <1>1, TransactionInvStep DEF BothInv
<1>4. CreateInv' /\ OnlyCreationMakes'
  BY <1>1, CreateInvStep DEF BothInv
<1>5. InfoInv'
  BY <1>1, InfoInvStep DEF BothInv
<1>6. SettleInv'
  BY <1>1, SettleInvStep DEF BothInv
<1> QED BY <1>1, <1>2, <1>3, <1>4, <1>5, <1>6 DEF BothInv

LEMMA BothInvInit ==
    ASSUME CLIInit
    PROVE  BothInv
<1>1. IInv
  BY InitSound DEF CLIInit
<1>2. TransactionInv /\ CreateInv /\ OnlyCreationMakes /\ SettleInv
  BY DEF CLIInit, Init, TransactionInv, CreateInv, OnlyCreationMakes, SettleInv, Idle
<1>3. InfoInv
  BY DEF CLIInit, Init, Initialized, InfoInv, InfosSound, committed, Snapshot,
         NoAllocation
<1> QED BY <1>1, <1>2, <1>3, CLIInvInit DEF BothInv

\* The diamond's invariants hold beside the command, whose settlements have
\* arguments of their own.
THEOREM BothInvariance == CLISpec => []BothInv
<1>1. CLIInit => BothInv
  BY BothInvInit
<1>2. BothInv /\ [CLINext]_cliVars => BothInv'
  BY BothInvStep
<1> QED BY <1>1, <1>2, PTL DEF CLISpec

\* The command's variables keep their types, whatever it is asked to settle and
\* whatever the others do: at most one of its transactions runs, and none is
\* mined before an earlier one.
THEOREM CommandTypeCorrect == CLISpec => []CLITypeOK
<1>1. BothInv => CLITypeOK
  BY DEF BothInv, CLIInv
<1> QED BY <1>1, BothInvariance, PTL

----------------------------------------------------------------------------
(* The batches.                                                            *)

\* A batch of a run; the positions it covers; a batch that is in a block.
OfRun(tx, run) == tx.run = run /\ tx.batchSize # 0
Covers(tx) == tx.startIndex + 1 .. tx.startIndex + BATCH_SIZE
InBlock(tx) == tx.status \in {"succeeded", "reverted"}

\* The batches of this run lie behind each other up to the position reached,
\* but for the one sent last.
Behind(c, list) ==
    \A i \in DOMAIN list : OfRun(list[i], c.run) =>
        \/ list[i].startIndex + BATCH_SIZE <= c.startIndex
        \/ /\ list[i].startIndex = c.startIndex
           /\ i = Len(list) /\ c.at \in {"waitBatch", "failed"}

\* Position k is in one batch of the run that is mined, and in no other batch.
Covered(k, run, list) ==
    \E i \in DOMAIN list :
        /\ OfRun(list[i], run) /\ InBlock(list[i]) /\ k \in Covers(list[i])
        /\ \A j \in DOMAIN list : OfRun(list[j], run) /\ k \in Covers(list[j]) => j = i

BatchInv ==
    Behind(cli, txs) /\ \A k \in 1 .. cli.startIndex : Covered(k, cli.run, txs)

\* Batches that keep what they ask for, and their receipts, keep covering.
LEMMA CoveredKept ==
    ASSUME NEW run, NEW k, NEW list, NEW list2,
           DOMAIN list2 = DOMAIN list,
           \A i \in DOMAIN list : /\ list2[i].run = list[i].run
                                  /\ list2[i].startIndex = list[i].startIndex
                                  /\ list2[i].batchSize = list[i].batchSize
                                  /\ InBlock(list[i]) => InBlock(list2[i]),
           Covered(k, run, list)
    PROVE  Covered(k, run, list2)
<1>1. PICK i \in DOMAIN list :
          /\ OfRun(list[i], run) /\ InBlock(list[i]) /\ k \in Covers(list[i])
          /\ \A j \in DOMAIN list : OfRun(list[j], run) /\ k \in Covers(list[j]) => j = i
  BY DEF Covered
<1>2. \A j \in DOMAIN list : /\ OfRun(list2[j], run) <=> OfRun(list[j], run)
                             /\ Covers(list2[j]) = Covers(list[j])
  BY DEF OfRun, Covers
<1> QED BY <1>1, <1>2 DEF Covered

\* A receipt keeps the batches.
LEMMA BatchMines ==
    ASSUME CLIInv, BatchInv, NEW i \in DOMAIN txs, NEW status \in Statuses,
           Mines(i, status)
    PROVE  BatchInv'
<1>1. /\ DOMAIN txs' = DOMAIN txs /\ Len(txs') = Len(txs)
      /\ \A j \in DOMAIN txs \ {i} : txs'[j] = txs[j]
      /\ \A j \in DOMAIN txs : /\ txs'[j].run = txs[j].run
                               /\ txs'[j].startIndex = txs[j].startIndex
                               /\ txs'[j].batchSize = txs[j].batchSize
  BY CommandFields, ReceiptKeeps DEF Mines, CLIInv
<1>2. \A j \in DOMAIN txs : InBlock(txs[j]) => InBlock(txs'[j])
  BY <1>1 DEF Mines, Mined, InBlock
<1>3. cli' = cli
  BY DEF Mines
<1>4. Behind(cli', txs')
  BY <1>1, <1>3 DEF BatchInv, Behind, OfRun
<1>5. \A k \in 1 .. cli.startIndex : Covered(k, cli.run, txs')
  BY <1>1, <1>2, CoveredKept DEF BatchInv
<1> QED BY <1>3, <1>4, <1>5 DEF BatchInv

\* The wait for a batch: it is mined, and the positions it covers are reached.
LEMMA BatchWait ==
    ASSUME CLIInv, BatchInv, waitBatch
    PROVE  BatchInv'
<1>0. /\ txs \in Seq(TxRecord) /\ cli \in CLIRecord(DOMAIN txs)
      /\ cli.startIndex \in Nat /\ Len(txs) \in Nat /\ DOMAIN txs = 1 .. Len(txs)
      /\ BATCH_SIZE \in Nat \ {0}
  BY CommandFields, SettleAssumption DEF CLIInv
<1>1. /\ txs' = txs /\ cli.at = "waitBatch"
      /\ cli'.run = cli.run /\ cli'.startIndex = cli.startIndex + BATCH_SIZE
      /\ InBlock(txs[Len(txs)])
  <2>1. cli' = [cli EXCEPT !.at = "batch", !.startIndex = NextBatch, !.awaited = Await]
    BY DEF waitBatch
  <2> QED BY <1>0, <2>1 DEF waitBatch, CLIRecord, NextBatch, Waited, Mined, InBlock
<1>2. PICK n : n = Len(txs)
  OBVIOUS
<1>3. /\ n \in DOMAIN txs /\ OfRun(txs[n], cli.run)
      /\ txs[n].startIndex = cli.startIndex
  BY <1>0, <1>1, <1>2 DEF CLIInv, Awaiting, Waits, OfRun
<1>4. \A j \in DOMAIN txs : OfRun(txs[j], cli.run) =>
          j = n \/ txs[j].startIndex + BATCH_SIZE <= cli.startIndex
  BY <1>2 DEF BatchInv, Behind
<1>5. Behind(cli', txs')
  <2> SUFFICES ASSUME NEW j \in DOMAIN txs, OfRun(txs[j], cli.run)
               PROVE  txs[j].startIndex + BATCH_SIZE <= cli.startIndex + BATCH_SIZE
    BY <1>1 DEF Behind
  <2>1. txs[j].startIndex \in Nat
    BY <1>0, TxFields
  <2> QED BY <1>0, <1>3, <1>4, <2>1
<1>6. ASSUME NEW k \in 1 .. cli.startIndex + BATCH_SIZE
      PROVE  Covered(k, cli.run, txs)
  <2>1. CASE k \in 1 .. cli.startIndex
    BY <2>1 DEF BatchInv
  <2>2. CASE k > cli.startIndex
    <3>1. k \in Covers(txs[n])
      BY <1>0, <1>3, <1>6, <2>2 DEF Covers
    <3>2. ASSUME NEW j \in DOMAIN txs, OfRun(txs[j], cli.run), k \in Covers(txs[j])
          PROVE  j = n
      <4>1. txs[j].startIndex \in Nat
        BY <1>0, TxFields
      <4> QED BY <1>0, <1>4, <1>6, <2>2, <3>2, <4>1 DEF Covers
    <3> QED BY <1>1, <1>2, <1>3, <3>1, <3>2 DEF Covered
  <2> QED BY <1>0, <1>6, <2>1, <2>2
<1> QED BY <1>1, <1>5, <1>6 DEF BatchInv

\* The batch that is sent is behind all others.
LEMMA BatchSent ==
    ASSUME CLIInv, BatchInv, cli.at \in Sends, txs' = Append(txs, NextTx),
           cli'.run = cli.run, cli'.startIndex = cli.startIndex,
           cli.at = "batch" => cli'.at \in {"waitBatch", "failed"}
    PROVE  BatchInv'
<1>0. /\ txs \in Seq(TxRecord) /\ cli.startIndex \in Nat
      /\ BATCH_SIZE \in Nat \ {0} /\ Len(txs) \in Nat
  BY CommandFields, SettleAssumption DEF CLIInv
<1>1. PICK tx : tx = NextTx
  OBVIOUS
<1>2. /\ tx \in TxRecord /\ tx.run = cli.run /\ tx.startIndex = cli.startIndex
      /\ tx.batchSize = IF cli.at = "batch" THEN BATCH_SIZE ELSE 0
  BY <1>1, NextTxType DEF CLIInv
<1>3. /\ Len(txs') = Len(txs) + 1
      /\ DOMAIN txs' = DOMAIN txs \cup {Len(txs')}
      /\ txs'[Len(txs')] = tx
      /\ \A i \in DOMAIN txs : txs'[i] = txs[i] /\ i < Len(txs')
  BY <1>0, <1>1, <1>2, SentKeeps
<1>4. \A i \in DOMAIN txs : OfRun(txs[i], cli.run) =>
          txs[i].startIndex + BATCH_SIZE <= cli.startIndex
  BY DEF BatchInv, Behind, Sends
<1>5. Behind(cli', txs')
  <2> SUFFICES ASSUME NEW i \in DOMAIN txs', OfRun(txs'[i], cli.run)
               PROVE  \/ txs'[i].startIndex + BATCH_SIZE <= cli.startIndex
                      \/ /\ txs'[i].startIndex = cli.startIndex
                         /\ i = Len(txs') /\ cli'.at \in {"waitBatch", "failed"}
    BY DEF Behind
  <2>1. CASE i \in DOMAIN txs
    BY <1>3, <1>4, <2>1
  <2>2. CASE i = Len(txs')
    BY <1>2, <1>3, <2>2 DEF OfRun
  <2> QED BY <1>3, <2>1, <2>2
<1>6. ASSUME NEW k \in 1 .. cli.startIndex
      PROVE  Covered(k, cli.run, txs')
  <2>1. PICK i \in DOMAIN txs :
            /\ OfRun(txs[i], cli.run) /\ InBlock(txs[i]) /\ k \in Covers(txs[i])
            /\ \A j \in DOMAIN txs :
                  OfRun(txs[j], cli.run) /\ k \in Covers(txs[j]) => j = i
    BY DEF BatchInv, Covered
  <2>2. k \notin Covers(tx)
    BY <1>0, <1>2 DEF Covers
  <2> QED BY <1>3, <2>1, <2>2 DEF Covered
<1> QED BY <1>5, <1>6 DEF BatchInv

\* Every step of the command keeps its batches.
LEMMA BatchMoves ==
    ASSUME IInv, CLIInv, BatchInv, Command \/ nodeFails \/ interrupt
    PROVE  BatchInv'
<1>0. cli \in CLIRecord(DOMAIN txs)
  BY CommandFields DEF CLIInv
<1>1. CASE waitBatch
  BY <1>1, BatchWait
<1>2. CASE ~waitBatch
  <2>1. /\ cli'.run = cli.run /\ cli'.startIndex = cli.startIndex
        /\ cli.at = "batch" => cli'.at \in {"waitBatch", "failed"} \/ txs' = txs
        /\ cli.at \in {"waitBatch", "failed"} => cli'.at = "failed"
        /\ txs' = txs \/ (cli.at \in Sends /\ txs' = Append(txs, NextTx))
    BY <1>0, <1>2
       DEF Command, nodeFails, interrupt, sendSingle, waitSingle, sendAll, waitAll,
           getAllocationIds, sendBatch, batchesDone, Sent, Refused, Goto, Sends,
           Ended, CLIRecord
  <2>2. CASE txs' = txs
    BY <2>1, <2>2 DEF BatchInv, Behind
  <2>3. CASE cli.at \in Sends /\ txs' = Append(txs, NextTx)
    <3>1. txs' # txs
      <4>1. txs \in Seq(TxRecord) /\ Len(txs) \in Nat
        BY CommandFields DEF CLIInv
      <4>2. NextTx \in TxRecord
        BY <2>3, NextTxType DEF CLIInv
      <4>3. Len(txs') = Len(txs) + 1
        BY <2>3, <4>1, <4>2, SentKeeps
      <4> QED BY <4>1, <4>3
    <3> QED BY <2>1, <2>3, <3>1, BatchSent
  <2> QED BY <2>1, <2>2, <2>3
<1> QED BY <1>1, <1>2

\* A new run has sent no batch.
LEMMA BatchStarts ==
    ASSUME CLIInv, Execute
    PROVE  BatchInv'
<1>1. txs' = txs /\ cli'.run = cli.run + 1 /\ cli'.startIndex = 0
  BY DEF Execute, execute, NotStarted
<1>2. \A i \in DOMAIN txs : ~OfRun(txs[i], cli.run + 1)
  <2>1. cli.run \in Nat /\ \A i \in DOMAIN txs : txs[i] \in TxRecord
    BY CommandFields DEF CLIInv
  <2> QED BY <2>1, TxFields DEF CLIInv, Requested, OfRun
<1> QED BY <1>1, <1>2 DEF BatchInv, Behind

\* The batches cover the provider's list up to the position the command has
\* reached, and no position of it twice.
THEOREM BatchInvariance == CLISpec => []BatchInv
<1>1. CLIInit => BatchInv
  <2> SUFFICES ASSUME CLIInit PROVE BatchInv
    OBVIOUS
  <2>1. txs = <<>> /\ cli.startIndex = 0
    BY DEF CLIInit, NotStarted
  <2> QED BY <2>1 DEF BatchInv, Behind
<1>2. BothInv /\ BatchInv /\ [CLINext]_cliVars => BatchInv'
  <2> SUFFICES ASSUME BothInv, BatchInv, [CLINext]_cliVars PROVE BatchInv'
    OBVIOUS
  <2>0. IInv /\ CLIInv
    BY DEF BothInv
  <2>1. CASE UNCHANGED <<cli, txs>>
    BY <2>1 DEF BatchInv
  <2>2. CASE Mine /\ ~mineLoop
    <3>1. PICK i \in DOMAIN txs, status \in Statuses : Mines(i, status)
      BY <2>0, <2>2, MineKinds
    <3> QED BY <2>0, <3>1, BatchMines
  <2>3. CASE Command \/ nodeFails \/ interrupt
    BY <2>0, <2>3, BatchMoves
  <2>4. CASE Execute
    BY <2>0, <2>4, BatchStarts
  <2> QED BY <2>1, <2>2, <2>3, <2>4 DEF CLINext, mineLoop, Others, cliVars
<1> QED BY <1>1, <1>2, BothInvariance, PTL DEF CLISpec

\* For every size of the batches and every list, however it grows meanwhile: each
\* position up to the one reached has been in exactly one mined batch.
THEOREM ExactBatches == CLISpec => []BatchesPartition
<1>1. ASSUME CLIInv, BatchInv
      PROVE  BatchesPartition
  <2> SUFFICES ASSUME NEW k \in 1 .. cli.startIndex, k <= cli.total
               PROVE  Cardinality({i \in DOMAIN txs : k \in Passed(i)}) = 1
    BY DEF BatchesPartition
  <2>0. /\ txs \in Seq(TxRecord) /\ cli.startIndex \in Nat /\ cli.total \in Nat
        /\ BATCH_SIZE \in Nat \ {0}
    BY <1>1, CommandFields, SettleAssumption DEF CLIInv
  <2>1. PICK i \in DOMAIN txs :
            /\ OfRun(txs[i], cli.run) /\ InBlock(txs[i]) /\ k \in Covers(txs[i])
            /\ \A j \in DOMAIN txs :
                  OfRun(txs[j], cli.run) /\ k \in Covers(txs[j]) => j = i
    BY <1>1 DEF BatchInv, Covered
  <2>2. ASSUME NEW j \in DOMAIN txs
        PROVE  k \in Passed(j) <=>
                  OfRun(txs[j], cli.run) /\ InBlock(txs[j]) /\ k \in Covers(txs[j])
    <3>1. txs[j].startIndex \in Nat /\ txs[j].batchSize \in {0, BATCH_SIZE}
      BY <2>0, TxFields
    <3>2. CASE OfRun(txs[j], cli.run) /\ InBlock(txs[j])
      <4>1. Passed(j) = FirstPosition(txs[j].startIndex) ..
                            LastPosition(txs[j].startIndex, txs[j].batchSize, cli.total)
        BY <3>2 DEF Passed, OfRun, InBlock, Mined
      <4>2. /\ FirstPosition(txs[j].startIndex) = txs[j].startIndex + 1
            /\ LastPosition(txs[j].startIndex, txs[j].batchSize, cli.total)
                  = Min2(txs[j].startIndex + BATCH_SIZE, cli.total)
        BY <2>0, <3>1, <3>2 DEF FirstPosition, LastPosition, OfRun
      <4> QED BY <2>0, <3>1, <3>2, <4>1, <4>2 DEF Min2, Covers
    <3>3. CASE ~(OfRun(txs[j], cli.run) /\ InBlock(txs[j]))
      BY <3>3 DEF Passed, OfRun, InBlock, Mined
    <3> QED BY <3>2, <3>3
  <2>3. {j \in DOMAIN txs : k \in Passed(j)} = {i}
    BY <2>1, <2>2
  <2> QED BY <2>3, FS_Singleton
<1>2. BothInv /\ BatchInv => BatchesPartition
  BY <1>1 DEF BothInv
<1> QED BY <1>2, BothInvariance, BatchInvariance, PTL

----------------------------------------------------------------------------
(* How far rails can be settled never goes back.                           *)

\* How far the rail could be settled now.
Reach(p, r, now) ==
    IF Terminated(p, r) THEN p.rails[r].endEpoch
    ELSE SettledAccount(p.accounts[Key(p, r)], now).lockupLastSettledAt

\* From p to q: a rail that is gone stays gone, and the others are settled, and
\* could be settled, as far as before.
Onward(p, now, q, later) ==
    /\ p.nextRailId <= q.nextRailId
    /\ \A r \in RailIds : r < p.nextRailId /\ q.rails[r].from # ZERO =>
          /\ p.rails[r].from # ZERO
          /\ p.rails[r].settledUpTo <= q.rails[r].settledUpTo
          /\ Reach(p, r, now) <= Reach(q, r, later)

LEMMA QuotientAtLeast ==
    \A a, m \in Nat, b \in Nat \ {0} : b * m <= a => m <= a \div b
OBVIOUS

\* More funds settle an account at least as far.
LEMMA FundsReach ==
    ASSUME NEW now \in Nat, NEW a, AccountSound(a, now), NEW amount \in Nat,
           NEW b, b = [a EXCEPT !.funds = @ + amount]
    PROVE  /\ AccountSound(b, now)
           /\ SettledAccount(a, now).lockupLastSettledAt
                  <= SettledAccount(b, now).lockupLastSettledAt
<1> DEFINE free == a.funds - a.lockupCurrent
           more == b.funds - b.lockupCurrent
           rate == a.lockupRate
           owed == rate * (now - a.lockupLastSettledAt)
<1>1. /\ a \in Account /\ rate \in Nat /\ free \in Nat /\ a.lockupCurrent \in Nat
      /\ a.lockupLastSettledAt \in Nat /\ a.lockupLastSettledAt <= now
      /\ a.funds \in Nat /\ a.lockupCurrent <= a.funds
  BY DEF AccountSound, Account
<1>2. /\ b \in Account /\ b.lockupRate = rate /\ more = free + amount /\ more \in Nat
      /\ b.lockupCurrent = a.lockupCurrent /\ b.funds = a.funds + amount
      /\ b.lockupLastSettledAt = a.lockupLastSettledAt
  BY <1>1 DEF Account
<1>3. AccountSound(b, now)
  BY <1>1, <1>2 DEF AccountSound
<1>4. /\ SettledAccount(a, now).lockupLastSettledAt \in Nat
      /\ SettledAccount(a, now).lockupLastSettledAt <= now
  BY SettledAccountSound, SettledAccountForward DEF AccountSound
<1>5. CASE rate = 0 \/ b.funds >= b.lockupCurrent + owed
  <2>1. SettledAccount(b, now).lockupLastSettledAt = now
    BY <1>2, <1>5 DEF SettledAccount, Account
  <2> QED BY <1>3, <1>4, <2>1
<1>6. CASE ~(rate = 0 \/ b.funds >= b.lockupCurrent + owed)
  <2>1. owed \in Nat
    BY <1>1, Products
  <2>2. ~(rate = 0 \/ a.funds >= a.lockupCurrent + owed)
    <3> HIDE DEF owed
    <3> QED BY <1>1, <1>2, <1>6, <2>1
  <2>3. /\ SettledAccount(a, now).lockupLastSettledAt
              = a.lockupLastSettledAt + (free \div rate)
        /\ SettledAccount(b, now).lockupLastSettledAt
              = a.lockupLastSettledAt + (more \div rate)
    BY <1>1, <1>2, <1>6, <2>2 DEF SettledAccount, Account
  <2>4. free \div rate \in Nat /\ more \div rate \in Nat /\ rate * (free \div rate) <= free
    <3> HIDE DEF free, more, rate
    <3> QED BY <1>1, <1>2, <2>2, Quotients
  <2>5. free \div rate <= more \div rate
    <3>1. rate * (free \div rate) \in Nat
      BY <1>1, <2>4, Products
    <3>2. rate * (free \div rate) <= more
      <4> HIDE DEF free, more, rate
      <4> QED BY <1>1, <1>2, <2>4, <3>1
    <3> HIDE DEF free, more, rate
    <3> QED BY <1>1, <1>2, <2>2, <2>4, <3>2, QuotientAtLeast
  <2> HIDE DEF free, more, rate
  <2> QED BY <1>1, <1>3, <2>3, <2>4, <2>5
<1> QED BY <1>5, <1>6

\* So does a later block.
LEMMA LaterReach ==
    ASSUME NEW now \in Nat, NEW a, AccountSound(a, now)
    PROVE  /\ AccountSound(a, now + 1)
           /\ SettledAccount(a, now).lockupLastSettledAt
                  <= SettledAccount(a, now + 1).lockupLastSettledAt
<1> DEFINE free == a.funds - a.lockupCurrent
           rate == a.lockupRate
           span == now - a.lockupLastSettledAt
<1>1. /\ a \in Account /\ rate \in Nat /\ free \in Nat /\ span \in Nat
      /\ a.lockupLastSettledAt \in Nat /\ a.lockupLastSettledAt <= now
      /\ a.funds \in Nat /\ a.lockupCurrent \in Nat /\ a.lockupCurrent <= a.funds
  BY DEF AccountSound, Account
<1>2. AccountSound(a, now + 1)
  BY <1>1 DEF AccountSound
<1>3. /\ SettledAccount(a, now).lockupLastSettledAt \in Nat
      /\ SettledAccount(a, now).lockupLastSettledAt <= now
  BY SettledAccountSound, SettledAccountForward DEF AccountSound
<1>4. CASE rate = 0 \/ a.funds >= a.lockupCurrent + rate * (now + 1 - a.lockupLastSettledAt)
  <2>1. SettledAccount(a, now + 1).lockupLastSettledAt = now + 1
    BY <1>1, <1>4 DEF SettledAccount, Account
  <2> QED BY <1>2, <1>3, <2>1
<1>5. CASE ~(rate = 0 \/ a.funds >= a.lockupCurrent + rate * (now + 1 - a.lockupLastSettledAt))
  <2>1. SettledAccount(a, now + 1).lockupLastSettledAt
            = a.lockupLastSettledAt + (free \div rate)
    BY <1>1, <1>5 DEF SettledAccount, Account
  <2>2. CASE a.funds >= a.lockupCurrent + rate * span
    <3>1. SettledAccount(a, now).lockupLastSettledAt = now
      BY <1>1, <2>2 DEF SettledAccount, Account
    <3>2. rate * span \in Nat
      BY <1>1, Products
    <3>3. rate * span <= free
      BY <1>1, <2>2, <3>2
    <3>4. span <= free \div rate
      BY <1>1, <1>5, <3>3, QuotientAtLeast
    <3>5. free \div rate \in Nat
      BY <1>1, <1>5, Quotients
    <3> QED BY <1>1, <1>2, <2>1, <3>1, <3>4, <3>5
  <2>3. CASE ~(a.funds >= a.lockupCurrent + rate * span)
    <3>1. SettledAccount(a, now).lockupLastSettledAt
              = a.lockupLastSettledAt + (free \div rate)
      BY <1>1, <1>5, <2>3 DEF SettledAccount, Account
    <3> QED BY <1>1, <1>2, <1>3, <2>1, <3>1
  <2> QED BY <2>2, <2>3
<1> QED BY <1>4, <1>5
\* From p to q: rails keep who pays them, in what, and their end, or are gone; the
\* others that are there are new.
RailsOnward(p, q) ==
    /\ p.nextRailId <= q.nextRailId
    /\ \A r \in RailIds : r < p.nextRailId /\ q.rails[r].from # ZERO =>
          /\ q.rails[r].from = p.rails[r].from /\ q.rails[r].token = p.rails[r].token
          /\ q.rails[r].endEpoch = p.rails[r].endEpoch
          /\ p.rails[r].settledUpTo <= q.rails[r].settledUpTo

AccountsOnward(p, now, q, later) ==
    \A k \in Clients \X Tokens :
        SettledAccount(p.accounts[k], now).lockupLastSettledAt
            <= SettledAccount(q.accounts[k], later).lockupLastSettledAt

LEMMA ReachType ==
    ASSUME NEW now \in Nat, NEW p, PaySound(p, now), NEW r \in RailIds,
           p.rails[r].from # ZERO
    PROVE  Reach(p, r, now) \in Nat
BY LiveRails, SoundNumbers DEF Reach, RailExists

LEMMA OnwardFromParts ==
    ASSUME NEW now \in Nat, NEW later \in Nat, NEW p, NEW q,
           PaySound(p, now), PaySound(q, later),
           RailsOnward(p, q), AccountsOnward(p, now, q, later)
    PROVE  Onward(p, now, q, later)
<1>1. ASSUME NEW r \in RailIds, r < p.nextRailId, q.rails[r].from # ZERO
      PROVE  /\ p.rails[r].from # ZERO
             /\ p.rails[r].settledUpTo <= q.rails[r].settledUpTo
             /\ Reach(p, r, now) <= Reach(q, r, later)
  <2>1. /\ q.rails[r].from = p.rails[r].from /\ q.rails[r].token = p.rails[r].token
        /\ q.rails[r].endEpoch = p.rails[r].endEpoch
        /\ p.rails[r].settledUpTo <= q.rails[r].settledUpTo
    BY <1>1 DEF RailsOnward
  <2>2. /\ Key(p, r) = Key(q, r) /\ p.rails[r].endEpoch \in Nat
    BY <2>1, SoundNumbers DEF Key
  <2>3. Key(q, r) \in Clients \X Tokens
    BY <1>1, LiveRails DEF RailExists
  <2>4. SettledAccount(p.accounts[Key(q, r)], now).lockupLastSettledAt
            <= SettledAccount(q.accounts[Key(q, r)], later).lockupLastSettledAt
    BY <2>3 DEF AccountsOnward
  <2> QED BY <1>1, <2>1, <2>2, <2>4 DEF Reach, Terminated
<1> QED BY <1>1 DEF Onward, RailsOnward

LEMMA OnwardSame ==
    ASSUME NEW now \in Nat, NEW p, PaySound(p, now)
    PROVE  Onward(p, now, p, now)
<1>1. p.nextRailId <= p.nextRailId
  BY PayParts
<1>2. RailsOnward(p, p)
  BY <1>1, SoundNumbers DEF RailsOnward
<1>3. AccountsOnward(p, now, p, now)
  BY SoundNumbers DEF AccountsOnward
<1> QED BY <1>2, <1>3, OnwardFromParts

LEMMA OnwardTransitive ==
    ASSUME NEW now \in Nat, NEW later \in Nat, NEW last \in Nat, NEW p, NEW q, NEW t,
           PaySound(p, now), PaySound(q, later), PaySound(t, last),
           Onward(p, now, q, later), Onward(q, later, t, last)
    PROVE  Onward(p, now, t, last)
<1>1. /\ p.nextRailId \in Nat /\ q.nextRailId \in Nat /\ t.nextRailId \in Nat
      /\ p.nextRailId <= q.nextRailId /\ q.nextRailId <= t.nextRailId
  BY PayParts DEF Onward
<1>2. ASSUME NEW r \in RailIds, r < p.nextRailId, t.rails[r].from # ZERO
      PROVE  /\ p.rails[r].from # ZERO
             /\ p.rails[r].settledUpTo <= t.rails[r].settledUpTo
             /\ Reach(p, r, now) <= Reach(t, r, last)
  <2>1. r \in Nat
    BY DEF RailIds
  <2>2. r < q.nextRailId
    BY <1>1, <1>2, <2>1
  <2>3. /\ q.rails[r].from # ZERO
        /\ q.rails[r].settledUpTo <= t.rails[r].settledUpTo
        /\ Reach(q, r, later) <= Reach(t, r, last)
    BY <1>2, <2>2 DEF Onward
  <2>4. /\ p.rails[r].from # ZERO
        /\ p.rails[r].settledUpTo <= q.rails[r].settledUpTo
        /\ Reach(p, r, now) <= Reach(q, r, later)
    BY <1>2, <2>3 DEF Onward
  <2>5. /\ p.rails[r].settledUpTo \in Nat /\ q.rails[r].settledUpTo \in Nat
        /\ t.rails[r].settledUpTo \in Nat
        /\ Reach(p, r, now) \in Nat /\ Reach(q, r, later) \in Nat
        /\ Reach(t, r, last) \in Nat
    BY <1>2, <2>3, <2>4, SoundNumbers, ReachType
  <2> QED BY <2>3, <2>4, <2>5
<1> QED BY <1>1, <1>2 DEF Onward

\* Accounts that are settled now, or left alone.
LEMMA SettledAccountsOnward ==
    ASSUME NEW now \in Nat, NEW p, NEW q, PaySound(p, now), PaySound(q, now),
           AccountsSettled(p, q, now)
    PROVE  AccountsOnward(p, now, q, now)
<1> SUFFICES ASSUME NEW k \in Clients \X Tokens
             PROVE  SettledAccount(p.accounts[k], now).lockupLastSettledAt
                        <= SettledAccount(q.accounts[k], now).lockupLastSettledAt
  BY DEF AccountsOnward
<1>1. AccountSound(p.accounts[k], now) /\ AccountSound(q.accounts[k], now)
  BY PayParts
<1>2. /\ SettledAccount(p.accounts[k], now).lockupLastSettledAt \in Nat
      /\ q.accounts[k].lockupLastSettledAt
            <= SettledAccount(q.accounts[k], now).lockupLastSettledAt
  BY <1>1, SettledAccountForward
<1>3. \/ q.accounts[k] = p.accounts[k]
      \/ q.accounts[k].lockupLastSettledAt
             = SettledAccount(p.accounts[k], now).lockupLastSettledAt
  BY DEF AccountsSettled
<1> QED BY <1>2, <1>3

\* Settlements.
LEMMA ForwardOnward ==
    ASSUME NEW now \in Nat, NEW p, NEW q, PaySound(p, now), PaySound(q, now),
           Forward(p, q, now), q.nextRailId = p.nextRailId
    PROVE  Onward(p, now, q, now)
<1>1. p.nextRailId \in Nat
  BY PayParts
<1>2. RailsOnward(p, q)
  BY <1>1 DEF RailsOnward, Forward
<1>3. AccountsOnward(p, now, q, now)
  BY DEF AccountsOnward, Forward
<1> QED BY <1>2, <1>3, OnwardFromParts

\* What a client does with its account.
LEMMA AccountOnward ==
    ASSUME NEW now \in Nat, NEW p, PaySound(p, now), NEW k \in Clients \X Tokens,
           NEW amount \in Nat, NEW limits,
           NEW q, PaySound(q, now),
           \/ q = Deposit(p, k, amount, now)
           \/ q = Withdraw(p, k, amount, now)
           \/ q = SetOperatorApproval(p, k, limits)
    PROVE  Onward(p, now, q, now)
<1>1. /\ p \in PayState /\ p.nextRailId \in Nat /\ AccountSound(p.accounts[k], now)
      /\ p.accounts \in [Clients \X Tokens -> Account]
  BY PayParts DEF PaySound
<1>2. q.rails = p.rails /\ q.nextRailId = p.nextRailId
  BY <1>1 DEF Deposit, Withdraw, SetOperatorApproval, PayState
<1>3. RailsOnward(p, q)
  BY <1>1, <1>2, SoundNumbers DEF RailsOnward
<1>4. CASE q = Deposit(p, k, amount, now)
  <2>1. PICK b : b = [p.accounts[k] EXCEPT !.funds = @ + amount]
    OBVIOUS
  <2>2. q.accounts = [p.accounts EXCEPT ![k] = SettledAccount(b, now)]
    BY <1>1, <1>4, <2>1 DEF Deposit, PayState
  <2>3. /\ AccountSound(b, now)
        /\ SettledAccount(p.accounts[k], now).lockupLastSettledAt
               <= SettledAccount(b, now).lockupLastSettledAt
    BY <1>1, <2>1, FundsReach
  <2>4. PICK e : e = SettledAccount(b, now)
    OBVIOUS
  <2>5. AccountSound(e, now)
    BY <2>3, <2>4, SettledAccountSound
  <2>6. /\ e.lockupLastSettledAt \in Nat
        /\ e.lockupLastSettledAt <= SettledAccount(e, now).lockupLastSettledAt
        /\ SettledAccount(e, now).lockupLastSettledAt \in Nat
        /\ SettledAccount(p.accounts[k], now).lockupLastSettledAt \in Nat
    BY <1>1, <2>5, SettledAccountForward
  <2>7. SettledAccount(p.accounts[k], now).lockupLastSettledAt
            <= SettledAccount(e, now).lockupLastSettledAt
    BY <2>3, <2>4, <2>6
  <2>8. \A j \in Clients \X Tokens : q.accounts[j] = IF j = k THEN e ELSE p.accounts[j]
    BY <1>1, <2>2, <2>4
  <2>9. AccountsOnward(p, now, q, now)
    BY <2>7, <2>8, SoundNumbers DEF AccountsOnward
  <2> QED BY <1>3, <2>9, OnwardFromParts
<1>5. CASE q = Withdraw(p, k, amount, now)
  <2>1. PICK e : e = SettledAccount(p.accounts[k], now)
    OBVIOUS
  <2>2. e \in Account
    BY <1>1, <2>1, SettledAccountSound DEF AccountSound
  <2>3. q.accounts = [p.accounts EXCEPT ![k] = [e EXCEPT !.funds = @ - amount]]
    BY <1>1, <1>5, <2>1 DEF Withdraw, PayState
  <2>4. q.accounts[k].lockupLastSettledAt = e.lockupLastSettledAt
    BY <1>1, <2>2, <2>3 DEF Account
  <2>5. \A j \in (Clients \X Tokens) \ {k} : q.accounts[j] = p.accounts[j]
    BY <1>1, <2>3
  <2>6. AccountsSettled(p, q, now)
    BY <2>1, <2>4, <2>5 DEF AccountsSettled
  <2> QED BY <1>3, <2>6, SettledAccountsOnward, OnwardFromParts
<1>6. CASE q = SetOperatorApproval(p, k, limits)
  <2>1. q.accounts = p.accounts
    BY <1>1, <1>6 DEF SetOperatorApproval, PayState
  <2>2. AccountsSettled(p, q, now)
    BY <2>1 DEF AccountsSettled
  <2> QED BY <1>3, <2>2, SettledAccountsOnward, OnwardFromParts
<1> QED BY <1>4, <1>5, <1>6

\* The end of a rail lies behind what could be settled when it was set.
LEMMA TerminateOnward ==
    ASSUME NEW now \in Nat, NEW p, PaySound(p, now), NEW id,
           CanTerminateRail(p, id, now), NEW q, q = TerminateRail(p, id, now)
    PROVE  Onward(p, now, q, now)
<1> DEFINE r == p.rails[id]
           k == Key(p, id)
<1>1. PICK a : a = SettledAccount(p.accounts[k], now)
  OBVIOUS
<1>2. /\ p \in PayState /\ id \in RailIds /\ r \in LiveRail /\ r.from # ZERO
      /\ k \in Clients \X Tokens /\ a \in Account /\ a.lockupLastSettledAt = now
      /\ ~Terminated(p, id) /\ p.nextRailId \in Nat
  BY <1>1, LiveRails, SettledAccountSound, PayParts
     DEF PaySound, AccountSound, CanTerminateRail, FullySettled, RailExists
<1>3. /\ q.nextRailId = p.nextRailId
      /\ q.rails = [p.rails EXCEPT ![id] = [r EXCEPT !.endEpoch = now + r.lockupPeriod]]
      /\ q.accounts = [p.accounts EXCEPT ![k] = [a EXCEPT !.lockupRate = @ - r.rate]]
  BY <1>1, <1>2 DEF TerminateRail, PayState
<1>4. PaySound(q, now)
  BY TerminateRailSound
<1>5. AccountsOnward(p, now, q, now)
  <2>1. \A j \in (Clients \X Tokens) \ {k} : q.accounts[j] = p.accounts[j]
    BY <1>2, <1>3 DEF PayState
  <2>2. q.accounts[k].lockupLastSettledAt = a.lockupLastSettledAt
    <3> HIDE DEF r, k
    <3> QED BY <1>2, <1>3 DEF PayState, Account
  <2>3. AccountsSettled(p, q, now)
    BY <1>1, <2>1, <2>2 DEF AccountsSettled
  <2> QED BY <1>4, <2>3, SettledAccountsOnward
<1>6. /\ \A i \in RailIds \ {id} : q.rails[i] = p.rails[i]
      /\ q.rails[id].from = r.from /\ q.rails[id].token = r.token
      /\ q.rails[id].settledUpTo = r.settledUpTo
      /\ q.rails[id].endEpoch = now + r.lockupPeriod
  BY <1>2, <1>3 DEF PayState, LiveRail
<1>7. ASSUME NEW i \in RailIds, q.rails[i].from # ZERO
      PROVE  /\ p.rails[i].from # ZERO
             /\ p.rails[i].settledUpTo <= q.rails[i].settledUpTo
             /\ Reach(p, i, now) <= Reach(q, i, now)
  <2>1. p.rails[i].settledUpTo \in Nat /\ p.rails[i].endEpoch \in Nat
    BY SoundNumbers
  <2>2. CASE i = id
    <3>1. Reach(p, id, now) = now
      BY <1>1, <1>2 DEF Reach
    <3>2. r.lockupPeriod \in Nat
      BY <1>2 DEF LiveRail
    <3>3. Reach(q, id, now) >= now
      <4>1. CASE Terminated(q, id)
        BY <1>6, <3>2, <4>1 DEF Reach
      <4>2. CASE ~Terminated(q, id)
        <5>1. now = 0
          BY <1>6, <3>2, <4>2 DEF Terminated
        <5>2. Reach(q, id, now) \in Nat
          BY <1>4, <1>7, <2>2, ReachType
        <5> QED BY <5>1, <5>2
      <4> QED BY <4>1, <4>2
    <3>4. Reach(q, id, now) \in Nat
      BY <1>4, <1>7, <2>2, ReachType
    <3> QED BY <1>2, <1>6, <2>1, <2>2, <3>1, <3>3, <3>4
  <2>3. CASE i # id
    <3>1. q.rails[i] = p.rails[i]
      BY <1>6, <2>3
    <3>2. Key(q, i) = Key(p, i) /\ Key(p, i) \in Clients \X Tokens
      BY <1>7, <3>1, LiveRails DEF Key, RailExists
    <3>3. SettledAccount(p.accounts[Key(p, i)], now).lockupLastSettledAt
              <= SettledAccount(q.accounts[Key(p, i)], now).lockupLastSettledAt
      BY <1>5, <3>2 DEF AccountsOnward
    <3> QED BY <1>7, <2>1, <3>1, <3>2, <3>3 DEF Reach, Terminated
  <2> QED BY <2>2, <2>3
<1> QED BY <1>2, <1>3, <1>7 DEF Onward

\* What the diamond does with a rail: each call settles the account it draws on.
LEMMA LockupOnward ==
    ASSUME NEW now \in Nat, NEW p, PaySound(p, now),
           NEW id, NEW period \in Nat, NEW fixed \in Nat,
           CanModifyRailLockup(p, id, period, fixed, now),
           NEW q, q = ModifyRailLockup(p, id, period, fixed, now)
    PROVE  PaySound(q, now) /\ Onward(p, now, q, now)
<1> DEFINE r == p.rails[id]
           k == Key(p, id)
           change == (fixed + r.rate * period) - RailLockup(r)
<1>1. PICK a : a = SettledAccount(p.accounts[k], now)
  OBVIOUS
<1>2. /\ p \in PayState /\ id \in RailIds /\ r \in LiveRail
      /\ k \in Clients \X Tokens /\ a \in Account /\ p.nextRailId \in Nat
  BY <1>1, LiveRails, SettledAccountSound, PayParts
     DEF PaySound, AccountSound, CanModifyRailLockup
<1>3. PaySound(q, now)
  BY ModifyRailLockupSound
<1>4. /\ q.nextRailId = p.nextRailId
      /\ q.rails = [p.rails EXCEPT ![id] =
             [r EXCEPT !.lockupPeriod = period, !.lockupFixed = fixed]]
      /\ q.accounts = [p.accounts EXCEPT ![k] = [a EXCEPT !.lockupCurrent = @ + change]]
  BY <1>1, <1>2 DEF ModifyRailLockup, PayState
<1> HIDE DEF k, change
<1>5. /\ \A i \in RailIds \ {id} : q.rails[i] = p.rails[i]
      /\ q.rails[id].from = r.from /\ q.rails[id].token = r.token
      /\ q.rails[id].endEpoch = r.endEpoch /\ q.rails[id].settledUpTo = r.settledUpTo
  BY <1>2, <1>4 DEF PayState, LiveRail
<1>6. RailsOnward(p, q)
  BY <1>2, <1>4, <1>5, SoundNumbers DEF RailsOnward
<1>7. AccountsSettled(p, q, now)
  <2>1. \A j \in (Clients \X Tokens) \ {k} : q.accounts[j] = p.accounts[j]
    BY <1>2, <1>4 DEF PayState
  <2>2. q.accounts[k].lockupLastSettledAt = a.lockupLastSettledAt
    BY <1>2, <1>4 DEF PayState, Account
  <2> QED BY <1>1, <2>1, <2>2 DEF AccountsSettled
<1> QED BY <1>3, <1>6, <1>7, SettledAccountsOnward, OnwardFromParts

LEMMA PaymentOnward ==
    ASSUME NEW now \in Nat, NEW p, PaySound(p, now), Timely(p, now),
           NEW id, NEW rate \in Nat, CanModifyRailPayment(p, id, rate, now),
           NEW q, q = ModifyRailPayment(p, id, rate, now)
    PROVE  PaySound(q, now) /\ Onward(p, now, q, now)
<1> DEFINE r == p.rails[id]
           k == Key(p, id)
           change == rate - r.rate
           to == IF r.rate = 0 /\ change # 0 THEN now ELSE r.settledUpTo
<1>1. PICK a : a = SettledAccount(p.accounts[k], now)
  OBVIOUS
<1>2. /\ p \in PayState /\ id \in RailIds /\ r \in LiveRail
      /\ k \in Clients \X Tokens /\ a \in Account /\ p.nextRailId \in Nat
  BY <1>1, LiveRails, SettledAccountSound, PayParts
     DEF PaySound, AccountSound, CanModifyRailPayment
<1>3. PaySound(q, now)
  BY ModifyRailPaymentSound
<1>4. /\ q.nextRailId = p.nextRailId
      /\ q.rails = [p.rails EXCEPT ![id] = [r EXCEPT !.rate = rate, !.settledUpTo = to]]
      /\ q.accounts = [p.accounts EXCEPT ![k] =
             [a EXCEPT !.lockupCurrent = @ + change * r.lockupPeriod,
                       !.lockupRate = @ + change]]
  BY <1>1, <1>2 DEF ModifyRailPayment, PayState
<1>5. /\ r.settledUpTo \in Nat /\ r.settledUpTo <= to
  BY <1>2 DEF LiveRail, Timely
<1> HIDE DEF k, change, to
<1>6. /\ \A i \in RailIds \ {id} : q.rails[i] = p.rails[i]
      /\ q.rails[id].from = r.from /\ q.rails[id].token = r.token
      /\ q.rails[id].endEpoch = r.endEpoch /\ q.rails[id].settledUpTo = to
  BY <1>2, <1>4 DEF PayState, LiveRail
<1>7. RailsOnward(p, q)
  BY <1>2, <1>4, <1>5, <1>6, SoundNumbers DEF RailsOnward
<1>8. AccountsSettled(p, q, now)
  <2>1. \A j \in (Clients \X Tokens) \ {k} : q.accounts[j] = p.accounts[j]
    BY <1>2, <1>4 DEF PayState
  <2>2. q.accounts[k].lockupLastSettledAt = a.lockupLastSettledAt
    BY <1>2, <1>4 DEF PayState, Account
  <2> QED BY <1>1, <2>1, <2>2 DEF AccountsSettled
<1> QED BY <1>3, <1>7, <1>8, SettledAccountsOnward, OnwardFromParts

LEMMA OpenedOnward ==
    ASSUME IInv, NEW p, PaySound(p, epoch), NEW piece \in PieceInfo,
           NEW client \in Clients, CanOpenRail(p, piece, client),
           NEW q, q = OpenedRail(p, piece, client)
    PROVE  Onward(p, epoch, q, epoch)
<1> DEFINE n == p.nextRailId
           to == s.spConfigs[piece.provider].paymentAddress
<1>1. /\ p \in PayState /\ n \in RailIds /\ n \in Nat /\ epoch \in Nat
      /\ s.allocationLockupAmount \in Nat
  BY OpenedRailSound, SoundParts, PayParts DEF PaySound, DDOState
<1>2. PICK t : t = CreateRail(p, piece.paymentTokenAddress, client, to,
                              s.commissionRateBps, epoch)
  OBVIOUS
<1>3. PaySound(t, epoch)
  BY <1>2, SoundParts, CreateRailSound DEF DDOState, SPConfig, PieceInfo
<1>4. /\ t.nextRailId = n + 1 /\ t.accounts = p.accounts
      /\ \A i \in RailIds \ {n} : t.rails[i] = p.rails[i]
  BY <1>1, <1>2 DEF CreateRail, PayState
<1>5. Onward(p, epoch, t, epoch)
  <2>1. \A i \in RailIds : i < n => t.rails[i] = p.rails[i]
    BY <1>1, <1>4
  <2>2. RailsOnward(p, t)
    BY <1>1, <1>4, <2>1, SoundNumbers DEF RailsOnward
  <2>3. AccountsSettled(p, t, epoch)
    BY <1>4 DEF AccountsSettled
  <2> QED BY <1>1, <1>3, <2>2, <2>3, SettledAccountsOnward, OnwardFromParts
<1>6. /\ CanModifyRailLockup(t, n, 0, s.allocationLockupAmount, epoch)
      /\ q = ModifyRailLockup(t, n, 0, s.allocationLockupAmount, epoch)
  BY <1>2 DEF CanOpenRail, OpenedRail
<1>7. PaySound(q, epoch) /\ Onward(t, epoch, q, epoch)
  BY <1>1, <1>3, <1>6, LockupOnward
<1> QED BY <1>1, <1>3, <1>5, <1>7, OnwardTransitive

LEMMA ActivatedOnward ==
    ASSUME IInv, NEW p, PaySound(p, epoch), Timely(p, epoch),
           NEW info \in AllocationInfo, canActivateRail(p, info),
           NEW q, q = ActivatedRail(p, info)
    PROVE  Onward(p, epoch, q, epoch)
<1>1. epoch \in Nat /\ pricePerEpoch(info) \in Nat /\ EPOCHS_PER_MONTH \in Nat
  BY SoundParts, Products, EpochsAssumption DEF pricePerEpoch, AllocationInfo
<1>2. PICK t : t = ModifyRailPayment(p, info.railId, pricePerEpoch(info), epoch)
  OBVIOUS
<1>3. /\ CanModifyRailPayment(p, info.railId, pricePerEpoch(info), epoch)
      /\ CanModifyRailLockup(t, info.railId, EPOCHS_PER_MONTH, 0, epoch)
      /\ q = ModifyRailLockup(t, info.railId, EPOCHS_PER_MONTH, 0, epoch)
  BY <1>2 DEF canActivateRail, ActivatedRail
<1>4. PaySound(t, epoch) /\ Onward(p, epoch, t, epoch)
  BY <1>1, <1>2, <1>3, PaymentOnward
<1>5. PaySound(q, epoch) /\ Onward(t, epoch, q, epoch)
  BY <1>1, <1>3, <1>4, LockupOnward
<1> QED BY <1>1, <1>4, <1>5, OnwardTransitive

\* A settlement, and a block.
LEMMA SettleOnward ==
    ASSUME NEW now \in Nat, NEW p, PaySound(p, now),
           NEW id, NEW until \in Nat, NEW result,
           CanSettleRail(p, id, until, now, result),
           NEW q, q = SettleRail(p, id, until, now, result)
    PROVE  Onward(p, now, q, now)
<1>1. Forward(p, q, now) /\ PaySound(q, now)
  BY SettleForward
<1>2. PICK settlement : settlement = Settlement(p, id, until, now, result)
  OBVIOUS
<1>3. q.nextRailId = p.nextRailId
  BY <1>2, SettleRailEffect
<1> QED BY <1>1, <1>3, ForwardOnward

LEMMA BlockOnward ==
    ASSUME NEW now \in Nat, NEW p, PaySound(p, now)
    PROVE  PaySound(p, now + 1) /\ Onward(p, now, p, now + 1)
<1>1. \A k \in Clients \X Tokens :
          /\ AccountSound(p.accounts[k], now + 1)
          /\ SettledAccount(p.accounts[k], now).lockupLastSettledAt
                 <= SettledAccount(p.accounts[k], now + 1).lockupLastSettledAt
  BY PayParts, LaterReach
<1>2. PaySound(p, now + 1) /\ AccountsOnward(p, now, p, now + 1)
  BY <1>1 DEF PaySound, AccountsOnward
<1>3. RailsOnward(p, p)
  BY PayParts, SoundNumbers DEF RailsOnward
<1> QED BY <1>2, <1>3, OnwardFromParts

----------------------------------------------------------------------------
(* The contracts and the diamond's lists go onward with every transaction. *)

AllOnward(pays, now, pays2, later) ==
    \A c \in PaymentsContracts : Onward(pays[c], now, pays2[c], later)

\* The lists of the providers get longer and are otherwise what they were.
ListsGrow(st, st2) ==
    \A p \in Providers :
        LET old == st.allocationIdsByProvider[p]
            new == st2.allocationIdsByProvider[p]
        IN  Len(old) <= Len(new) /\ \A k \in 1 .. Len(old) : new[k] = old[k]

\* A running call has only gone onward since it began.
OnwardInv ==
    call # Idle =>
        /\ AllOnward(call.saved.pay, epoch, pay, epoch)
        /\ ListsGrow(call.saved.s, s)

LEMMA AllOnwardSame ==
    ASSUME NEW now \in Nat, NEW pays,
           \A c \in PaymentsContracts : PaySound(pays[c], now)
    PROVE  AllOnward(pays, now, pays, now)
BY OnwardSame DEF AllOnward

LEMMA OneOnward ==
    ASSUME IInv, NEW c, NEW q, pay' = [pay EXCEPT ![c] = q],
           c \in PaymentsContracts => Onward(pay[c], epoch, q, epoch)
    PROVE  AllOnward(pay, epoch, pay', epoch)
<1>1. /\ pay \in [PaymentsContracts -> PayState] /\ epoch \in Nat
      /\ \A d \in PaymentsContracts : PaySound(pay[d], epoch)
  BY SoundParts
<1>2. ASSUME NEW d \in PaymentsContracts
      PROVE  Onward(pay[d], epoch, pay'[d], epoch)
  <2>1. pay'[d] = IF d = c THEN q ELSE pay[d]
    BY <1>1
  <2> QED BY <1>1, <2>1, OnwardSame
<1> QED BY <1>2 DEF AllOnward

LEMMA SettlesOnward ==
    ASSUME IInv, NEW c, NEW id, NEW until \in Nat,
           CanSettle(c, id, until), Settle(c, id, until)
    PROVE  AllOnward(pay, epoch, pay', epoch)
<1>1. PICK result : result = Validated(c, id, until)
  OBVIOUS
<1>2. PICK q : q = SettleRail(pay[c], id, until, epoch, result)
  OBVIOUS
<1>3. pay' = [pay EXCEPT ![c] = q]
  BY <1>1, <1>2 DEF Settle
<1>4. c \in PaymentsContracts => Onward(pay[c], epoch, q, epoch)
  BY <1>1, <1>2, SoundParts, SettleOnward DEF CanSettle
<1> QED BY <1>3, <1>4, OneOnward

LEMMA ClientOnward ==
    ASSUME IInv, IInv', AnyClient
    PROVE  AllOnward(pay, epoch, pay', epoch')
<1>1. PICK c \in PaymentsContracts :
          \/ \E k \in Clients \X Tokens :
                \/ \E amount \in Nat : AnyDeposit(c, k, amount) \/ withdraw(c, k, amount)
                \/ \E limits \in ApprovalLimits : setOperatorApproval(c, k, limits)
          \/ \E r \in RailIds : terminateRail(c, r) \/ settleRail(c, r)
  BY DEF AnyClient
<1>2. /\ epoch' = epoch /\ epoch \in Nat /\ PaySound(pay[c], epoch)
      /\ pay \in [PaymentsContracts -> PayState] /\ PaySound(pay'[c], epoch)
  <2>1. epoch' = epoch
    BY DEF AnyClient, ClientTransaction, AnyDeposit, withdraw, setOperatorApproval,
           terminateRail, settleRail
  <2>2. PaySound(pay'[c], epoch')
    BY DEF IInv, Solvent
  <2> QED BY <2>1, <2>2, SoundParts
<1>3. ASSUME NEW k \in Clients \X Tokens, NEW amount \in Nat, NEW limits, NEW q,
             pay' = [pay EXCEPT ![c] = q],
             \/ q = Deposit(pay[c], k, amount, epoch)
             \/ q = Withdraw(pay[c], k, amount, epoch)
             \/ q = SetOperatorApproval(pay[c], k, limits)
      PROVE  AllOnward(pay, epoch, pay', epoch)
  <2>1. q = pay'[c]
    BY <1>2, <1>3
  <2>2. Onward(pay[c], epoch, q, epoch)
    BY <1>2, <1>3, <2>1, AccountOnward
  <2> QED BY <1>3, <2>2, OneOnward
<1>4. ASSUME NEW k \in Clients \X Tokens, NEW amount \in Nat,
             AnyDeposit(c, k, amount) \/ withdraw(c, k, amount)
      PROVE  AllOnward(pay, epoch, pay', epoch)
  <2>1. amount \in Nat
    BY InputsAssumption
  <2> QED BY <1>3, <1>4, <2>1 DEF AnyDeposit, withdraw
<1>5. ASSUME NEW k \in Clients \X Tokens, NEW limits \in ApprovalLimits,
             setOperatorApproval(c, k, limits)
      PROVE  AllOnward(pay, epoch, pay', epoch)
  <2>1. 0 \in Nat
    OBVIOUS
  <2> QED BY <1>3, <1>5, <2>1 DEF setOperatorApproval
<1>6. ASSUME NEW r \in RailIds, terminateRail(c, r)
      PROVE  AllOnward(pay, epoch, pay', epoch)
  <2>1. PICK q : q = TerminateRail(pay[c], r, epoch)
    OBVIOUS
  <2>2. CanTerminateRail(pay[c], r, epoch) /\ pay' = [pay EXCEPT ![c] = q]
    BY <1>6, <2>1 DEF terminateRail
  <2>3. Onward(pay[c], epoch, q, epoch)
    BY <1>2, <2>1, <2>2, TerminateOnward
  <2> QED BY <2>2, <2>3, OneOnward
<1>7. ASSUME NEW r \in RailIds, settleRail(c, r)
      PROVE  AllOnward(pay, epoch, pay', epoch)
  BY <1>2, <1>7, SettlesOnward DEF settleRail
<1> QED BY <1>1, <1>2, <1>4, <1>5, <1>6, <1>7

\* A transaction without a loop.
LEMMA WholeOnward ==
    ASSUME IInv, IInv', Whole
    PROVE  AllOnward(pay, epoch, pay', epoch') /\ ListsGrow(s, s')
<1>0. /\ epoch \in Nat /\ s \in DDOState
      /\ \A c \in PaymentsContracts : PaySound(pay[c], epoch)
  BY SoundParts
<1>1. ListsGrow(s, s')
  <2>1. s'.allocationIdsByProvider = s.allocationIdsByProvider
    BY WholeKeepsAllocations
  <2>2. \A p \in Providers : Len(s.allocationIdsByProvider[p]) \in Nat
    BY <1>0 DEF DDOState
  <2> QED BY <2>1, <2>2 DEF ListsGrow
<1>2. CASE AnyAdmin \/ AnySP
  <2>1. pay' = pay /\ epoch' = epoch
    BY <1>2, OwnerChanges DEF AnyAdmin, AnySP, OwnerTransaction,
           setPaymentsContract, setCommissionRate, setAllocationLockupAmount,
           pause, unpause, blacklistSector, registerSP, updateSPConfig,
           addSPToken, updateSPToken, removeSPToken, deactivateSP
  <2> QED BY <1>0, <1>1, <2>1, AllOnwardSame
<1>3. CASE AnyClient
  BY <1>1, <1>3, ClientOnward
<1>4. CASE Tick
  <2>1. pay' = pay /\ epoch' = epoch + 1
    BY <1>4 DEF Tick
  <2> QED BY <1>0, <1>1, <2>1, BlockOnward DEF AllOnward
<1>5. ASSUME NEW a, NEW until \in Nat, settleSpPayment(a, until)
      PROVE  AllOnward(pay, epoch, pay', epoch')
  BY <1>5, SettlesOnward DEF settleSpPayment
<1> QED BY <1>1, <1>2, <1>3, <1>4, <1>5 DEF Whole

\* An append keeps the list.
LEMMA AppendGrows ==
    ASSUME NEW S, NEW seq \in Seq(S), NEW e \in S
    PROVE  /\ Len(seq) \in Nat /\ Len(seq) <= Len(Append(seq, e))
           /\ \A k \in 1 .. Len(seq) : Append(seq, e)[k] = seq[k]
OBVIOUS

\* A step of a call with a loop.
LEMMA ContinuesOnward ==
    ASSUME RailsInv, Continues
    PROVE  AllOnward(pay, epoch, pay', epoch) /\ ListsGrow(s, s')
<1>0. /\ IInv /\ epoch \in Nat /\ s \in DDOState
      /\ call.fn = "create" => s.paymentsContract # ZERO
      /\ \A c \in PaymentsContracts : PaySound(pay[c], epoch) /\ Timely(pay[c], epoch)
  BY SoundParts DEF RailsInv, AllocationInv, PaidRails
<1>1. \A p \in Providers : s.allocationIdsByProvider[p] \in Seq(AllocationIds)
  BY <1>0 DEF DDOState
<1>2. ASSUME s'.allocationIdsByProvider = s.allocationIdsByProvider
      PROVE  ListsGrow(s, s')
  BY <1>1, <1>2 DEF ListsGrow
<1>3. CASE createAllocation
  <2> DEFINE c == s.paymentsContract
             a == call.newAllocations[call.i]
             piece == call.pieceInfos[call.i]
  <2>1. /\ call.client \in Clients /\ a \in AllocationIds /\ piece \in PieceInfo
        /\ piece.provider \in Providers
    BY <1>0, <1>3, CreateFrameParts DEF createAllocation, PieceInfo
  <2>2. c \in PaymentsContracts
    BY <1>0, <1>3 DEF createAllocation, creating, DDOState
  <2>3. PICK q : q = OpenedRail(pay[c], piece, call.client)
    OBVIOUS
  <2>4. pay' = [pay EXCEPT ![c] = q] /\ CanOpenRail(pay[c], piece, call.client)
    BY <1>3, <2>3 DEF createAllocation, canCreateAllocation
  <2>5. s'.allocationIdsByProvider =
            [s.allocationIdsByProvider EXCEPT ![piece.provider] = Append(@, a)]
    BY <1>0, <1>3 DEF createAllocation, DDOState
  <2> HIDE DEF c, a, piece
  <2>6. Onward(pay[c], epoch, q, epoch)
    BY <1>0, <2>1, <2>2, <2>3, <2>4, OpenedOnward
  <2>7. AllOnward(pay, epoch, pay', epoch)
    BY <1>0, <2>4, <2>6, OneOnward
  <2>8. ListsGrow(s, s')
    <3>1. \A p \in Providers : s'.allocationIdsByProvider[p] =
              IF p = piece.provider THEN Append(s.allocationIdsByProvider[p], a)
              ELSE s.allocationIdsByProvider[p]
      BY <1>0, <2>5 DEF DDOState
    <3>2. ASSUME NEW p \in Providers
          PROVE  /\ Len(s.allocationIdsByProvider[p]) <= Len(s'.allocationIdsByProvider[p])
                 /\ \A k \in 1 .. Len(s.allocationIdsByProvider[p]) :
                       s'.allocationIdsByProvider[p][k] = s.allocationIdsByProvider[p][k]
      <4>1. PICK seq \in Seq(AllocationIds) : seq = s.allocationIdsByProvider[p]
        BY <1>1
      <4>2. s'.allocationIdsByProvider[p] = seq
            \/ s'.allocationIdsByProvider[p] = Append(seq, a)
        BY <3>1, <4>1
      <4> QED BY <2>1, <4>1, <4>2, AppendGrows
    <3> QED BY <3>2 DEF ListsGrow
  <2> QED BY <2>7, <2>8
<1>4. CASE activatePiece
  <2> DEFINE c == s.paymentsContract
             info == s.allocationInfos[call.pieces[call.i].allocationId]
  <2>1. PICK q : q = ActivatedRail(pay[c], info)
    OBVIOUS
  <2>2. /\ pay' = [pay EXCEPT ![c] = q]
        /\ s'.allocationIdsByProvider = s.allocationIdsByProvider
        /\ canActivateRail(pay[c], info)
    BY <1>0, <1>4, <2>1 DEF activatePiece, DDOState
  <2>3. info \in AllocationInfo
    BY <1>0, <1>4, NotifyFrameParts DEF activatePiece, NotificationPiece, DDOState
  <2> HIDE DEF c, info
  <2>4. c \in PaymentsContracts => Onward(pay[c], epoch, q, epoch)
    BY <1>0, <2>1, <2>2, <2>3, ActivatedOnward
  <2> QED BY <1>0, <1>2, <2>2, <2>4, OneOnward
<1>5. CASE rejectPiece \/ settleSkip
  BY <1>0, <1>2, <1>5, AllOnwardSame DEF rejectPiece, settleSkip
<1>6. CASE settleNext
  <2>1. call.untilEpoch \in Nat
    BY <1>0, <1>6, SettleFrameType DEF settleNext, settling
  <2> QED BY <1>0, <1>2, <1>6, <2>1, SettlesOnward DEF settleNext
<1> QED BY <1>3, <1>4, <1>5, <1>6 DEF Continues

\* What is promised of a running call, in every step.
LEMMA OnwardInvStep ==
    ASSUME RailsInv, OnwardInv, Steps, IInv'
    PROVE  OnwardInv'
<1>0. /\ IInv /\ epoch \in Nat /\ s \in DDOState /\ committed.s \in DDOState
      /\ \A c \in PaymentsContracts :
            PaySound(pay[c], epoch) /\ PaySound(committed.pay[c], epoch)
  BY SoundParts DEF RailsInv, AllocationInv, Snapshots
<1>1. CASE call' = Idle
  BY <1>1 DEF OnwardInv
<1>2. CASE Begins
  <2>1. /\ call'.saved.s = s /\ call'.saved.pay = pay /\ pay' = pay /\ epoch' = epoch
        /\ s'.allocationIdsByProvider = s.allocationIdsByProvider
    BY <1>0, <1>2, BeginsKeeps DEF Begins, Snapshot
  <2>2. AllOnward(pay, epoch, pay, epoch)
    BY <1>0, AllOnwardSame
  <2>3. ListsGrow(s, s')
    <3>1. \A p \in Providers : Len(s.allocationIdsByProvider[p]) \in Nat
      BY <1>0 DEF DDOState
    <3> QED BY <2>1, <3>1 DEF ListsGrow
  <2> QED BY <2>1, <2>2, <2>3 DEF OnwardInv
<1>3. CASE Continues
  <2>1. /\ call # Idle /\ call'.saved = call.saved /\ epoch' = epoch
        /\ committed.pay = call.saved.pay /\ committed.s = call.saved.s
    BY <1>3 DEF Continues, committed
  <2>2. PICK old : old = call.saved
    OBVIOUS
  <2>3. PICK pays2 : pays2 = pay'
    OBVIOUS
  <2>4. PICK st2 : st2 = s'
    OBVIOUS
  <2>5. AllOnward(pay, epoch, pays2, epoch) /\ ListsGrow(s, st2)
    BY <1>3, <2>3, <2>4, ContinuesOnward
  <2>6. AllOnward(old.pay, epoch, pay, epoch) /\ ListsGrow(old.s, s)
    BY <2>1, <2>2 DEF OnwardInv
  <2>7. \A c \in PaymentsContracts : PaySound(pays2[c], epoch)
    BY <2>1, <2>3 DEF IInv, Solvent
  <2>8. AllOnward(old.pay, epoch, pays2, epoch)
    BY <1>0, <2>1, <2>2, <2>5, <2>6, <2>7, OnwardTransitive DEF AllOnward
  <2>9. ListsGrow(old.s, st2)
    <3> SUFFICES ASSUME NEW p \in Providers
                 PROVE  LET x == old.s.allocationIdsByProvider[p]
                            z == st2.allocationIdsByProvider[p]
                        IN  Len(x) <= Len(z) /\ \A k \in 1 .. Len(x) : z[k] = x[k]
      BY DEF ListsGrow
    <3>1. PICK x, y, z : /\ x = old.s.allocationIdsByProvider[p]
                         /\ y = s.allocationIdsByProvider[p]
                         /\ z = st2.allocationIdsByProvider[p]
      OBVIOUS
    <3>2. /\ Len(x) <= Len(y) /\ \A k \in 1 .. Len(x) : y[k] = x[k]
          /\ Len(y) <= Len(z) /\ \A k \in 1 .. Len(y) : z[k] = y[k]
      BY <2>5, <2>6, <3>1 DEF ListsGrow
    <3>3. Len(x) \in Nat /\ Len(y) \in Nat /\ Len(z) \in Nat
      <4>0. s' \in DDOState
        BY DEF IInv, TypeOK
      <4>1. old.s \in DDOState /\ st2 \in DDOState
        BY <1>0, <2>1, <2>2, <2>4, <4>0
      <4>2. \A st \in DDOState : st.allocationIdsByProvider[p] \in Seq(AllocationIds)
        BY DEF DDOState
      <4> QED BY <1>0, <3>1, <4>1, <4>2
    <3>4. Len(x) <= Len(z) /\ \A k \in 1 .. Len(x) : k \in 1 .. Len(y)
      BY <3>2, <3>3
    <3>5. \A k \in 1 .. Len(x) : z[k] = x[k]
      BY <3>2, <3>4
    <3> QED BY <3>1, <3>4, <3>5
  <2> QED BY <2>1, <2>2, <2>3, <2>4, <2>8, <2>9 DEF OnwardInv
<1>4. CASE UNCHANGED vars
  BY <1>4 DEF OnwardInv, vars
<1> QED BY <1>1, <1>2, <1>3, <1>4 DEF Steps, Whole, Reverts, Revert, Returns

\* From one committed state to the next: contracts and lists go onward, and
\* allocations are final.
Advance(st, pays, now, st2, pays2, later) ==
    AllOnward(pays, now, pays2, later) /\ ListsGrow(st, st2) /\ AllFinal(st, st2)

LEMMA CommitsAdvance ==
    ASSUME RailsInv, TransactionInv, OnwardInv, Steps, IInv'
    PROVE  Advance(committed.s, committed.pay, epoch, committed'.s, committed'.pay, epoch')
<1>0. /\ IInv /\ epoch \in Nat /\ s \in DDOState /\ committed.s \in DDOState
      /\ \A c \in PaymentsContracts :
            PaySound(pay[c], epoch) /\ PaySound(committed.pay[c], epoch)
  BY SoundParts DEF RailsInv, AllocationInv, Snapshots
<1>1. ASSUME committed'.s = committed.s, committed'.pay = committed.pay, epoch' = epoch
      PROVE  Advance(committed.s, committed.pay, epoch, committed'.s, committed'.pay, epoch')
  <2>1. AllOnward(committed.pay, epoch, committed.pay, epoch)
    BY <1>0, AllOnwardSame
  <2>2. \A p \in Providers : Len(committed.s.allocationIdsByProvider[p]) \in Nat
    BY <1>0 DEF DDOState
  <2>3. ListsGrow(committed.s, committed.s) /\ AllFinal(committed.s, committed.s)
    BY <2>2 DEF ListsGrow, AllFinal, Final
  <2> QED BY <1>1, <2>1, <2>3 DEF Advance
<1>2. CASE Begins \/ Continues \/ Reverts
  BY <1>0, <1>1, <1>2, Commits
<1>3. CASE UNCHANGED vars
  <2>1. committed' = committed /\ epoch' = epoch
    BY <1>0, <1>3, Commits DEF vars
  <2> QED BY <1>1, <2>1
<1>4. CASE Whole
  <2>1. /\ committed.s = s /\ committed'.s = s'
        /\ committed.pay = pay /\ committed'.pay = pay'
    BY <1>0, <1>4, Commits
  <2>2. AllOnward(pay, epoch, pay', epoch') /\ ListsGrow(s, s')
    BY <1>0, <1>4, WholeOnward
  <2>3. s'.allocationInfos = s.allocationInfos
    BY <1>0, <1>4, WholeKeepsAllocations
  <2> QED BY <2>1, <2>2, <2>3 DEF Advance, AllFinal, Final
<1>5. CASE Returns
  <2>1. /\ committed = call.saved /\ committed'.s = s' /\ committed'.pay = pay
        /\ call # Idle /\ epoch' = epoch
    BY <1>0, <1>5, Commits DEF Returns
  <2>2. AllOnward(committed.pay, epoch, pay, epoch) /\ ListsGrow(committed.s, s)
    BY <2>1 DEF OnwardInv
  <2>3. /\ s'.allocationInfos = s.allocationInfos
        /\ s'.allocationIdsByProvider = s.allocationIdsByProvider
    BY <1>0, <1>5, ReturnsKeeps
  <2>4. AllFinal(committed.s, s)
    BY <2>1 DEF TransactionInv, AllFinal
  <2> QED BY <2>1, <2>2, <2>3, <2>4 DEF Advance, ListsGrow, AllFinal
<1> QED BY <1>2, <1>3, <1>4, <1>5 DEF Steps

----------------------------------------------------------------------------
(* The diamond's invariants with one payments contract, beside the command. *)

\* A settlement with any arguments binds and changes no terms.
LEMMA AllocationInvSteps ==
    ASSUME SingleContract, AllocationInv, Steps, IInv'
    PROVE  AllocationInv'
<1>0. /\ IInv /\ s \in DDOState /\ RailInv(s, pay)
      /\ RailInv(committed.s, committed.pay)
  BY SoundParts DEF AllocationInv
<1>1. ASSUME AnyNext
      PROVE  AllocationInv'
  BY <1>1, AllocationInvStep
<1>2. CASE Whole
  <2>1. ASSUME NEW a, NEW until \in Nat, settleSpPayment(a, until)
        PROVE  AllocationInv'
    <3>1. s' = s /\ call' = Idle
      BY <1>2, <2>1 DEF settleSpPayment, Whole
    <3>2. \A d \in PaymentsContracts : RailsKept(pay[d], pay'[d])
      BY <1>0, <2>1, SettleKeeps DEF settleSpPayment
    <3>3. RailInv(s', pay')
      BY <1>0, <3>1, <3>2, RailInvKept
    <3> QED BY <3>1, <3>3 DEF AllocationInv, committed, Snapshot, Idle
  <2> QED BY <1>1, <1>2, <2>1 DEF Whole, AnyNext
<1>3. CASE Begins
  <2>1. ASSUME NEW p, NEW until, NEW start, NEW size,
               settleSpTotalPayment(p, until, start, size)
        PROVE  AllocationInv'
    <3>1. /\ call'.saved = Snapshot /\ call' # Idle /\ s' = s /\ pay' = pay
          /\ call'.fn # "create"
      BY <2>1 DEF settleSpTotalPayment, Idle
    <3>2. RailInv(s', pay')
      BY <1>0, <3>1
    <3> QED BY <1>0, <3>1, <3>2 DEF AllocationInv, committed, Snapshot
  <2> QED BY <1>1, <1>3, <2>1 DEF Begins, AnyNext, AnyAllocation
<1>4. CASE Continues \/ Returns
  BY <1>1, <1>4 DEF Continues, Returns, AnyNext, AnyAllocation
<1>5. CASE Reverts
  <2>1. s' = committed.s /\ pay' = committed.pay /\ call' = Idle
    BY <1>5 DEF Reverts, Revert, committed
  <2>2. RailInv(s', pay')
    BY <1>0, <2>1
  <2> QED BY <2>1, <2>2 DEF AllocationInv, committed, Snapshot, Idle
<1>6. CASE UNCHANGED vars
  BY <1>6, AllocationInvStep
<1> QED BY <1>2, <1>3, <1>4, <1>5, <1>6 DEF Steps

\* What the command rests on.
GroundInv == BothInv /\ RailsInv /\ OnwardInv

LEMMA GroundInvStep ==
    ASSUME SingleContract, GroundInv, BothInv', [CLINext]_cliVars
    PROVE  /\ GroundInv'
           /\ Advance(committed.s, committed.pay, epoch,
                      committed'.s, committed'.pay, epoch')
<1>1. /\ BothInv /\ RailsInv /\ OnwardInv /\ AllocationInv
      /\ IInv /\ TransactionInv /\ CLIInv /\ IInv'
  BY DEF GroundInv, BothInv, RailsInv
<1>2. Steps
  BY <1>1, CLISteps
<1>3. AllocationInv'
  BY <1>1, <1>2, AllocationInvSteps
<1>4. RailsInv'
  BY <1>1, <1>2, <1>3, RailsInvStep
<1>5. OnwardInv'
  BY <1>1, <1>2, OnwardInvStep
<1>6. Advance(committed.s, committed.pay, epoch, committed'.s, committed'.pay, epoch')
  BY <1>1, <1>2, CommitsAdvance
<1> QED BY <1>4, <1>5, <1>6 DEF GroundInv

LEMMA GroundInvInit ==
    ASSUME CLIInit
    PROVE  RailsInv /\ OnwardInv
<1>1. Init
  BY DEF CLIInit
<1>2. call = Idle
  BY <1>1 DEF Init
<1> QED BY <1>1, <1>2, RailsInvInit DEF OnwardInv

\* With one payments contract, rails are in time and calls go onward beside the
\* command too.
THEOREM GroundInvariance ==
    ASSUME SingleContract
    PROVE  CLISpec => []GroundInv
<1>1. CLIInit /\ BothInv => GroundInv
  BY GroundInvInit DEF GroundInv
<1>2. SingleContract /\ GroundInv /\ BothInv' /\ [CLINext]_cliVars => GroundInv'
  BY GroundInvStep
<1> QED BY <1>1, <1>2, BothInvariance, PTL DEF CLISpec
----------------------------------------------------------------------------
(* What is due gets settled.                                               *)

\* The rail is settled up to the epoch that is due, or is gone; it could be.
Done(p, d) == p.rails[d[1]].from = ZERO \/ d[2] <= p.rails[d[1]].settledUpTo
Could(p, d, now) == p.rails[d[1]].from = ZERO \/ d[2] <= Reach(p, d[1], now)

AllDone(pays, d) == \A c \in PaymentsContracts : Done(pays[c], d)
AllCould(pays, d, now) == \A c \in PaymentsContracts : Could(pays[c], d, now)

\* What is due is of an activated allocation: the one that was named, or the one
\* at position k of the provider's list.
Owed(c, st, d, a, k) ==
    /\ st.allocationInfos[a].activated
    /\ st.allocationInfos[a].railId = d[1]
    /\ d[2] <= c.untilEpoch
    /\ c.allocationId # 0 => a = c.allocationId
    /\ c.allocationId = 0 =>
          /\ c.providerId \in Providers
          /\ k \in 1 .. Len(st.allocationIdsByProvider[c.providerId])
          /\ st.allocationIdsByProvider[c.providerId][k] = a

\* The transaction settles position k.
Carries(tx, k) == tx.allocationId # 0 \/ tx.batchSize = 0 \/ k \in Covers(tx)

Handled(c, list, k) ==
    \E i \in c.awaited : list[i].run = c.run /\ Carries(list[i], k)

\* The command has waited for a transaction that settles position k when it has
\* come past it, and when it is done.
CarriedOut(c, list, k) ==
    /\ c.at = "done" => Handled(c, list, k)
    /\ c.at \in {"batch", "waitBatch"} =>
          /\ c.allocationId = 0 => k <= c.total
          /\ k <= c.startIndex => Handled(c, list, k)

\* A transaction of the run that settles position k, and succeeded, settled it.
Paid(c, list, pays, d, k) ==
    \A i \in DOMAIN list :
        /\ list[i].run = c.run
        /\ list[i].status = "succeeded"
        /\ Carries(list[i], k)
        => AllDone(pays, d)

DueFor(c, list, st, pays, now, d, a, k) ==
    /\ Owed(c, st, d, a, k)
    /\ CarriedOut(c, list, k)
    /\ AllCould(pays, d, now)
    /\ Paid(c, list, pays, d, k)

AllDue(c, list, st, pays, now) ==
    \A d \in c.due :
        \E a \in AllocationIds, k \in Nat : DueFor(c, list, st, pays, now, d, a, k)

\* Everything that is due could be settled, and is when a transaction that was to
\* settle it succeeded.
DueInv == AllDue(cli, txs, committed.s, committed.pay, epoch)

\* A running settlement is the one its transaction asks for.
CallOf(tx, frame) ==
    /\ tx.allocationId = 0
    /\ frame.ids = frame.saved.s.allocationIdsByProvider[tx.providerId]
    /\ frame.untilEpoch = tx.untilEpoch
    /\ frame.start = FirstPosition(tx.startIndex)
    /\ frame.end = LastPosition(tx.startIndex, tx.batchSize, Len(frame.ids))

CallInv == \A i \in DOMAIN txs : txs[i].status = "running" => CallOf(txs[i], call)

\* Going onward keeps what is settled, and what could be, of a rail there is.
LEMMA DoneOnward ==
    ASSUME NEW now \in Nat, NEW later \in Nat, NEW p, NEW q,
           PaySound(p, now), PaySound(q, later), Onward(p, now, q, later),
           NEW d \in RailIds \X Nat, d[1] < p.nextRailId
    PROVE  /\ Done(p, d) => Done(q, d)
           /\ Could(p, d, now) => Could(q, d, later)
<1>1. PICK r, to : r = d[1] /\ to = d[2]
  OBVIOUS
<1>2. r \in RailIds /\ to \in Nat
  BY <1>1
<1>3. CASE q.rails[r].from = ZERO
  BY <1>1, <1>3 DEF Done, Could
<1>4. CASE q.rails[r].from # ZERO
  <2>1. /\ p.rails[r].from # ZERO
        /\ p.rails[r].settledUpTo <= q.rails[r].settledUpTo
        /\ Reach(p, r, now) <= Reach(q, r, later)
    BY <1>1, <1>2, <1>4 DEF Onward
  <2>2. p.rails[r].settledUpTo \in Nat /\ q.rails[r].settledUpTo \in Nat
    BY <1>2, SoundNumbers
  <2>3. Reach(p, r, now) \in Nat /\ Reach(q, r, later) \in Nat
    BY <1>2, <1>4, <2>1, ReachType
  <2> QED BY <1>1, <1>2, <2>1, <2>2, <2>3 DEF Done, Could
<1> QED BY <1>3, <1>4

\* An activated allocation has a rail of the payments contract.
LEMMA ActivatedRailExists ==
    ASSUME SingleContract, NEW st \in DDOState, NEW pays, InfosSound(st),
           RailInv(st, pays), NEW a \in AllocationIds,
           st.allocationInfos[a].activated
    PROVE  /\ a \in Allocated(st)
           /\ st.paymentsContract \in PaymentsContracts
           /\ st.allocationInfos[a].railId \in RailIds
           /\ \A c \in PaymentsContracts :
                 /\ c = st.paymentsContract
                 /\ st.allocationInfos[a].railId < pays[c].nextRailId
<1>1. a \in Allocated(st)
  BY DEF InfosSound, Allocated
<1>2. /\ st.paymentsContract \in PaymentsContracts
      /\ st.allocationInfos[a].railId \in RailIds
  BY <1>1, AllocatedContract
<1>3. \A c \in PaymentsContracts : c = st.paymentsContract
  BY <1>2 DEF SingleContract
<1>4. st.allocationInfos[a].railId < pays[st.paymentsContract].nextRailId
  BY <1>1 DEF RailInv, RailMapInverse
<1> QED BY <1>1, <1>2, <1>3, <1>4

Dues == RailIds \X Nat

\* A storage and the payments contracts, between transactions.
Consistent(st, pays, now) ==
    /\ st \in DDOState /\ now \in Nat
    /\ InfosSound(st) /\ RailInv(st, pays)
    /\ \A c \in PaymentsContracts : PaySound(pays[c], now)

\* From one committed state to the next, what is due stays due, and what is
\* settled stays settled.
LEMMA OwedAdvance ==
    ASSUME SingleContract, NEW now, NEW later, NEW st, NEW pays, NEW st2, NEW pays2,
           Consistent(st, pays, now), Consistent(st2, pays2, later),
           Advance(st, pays, now, st2, pays2, later),
           NEW command, NEW d \in Dues, NEW a \in AllocationIds,
           NEW k \in Nat, Owed(command, st, d, a, k)
    PROVE  /\ Owed(command, st2, d, a, k)
           /\ AllCould(pays, d, now) => AllCould(pays2, d, later)
           /\ AllDone(pays, d) => AllDone(pays2, d)
<1>0. /\ st \in DDOState /\ st2 \in DDOState /\ now \in Nat /\ later \in Nat
      /\ InfosSound(st) /\ RailInv(st, pays) /\ d \in RailIds \X Nat
      /\ \A c \in PaymentsContracts :
            PaySound(pays[c], now) /\ PaySound(pays2[c], later)
  BY DEF Consistent, Dues
<1>1. st.allocationInfos[a].activated /\ st.allocationInfos[a].railId = d[1]
  BY DEF Owed
<1>2. /\ a \in Allocated(st)
      /\ \A c \in PaymentsContracts : d[1] < pays[c].nextRailId
  BY <1>0, <1>1, ActivatedRailExists
<1>3. st2.allocationInfos[a] = st.allocationInfos[a]
  <2>1. PICK old, new : old = st.allocationInfos[a] /\ new = st2.allocationInfos[a]
    OBVIOUS
  <2>2. Final(old, new)
    BY <1>2, <2>1 DEF Advance, AllFinal
  <2>3. old.activated
    BY <1>1, <2>1
  <2> QED BY <2>1, <2>2, <2>3 DEF Final
<1>4. ASSUME command.allocationId = 0
      PROVE  /\ command.providerId \in Providers
             /\ k \in 1 .. Len(st2.allocationIdsByProvider[command.providerId])
             /\ st2.allocationIdsByProvider[command.providerId][k] = a
  <2>1. PICK p \in Providers : p = command.providerId
    BY <1>4 DEF Owed
  <2>2. PICK old, new : /\ old = st.allocationIdsByProvider[p]
                        /\ new = st2.allocationIdsByProvider[p]
    OBVIOUS
  <2>3. old \in Seq(AllocationIds) /\ Len(old) \in Nat
    BY <1>0, <2>2 DEF DDOState
  <2>4. k \in 1 .. Len(old) /\ old[k] = a
    BY <1>4, <2>1, <2>2 DEF Owed
  <2>5. Len(old) <= Len(new) /\ \A j \in 1 .. Len(old) : new[j] = old[j]
    BY <2>2 DEF Advance, ListsGrow
  <2>6. Len(new) \in Nat
    BY <1>0, <2>2 DEF DDOState
  <2>7. k \in 1 .. Len(new) /\ new[k] = a
    BY <2>3, <2>4, <2>5, <2>6
  <2>8. st2.allocationIdsByProvider[command.providerId] = new
    BY <2>1, <2>2
  <2> QED BY <2>1, <2>7, <2>8
<1>5. Owed(command, st2, d, a, k)
  BY <1>1, <1>3, <1>4 DEF Owed
<1>6. ASSUME NEW c \in PaymentsContracts
      PROVE  /\ Done(pays[c], d) => Done(pays2[c], d)
             /\ Could(pays[c], d, now) => Could(pays2[c], d, later)
  BY <1>0, <1>2, <1>6, DoneOnward DEF Advance, AllOnward
<1> QED BY <1>5, <1>6 DEF AllCould, AllDone

\* What is committed is sound, and so is what the command holds.
Sound ==
    /\ IInv /\ InfoInv /\ TransactionInv /\ SettleInv /\ CLIInv
    /\ epoch \in Nat /\ s \in DDOState /\ committed.s \in DDOState
    /\ InfosSound(committed.s) /\ RailInv(committed.s, committed.pay)
    /\ \A c \in PaymentsContracts :
          PaySound(pay[c], epoch) /\ PaySound(committed.pay[c], epoch)
    /\ cli.due \in SUBSET (RailIds \X Nat)
    /\ cli.awaited \in SUBSET DOMAIN txs

LEMMA GroundSound == GroundInv => Sound
<1> SUFFICES ASSUME GroundInv PROVE Sound
  OBVIOUS
<1>1. /\ IInv /\ InfoInv /\ TransactionInv /\ SettleInv /\ CLIInv
      /\ RailInv(committed.s, committed.pay)
  BY DEF GroundInv, BothInv, RailsInv, AllocationInv
<1>2. /\ epoch \in Nat /\ s \in DDOState /\ committed.s \in DDOState
      /\ \A c \in PaymentsContracts :
            PaySound(pay[c], epoch) /\ PaySound(committed.pay[c], epoch)
  BY <1>1, SoundParts DEF Snapshots
<1>3. cli.due \in SUBSET (RailIds \X Nat) /\ cli.awaited \in SUBSET DOMAIN txs
  BY <1>1, CommandFields DEF CLIInv
<1> QED BY <1>1, <1>2, <1>3 DEF InfoInv, Sound

LEMMA GroundSoundAfter == GroundInv' => Sound'
BY GroundSound, PTL

\* The transaction settles what is due of the positions it carries.
Pays(i, pays) ==
    \A d \in cli.due, a \in AllocationIds, k \in Nat :
        /\ Owed(cli, committed.s, d, a, k)
        /\ AllCould(committed.pay, d, epoch)
        /\ Carries(txs[i], k)
        => AllDone(pays, d)

\* Receipts, and whatever the others do, keep what is due, if a transaction of the
\* run that succeeds settles it.
LEMMA DueAdvance ==
    ASSUME SingleContract, GroundInv, GroundInv', DueInv,
           Advance(committed.s, committed.pay, epoch,
                   committed'.s, committed'.pay, epoch'),
           cli' = cli, DOMAIN txs' = DOMAIN txs,
           \A i \in DOMAIN txs :
               /\ txs'[i].run = txs[i].run
               /\ txs'[i].allocationId = txs[i].allocationId
               /\ txs'[i].startIndex = txs[i].startIndex
               /\ txs'[i].batchSize = txs[i].batchSize,
           \A i \in DOMAIN txs :
               txs[i].run = cli.run /\ txs'[i].status = "succeeded"
                   => txs[i].status = "succeeded" \/ Pays(i, committed'.pay)
    PROVE  DueInv'
<1>1. PICK c, st, pays, now, st2, pays2, later, list, list2 :
          /\ c = cli /\ st = committed.s /\ pays = committed.pay /\ now = epoch
          /\ st2 = committed'.s /\ pays2 = committed'.pay /\ later = epoch'
          /\ list = txs /\ list2 = txs'
  OBVIOUS
<1>2. /\ Consistent(st, pays, now) /\ Consistent(st2, pays2, later)
      /\ c.due \in SUBSET Dues /\ c.awaited \in SUBSET DOMAIN list
  BY <1>1, GroundSound, GroundSoundAfter DEF Sound, Consistent, Dues
<1>3. \A i \in DOMAIN list, k \in Nat : Carries(list2[i], k) <=> Carries(list[i], k)
  BY <1>1 DEF Carries, Covers
<1>4. ASSUME NEW d \in c.due, NEW a \in AllocationIds, NEW k \in Nat,
             DueFor(c, list, st, pays, now, d, a, k)
      PROVE  DueFor(c, list2, st2, pays2, later, d, a, k)
  <2>1. /\ Owed(c, st, d, a, k) /\ CarriedOut(c, list, k)
        /\ AllCould(pays, d, now) /\ Paid(c, list, pays, d, k)
    BY <1>4 DEF DueFor
  <2>2. d \in Dues
    BY <1>2
  <2>3. Advance(st, pays, now, st2, pays2, later)
    BY <1>1
  <2>4. /\ Owed(c, st2, d, a, k)
        /\ AllCould(pays2, d, later)
        /\ AllDone(pays, d) => AllDone(pays2, d)
    BY <1>2, <2>1, <2>2, <2>3, OwedAdvance
  <2>5. CarriedOut(c, list2, k)
    <3>1. Handled(c, list, k) => Handled(c, list2, k)
      BY <1>1, <1>2, <1>3 DEF Handled
    <3> QED BY <2>1, <3>1 DEF CarriedOut
  <2>6. Paid(c, list2, pays2, d, k)
    <3> SUFFICES ASSUME NEW i \in DOMAIN list, list[i].run = c.run,
                        list2[i].status = "succeeded", Carries(list[i], k)
                 PROVE  AllDone(pays2, d)
      BY <1>1, <1>3 DEF Paid
    <3>1. CASE list[i].status = "succeeded"
      BY <2>1, <2>4, <3>1 DEF Paid
    <3>2. CASE Pays(i, pays2)
      BY <1>1, <2>1, <3>2 DEF Pays
    <3> QED BY <1>1, <3>1, <3>2
  <2> QED BY <2>4, <2>5, <2>6 DEF DueFor
<1>5. AllDue(c, list2, st2, pays2, later)
  <2>1. AllDue(c, list, st, pays, now)
    BY <1>1 DEF DueInv
  <2> QED BY <1>4, <2>1 DEF AllDue
<1> QED BY <1>1, <1>5 DEF DueInv

\* A rail that is settled as far as it could be when the settlement began is
\* settled up to what was due.
LEMMA FarDone ==
    ASSUME NEW now \in Nat, NEW p0, NEW p, PaySound(p0, now), PaySound(p, now),
           Forward(p0, p, now), NEW d \in Dues, NEW until \in Nat, d[2] <= until,
           Could(p0, d, now), SettledFar(p0, p, d[1], until, now)
    PROVE  Done(p, d)
<1>1. PICK r, to : r = d[1] /\ to = d[2]
  OBVIOUS
<1>2. r \in RailIds /\ to \in Nat
  BY <1>1 DEF Dues
<1>3. CASE p.rails[r].from = ZERO
  BY <1>1, <1>3 DEF Done
<1>4. CASE p.rails[r].from # ZERO
  <2>1. p0.rails[r].from # ZERO
    BY <1>2, <1>4 DEF Forward
  <2>2. to <= Reach(p0, r, now)
    BY <1>1, <2>1 DEF Could
  <2>3. Reach(p0, r, now) \in Nat
    BY <1>2, <2>1, ReachType
  <2>4. SettleTo(p0, r, until, now) = Min2(until, Reach(p0, r, now))
    BY DEF SettleTo, Reach
  <2>5. /\ SettleTo(p0, r, until, now) \in Nat
        /\ to <= SettleTo(p0, r, until, now)
    BY <1>1, <1>2, <2>2, <2>3, <2>4 DEF Min2
  <2>6. SettleTo(p0, r, until, now) <= p.rails[r].settledUpTo
    BY <1>1, <1>4 DEF SettledFar
  <2>7. p.rails[r].settledUpTo \in Nat
    BY <1>2, SoundNumbers
  <2> QED BY <1>1, <1>2, <2>5, <2>6, <2>7 DEF Done
<1> QED BY <1>3, <1>4

\* The rail of what is due, and its contract.
LEMMA OwedRail ==
    ASSUME SingleContract, NEW st, NEW pays, NEW now, Consistent(st, pays, now),
           NEW command, NEW d, NEW a \in AllocationIds, NEW k, Owed(command, st, d, a, k)
    PROVE  /\ st.allocationInfos[a].activated /\ st.allocationInfos[a].railId = d[1]
           /\ d[1] \in RailIds /\ st.paymentsContract \in PaymentsContracts
           /\ \A c \in PaymentsContracts : c = st.paymentsContract
<1>1. /\ st \in DDOState /\ InfosSound(st) /\ RailInv(st, pays)
      /\ st.allocationInfos[a].activated /\ st.allocationInfos[a].railId = d[1]
  BY DEF Consistent, Owed
<1> QED BY <1>1, ActivatedRailExists

\* SettleSpPayment pays what is due of its allocation.
LEMMA SinglePays ==
    ASSUME SingleContract, GroundInv, NEW i \in DOMAIN txs,
           call = Idle, call' = Idle,
           txs[i].allocationId # 0, txs[i].run = cli.run,
           settleSpPayment(txs[i].allocationId, txs[i].untilEpoch)
    PROVE  Pays(i, committed'.pay)
<1>1. /\ IInv /\ CLIInv /\ committed.s = s /\ committed.pay = pay
      /\ committed'.pay = pay' /\ Consistent(s, pay, epoch) /\ cli.due \in SUBSET Dues
  BY GroundSound DEF Sound, Consistent, Dues, committed, Snapshot
<1>2. PICK tx : tx = txs[i]
  OBVIOUS
<1>3. /\ tx.allocationId = cli.allocationId /\ tx.untilEpoch = cli.untilEpoch
      /\ tx.untilEpoch \in Nat
  <2>1. tx \in TxRecord
    BY <1>1, <1>2, CommandFields DEF CLIInv
  <2> QED BY <1>1, <1>2, <2>1, TxFields DEF CLIInv, Requested, SameRequest
<1>4. ASSUME NEW d \in cli.due, NEW a \in AllocationIds, NEW k \in Nat,
             Owed(cli, s, d, a, k), AllCould(pay, d, epoch)
      PROVE  AllDone(pay', d)
  <2>1. PICK c, until : c = s.paymentsContract /\ until = tx.untilEpoch
    OBVIOUS
  <2>2. /\ s.allocationInfos[a].railId = d[1] /\ c \in PaymentsContracts
        /\ \A e \in PaymentsContracts : e = c
    BY <1>1, <1>4, <2>1, OwedRail
  <2>3. /\ a = tx.allocationId /\ d[2] <= until /\ until \in Nat /\ d \in Dues
    BY <1>1, <1>2, <1>3, <1>4, <2>1 DEF Owed
  <2>4. PICK q : q = SettleRail(pay[c], d[1], until, epoch, Validated(c, d[1], until))
    OBVIOUS
  <2>5. CanSettle(c, d[1], until) /\ pay' = [pay EXCEPT ![c] = q]
    BY <1>2, <2>1, <2>2, <2>3, <2>4 DEF settleSpPayment, Settle
  <2>6. /\ Forward(pay[c], q, epoch) /\ PaySound(q, epoch)
        /\ SettledFar(pay[c], q, d[1], until, epoch)
    BY <1>1, <2>2, <2>3, <2>4, <2>5, SettleReaches
  <2>7. /\ epoch \in Nat /\ PaySound(pay[c], epoch) /\ Could(pay[c], d, epoch)
    BY <1>1, <1>4, <2>2 DEF Consistent, AllCould
  <2>8. Done(q, d)
    BY <2>3, <2>6, <2>7, FarDone
  <2>9. pay'[c] = q
    <3>1. pay \in [PaymentsContracts -> PayState]
      BY <1>1, SoundParts
    <3> QED BY <2>2, <2>5, <3>1
  <2> QED BY <2>2, <2>8, <2>9 DEF AllDone
<1> QED BY <1>1, <1>4 DEF Pays

\* The call that returns pays what is due of the positions its transaction
\* carries.
LEMMA BatchPays ==
    ASSUME SingleContract, GroundInv, CallInv, NEW i \in DOMAIN txs,
           txs[i].status = "running", txs[i].run = cli.run, settleReturn
    PROVE  Pays(i, committed'.pay)
<1>1. /\ IInv /\ CLIInv /\ SettleInv /\ call.fn = "settle" /\ ~settling /\ call # Idle
      /\ committed = call.saved /\ committed'.pay = pay
      /\ Consistent(committed.s, committed.pay, epoch)
      /\ \A c \in PaymentsContracts : PaySound(pay[c], epoch)
      /\ cli.due \in SUBSET Dues
  <2>1. call' = Idle /\ pay' = pay /\ call.fn = "settle" /\ ~settling /\ call # Idle
    BY DEF settleReturn, Idle
  <2> QED BY <2>1, GroundSound DEF Sound, Consistent, Dues, committed, Snapshot
<1>2. PICK tx, frame : tx = txs[i] /\ frame = call
  OBVIOUS
<1>3. /\ CallOf(tx, frame) /\ tx \in TxRecord
      /\ tx.allocationId = cli.allocationId /\ tx.providerId = cli.providerId
      /\ tx.untilEpoch = cli.untilEpoch
      /\ tx.batchSize = 0 => tx.startIndex = 0
  BY <1>1, <1>2, CommandFields DEF CLIInv, Requested, SameRequest, CallInv
<1>4. /\ tx.untilEpoch \in Nat /\ tx.startIndex \in Nat
      /\ tx.batchSize \in {0, BATCH_SIZE} /\ BATCH_SIZE \in Nat \ {0}
  BY <1>3, TxFields, SettleAssumption
<1>5. /\ frame.ids \in Seq(AllocationIds) /\ frame.end \in Nat
      /\ frame.start \in Nat \ {0} /\ frame.i \in Nat \ {0}
      /\ frame.end < frame.i
  BY <1>1, <1>2, SettleFrameType DEF settling
<1>6. PICK st, p0s : st = call.saved.s /\ p0s = call.saved.pay
  OBVIOUS
<1>7. /\ committed.s = st /\ committed.pay = p0s /\ frame.saved.s = st
      /\ Consistent(st, p0s, epoch)
  BY <1>1, <1>2, <1>6
<1>8. ASSUME NEW d \in cli.due, NEW a \in AllocationIds, NEW k \in Nat,
             Owed(cli, st, d, a, k), AllCould(p0s, d, epoch), Carries(tx, k)
      PROVE  AllDone(pay, d)
  <2>1. PICK c, ids : c = st.paymentsContract /\ ids = frame.ids
    OBVIOUS
  <2>2. /\ st.allocationInfos[a].activated /\ st.allocationInfos[a].railId = d[1]
        /\ c \in PaymentsContracts /\ \A e \in PaymentsContracts : e = c
    BY <1>7, <1>8, <2>1, OwedRail
  <2>3. cli.allocationId = 0 /\ tx.allocationId = 0
    BY <1>3 DEF CallOf
  <2>4. ids = st.allocationIdsByProvider[cli.providerId]
    BY <1>3, <1>7, <2>1 DEF CallOf
  <2>5. k \in 1 .. Len(ids) /\ ids[k] = a /\ d[2] <= cli.untilEpoch
    BY <1>8, <2>3, <2>4 DEF Owed
  <2>6. frame.start <= k /\ k <= frame.end
    <3>1. /\ frame.start = tx.startIndex + 1
          /\ frame.end = IF tx.batchSize = 0 THEN Len(ids)
                         ELSE Min2(tx.startIndex + tx.batchSize, Len(ids))
      BY <1>3, <2>1 DEF CallOf, FirstPosition, LastPosition
    <3>2. Len(ids) \in Nat
      BY <1>5, <2>1
    <3>3. CASE tx.batchSize = 0
      BY <1>3, <1>4, <2>5, <3>1, <3>2, <3>3
    <3>4. CASE tx.batchSize # 0
      <4>1. k \in tx.startIndex + 1 .. tx.startIndex + BATCH_SIZE
        BY <1>8, <2>3, <3>4 DEF Carries, Covers
      <4>2. tx.batchSize = BATCH_SIZE
        BY <1>4, <3>4
      <4> QED BY <1>4, <2>5, <3>1, <3>2, <3>4, <4>1, <4>2 DEF Min2
    <3> QED BY <3>3, <3>4
  <2>7. k \in frame.start .. frame.i - 1
    BY <1>5, <2>6
  <2>8. /\ s = st /\ Forward(p0s[c], pay[c], epoch)
        /\ SettledFar(p0s[c], pay[c], d[1], tx.untilEpoch, epoch)
    <3>1. c # ZERO
      BY <1>7, <1>8, <2>1, <2>2 DEF Consistent, Owed, InfosSound
    <3>2. s = st
      BY <1>1, <1>6 DEF SettleInv
    <3>3. Forward(p0s[c], pay[c], epoch)
      BY <1>1, <1>6, <2>1, <3>1, <3>2 DEF SettleInv
    <3>4. call.ids[k] = a /\ call.untilEpoch = tx.untilEpoch
          /\ k \in call.start .. call.i - 1
      BY <1>2, <1>3, <2>1, <2>5, <2>7 DEF CallOf
    <3>5. SettledFar(p0s[c], pay[c], s.allocationInfos[call.ids[k]].railId,
                     call.untilEpoch, epoch)
      BY <1>1, <1>6, <2>1, <2>2, <3>2, <3>4 DEF SettleInv
    <3> QED BY <2>2, <3>2, <3>3, <3>4, <3>5
  <2>9. /\ epoch \in Nat /\ PaySound(p0s[c], epoch) /\ PaySound(pay[c], epoch)
        /\ Could(p0s[c], d, epoch) /\ d \in Dues /\ d[2] <= tx.untilEpoch
    BY <1>1, <1>3, <1>7, <1>8, <2>2, <2>5 DEF Consistent, AllCould
  <2>10. Done(pay[c], d)
    BY <1>4, <2>8, <2>9, FarDone
  <2> QED BY <2>2, <2>10 DEF AllDone
<1> QED BY <1>1, <1>2, <1>7, <1>8 DEF Pays

\* Receipts keep what is due.
LEMMA DueMines ==
    ASSUME SingleContract, GroundInv, GroundInv', CallInv, DueInv,
           Advance(committed.s, committed.pay, epoch,
                   committed'.s, committed'.pay, epoch'),
           NEW i \in DOMAIN txs, NEW status \in Statuses, Mines(i, status)
    PROVE  DueInv'
<1>1. /\ cli' = cli /\ DOMAIN txs' = DOMAIN txs
      /\ txs'[i].status = status
      /\ \A j \in DOMAIN txs \ {i} : txs'[j] = txs[j]
      /\ \A j \in DOMAIN txs : /\ txs'[j].run = txs[j].run
                               /\ txs'[j].allocationId = txs[j].allocationId
                               /\ txs'[j].startIndex = txs[j].startIndex
                               /\ txs'[j].batchSize = txs[j].batchSize
  <2>1. txs \in Seq(TxRecord)
    BY GroundSound, CommandFields DEF Sound, CLIInv
  <2> QED BY <2>1, ReceiptKeeps DEF Mines
<1>2. ASSUME status = "succeeded", txs[i].run = cli.run
      PROVE  Pays(i, committed'.pay)
  <2>1. \/ /\ call = Idle /\ call' = Idle /\ txs[i].allocationId # 0
           /\ settleSpPayment(txs[i].allocationId, txs[i].untilEpoch)
        \/ txs[i].status = "running" /\ settleReturn
    BY <1>2 DEF Mines
  <2> QED BY <1>2, <2>1, SinglePays, BatchPays
<1>3. ASSUME NEW j \in DOMAIN txs, txs[j].run = cli.run, txs'[j].status = "succeeded"
      PROVE  txs[j].status = "succeeded" \/ Pays(j, committed'.pay)
  BY <1>1, <1>2, <1>3
<1> QED BY <1>1, <1>3, DueAdvance

\* The steps of the command leave what is due, and what is paid, as it was.
LEMMA DueKept ==
    ASSUME GroundInv, DueInv, UNCHANGED vars,
           cli'.run = cli.run, cli'.providerId = cli.providerId,
           cli'.allocationId = cli.allocationId,
           cli'.untilEpoch = cli.untilEpoch, cli'.due = cli.due,
           txs' = txs \/ (cli.at \in Sends /\ txs' = Append(txs, NextTx)),
           \A d \in cli.due, a \in AllocationIds, k \in Nat :
               Owed(cli, committed.s, d, a, k) /\ CarriedOut(cli, txs, k)
                   => CarriedOut(cli', txs', k)
    PROVE  DueInv'
<1>1. PICK c, c2, st, pays, now, list, list2 :
          /\ c = cli /\ c2 = cli' /\ st = committed.s /\ pays = committed.pay
          /\ now = epoch /\ list = txs /\ list2 = txs'
  OBVIOUS
<1>2. committed'.s = st /\ committed'.pay = pays /\ epoch' = now
  BY <1>1 DEF vars, committed, Snapshot
<1>3. ASSUME NEW i \in DOMAIN list2, list2[i].status = "succeeded"
      PROVE  i \in DOMAIN list /\ list2[i] = list[i]
  <2>1. CASE txs' = txs
    BY <1>1, <1>3, <2>1
  <2>2. CASE cli.at \in Sends /\ txs' = Append(txs, NextTx)
    <3>1. PICK tx : tx = NextTx
      OBVIOUS
    <3>2. CLIInv /\ txs \in Seq(TxRecord)
      BY GroundSound, CommandFields DEF Sound, CLIInv
    <3>3. tx \in TxRecord /\ tx.status = "pending"
      BY <2>2, <3>1, <3>2, NextTxType DEF CLIInv
    <3>4. /\ DOMAIN txs' = DOMAIN txs \cup {Len(txs')}
          /\ txs'[Len(txs')] = tx
          /\ \A j \in DOMAIN txs : txs'[j] = txs[j]
      BY <2>2, <3>1, <3>2, <3>3, SentKeeps
    <3> QED BY <1>1, <1>3, <3>3, <3>4
  <2> QED BY <2>1, <2>2
<1>4. ASSUME NEW d \in c.due, NEW a \in AllocationIds, NEW k \in Nat,
             DueFor(c, list, st, pays, now, d, a, k)
      PROVE  DueFor(c2, list2, st, pays, now, d, a, k)
  <2>1. /\ Owed(c, st, d, a, k) /\ CarriedOut(c, list, k)
        /\ AllCould(pays, d, now) /\ Paid(c, list, pays, d, k)
    BY <1>4 DEF DueFor
  <2>2. /\ c2.run = c.run /\ c2.providerId = c.providerId
        /\ c2.allocationId = c.allocationId /\ c2.untilEpoch = c.untilEpoch
    BY <1>1
  <2>3. Owed(c2, st, d, a, k)
    BY <2>1, <2>2 DEF Owed
  <2>4. CarriedOut(c2, list2, k)
    BY <1>1, <2>1
  <2>5. Paid(c2, list2, pays, d, k)
    BY <1>3, <2>1, <2>2 DEF Paid
  <2> QED BY <2>1, <2>3, <2>4, <2>5 DEF DueFor
<1>5. AllDue(c, list, st, pays, now) /\ c2.due = c.due
  BY <1>1 DEF DueInv
<1>6. AllDue(c2, list2, st, pays, now)
  BY <1>4, <1>5 DEF AllDue
<1> QED BY <1>1, <1>2, <1>6 DEF DueInv

\* The command passes no position before it has waited for a transaction that
\* settles it.
LEMMA DueMoves ==
    ASSUME GroundInv, DueInv, Command \/ nodeFails \/ interrupt
    PROVE  DueInv'
<1>0. /\ IInv /\ CLIInv /\ cli \in CLIRecord(DOMAIN txs)
      /\ cli.startIndex \in Nat /\ cli.total \in Nat
      /\ cli.awaited \in SUBSET DOMAIN txs /\ BATCH_SIZE \in Nat \ {0}
      /\ CLITypeOK /\ Asked(cli) /\ Awaiting(cli, txs) /\ Requested(cli, txs)
      /\ txs \in Seq(TxRecord)
  BY GroundSound, CommandFields, SettleAssumption DEF Sound, CLIInv
<1>1. Moves
  BY <1>0, CommandMoves
<1>2. ASSUME NEW d \in cli.due, NEW a \in AllocationIds, NEW k \in Nat,
             Owed(cli, committed.s, d, a, k), CarriedOut(cli, txs, k)
      PROVE  CarriedOut(cli', txs', k)
  <2>1. CASE cli'.at \notin {"done", "batch", "waitBatch"}
    BY <2>1 DEF CarriedOut
  <2>2. CASE waitSingle \/ waitAll \/ waitBatch
    <3>1. PICK n : n = Len(txs)
      OBVIOUS
    <3>2. /\ n \in DOMAIN txs /\ txs[n].run = cli.run
          /\ txs[n].startIndex = cli.startIndex
          /\ txs[n].batchSize = IF cli.at = "waitBatch" THEN BATCH_SIZE ELSE 0
          /\ txs' = txs
      BY <1>0, <2>2, <3>1 DEF Awaiting, Waits, waitSingle, waitAll, waitBatch
    <3>3. CASE waitSingle \/ waitAll
      <4>1. /\ cli' = [cli EXCEPT !.at = "done", !.awaited = Await]
            /\ cli.at # "waitBatch"
        BY <3>3 DEF waitSingle, waitAll
      <4>2. cli'.at = "done" /\ cli'.run = cli.run /\ n \in cli'.awaited
        BY <1>0, <3>1, <4>1 DEF CLIRecord, Await
      <4>3. Carries(txs[n], k)
        BY <3>2, <4>1 DEF Carries
      <4> QED BY <3>2, <4>2, <4>3 DEF CarriedOut, Handled
    <3>4. CASE waitBatch
      <4>1. /\ cli' = [cli EXCEPT !.at = "batch", !.startIndex = NextBatch,
                                  !.awaited = Await]
            /\ cli.at = "waitBatch"
        BY <3>4 DEF waitBatch
      <4>2. /\ cli'.at = "batch" /\ cli'.run = cli.run /\ cli'.total = cli.total
            /\ cli'.allocationId = cli.allocationId
            /\ cli'.startIndex = cli.startIndex + BATCH_SIZE
            /\ cli'.awaited = cli.awaited \cup {n}
        BY <1>0, <3>1, <4>1 DEF CLIRecord, Await, NextBatch
      <4>3. /\ cli.allocationId = 0 => k <= cli.total
            /\ k <= cli.startIndex => Handled(cli, txs, k)
        BY <1>2, <4>1 DEF CarriedOut
      <4>4. ASSUME k <= cli.startIndex + BATCH_SIZE
            PROVE  Handled(cli', txs, k)
        <5>1. CASE k <= cli.startIndex
          BY <4>2, <4>3, <5>1 DEF Handled
        <5>2. CASE k > cli.startIndex
          <6>1. k \in Covers(txs[n])
            BY <1>0, <3>2, <4>4, <5>2 DEF Covers
          <6> QED BY <3>2, <4>2, <6>1 DEF Handled, Carries
        <5> QED BY <1>0, <5>1, <5>2
      <4> QED BY <3>2, <4>2, <4>3, <4>4 DEF CarriedOut
    <3> QED BY <2>2, <3>3, <3>4
  <2>3. CASE getAllocationIds
    <3>1. PICK total : total = Len(s.allocationIdsByProvider[cli.providerId])
      OBVIOUS
    <3>2. /\ cli' = [cli EXCEPT !.at = "batch", !.total = total]
          /\ cli.at = "list" /\ call = Idle
      BY <2>3, <3>1 DEF getAllocationIds, Asks
    <3>3. /\ cli'.at = "batch" /\ cli'.total = total
          /\ cli'.allocationId = cli.allocationId /\ cli'.startIndex = cli.startIndex
      BY <1>0, <3>2 DEF CLIRecord
    <3>4. cli.startIndex = 0 /\ cli.allocationId = 0
      BY <1>0, <3>2 DEF Asked
    <3>5. k \in 1 .. total
      BY <1>2, <3>1, <3>2, <3>4 DEF Owed, committed, Snapshot
    <3>6. total \in Nat
      <4>1. cli.providerId \in Providers
        BY <1>2, <3>4 DEF Owed
      <4> QED BY <1>0, <3>1, <4>1, SoundParts DEF DDOState
    <3> QED BY <3>3, <3>4, <3>5, <3>6 DEF CarriedOut
  <2>4. CASE batchesDone
    <3>1. /\ cli' = [cli EXCEPT !.at = "done"] /\ txs' = txs
          /\ cli.at = "batch" /\ cli.startIndex >= cli.total
      BY <2>4 DEF batchesDone, Goto
    <3>2. cli'.at = "done" /\ cli'.run = cli.run /\ cli'.awaited = cli.awaited
      BY <1>0, <3>1 DEF CLIRecord
    <3>3. cli.allocationId = 0
      BY <1>0, <3>1 DEF Asked
    <3>4. k <= cli.total /\ (k <= cli.startIndex => Handled(cli, txs, k))
      BY <1>2, <3>1, <3>3 DEF CarriedOut
    <3>5. Handled(cli, txs, k)
      BY <1>0, <3>1, <3>4
    <3>6. Handled(cli', txs', k)
      BY <3>1, <3>2, <3>5 DEF Handled
    <3> QED BY <3>2, <3>6 DEF CarriedOut
  <2>5. CASE sendBatch /\ cli'.at = "waitBatch"
    <3>1. /\ cli' = [cli EXCEPT !.at = "waitBatch"] /\ txs' = Append(txs, NextTx)
          /\ cli.at = "batch"
      BY <1>0, <2>5 DEF sendBatch, Sent, Goto, CLIRecord
    <3>2. /\ cli'.run = cli.run /\ cli'.awaited = cli.awaited
          /\ cli'.total = cli.total /\ cli'.startIndex = cli.startIndex
          /\ cli'.allocationId = cli.allocationId
      BY <1>0, <3>1 DEF CLIRecord
    <3>3. \A i \in DOMAIN txs : txs'[i] = txs[i]
      <4>1. PICK tx : tx = NextTx
        OBVIOUS
      <4>2. tx \in TxRecord
        BY <1>0, <3>1, <4>1, NextTxType DEF Sends
      <4> QED BY <1>0, <3>1, <4>1, <4>2, SentKeeps
    <3>4. Handled(cli, txs, k) => Handled(cli', txs', k)
      BY <1>0, <3>2, <3>3 DEF Handled
    <3> QED BY <1>2, <2>5, <3>1, <3>2, <3>4 DEF CarriedOut
  <2>6. CASE \/ sendSingle \/ sendAll \/ nodeFails \/ interrupt
             \/ sendBatch /\ cli'.at # "waitBatch"
    <3>1. cli'.at \notin {"done", "batch", "waitBatch"}
      BY <1>0, <2>6
         DEF sendSingle, sendAll, nodeFails, interrupt, sendBatch, Goto, CLIRecord
    <3> QED BY <2>1, <3>1
  <2> QED BY <2>2, <2>3, <2>4, <2>5, <2>6 DEF Command
<1>3. /\ UNCHANGED vars /\ cli'.run = cli.run /\ cli'.providerId = cli.providerId
      /\ cli'.allocationId = cli.allocationId
      /\ cli'.untilEpoch = cli.untilEpoch /\ cli'.due = cli.due
      /\ txs' = txs \/ (cli.at \in Sends /\ txs' = Append(txs, NextTx))
  BY <1>1 DEF Moves
<1> QED BY <1>2, <1>3, DueKept

\* When the command starts, what is due could be settled, and it has sent nothing.
LEMMA DueStarts ==
    ASSUME SingleContract, GroundInv, GroundInv', Execute
    PROVE  DueInv'
<1>1. PICK p \in Providers \cup {0}, named \in AllocationIds \cup {0}, u \in UntilEpochs :
          execute(p, named, u)
  BY DEF Execute
<1>2. PICK until, target, ids :
          /\ until = IF u = 0 THEN epoch ELSE u
          /\ target = IF named # 0 THEN s.allocationInfos[named].provider ELSE p
          /\ ids = IF named # 0 THEN {named} ELSE Listed(p)
  OBVIOUS
<1>3. PICK due : due = Due(ids, until)
  OBVIOUS
<1>4. /\ call = Idle /\ UNCHANGED chainVars /\ txs' = txs
      /\ p # 0 \/ named # 0
      /\ cli' = [run |-> cli.run + 1, at |-> IF named # 0 THEN "single" ELSE "all",
                 providerId |-> p, allocationId |-> named, untilEpoch |-> until,
                 total |-> 0, startIndex |-> 0, awaited |-> {}, due |-> due]
  BY <1>1, <1>2, <1>3 DEF execute, Asks, NotStarted
<1>5. /\ IInv /\ CLIInv /\ Consistent(s, pay, epoch) /\ epoch \in Nat /\ s \in DDOState
      /\ committed'.s = s /\ committed'.pay = pay /\ epoch' = epoch
      /\ \A c \in PaymentsContracts : PaySound(pay[c], epoch)
  <2>1. committed.s = s /\ committed.pay = pay
        /\ committed'.s = s /\ committed'.pay = pay /\ epoch' = epoch
    BY <1>4 DEF chainVars, committed, Snapshot
  <2> QED BY <2>1, GroundSound DEF Sound, Consistent
<1>6. until \in Nat
  BY <1>2, <1>5, SettleAssumption
<1>7. \A i \in DOMAIN txs : txs[i].run # cli.run + 1
  <2>1. cli.run \in Nat /\ \A i \in DOMAIN txs : txs[i] \in TxRecord
    BY <1>5, CommandFields DEF CLIInv
  <2> QED BY <1>5, <2>1, TxFields DEF CLIInv, Requested
<1>8. PICK c2 : c2 = cli'
  OBVIOUS
<1>9. ASSUME NEW d \in due
      PROVE  \E a \in AllocationIds, k \in Nat : DueFor(c2, txs, s, pay, epoch, d, a, k)
  <2>1. PICK c : c = s.paymentsContract
    OBVIOUS
  <2>2. PICK a \in ids :
            /\ s.allocationInfos[a].activated
            /\ RailExists(pay[c], s.allocationInfos[a].railId)
            /\ d = <<s.allocationInfos[a].railId,
                     SettleTo(pay[c], s.allocationInfos[a].railId, until, epoch)>>
    BY <1>3, <1>9, <2>1 DEF Due
  <2>3. PICK r, to : r = s.allocationInfos[a].railId /\ to = d[2]
    OBVIOUS
  <2>4. /\ d[1] = r /\ to = SettleTo(pay[c], r, until, epoch)
        /\ r \in RailIds /\ pay[c].rails[r].from # ZERO
    BY <2>2, <2>3 DEF RailExists
  <2>5. PICK k \in Nat :
            /\ a \in AllocationIds
            /\ named # 0 => a = named
            /\ named = 0 => /\ p \in Providers
                            /\ k \in 1 .. Len(s.allocationIdsByProvider[p])
                            /\ s.allocationIdsByProvider[p][k] = a
    <3>1. CASE named # 0
      BY <1>2, <3>1
    <3>2. CASE named = 0
      <4>1. p \in Providers
        BY <1>4, <3>2
      <4>2. PICK list \in Seq(AllocationIds) : list = s.allocationIdsByProvider[p]
        BY <1>5, <4>1 DEF DDOState
      <4>3. PICK k \in DOMAIN list : a = list[k]
        BY <1>2, <3>2, <4>2 DEF Listed
      <4>4. k \in 1 .. Len(list) /\ k \in Nat /\ a \in AllocationIds
        BY <4>2, <4>3
      <4> QED BY <3>2, <4>1, <4>2, <4>3, <4>4
    <3> QED BY <3>1, <3>2
  <2>6. c \in PaymentsContracts /\ \A x \in PaymentsContracts : x = c
    BY <1>5, <2>1, <2>2, <2>5, ActivatedRailExists DEF Consistent
  <2>7. PICK q : q = pay[c]
    OBVIOUS
  <2>8. Reach(q, r, epoch) \in Nat
    BY <1>5, <2>4, <2>6, <2>7, ReachType
  <2>9. to = Min2(until, Reach(q, r, epoch))
    BY <2>4, <2>7 DEF SettleTo, Reach
  <2>10. to <= until /\ to <= Reach(q, r, epoch)
    BY <1>6, <2>8, <2>9 DEF Min2
  <2>11. Owed(c2, s, d, a, k)
    BY <1>4, <1>8, <2>2, <2>3, <2>4, <2>5, <2>10 DEF Owed
  <2>12. AllCould(pay, d, epoch)
    BY <2>3, <2>4, <2>6, <2>7, <2>10 DEF AllCould, Could
  <2>13. CarriedOut(c2, txs, k)
    BY <1>4, <1>8 DEF CarriedOut
  <2>14. Paid(c2, txs, pay, d, k)
    BY <1>4, <1>7, <1>8 DEF Paid
  <2> QED BY <2>5, <2>11, <2>12, <2>13, <2>14 DEF DueFor
<1>10. AllDue(c2, txs, s, pay, epoch)
  BY <1>4, <1>8, <1>9 DEF AllDue
<1> QED BY <1>4, <1>5, <1>8, <1>10 DEF DueInv

\* The call that runs is its transaction's.
LEMMA CallInvStep ==
    ASSUME GroundInv, CallInv, [CLINext]_cliVars
    PROVE  CallInv'
<1>0. IInv /\ CLIInv /\ txs \in Seq(TxRecord)
  BY GroundSound, CommandFields DEF Sound, CLIInv
<1>1. CASE UNCHANGED <<cli, txs>> /\ (~Mining \/ call' = call)
  BY <1>1 DEF CallInv, Mining
<1>2. CASE mineLoop
  <2>1. call' = [call EXCEPT !.i = @ + 1] /\ txs' = txs /\ call.fn = "settle"
    BY <1>2 DEF mineLoop, settleNext, settleSkip, Continue, settling
  <2>2. call \in SettleFrame
    BY <1>0, <2>1, SettleFrameType
  <2>3. /\ call'.ids = call.ids /\ call'.untilEpoch = call.untilEpoch
        /\ call'.start = call.start /\ call'.end = call.end /\ call'.saved = call.saved
    BY <2>1, <2>2 DEF SettleFrame
  <2> QED BY <2>1, <2>3 DEF CallInv, CallOf
<1>3. CASE Mine /\ ~mineLoop
  <2>1. PICK i \in DOMAIN txs, status \in Statuses : Mines(i, status)
    BY <1>0, <1>3, MineKinds
  <2>2. /\ DOMAIN txs' = DOMAIN txs /\ txs'[i].status = status
        /\ \A j \in DOMAIN txs \ {i} : txs'[j] = txs[j]
        /\ txs'[i].allocationId = txs[i].allocationId
        /\ txs'[i].providerId = txs[i].providerId
        /\ txs'[i].untilEpoch = txs[i].untilEpoch
        /\ txs'[i].startIndex = txs[i].startIndex
        /\ txs'[i].batchSize = txs[i].batchSize
    BY <1>0, <2>1, ReceiptKeeps DEF Mines
  <2>3. ASSUME NEW j \in DOMAIN txs, txs'[j].status = "running"
        PROVE  CallOf(txs'[j], call')
    <3>1. j = i
      <4>1. ASSUME j # i PROVE FALSE
        <5>1. txs[j].status = "running"
          BY <2>2, <2>3, <4>1
        <5>2. ~Mined(j) /\ j \in Nat /\ i \in Nat
          BY <1>0, <5>1 DEF Mined
        <5> QED BY <2>1, <4>1, <5>1, <5>2 DEF Mines
      <4> QED BY <4>1
    <3>2. PICK tx : tx = txs[i]
      OBVIOUS
    <3>3. /\ tx.allocationId = 0
          /\ settleSpTotalPayment(tx.providerId, tx.untilEpoch,
                                  tx.startIndex, tx.batchSize)
      BY <2>1, <2>2, <2>3, <3>1, <3>2 DEF Mines
    <3>4. CallOf(tx, call')
      BY <3>3 DEF CallOf, settleSpTotalPayment, Snapshot
    <3> QED BY <2>2, <3>1, <3>2, <3>4 DEF CallOf
  <2> QED BY <2>2, <2>3 DEF CallInv
<1>4. CASE Command \/ nodeFails \/ interrupt
  <2>1. Moves
    BY <1>0, <1>4, CommandMoves DEF CLIInv
  <2>2. \A i \in DOMAIN txs : txs[i].status # "running"
    BY <1>0, <2>1 DEF Moves, CLIInv, Runs, Idle
  <2>3. CASE txs' = txs
    BY <2>2, <2>3 DEF CallInv
  <2>4. CASE cli.at \in Sends /\ txs' = Append(txs, NextTx)
    <3>1. PICK tx : tx = NextTx
      OBVIOUS
    <3>2. tx \in TxRecord /\ tx.status = "pending"
      BY <1>0, <2>4, <3>1, NextTxType DEF CLIInv
    <3>3. /\ DOMAIN txs' = DOMAIN txs \cup {Len(txs')} /\ txs'[Len(txs')] = tx
          /\ \A i \in DOMAIN txs : txs'[i] = txs[i]
      BY <1>0, <2>4, <3>1, <3>2, SentKeeps
    <3> QED BY <2>2, <3>2, <3>3 DEF CallInv
  <2> QED BY <2>1, <2>3, <2>4 DEF Moves
<1>5. CASE Execute
  <2>1. txs' = txs /\ call' = call
    BY <1>5 DEF Execute, execute, Asks, chainVars
  <2> QED BY <2>1 DEF CallInv
<1>6. CASE Others(Next)
  BY <1>1, <1>6 DEF Others
<1>7. CASE UNCHANGED cliVars
  BY <1>1, <1>7 DEF cliVars
<1> QED BY <1>2, <1>3, <1>4, <1>5, <1>6, <1>7 DEF CLINext

\* Every step keeps what is due.
LEMMA DueInvStep ==
    ASSUME SingleContract, GroundInv, GroundInv', CallInv, DueInv, [CLINext]_cliVars,
           Advance(committed.s, committed.pay, epoch,
                   committed'.s, committed'.pay, epoch')
    PROVE  DueInv'
<1>0. CLIInv
  BY GroundSound DEF Sound
<1>1. CASE UNCHANGED <<cli, txs>>
  BY <1>1, DueAdvance
<1>2. CASE Mine /\ ~mineLoop
  <2>1. PICK i \in DOMAIN txs, status \in Statuses : Mines(i, status)
    BY <1>0, <1>2, MineKinds
  <2> QED BY <2>1, DueMines
<1>3. CASE Command \/ nodeFails \/ interrupt
  BY <1>3, DueMoves
<1>4. CASE Execute
  BY <1>4, DueStarts
<1> QED BY <1>1, <1>2, <1>3, <1>4 DEF CLINext, mineLoop, Others, cliVars

\* What the command is asked to settle could be settled all the while, and is when
\* the transaction that was to settle it succeeds.
THEOREM DueInvariance ==
    ASSUME SingleContract
    PROVE  CLISpec => [](DueInv /\ CallInv)
<1>1. CLIInit => DueInv /\ CallInv
  BY DEF CLIInit, NotStarted, DueInv, AllDue, CallInv
<1>2. /\ SingleContract /\ GroundInv /\ BothInv' /\ GroundInv'
      /\ DueInv /\ CallInv /\ [CLINext]_cliVars
      => DueInv' /\ CallInv'
  BY GroundInvStep, DueInvStep, CallInvStep
<1> QED BY <1>1, <1>2, BothInvariance, GroundInvariance, PTL DEF CLISpec

\* For every list, batch size and order of the transactions in the blocks, with
\* one payments contract: a command that ends without an error, and whose
\* transactions succeeded, has settled every rail it was asked to settle as far as
\* it could be settled when the command began.
THEOREM SettledOnSuccess ==
    ASSUME SingleContract
    PROVE  CLISpec => []SuccessMeansSettled
<1>1. ASSUME SingleContract, GroundInv, DueInv
      PROVE  SuccessMeansSettled
  <2> SUFFICES ASSUME cli.at = "done",
                      \A i \in cli.awaited : txs[i].status = "succeeded",
                      NEW d \in cli.due
               PROVE  SettledTo(d[1], d[2])
    BY DEF SuccessMeansSettled
  <2>1. /\ TransactionInv /\ Consistent(committed.s, committed.pay, epoch)
        /\ epoch \in Nat /\ d \in Dues
        /\ \A c \in PaymentsContracts :
              PaySound(pay[c], epoch) /\ PaySound(committed.pay[c], epoch)
        /\ cli.awaited \in SUBSET DOMAIN txs
    BY <1>1, GroundSound DEF Sound, Consistent, Dues, committed, Snapshot
  <2>2. PICK a \in AllocationIds, k \in Nat :
            DueFor(cli, txs, committed.s, committed.pay, epoch, d, a, k)
    BY <1>1 DEF DueInv, AllDue
  <2>3. /\ Owed(cli, committed.s, d, a, k)
        /\ Handled(cli, txs, k)
        /\ Paid(cli, txs, committed.pay, d, k)
    BY <2>2 DEF DueFor, CarriedOut
  <2>4. AllDone(committed.pay, d)
    BY <2>1, <2>3 DEF Handled, Paid
  <2>5. PICK c : c = s.paymentsContract
    OBVIOUS
  <2>6. c = committed.s.paymentsContract
    BY <2>1, <2>5 DEF TransactionInv, committed, Snapshot
  <2>7. c \in PaymentsContracts /\ d[1] < committed.pay[c].nextRailId
    <3>1. /\ committed.s \in DDOState /\ InfosSound(committed.s)
          /\ RailInv(committed.s, committed.pay)
          /\ committed.s.allocationInfos[a].activated
          /\ committed.s.allocationInfos[a].railId = d[1]
      BY <2>1, <2>3 DEF Consistent, Owed
    <3> QED BY <1>1, <2>6, <3>1, ActivatedRailExists
  <2>8. Done(pay[c], d)
    <3>1. CASE call = Idle
      BY <2>4, <2>7, <3>1 DEF AllDone, committed, Snapshot
    <3>2. CASE call # Idle
      <4>1. Onward(committed.pay[c], epoch, pay[c], epoch)
        BY <1>1, <2>7, <3>2 DEF GroundInv, OnwardInv, AllOnward, committed
      <4>2. d \in RailIds \X Nat
        BY <2>1 DEF Dues
      <4> QED BY <2>1, <2>4, <2>7, <4>1, <4>2, DoneOnward DEF AllDone
    <3> QED BY <3>1, <3>2
  <2>9. PICK to, upTo : to = d[2] /\ upTo = pay[c].rails[d[1]].settledUpTo
    OBVIOUS
  <2>10. to \in Nat /\ upTo \in Nat
    <3>1. d[1] \in RailIds /\ d[2] \in Nat
      BY <2>1 DEF Dues
    <3> QED BY <2>1, <2>7, <2>9, <3>1, SoundNumbers
  <2> QED BY <2>5, <2>8, <2>9, <2>10 DEF Done, SettledTo
<1>2. SingleContract /\ GroundInv /\ DueInv => SuccessMeansSettled
  BY <1>1
<1> QED BY <1>2, GroundInvariance, DueInvariance, PTL

=============================================================================
