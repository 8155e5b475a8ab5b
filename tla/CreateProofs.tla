---------------------------- MODULE CreateProofs ----------------------------
(***************************************************************************)
(* `allocations create-from-file' beside the diamond: its variables have   *)
(* their types, deals are offered for what its transactions created and    *)
(* nothing else, and the payment setup leaves an account and an approval   *)
(* the allocation can be paid from.  The command sends arguments of its    *)
(* own, so the diamond's invariants come from the lemmas about AnyNext.    *)
(***************************************************************************)
EXTENDS TransactionProofs, CreateFromFile

----------------------------------------------------------------------------
(* The list of transactions, whatever they ask for.                        *)

IsTx(tx) ==
    tx = [run |-> tx.run, fn |-> tx.fn, contract |-> tx.contract, arg |-> tx.arg,
          status |-> tx.status, events |-> tx.events]

IsList(list) == \E S : list \in Seq(S)

\* The first m transactions are in blocks, or in the running call: only the
\* last of them can be.
MinedTo(list, m) ==
    /\ m \in 0 .. Len(list)
    /\ \A i \in DOMAIN list :
          /\ i <= m <=> list[i].status # "pending"
          /\ i < m => list[i].status # "running"

ListInv ==
    /\ IsList(txs)
    /\ \A i \in DOMAIN txs : IsTx(txs[i]) /\ txs[i].status \in Statuses
    /\ MinedTo(txs, NextNonce - 1)

LEMMA ListDomain ==
    ASSUME NEW list, IsList(list)
    PROVE  Len(list) \in Nat /\ DOMAIN list = 1 .. Len(list)
BY DEF IsList

\* The next nonce is counted.
LEMMA NonceIs ==
    ASSUME IsList(txs), NEW m, MinedTo(txs, m)
    PROVE  NextNonce = m + 1
<1>1. /\ m \in Nat /\ Len(txs) \in Nat /\ m <= Len(txs)
      /\ DOMAIN txs = 1 .. Len(txs)
  BY ListDomain DEF MinedTo
<1>2. {i \in DOMAIN txs : txs[i].status # "pending"} = 1 .. m
  <2>1. \A i \in DOMAIN txs : i <= m <=> txs[i].status # "pending"
    BY DEF MinedTo
  <2> QED BY <1>1, <2>1
<1>3. Cardinality(1 .. m) = IF 1 > m THEN 0 ELSE m - 1 + 1
  BY <1>1, FS_Interval
<1>4. Cardinality(1 .. m) = m
  BY <1>1, <1>3
<1> QED BY <1>2, <1>4, Zenon DEF NextNonce

LEMMA NonceIsAfter ==
    (IsList(txs) /\ \E m : MinedTo(txs, m))' =>
        (\A m : MinedTo(txs, m) => NextNonce = m + 1)'
<1>1. IsList(txs) /\ (\E m : MinedTo(txs, m)) =>
          \A m : MinedTo(txs, m) => NextNonce = m + 1
  BY NonceIs
<1> QED BY <1>1, PTL

\* The first m of the list afterwards are the ones the next nonce counts.
LEMMA ListIsSound ==
    ASSUME IsList(txs'), NEW m, MinedTo(txs', m),
           \A i \in DOMAIN txs' : IsTx(txs'[i]) /\ txs'[i].status \in Statuses
    PROVE  ListInv' /\ NextNonce' = m + 1
<1>1. NextNonce' = m + 1
  BY NonceIsAfter
<1>2. NextNonce' - 1 = m
  BY <1>1, ListDomain DEF MinedTo
<1> QED BY <1>1, <1>2 DEF ListInv

\* A transaction that is sent comes last.
LEMMA SentKeeps ==
    ASSUME ListInv, NEW tx, IsTx(tx), tx.status = "pending", txs' = Append(txs, tx)
    PROVE  /\ ListInv' /\ NextNonce' = NextNonce
           /\ Len(txs') = Len(txs) + 1 /\ Len(txs) \in Nat
           /\ DOMAIN txs' = DOMAIN txs \cup {Len(txs) + 1}
           /\ \A i \in DOMAIN txs : txs'[i] = txs[i]
           /\ txs'[Len(txs) + 1] = tx
<1>1. PICK S : txs \in Seq(S)
  BY DEF ListInv, IsList
<1>2. txs' \in Seq(S \cup {tx})
  BY <1>1
<1>3. /\ Len(txs') = Len(txs) + 1 /\ Len(txs) \in Nat
      /\ DOMAIN txs = 1 .. Len(txs)
      /\ DOMAIN txs' = DOMAIN txs \cup {Len(txs) + 1}
      /\ \A i \in DOMAIN txs : txs'[i] = txs[i]
      /\ txs'[Len(txs) + 1] = tx
  BY <1>1
<1>4. PICK m : m = NextNonce - 1
  OBVIOUS
<1>5. MinedTo(txs, m)
  BY <1>4 DEF ListInv
<1>6. NextNonce = m + 1
  BY <1>5, NonceIs DEF ListInv
<1>7. MinedTo(txs', m)
  <2>1. m \in 0 .. Len(txs) /\ ~(Len(txs) + 1 <= m) /\ ~(Len(txs) + 1 < m)
    BY <1>3, <1>5 DEF MinedTo
  <2> QED BY <1>3, <1>5, <2>1 DEF MinedTo
<1>8. IsList(txs')
  BY <1>2 DEF IsList
<1>9. \A i \in DOMAIN txs' : IsTx(txs'[i]) /\ txs'[i].status \in Statuses
  BY <1>3 DEF ListInv, Statuses
<1> QED BY <1>3, <1>6, <1>7, <1>8, <1>9, ListIsSound

\* The chain gets to a transaction: the next one, or the one that is running.
Due(i, tx) ==
    \/ i = NextNonce /\ ~Mining /\ tx.status \in Statuses \ {"pending"}
    \/ txs[i].status = "running" /\ tx.status \in {"succeeded", "reverted"}

LEMMA ReceiptKeeps ==
    ASSUME ListInv, NEW i \in DOMAIN txs, NEW tx, IsTx(tx), Due(i, tx),
           txs' = [txs EXCEPT ![i] = tx]
    PROVE  /\ ListInv' /\ NextNonce' = i + 1 /\ NextNonce \in {i, i + 1}
           /\ Len(txs') = Len(txs) /\ DOMAIN txs' = DOMAIN txs
           /\ \A j \in DOMAIN txs : j # i => txs'[j] = txs[j]
           /\ txs'[i] = tx
           /\ \A j \in DOMAIN txs : j # i => txs'[j].status # "running"
<1>1. PICK S : txs \in Seq(S)
  BY DEF ListInv, IsList
<1>2. PICK m : m = NextNonce - 1
  OBVIOUS
<1>3. MinedTo(txs, m) /\ IsList(txs)
  BY <1>2 DEF ListInv
<1>4. /\ NextNonce = m + 1 /\ m \in Nat /\ i \in Nat
      /\ Len(txs) \in Nat /\ DOMAIN txs = 1 .. Len(txs)
  BY <1>3, NonceIs, ListDomain DEF MinedTo
<1>5. txs' \in Seq(S \cup {tx}) /\ Len(txs') = Len(txs) /\ DOMAIN txs' = DOMAIN txs
  <2>1. txs' \in [1 .. Len(txs) -> S \cup {tx}]
    BY <1>1, <1>4
  <2>2. txs' \in Seq(S \cup {tx})
    BY <1>4, <2>1, FunctionIsSeq
  <2>3. DOMAIN txs' = DOMAIN txs
    OBVIOUS
  <2>4. Len(txs') \in Nat /\ DOMAIN txs' = 1 .. Len(txs')
    BY <2>2
  <2>5. Len(txs') = Len(txs)
    BY <1>4, <2>3, <2>4
  <2> QED BY <2>2, <2>3, <2>5
<1>6. /\ \A j \in DOMAIN txs : j # i => txs'[j] = txs[j]
      /\ txs'[i] = tx
  OBVIOUS
<1>7. /\ i \in {m, m + 1} /\ tx.status \in Statuses \ {"pending"}
      /\ \A j \in DOMAIN txs : j # i => txs[j].status # "running"
  <2>1. CASE i = NextNonce /\ ~Mining /\ tx.status \in Statuses \ {"pending"}
    BY <1>4, <2>1 DEF Mining
  <2>2. CASE txs[i].status = "running" /\ tx.status \in {"succeeded", "reverted"}
    <3>1. i <= m /\ ~(i < m)
      BY <1>3, <2>2 DEF MinedTo
    <3>2. \A j \in DOMAIN txs : j # i => txs[j].status # "running"
      <4>1. \A j \in DOMAIN txs : txs[j].status = "running" => j <= m /\ ~(j < m)
        BY <1>3 DEF MinedTo
      <4> QED BY <1>4, <3>1, <4>1
    <3> QED BY <1>4, <2>2, <3>1, <3>2 DEF Statuses
  <2> QED BY <2>1, <2>2 DEF Due
<1>8. MinedTo(txs', i)
  <2>1. i \in 0 .. Len(txs')
    BY <1>4, <1>5
  <2>2. ASSUME NEW j \in DOMAIN txs
        PROVE  /\ j <= i <=> txs'[j].status # "pending"
               /\ j < i => txs'[j].status # "running"
    <3>1. j \in Nat /\ (j <= m <=> txs[j].status # "pending")
      BY <1>3, <1>4 DEF MinedTo
    <3>2. CASE j = i
      BY <1>4, <1>6, <1>7, <3>2
    <3>3. CASE j # i
      BY <1>4, <1>6, <1>7, <3>1, <3>3
    <3> QED BY <3>2, <3>3
  <2> QED BY <2>1, <2>2, <1>5 DEF MinedTo
<1>9. IsList(txs')
  BY <1>5 DEF IsList
<1>10. \A j \in DOMAIN txs' : IsTx(txs'[j]) /\ txs'[j].status \in Statuses
  BY <1>5, <1>6, <1>7 DEF ListInv
<1>11. ListInv' /\ NextNonce' = i + 1
  BY <1>8, <1>9, <1>10, ListIsSound
<1> QED BY <1>4, <1>5, <1>6, <1>7, <1>11

LEMMA ListOrder ==
    ASSUME ListInv
    PROVE  /\ InNonceOrder /\ NextNonce \in Nat /\ NextNonce - 1 \in 0 .. Len(txs)
           /\ Len(txs) \in Nat /\ DOMAIN txs = 1 .. Len(txs)
<1>1. PICK m : m = NextNonce - 1
  OBVIOUS
<1>2. MinedTo(txs, m) /\ IsList(txs)
  BY <1>1 DEF ListInv
<1>3. /\ m \in 0 .. Len(txs) /\ NextNonce = m + 1
      /\ Len(txs) \in Nat /\ DOMAIN txs = 1 .. Len(txs)
  BY <1>2, NonceIs, ListDomain DEF MinedTo
<1>4. ASSUME NEW i \in DOMAIN txs, NEW j \in DOMAIN txs, i < j,
             txs[j].status # "pending"
      PROVE  txs[i].status \in {"succeeded", "reverted"}
  <2>1. j <= m /\ i \in Nat /\ j \in Nat
    BY <1>2, <1>3, <1>4 DEF MinedTo
  <2>2. i < m
    BY <1>3, <1>4, <2>1
  <2>3. txs[i].status # "running" /\ txs[i].status # "pending"
    BY <1>2, <1>3, <2>1, <2>2 DEF MinedTo
  <2> QED BY <2>3 DEF ListInv, Statuses
<1>5. InNonceOrder
  BY <1>4 DEF InNonceOrder, Mined
<1> QED BY <1>1, <1>3, <1>5

----------------------------------------------------------------------------
(* The steps of the command.                                               *)

Offers == {"store", "upload", "finalize"}

Waits == DOMAIN AfterWait \cup {"waitRequest"}

Places == Ended \cup Sends \cup Waits \cup Offers \cup
          {"costs", "price", "lockup", "account", "balance", "allowance", "approval"}

CommandRecord ==
    [run: Nat, at: Places, contract: PaymentsContracts \cup {ZERO},
     piece: PieceInfo \cup {NoPiece}, setup: BOOLEAN, curio: BOOLEAN,
     cost: Nat, price: Nat, lockup: Nat, account: Account, approval: Approval,
     seen: Nat, receipt: Nat, i: Nat \ {0}]

\* Where each step leads.
Leads(a, b) ==
    \/ b = "failed"
    \/ a = "costs" /\ b = "price"
    \/ a = "price" /\ b = "lockup"
    \/ a = "lockup" /\ b = "account"
    \/ a = "account" /\ b \in {"balance", "approval"}
    \/ a = "balance" /\ b = "allowance"
    \/ a = "allowance" /\ b \in {"approve", "deposit"}
    \/ a = "approve" /\ b = "waitApprove"
    \/ a = "waitApprove" /\ b = "deposit"
    \/ a = "deposit" /\ b = "waitDeposit"
    \/ a = "waitDeposit" /\ b = "approval"
    \/ a = "approval" /\ b \in {"setOperatorApproval", "request"}
    \/ a = "setOperatorApproval" /\ b = "waitApproval"
    \/ a = "waitApproval" /\ b = "request"
    \/ a = "request" /\ b = "waitRequest"
    \/ a = "waitRequest" /\ b \in {"store", "done"}
    \/ a = "store" /\ b \in {"upload", "done"}
    \/ a = "upload" /\ b = "finalize"
    \/ a = "finalize" /\ b = "store"

UsersAccount == pay[cmd.contract].accounts[UserKey]
UsersApproval == pay[cmd.contract].approvals[UserKey]

\* The command goes on: c is what it was, d what it is then.
Learns(c, d) ==
    /\ d.run = c.run /\ d.contract = c.contract /\ d.piece = c.piece
    /\ d.setup = c.setup /\ d.curio = c.curio
    /\ \/ d.cost = c.cost
       \/ /\ c.at = "costs" /\ CanCalculateStorageCost(c.piece)
          /\ d.cost = StorageCost(c.piece)
    /\ \/ d.price = c.price
       \/ /\ c.at = "price"
          /\ supportsToken(c.piece.provider, c.piece.paymentTokenAddress)
          /\ d.price = SPPrice(c.piece.provider, c.piece.paymentTokenAddress)
    /\ \/ d.lockup = c.lockup
       \/ c.at = "lockup" /\ d.lockup = s.allocationLockupAmount
    /\ \/ d.account = c.account
       \/ c.at = "account" /\ d.account = UsersAccount
    /\ \/ d.approval = c.approval /\ d.seen = c.seen
       \/ c.at = "approval" /\ d.approval = UsersApproval /\ d.seen = NextNonce - 1
    /\ \/ d.receipt = c.receipt
       \/ c.at = "waitRequest" /\ Waited /\ d.receipt = Len(txs)
    /\ \/ d.i = c.i
       \/ c.at = "finalize" /\ d.at = "store" /\ d.i = c.i + 1

\* What was found out by the way taken.
Decides(c, d) ==
    /\ c.at = "account" /\ d.at # "failed" =>
          /\ d.account = UsersAccount
          /\ d.at = "balance" <=> Missing(UsersAccount) > 0
    /\ c.at = "approval" /\ d.at # "failed" =>
          /\ d.approval = UsersApproval /\ d.seen = NextNonce - 1
          /\ d.at = "request" <=> Suffices(UsersApproval)
    /\ c.at = "waitRequest" /\ d.at = "store" =>
          c.curio /\ Waited /\ d.receipt = Len(txs) /\ txs[Len(txs)].events # <<>>
    /\ c.at = "waitRequest" /\ d.at = "done" => ~c.curio \/ d.receipt = c.receipt
    /\ c.at = "store" => (d.at = "done" <=> d.at # "failed" /\ ~(c.i <= Len(Created)))
    /\ c.at = "finalize" /\ d.at = "store" => d.i = c.i + 1

Goes ==
    /\ cmd.at \notin Ended /\ Leads(cmd.at, cmd'.at)
    /\ Learns(cmd, cmd') /\ Decides(cmd, cmd')

LEMMA Moves ==
    ASSUME cmd \in CommandRecord, NEW x,
           cmd' = [cmd EXCEPT !.at = x], cmd.at \notin Ended, Leads(cmd.at, x),
           Decides(cmd, cmd')
    PROVE  Goes
<1>1. /\ cmd'.at = x
      /\ cmd'.run = cmd.run /\ cmd'.contract = cmd.contract /\ cmd'.piece = cmd.piece
      /\ cmd'.setup = cmd.setup /\ cmd'.curio = cmd.curio
      /\ cmd'.cost = cmd.cost /\ cmd'.price = cmd.price /\ cmd'.lockup = cmd.lockup
      /\ cmd'.account = cmd.account /\ cmd'.approval = cmd.approval
      /\ cmd'.seen = cmd.seen /\ cmd'.receipt = cmd.receipt /\ cmd'.i = cmd.i
  BY DEF CommandRecord
<1> QED BY <1>1 DEF Goes, Learns

\* Every step of the command, of a failed request and of an interrupt.
LEMMA CommandGoes ==
    ASSUME cmd \in CommandRecord, Command \/ requestFails \/ interrupt
    PROVE  Goes
<1> USE DEF Ended, Leads
<1>1. ASSUME NEW x, Goto(x)
      PROVE  /\ cmd' = [cmd EXCEPT !.at = x] /\ cmd'.at = x
             /\ cmd'.receipt = cmd.receipt
  BY <1>1 DEF Goto, CommandRecord
<1>0. ASSUME cmd.at \in DOMAIN AfterWait
      PROVE  /\ Leads(cmd.at, AfterWait[cmd.at]) /\ cmd.at \notin Ended
             /\ cmd.at \notin {"account", "approval", "waitRequest", "store", "finalize"}
  <2>1. cmd.at \in {"waitApprove", "waitDeposit", "waitApproval"}
    BY <1>0 DEF AfterWait
  <2> QED BY <2>1 DEF AfterWait
<1>2. CASE interrupt
  <2>1. Goto("failed") /\ cmd.at \notin Ended
    BY <1>2 DEF interrupt
  <2> QED BY <1>1, <2>1, Moves DEF Decides
<1>3. CASE requestFails
  <2>1. /\ cmd.at \notin Ended
        /\ Goto(IF cmd.at \in DOMAIN AfterWait THEN AfterWait[cmd.at]
                ELSE IF cmd.at = "waitRequest" THEN "done" ELSE "failed")
    BY <1>3 DEF requestFails
  <2>2. CASE cmd.at \in DOMAIN AfterWait
    <3>1. Goto(AfterWait[cmd.at])
      BY <2>1, <2>2
    <3> HIDE DEF Leads, Ended
    <3> QED BY <1>0, <1>1, <2>2, <3>1, Moves DEF Decides
  <2>3. CASE cmd.at = "waitRequest"
    <3>1. Goto("done")
      BY <2>1, <2>3 DEF AfterWait
    <3> QED BY <1>1, <2>1, <2>3, <3>1, Moves DEF Decides
  <2>4. CASE cmd.at \notin DOMAIN AfterWait /\ cmd.at # "waitRequest"
    <3>1. Goto("failed")
      BY <2>1, <2>4
    <3> QED BY <1>1, <2>1, <2>4, <3>1, Moves DEF Decides
  <2> QED BY <2>2, <2>3, <2>4
<1>4. CASE calculateStorageCost
  <2>1. CASE Goto("failed")
    BY <1>1, <1>4, <2>1, Moves DEF calculateStorageCost, Reads, Decides
  <2>2. CASE /\ CanCalculateStorageCost(cmd.piece)
             /\ cmd' = [cmd EXCEPT !.at = "price", !.cost = StorageCost(cmd.piece)]
    BY <1>4, <2>2 DEF calculateStorageCost, Reads, Goes, Learns, Decides, CommandRecord
  <2> QED BY <1>4, <2>1, <2>2 DEF calculateStorageCost
<1>5. CASE getAndValidateSPPrice
  <2>1. CASE Goto("failed")
    BY <1>1, <1>5, <2>1, Moves DEF getAndValidateSPPrice, Reads, Decides
  <2>2. CASE /\ supportsToken(cmd.piece.provider, cmd.piece.paymentTokenAddress)
             /\ cmd' = [cmd EXCEPT
                    !.at = "lockup",
                    !.price = SPPrice(cmd.piece.provider, cmd.piece.paymentTokenAddress)]
    BY <1>5, <2>2 DEF getAndValidateSPPrice, Reads, Goes, Learns, Decides, CommandRecord
  <2> QED BY <1>5, <2>1, <2>2 DEF getAndValidateSPPrice
<1>6. CASE getAllocationLockupAmount
  BY <1>6 DEF getAllocationLockupAmount, Reads, Goes, Learns, Decides, CommandRecord
<1>7. CASE getAccount
  BY <1>7 DEF getAccount, Reads, Goes, Learns, Decides, CommandRecord, UsersAccount
<1>8. CASE getBalance
  <2>1. PICK x \in {"failed", "allowance"} : Goto(x)
    BY <1>8 DEF getBalance
  <2> QED BY <1>1, <1>8, <2>1, Moves DEF getBalance, Reads, Decides
<1>9. CASE getAllowance
  <2>1. PICK x \in {"deposit", "approve"} : Goto(x)
    BY <1>9 DEF getAllowance
  <2> QED BY <1>1, <1>9, <2>1, Moves DEF getAllowance, Reads, Decides
<1>10. CASE sendApprove
  <2>1. PICK x \in {"failed", "waitApprove"} : Goto(x)
    BY <1>10 DEF sendApprove, SendsThen
  <2> QED BY <1>1, <1>10, <2>1, Moves DEF sendApprove, SendsThen, Decides
<1>11. CASE sendDeposit
  <2>1. PICK x \in {"failed", "waitDeposit"} : Goto(x)
    BY <1>11 DEF sendDeposit, SendsThen
  <2> QED BY <1>1, <1>11, <2>1, Moves DEF sendDeposit, SendsThen, Decides
<1>12. CASE sendOperatorApproval
  <2>1. PICK x \in {"failed", "waitApproval"} : Goto(x)
    BY <1>12 DEF sendOperatorApproval, SendsThen
  <2> QED BY <1>1, <1>12, <2>1, Moves DEF sendOperatorApproval, SendsThen, Decides
<1>13. CASE sendRequest
  <2>1. PICK x \in {"failed", "waitRequest"} : Goto(x)
    BY <1>13 DEF sendRequest, SendsThen
  <2> QED BY <1>1, <1>13, <2>1, Moves DEF sendRequest, SendsThen, Decides
<1>14. CASE getOperatorApproval
  BY <1>14 DEF getOperatorApproval, Reads, Goes, Learns, Decides, CommandRecord,
               UsersApproval
<1>15. CASE waitForTransaction
  <2>1. cmd.at \in DOMAIN AfterWait /\ Goto(AfterWait[cmd.at])
    BY <1>15 DEF waitForTransaction
  <2> HIDE DEF Leads, Ended
  <2> QED BY <1>0, <1>1, <2>1, Moves DEF Decides
<1>16. CASE waitForReceipt
  BY <1>16 DEF waitForReceipt, Reads, Goes, Learns, Decides, CommandRecord, EventsFound
<1>17. CASE store
  <2>1. CASE cmd.i <= Len(Created)
    BY <1>1, <1>17, <2>1, Moves DEF store, Decides
  <2>2. CASE ~(cmd.i <= Len(Created))
    BY <1>1, <1>17, <2>2, Moves DEF store, Decides
  <2> QED BY <2>1, <2>2
<1>18. CASE uploadSerial
  BY <1>1, <1>18, Moves DEF uploadSerial, Decides
<1>19. CASE uploadSerialFinalize
  BY <1>19 DEF uploadSerialFinalize, Goes, Learns, Decides, CommandRecord
<1> QED BY <1>2, <1>3, <1>4, <1>5, <1>6, <1>7, <1>8, <1>9, <1>10, <1>11, <1>12,
           <1>13, <1>14, <1>15, <1>16, <1>17, <1>18, <1>19 DEF Command

\* What is sent, and what the Curio service is offered, on the way.
ListGoes ==
    \/ txs' = txs /\ (cmd.at \in Sends => cmd'.at = "failed")
    \/ cmd.at \in Sends /\ Estimates(NextTx) /\ txs' = Append(txs, NextTx)

DealsGo ==
    \/ /\ deals' = deals
       /\ cmd.at \in {"upload", "finalize"} => cmd'.at = "failed"
       /\ ~(cmd.at = "store" /\ cmd'.at = "upload")
    \/ cmd.at = "store" /\ cmd.i <= Len(Created) /\ Stored /\ cmd'.at # "done"
    \/ cmd.at = "upload" /\ Advanced("uploaded")
    \/ cmd.at = "finalize" /\ Advanced("finalized")

LEMMA CommandAsks ==
    ASSUME cmd \in CommandRecord, Command \/ requestFails \/ interrupt
    PROVE  /\ call = Idle /\ UNCHANGED <<s, pay, epoch, call, wallet>>
           /\ ListGoes /\ DealsGo
<1> DEFINE Chain == call = Idle /\ UNCHANGED <<s, pay, epoch, call, wallet>>
<1>1. ASSUME NEW x, Goto(x)
      PROVE  cmd'.at = x
  BY <1>1 DEF Goto, CommandRecord
<1>2. ASSUME NEW x, Reads(x), x \notin Sends \cup Offers
      PROVE  Chain /\ ListGoes /\ DealsGo
  BY <1>2 DEF Reads, Asks, ListGoes, DealsGo, Offers
<1>3. ASSUME NEW x \in Sends, NEW y, SendsThen(x, y)
      PROVE  Chain /\ ListGoes /\ DealsGo
  <2>1. /\ Chain /\ cmd.at = x /\ deals' = deals
        /\ \/ Estimates(NextTx) /\ txs' = Append(txs, NextTx)
           \/ txs' = txs /\ cmd'.at = "failed"
    BY <1>1, <1>3 DEF SendsThen, Asks, Sent, Refused
  <2> QED BY <2>1 DEF ListGoes, DealsGo, Sends
<1>4. CASE \/ calculateStorageCost \/ getAndValidateSPPrice
           \/ getAllocationLockupAmount \/ getAccount
           \/ getBalance \/ getAllowance \/ getOperatorApproval
           \/ waitForReceipt
  BY <1>2, <1>4
     DEF calculateStorageCost, getAndValidateSPPrice, getAllocationLockupAmount,
         getAccount, getBalance, getAllowance, getOperatorApproval, waitForReceipt,
         Sends, Offers
<1>5. CASE waitForTransaction
  <2>1. cmd.at \in {"waitApprove", "waitDeposit", "waitApproval"} /\ Reads(cmd.at)
    BY <1>5 DEF waitForTransaction, AfterWait
  <2> QED BY <1>2, <2>1 DEF Sends, Offers
<1>6. CASE sendApprove \/ sendDeposit \/ sendOperatorApproval \/ sendRequest
  BY <1>3, <1>6
     DEF sendApprove, sendDeposit, sendOperatorApproval, sendRequest, Sends
<1>7. CASE store
  <2>1. Chain /\ txs' = txs /\ cmd.at = "store"
    BY <1>7 DEF store, Curio, Asks
  <2>2. \/ cmd.i <= Len(Created) /\ Stored /\ cmd'.at = "upload"
        \/ deals' = deals /\ cmd'.at = "done"
    BY <1>1, <1>7 DEF store
  <2> QED BY <2>1, <2>2 DEF ListGoes, DealsGo, Sends
<1>8. CASE uploadSerial
  BY <1>8 DEF uploadSerial, Curio, Asks, ListGoes, DealsGo, Sends
<1>9. CASE uploadSerialFinalize
  BY <1>9 DEF uploadSerialFinalize, Curio, Asks, ListGoes, DealsGo, Sends
<1>10. CASE interrupt
  <2>1. cmd'.at = "failed" /\ Chain /\ txs' = txs /\ deals' = deals
    BY <1>1, <1>10 DEF interrupt, Asks
  <2> QED BY <2>1 DEF ListGoes, DealsGo
<1>11. CASE requestFails
  <2>1. Chain /\ (cmd.at = "store" => cmd.i <= Len(Created))
    BY <1>11 DEF requestFails, Asks
  <2>2. cmd.at \in Sends \cup Offers => cmd'.at = "failed"
    <3>1. ASSUME cmd.at \in Sends \cup Offers
          PROVE  Goto("failed")
      <4>1. cmd.at \notin DOMAIN AfterWait /\ cmd.at # "waitRequest"
        BY <3>1 DEF Sends, Offers, AfterWait
      <4> QED BY <1>11, <4>1 DEF requestFails
    <3> QED BY <1>1, <3>1
  <2>3. \/ txs' = txs /\ deals' = deals
        \/ cmd.at \in Sends /\ Sent /\ deals' = deals
        \/ cmd.at = "store" /\ Stored /\ txs' = txs
        \/ cmd.at = "upload" /\ Advanced("uploaded") /\ txs' = txs
        \/ cmd.at = "finalize" /\ Advanced("finalized") /\ txs' = txs
    BY <1>11 DEF requestFails
  <2>4. ListGoes
    BY <2>2, <2>3 DEF Sent, ListGoes
  <2>5. DealsGo
    BY <2>1, <2>2, <2>3 DEF DealsGo, Sends, Offers
  <2> QED BY <2>1, <2>4, <2>5
<1> QED BY <1>4, <1>5, <1>6, <1>7, <1>8, <1>9, <1>10, <1>11 DEF Command

IsCommand(c) ==
    c = [run |-> c.run, at |-> c.at, contract |-> c.contract, piece |-> c.piece,
         setup |-> c.setup, curio |-> c.curio, cost |-> c.cost, price |-> c.price,
         lockup |-> c.lockup, account |-> c.account, approval |-> c.approval,
         seen |-> c.seen, receipt |-> c.receipt, i |-> c.i]

LEMMA StaysCommand ==
    ASSUME cmd \in CommandRecord, Command \/ requestFails \/ interrupt
    PROVE  IsCommand(cmd')
<1>1. ASSUME NEW x, Goto(x)
      PROVE  IsCommand(cmd')
  BY <1>1 DEF Goto, CommandRecord, IsCommand
<1>2. CASE interrupt
  BY <1>1, <1>2 DEF interrupt
<1>3. CASE requestFails
  <2> DEFINE x == IF cmd.at \in DOMAIN AfterWait THEN AfterWait[cmd.at]
                  ELSE IF cmd.at = "waitRequest" THEN "done" ELSE "failed"
  <2>1. Goto(x)
    BY <1>3 DEF requestFails
  <2> HIDE DEF x
  <2> QED BY <1>1, <2>1, Zenon
<1>4. CASE calculateStorageCost
  <2>1. CASE cmd' = [cmd EXCEPT !.at = "price", !.cost = StorageCost(cmd.piece)]
    BY <2>1 DEF CommandRecord, IsCommand
  <2> QED BY <1>1, <1>4, <2>1 DEF calculateStorageCost
<1>5. CASE getAndValidateSPPrice
  <2>1. CASE \E p : cmd' = [cmd EXCEPT !.at = "lockup", !.price = p]
    BY <2>1 DEF CommandRecord, IsCommand
  <2> QED BY <1>1, <1>5, <2>1, Zenon DEF getAndValidateSPPrice
<1>6. CASE getAllocationLockupAmount
  BY <1>6 DEF getAllocationLockupAmount, CommandRecord, IsCommand
<1>7. CASE getAccount
  BY <1>7 DEF getAccount, CommandRecord, IsCommand
<1>8. CASE getBalance \/ getAllowance \/ waitForTransaction
  BY <1>1, <1>8, Zenon DEF getBalance, getAllowance, waitForTransaction
<1>9. CASE sendApprove \/ sendDeposit \/ sendOperatorApproval \/ sendRequest
  BY <1>1, <1>9, Zenon
     DEF sendApprove, sendDeposit, sendOperatorApproval, sendRequest, SendsThen
<1>10. CASE getOperatorApproval
  BY <1>10 DEF getOperatorApproval, CommandRecord, IsCommand
<1>11. CASE waitForReceipt
  BY <1>11 DEF waitForReceipt, CommandRecord, IsCommand
<1>12. CASE store \/ uploadSerial
  BY <1>1, <1>12, Zenon DEF store, uploadSerial
<1>13. CASE uploadSerialFinalize
  BY <1>13 DEF uploadSerialFinalize, CommandRecord, IsCommand
<1> QED BY <1>2, <1>3, <1>4, <1>5, <1>6, <1>7, <1>8, <1>9, <1>10, <1>11, <1>12,
           <1>13 DEF Command

----------------------------------------------------------------------------
(* What is known of the command and of its transactions.                   *)

TxTyped(tx) ==
    /\ tx.run \in 1 .. MaxRuns /\ tx.contract \in PaymentsContracts
    /\ tx.events \in Seq(AllocationIds)
    /\ tx.fn \in {"approve", "deposit"} =>
          tx.arg \in [key: Clients \X Tokens, amount: Nat]
    /\ tx.fn = "setOperatorApproval" =>
          tx.arg \in [key: Clients \X Tokens, limits: ApprovalLimits]
    /\ tx.fn = "createAllocationRequests" => tx.arg \in PieceInfo

TxsTyped == \A i \in DOMAIN txs : TxTyped(txs[i]) /\ txs[i].run <= cmd.run

\* Where the command goes on only because something is missing.
Deficient == {"balance", "allowance", "approve", "waitApprove", "deposit"}

\* What the command c, and the list it sends, are like at each place.
Fits(c, list) ==
    /\ c \in CommandRecord /\ c.run <= MaxRuns
    /\ c.at \notin Ended =>
          c.run # 0 /\ c.contract \in PaymentsContracts /\ c.piece \in PieceInfo
    /\ c.at \in Waits => list # <<>> /\ list[Len(list)].run = c.run
    /\ c.receipt # 0 =>
          /\ c.receipt \in DOMAIN list /\ list[c.receipt].run = c.run
          /\ list[c.receipt].status \in {"succeeded", "reverted"}
          /\ c.at \in Offers \cup {"done", "failed"}
    /\ c.at \in Offers =>
          c.curio /\ c.receipt # 0 /\ list[c.receipt].events # <<>>
    /\ c.at \in {"upload", "finalize"} => c.i <= Len(list[c.receipt].events)

\* A creation of the command is the running call.
RunsCreation == Mining => call.fn = "create" /\ call.client = User

CommandInv ==
    /\ ListInv /\ TxsTyped /\ Fits(cmd, txs) /\ RunsCreation
    /\ cmd.seen <= NextNonce - 1
    /\ cmd.at \in Deficient => Deficit > 0
    /\ wallet \in WalletState

----------------------------------------------------------------------------
(* The steps of the system.                                                *)

Asking == call = Idle /\ UNCHANGED <<s, pay, epoch, call, wallet>>

CommandStep == Goes /\ IsCommand(cmd') /\ ListGoes /\ DealsGo /\ Asking

\* The chain gets to the transaction at i, which is tx then.
Mines(i, tx) ==
    /\ i \in DOMAIN txs /\ txs' = [txs EXCEPT ![i] = tx]
    /\ UNCHANGED <<cmd, deals>>
    /\ Due(i, tx) /\ IsTx(tx)
    /\ tx.run = txs[i].run /\ tx.fn = txs[i].fn
    /\ tx.contract = txs[i].contract /\ tx.arg = txs[i].arg
    /\ \/ tx.events = txs[i].events
       \/ /\ txs[i].status = "running" /\ tx.status = "succeeded"
          /\ createReturn /\ tx.events = call.newAllocations
    /\ tx.status = "running" => call'.fn = "create" /\ call'.client = User

\* What becomes of the chain and of the wallet, by the transaction's kind.
Effects(i, tx) ==
    \/ tx.status = "reverted" /\ UNCHANGED <<s, pay, epoch, call, wallet>>
    \/ /\ tx.fn = "approve" /\ tx.status = "succeeded"
       /\ UNCHANGED <<s, pay, epoch, call>>
       /\ approve(tx.contract, tx.arg.key[2], tx.arg.amount)
    \/ /\ tx.fn = "deposit" /\ tx.status = "succeeded"
       /\ AnyDeposit(tx.contract, tx.arg.key, tx.arg.amount)
       /\ transferFrom(tx.contract, tx.arg.key[2], tx.arg.amount)
    \/ /\ tx.fn = "setOperatorApproval" /\ tx.status = "succeeded"
       /\ setOperatorApproval(tx.contract, tx.arg.key, tx.arg.limits)
       /\ UNCHANGED wallet
    \/ /\ tx.fn = "createAllocationRequests" /\ tx.status = "running"
       /\ \E ids \in Answers : createAllocationRequests(User, <<tx.arg>>, ids)
       /\ UNCHANGED wallet
    \/ /\ Mining /\ UNCHANGED wallet
       /\ createReturn \/ createRevert

\* Everybody else, the loop of the running creation among them.
Aside ==
    /\ UNCHANGED <<txs, cmd, wallet, deals>>
    /\ [AnyNext]_vars
    /\ ~Mining \/ createAllocation \/ UNCHANGED vars

\* A receipt is all that changes of a transaction.
LEMMA ReceiptIs ==
    ASSUME NEW i \in DOMAIN txs, IsTx(txs[i]), NEW status, Receipt(i, status)
    PROVE  \E tx : /\ txs' = [txs EXCEPT ![i] = tx] /\ IsTx(tx)
                   /\ tx.status = status
                   /\ tx.run = txs[i].run /\ tx.fn = txs[i].fn
                   /\ tx.contract = txs[i].contract /\ tx.arg = txs[i].arg
                   /\ tx.events = txs[i].events
<1>1. PICK tx : tx = [txs[i] EXCEPT !.status = status]
  OBVIOUS
<1>2. txs' = [txs EXCEPT ![i] = tx]
  BY <1>1 DEF Receipt
<1>3. /\ IsTx(tx) /\ tx.status = status
      /\ tx.run = txs[i].run /\ tx.fn = txs[i].fn
      /\ tx.contract = txs[i].contract /\ tx.arg = txs[i].arg
      /\ tx.events = txs[i].events
  BY <1>1 DEF IsTx
<1> QED BY <1>2, <1>3

\* A step of the chain that is about the command's transactions.
LEMMA MineIs ==
    ASSUME ListInv, RunsCreation, IInv, mine \/ mineReturn \/ mineRevert
    PROVE  \E i, tx : Mines(i, tx) /\ Effects(i, tx)
<1>0. \A i \in DOMAIN txs : IsTx(txs[i])
  BY DEF ListInv
<1>1. CASE mine
  <2>1. PICK i : i = NextNonce
    OBVIOUS
  <2>2. /\ call = Idle /\ i \in DOMAIN txs /\ UNCHANGED <<cmd, deals>>
        /\ \/ minePayment(i)
           \/ mineRequest(i)
           \/ Receipt(i, "reverted") /\ UNCHANGED <<s, pay, epoch, call, wallet>>
    BY <1>1, <2>1, Zenon DEF mine
  <2>3. ~Mining
    BY <2>2 DEF RunsCreation, Idle
  <2>4. CASE Receipt(i, "reverted") /\ UNCHANGED <<s, pay, epoch, call, wallet>>
    <3>1. PICK tx : /\ txs' = [txs EXCEPT ![i] = tx] /\ IsTx(tx)
                    /\ tx.status = "reverted"
                    /\ tx.run = txs[i].run /\ tx.fn = txs[i].fn
                    /\ tx.contract = txs[i].contract /\ tx.arg = txs[i].arg
                    /\ tx.events = txs[i].events
      BY <1>0, <2>2, <2>4, ReceiptIs
    <3>2. Mines(i, tx)
      BY <2>1, <2>2, <2>3, <3>1 DEF Mines, Due, Statuses
    <3>3. Effects(i, tx)
      BY <2>4, <3>1 DEF Effects
    <3> QED BY <3>2, <3>3
  <2>5. CASE minePayment(i)
    <3>1. Receipt(i, "succeeded")
      BY <2>5 DEF minePayment
    <3>2. PICK tx : /\ txs' = [txs EXCEPT ![i] = tx] /\ IsTx(tx)
                    /\ tx.status = "succeeded"
                    /\ tx.run = txs[i].run /\ tx.fn = txs[i].fn
                    /\ tx.contract = txs[i].contract /\ tx.arg = txs[i].arg
                    /\ tx.events = txs[i].events
      BY <1>0, <2>2, <3>1, ReceiptIs
    <3>3. Mines(i, tx)
      BY <2>1, <2>2, <2>3, <3>2 DEF Mines, Due, Statuses
    <3>4. CASE /\ txs[i].fn = "approve"
               /\ approve(txs[i].contract, txs[i].arg.key[2], txs[i].arg.amount)
      <4>1. UNCHANGED <<s, pay, epoch, call>>
        BY <3>4 DEF approve, chainVars
      <4> QED BY <3>2, <3>3, <3>4, <4>1 DEF Effects
    <3>5. CASE /\ txs[i].fn = "deposit"
               /\ transferFrom(txs[i].contract, txs[i].arg.key[2], txs[i].arg.amount)
               /\ pay' = [pay EXCEPT ![txs[i].contract] =
                             Deposit(@, txs[i].arg.key, txs[i].arg.amount, epoch)]
               /\ UNCHANGED <<s, epoch, call>>
      <4>1. AnyDeposit(txs[i].contract, txs[i].arg.key, txs[i].arg.amount)
        BY <2>2, <3>5 DEF AnyDeposit, ClientTransaction
      <4> QED BY <3>2, <3>3, <3>5, <4>1 DEF Effects
    <3>6. CASE /\ txs[i].fn = "setOperatorApproval"
               /\ setOperatorApproval(txs[i].contract, txs[i].arg.key, txs[i].arg.limits)
               /\ UNCHANGED wallet
      BY <3>2, <3>3, <3>6 DEF Effects
    <3> QED BY <2>5, <3>4, <3>5, <3>6, Zenon DEF minePayment
  <2>6. CASE mineRequest(i)
    <3>1. CASE /\ Receipt(i, "running")
               /\ \E ids \in Answers : createAllocationRequests(User, <<txs[i].arg>>, ids)
      <4>1. PICK tx : /\ txs' = [txs EXCEPT ![i] = tx] /\ IsTx(tx)
                      /\ tx.status = "running"
                      /\ tx.run = txs[i].run /\ tx.fn = txs[i].fn
                      /\ tx.contract = txs[i].contract /\ tx.arg = txs[i].arg
                      /\ tx.events = txs[i].events
        BY <1>0, <2>2, <3>1, ReceiptIs
      <4>2. call'.fn = "create" /\ call'.client = User
        BY <3>1 DEF createAllocationRequests
      <4>3. Mines(i, tx)
        BY <2>1, <2>2, <2>3, <4>1, <4>2 DEF Mines, Due, Statuses
      <4>4. txs[i].fn = "createAllocationRequests" /\ UNCHANGED wallet
        BY <2>6, Zenon DEF mineRequest
      <4>5. Effects(i, tx)
        BY <3>1, <4>1, <4>4 DEF Effects
      <4> QED BY <4>3, <4>5
    <3>2. CASE Receipt(i, "reverted") /\ UNCHANGED chainVars
      <4>1. UNCHANGED <<s, pay, epoch, call, wallet>>
        BY <2>6, <3>2 DEF mineRequest, chainVars
      <4> QED BY <2>4, <3>2, <4>1
    <3> QED BY <2>6, <3>1, <3>2, Zenon DEF mineRequest
  <2> QED BY <2>2, <2>4, <2>5, <2>6
<1>2. CASE mineReturn
  <2>1. PICK i \in DOMAIN txs :
            /\ txs[i].status = "running" /\ createReturn
            /\ txs' = [txs EXCEPT ![i].status = "succeeded",
                                  ![i].events = call.newAllocations]
            /\ UNCHANGED <<cmd, wallet, deals>>
    BY <1>2, Zenon DEF mineReturn
  <2>2. PICK tx : tx = [txs[i] EXCEPT !.status = "succeeded",
                                      !.events = call.newAllocations]
    OBVIOUS
  <2>3. txs' = [txs EXCEPT ![i] = tx]
    BY <2>1, <2>2
  <2>4. IsTx(txs[i])
    BY <1>0, <2>1
  <2>5. /\ IsTx(tx) /\ tx.status = "succeeded" /\ tx.events = call.newAllocations
        /\ tx.run = txs[i].run /\ tx.fn = txs[i].fn
        /\ tx.contract = txs[i].contract /\ tx.arg = txs[i].arg
    BY <2>2, <2>4 DEF IsTx
  <2>6. Mines(i, tx)
    BY <2>1, <2>3, <2>5 DEF Mines, Due
  <2>7. Effects(i, tx)
    BY <2>1 DEF Effects, Mining
  <2> QED BY <2>6, <2>7
<1>3. CASE mineRevert
  <2>1. PICK i \in DOMAIN txs :
            /\ txs[i].status = "running" /\ createRevert /\ Receipt(i, "reverted")
            /\ UNCHANGED <<cmd, wallet, deals>>
    BY <1>3, Zenon DEF mineRevert
  <2>2. PICK tx : /\ txs' = [txs EXCEPT ![i] = tx] /\ IsTx(tx)
                  /\ tx.status = "reverted"
                  /\ tx.run = txs[i].run /\ tx.fn = txs[i].fn
                  /\ tx.contract = txs[i].contract /\ tx.arg = txs[i].arg
                  /\ tx.events = txs[i].events
    BY <1>0, <2>1, ReceiptIs
  <2>3. Mines(i, tx)
    BY <2>1, <2>2 DEF Mines, Due
  <2>4. Effects(i, tx)
    BY <2>1 DEF Effects, Mining
  <2> QED BY <2>3, <2>4
<1> QED BY <1>1, <1>2, <1>3

\* Every step is the command's, a start of it, one of the chain, or somebody
\* else's.
LEMMA CreateKinds ==
    ASSUME IInv, CommandInv, [CFFNext]_cffVars
    PROVE  \/ CommandStep \/ Execute \/ Aside
           \/ \E i, tx : Mines(i, tx) /\ Effects(i, tx)
<1>1. CASE Command \/ requestFails \/ interrupt
  <2>1. cmd \in CommandRecord
    BY DEF CommandInv, Fits
  <2> QED BY <1>1, <2>1, CommandGoes, StaysCommand, CommandAsks DEF CommandStep, Asking
<1>2. CASE mine \/ mineReturn \/ mineRevert
  BY <1>2, MineIs DEF CommandInv
<1>3. CASE mineLoop
  <2>1. AnyNext
    BY <1>3 DEF mineLoop, AnyNext, AnyAllocation
  <2> QED BY <1>3, <2>1 DEF mineLoop, Aside
<1>4. CASE Others(Next)
  BY <1>4, SoundParts, NextIsAny DEF Others, Aside
<1>5. CASE UNCHANGED cffVars
  BY <1>5 DEF cffVars, vars, Aside
<1> QED BY <1>1, <1>2, <1>3, <1>4, <1>5 DEF CFFNext, Mine

LEMMA WalletIs ==
    ASSUME wallet \in WalletState, NEW token \in Tokens
    PROVE  /\ DOMAIN wallet = Tokens
           /\ wallet[token].balance \in Nat
           /\ wallet[token].allowances \in [PaymentsContracts -> Nat]
           /\ wallet[token] = [balance |-> wallet[token].balance,
                               allowances |-> wallet[token].allowances]
BY DEF WalletState

\* What a transaction of the command does is a transaction of the diamond's
\* system, or none.
LEMMA EffectsAny ==
    ASSUME CommandInv, NEW i, NEW tx, Mines(i, tx), Effects(i, tx)
    PROVE  [AnyNext]_vars /\ wallet' \in WalletState
<1>0. /\ i \in DOMAIN txs /\ wallet \in WalletState
      /\ TxTyped(txs[i]) /\ tx.fn = txs[i].fn
      /\ tx.contract = txs[i].contract /\ tx.arg = txs[i].arg
      /\ tx.contract \in PaymentsContracts
  BY DEF Mines, CommandInv, TxsTyped, TxTyped
<1>1. CASE tx.status = "reverted" /\ UNCHANGED <<s, pay, epoch, call, wallet>>
  BY <1>0, <1>1 DEF vars
<1>2. CASE /\ tx.fn = "approve" /\ UNCHANGED <<s, pay, epoch, call>>
           /\ approve(tx.contract, tx.arg.key[2], tx.arg.amount)
  <2>1. PICK token, amount, c : /\ token = tx.arg.key[2] /\ amount = tx.arg.amount
                                /\ c = tx.contract
    OBVIOUS
  <2>2. token \in Tokens /\ amount \in Nat /\ c \in PaymentsContracts
    <3>1. tx.arg \in [key: Clients \X Tokens, amount: Nat]
      BY <1>0, <1>2 DEF TxTyped
    <3>2. tx.arg.key \in Clients \X Tokens /\ tx.arg.amount \in Nat
      BY <3>1
    <3> QED BY <1>0, <2>1, <3>2
  <2>3. wallet' = [wallet EXCEPT ![token].allowances[c] = amount]
    BY <1>2, <2>1 DEF approve
  <2>4. wallet' \in WalletState
    BY <1>0, <2>2, <2>3 DEF WalletState
  <2> QED BY <1>2, <2>4 DEF vars
<1>3. CASE /\ tx.fn = "deposit" /\ AnyDeposit(tx.contract, tx.arg.key, tx.arg.amount)
           /\ transferFrom(tx.contract, tx.arg.key[2], tx.arg.amount)
  <2>1. PICK token, amount, c : /\ token = tx.arg.key[2] /\ amount = tx.arg.amount
                                /\ c = tx.contract
    OBVIOUS
  <2>2. /\ token \in Tokens /\ amount \in Nat /\ c \in PaymentsContracts
        /\ tx.arg.key \in Clients \X Tokens
    <3>1. tx.arg \in [key: Clients \X Tokens, amount: Nat]
      BY <1>0, <1>3 DEF TxTyped
    <3>2. tx.arg.key \in Clients \X Tokens /\ tx.arg.amount \in Nat
      BY <3>1
    <3> QED BY <1>0, <2>1, <3>2
  <2>3. wallet' = [wallet EXCEPT ![token].balance = @ - amount,
                                 ![token].allowances[c] = @ - amount]
    BY <1>3, <2>1 DEF transferFrom, CanPull
  <2>7. amount <= wallet[token].balance /\ amount <= wallet[token].allowances[c]
    BY <1>3, <2>1 DEF transferFrom, CanPull
  <2>4. wallet' \in WalletState
    <3> DEFINE b == wallet[token].balance - amount
               w == [wallet EXCEPT ![token].balance = b]
    <3>1. w \in WalletState /\ w[token].allowances = wallet[token].allowances
      <4>0. wallet[token].balance \in Nat
        BY <1>0, <2>2, WalletIs
      <4>1. b \in Nat
        BY <2>2, <2>7, <4>0
      <4> HIDE DEF b
      <4>2. w \in WalletState
        BY <1>0, <2>2, <4>1 DEF WalletState
      <4>3. w[token] = [wallet[token] EXCEPT !.balance = b]
        BY <1>0, <2>2, WalletIs
      <4>4. w[token].allowances = wallet[token].allowances
        BY <1>0, <2>2, <4>3, WalletIs
      <4> QED BY <4>2, <4>4
    <3>2. w[token].allowances[c] - amount \in Nat
      <4>1. wallet[token].allowances[c] \in Nat
        BY <1>0, <2>2, WalletIs
      <4> HIDE DEF w
      <4> QED BY <2>2, <2>7, <3>1, <4>1
    <3>3. wallet' = [w EXCEPT ![token].allowances[c] = @ - amount]
      BY <2>3
    <3> HIDE DEF w
    <3>4. wallet' = [w EXCEPT ![token].allowances[c] = w[token].allowances[c] - amount]
      BY <3>3
    <3>5. \A n \in Nat : [w EXCEPT ![token].allowances[c] = n] \in WalletState
      BY <2>2, <3>1 DEF WalletState
    <3> QED BY <3>2, <3>4, <3>5
  <2>5. AnyClient
    BY <1>3, <2>1, <2>2, Zenon DEF AnyClient
  <2> QED BY <2>4, <2>5 DEF AnyNext
<1>4. CASE /\ tx.fn = "setOperatorApproval" /\ UNCHANGED wallet
           /\ setOperatorApproval(tx.contract, tx.arg.key, tx.arg.limits)
  <2>1. tx.arg \in [key: Clients \X Tokens, limits: ApprovalLimits]
    BY <1>0, <1>4 DEF TxTyped
  <2>2. tx.arg.key \in Clients \X Tokens /\ tx.arg.limits \in ApprovalLimits
    BY <2>1
  <2>3. AnyClient
    BY <1>0, <1>4, <2>2, Zenon DEF AnyClient
  <2> QED BY <1>0, <1>4, <2>3 DEF AnyNext
<1>5. CASE /\ tx.fn = "createAllocationRequests" /\ UNCHANGED wallet
           /\ \E ids \in Answers : createAllocationRequests(User, <<tx.arg>>, ids)
  <2>1. PICK ids \in Answers : createAllocationRequests(User, <<tx.arg>>, ids)
    BY <1>5
  <2>2. tx.arg \in PieceInfo
    BY <1>0, <1>5 DEF TxTyped
  <2>3. <<tx.arg>> \in Seq(PieceInfo) /\ ids \in Seq(AllocationIds) /\ User \in Clients
    BY <2>2, InputsAssumption, WalletAssumption
  <2>4. AnyAllocation
    BY <2>1, <2>3, Zenon DEF AnyAllocation
  <2> QED BY <1>0, <1>5, <2>4 DEF AnyNext
<1>6. CASE UNCHANGED wallet /\ (createReturn \/ createRevert)
  BY <1>0, <1>6 DEF AnyAllocation, AnyNext
<1> QED BY <1>1, <1>2, <1>3, <1>4, <1>5, <1>6 DEF Effects

\* To the diamond every step is one of its own.
LEMMA CreateChain ==
    ASSUME IInv, CommandInv, [CFFNext]_cffVars
    PROVE  [AnyNext]_vars /\ wallet' \in WalletState
<1>0. wallet \in WalletState
  BY DEF CommandInv
<1>1. CASE CommandStep
  BY <1>0, <1>1 DEF CommandStep, Asking, vars
<1>2. CASE Execute
  BY <1>0, <1>2 DEF Execute, execute, Asks, vars
<1>3. CASE Aside
  BY <1>0, <1>3 DEF Aside
<1>4. CASE \E i, tx : Mines(i, tx) /\ Effects(i, tx)
  BY <1>4, EffectsAny
<1> QED BY <1>1, <1>2, <1>3, <1>4, CreateKinds

----------------------------------------------------------------------------
(* The command's steps keep what is known of it.                           *)

LEMMA CommandOf ==
    ASSUME NEW c, IsCommand(c),
           /\ c.run \in Nat /\ c.at \in Places /\ c.contract \in PaymentsContracts \cup {ZERO}
           /\ c.piece \in PieceInfo \cup {NoPiece} /\ c.setup \in BOOLEAN
           /\ c.curio \in BOOLEAN /\ c.cost \in Nat /\ c.price \in Nat
           /\ c.lockup \in Nat /\ c.account \in Account /\ c.approval \in Approval
           /\ c.seen \in Nat /\ c.receipt \in Nat /\ c.i \in Nat \ {0}
    PROVE  c \in CommandRecord
BY DEF IsCommand, CommandRecord

\* The amounts are numbers, and so is what is asked for.
LEMMA Amounts ==
    ASSUME cmd \in CommandRecord, cmd.piece \in PieceInfo
    PROVE  /\ UserKey \in Clients \X Tokens
           /\ Rate \in Nat /\ RequiredDeposit \in Nat /\ LockupAllowance \in Nat
           /\ RequiredDeposit >= cmd.lockup /\ RequiredDeposit >= cmd.cost
           /\ \A account \in Account : Missing(account) \in Int
           /\ NewLimits \in ApprovalLimits
<1>1. /\ cmd.price \in Nat /\ cmd.piece.size \in Nat /\ cmd.cost \in Nat
      /\ cmd.lockup \in Nat /\ cmd.approval \in Approval
      /\ cmd.piece.paymentTokenAddress \in Tokens
  BY DEF CommandRecord, PieceInfo
<1>2. UserKey \in Clients \X Tokens
  BY <1>1, WalletAssumption DEF UserKey
<1>3. Rate \in Nat
  BY <1>1, Products DEF Rate
<1>4. /\ RequiredDeposit \in Nat /\ LockupAllowance \in Nat
      /\ RequiredDeposit >= cmd.lockup /\ RequiredDeposit >= cmd.cost
  BY <1>1 DEF RequiredDeposit, LockupAllowance
<1>5. \A account \in Account : Missing(account) \in Int
  BY <1>4 DEF Missing, Account
<1>6. NewLimits \in ApprovalLimits
  <2>1. /\ cmd.approval.rateAllowance \in Nat /\ cmd.approval.lockupAllowance \in Nat
        /\ EPOCHS_PER_MONTH \in Nat
    BY <1>1, EpochsAssumption DEF Approval
  <2>2. PICK rate : rate = Rate
    OBVIOUS
  <2>3. /\ cmd.approval.rateAllowance + rate \in Nat
        /\ cmd.approval.lockupAllowance + LockupAllowance \in Nat
    BY <1>3, <1>4, <2>1, <2>2
  <2> QED BY <2>1, <2>2, <2>3 DEF NewLimits, ApprovalLimits
<1> QED BY <1>2, <1>3, <1>4, <1>5, <1>6

LEMMA NextTxIs ==
    ASSUME CommandInv, cmd.at \in Sends
    PROVE  /\ IsTx(NextTx) /\ TxTyped(NextTx)
           /\ NextTx.status = "pending" /\ NextTx.run = cmd.run
           /\ NextTx.contract = cmd.contract /\ NextTx.events = <<>>
           /\ NextTx.fn = "setOperatorApproval" =>
                 /\ cmd.at = "setOperatorApproval"
                 /\ NextTx.arg = [key |-> UserKey, limits |-> NewLimits]
<1>1. /\ cmd \in CommandRecord /\ cmd.run \in 1 .. MaxRuns
      /\ cmd.contract \in PaymentsContracts /\ cmd.piece \in PieceInfo
  BY MaxRunsAssumption DEF CommandInv, Fits, CommandRecord, Sends, Ended
<1>2. /\ UserKey \in Clients \X Tokens /\ NewLimits \in ApprovalLimits
  BY <1>1, Amounts
<1>3. <<>> \in Seq(AllocationIds)
  OBVIOUS
<1>4. ASSUME NEW fn, NEW arg, NextTx = Tx(fn, arg)
      PROVE  /\ IsTx(NextTx) /\ NextTx.fn = fn /\ NextTx.arg = arg
             /\ NextTx.run = cmd.run /\ NextTx.status = "pending"
             /\ NextTx.contract = cmd.contract /\ NextTx.events = <<>>
  <2>1. PICK tx : tx = NextTx
    OBVIOUS
  <2>2. tx = Tx(fn, arg)
    BY <1>4, <2>1
  <2> QED BY <2>1, <2>2 DEF Tx, IsTx
<1>5. cmd.at \in {"approve", "deposit"} => Deficit \in Nat
  <2>1. cmd.account \in Account
    BY <1>1 DEF CommandRecord
  <2>2. Deficit \in Int
    BY <1>1, <2>1, Amounts DEF Deficit
  <2> QED BY <2>2 DEF CommandInv, Deficient
<1>6. CASE cmd.at = "approve"
  <2>1. PICK n : n = ApproveAmount(Deficit)
    OBVIOUS
  <2>2. n \in Nat
    <3>1. PICK d : d = Deficit
      OBVIOUS
    <3>2. d \in Nat /\ MaxUint256 \div 2 \in Nat
      BY <1>5, <1>6, <3>1, WalletAssumption
    <3> QED BY <2>1, <3>1, <3>2 DEF ApproveAmount, Min2
  <2>3. NextTx = Tx("approve", [key |-> UserKey, amount |-> n])
    BY <1>6, <2>1 DEF NextTx
  <2>4. /\ IsTx(NextTx) /\ NextTx.fn = "approve"
        /\ NextTx.arg = [key |-> UserKey, amount |-> n]
        /\ NextTx.run = cmd.run /\ NextTx.status = "pending"
        /\ NextTx.contract = cmd.contract /\ NextTx.events = <<>>
    BY <1>4, <2>3
  <2> QED BY <1>1, <1>2, <1>3, <2>2, <2>4 DEF TxTyped
<1>7. CASE cmd.at = "deposit"
  <2>1. NextTx = Tx("deposit", [key |-> UserKey, amount |-> Deficit])
    BY <1>7 DEF NextTx
  <2>2. /\ IsTx(NextTx) /\ NextTx.fn = "deposit"
        /\ NextTx.arg = [key |-> UserKey, amount |-> Deficit]
        /\ NextTx.run = cmd.run /\ NextTx.status = "pending"
        /\ NextTx.contract = cmd.contract /\ NextTx.events = <<>>
    BY <1>4, <2>1
  <2> QED BY <1>1, <1>2, <1>3, <1>5, <1>7, <2>2 DEF TxTyped
<1>8. CASE cmd.at = "setOperatorApproval"
  <2>1. NextTx = Tx("setOperatorApproval", [key |-> UserKey, limits |-> NewLimits])
    BY <1>8 DEF NextTx
  <2>2. /\ IsTx(NextTx) /\ NextTx.fn = "setOperatorApproval"
        /\ NextTx.arg = [key |-> UserKey, limits |-> NewLimits]
        /\ NextTx.run = cmd.run /\ NextTx.status = "pending"
        /\ NextTx.contract = cmd.contract /\ NextTx.events = <<>>
    BY <1>4, <2>1
  <2> QED BY <1>1, <1>2, <1>3, <1>8, <2>2 DEF TxTyped
<1>9. CASE cmd.at = "request"
  <2>1. NextTx = Tx("createAllocationRequests", cmd.piece)
    BY <1>9 DEF NextTx
  <2>2. /\ IsTx(NextTx) /\ NextTx.fn = "createAllocationRequests"
        /\ NextTx.arg = cmd.piece
        /\ NextTx.run = cmd.run /\ NextTx.status = "pending"
        /\ NextTx.contract = cmd.contract /\ NextTx.events = <<>>
    BY <1>4, <2>1
  <2> QED BY <1>1, <1>2, <1>3, <2>2 DEF TxTyped
<1> QED BY <1>6, <1>7, <1>8, <1>9 DEF Sends

\* The list after a step of the command: one transaction longer, or the same.
LEMMA CommandList ==
    ASSUME CommandInv, ListGoes
    PROVE  /\ ListInv' /\ NextNonce' = NextNonce
           /\ DOMAIN txs \subseteq DOMAIN txs'
           /\ \A i \in DOMAIN txs : txs'[i] = txs[i]
           /\ \/ txs' = txs /\ (cmd.at \in Sends => cmd'.at = "failed")
              \/ /\ cmd.at \in Sends /\ txs' = Append(txs, NextTx)
                 /\ Len(txs') = Len(txs) + 1 /\ Len(txs') \in DOMAIN txs'
                 /\ DOMAIN txs' = DOMAIN txs \cup {Len(txs')}
                 /\ Len(txs') \notin DOMAIN txs
                 /\ txs'[Len(txs')] = NextTx
<1>1. ListInv
  BY DEF CommandInv
<1>2. CASE txs' = txs
  <2>1. ListInv' /\ NextNonce' = NextNonce
    BY <1>1, <1>2 DEF ListInv, NextNonce, MinedTo
  <2>2. cmd.at \in Sends => \/ cmd'.at = "failed"
                            \/ txs' = Append(txs, NextTx)
    BY DEF ListGoes
  <2>3. txs' # Append(txs, NextTx)
    <3>1. PICK S : txs \in Seq(S)
      BY <1>1 DEF ListInv, IsList
    <3>2. Len(Append(txs, NextTx)) = Len(txs) + 1 /\ Len(txs) \in Nat
      BY <3>1
    <3> QED BY <1>2, <3>2
  <2> QED BY <1>2, <2>1, <2>2, <2>3
<1>3. CASE cmd.at \in Sends /\ txs' = Append(txs, NextTx)
  <2>1. IsTx(NextTx) /\ NextTx.status = "pending"
    BY <1>3, NextTxIs
  <2>2. /\ ListInv' /\ NextNonce' = NextNonce
        /\ Len(txs') = Len(txs) + 1 /\ Len(txs) \in Nat
        /\ DOMAIN txs' = DOMAIN txs \cup {Len(txs) + 1}
        /\ \A i \in DOMAIN txs : txs'[i] = txs[i]
        /\ txs'[Len(txs) + 1] = NextTx
    BY <1>1, <1>3, <2>1, SentKeeps
  <2>3. DOMAIN txs = 1 .. Len(txs)
    BY <1>1, ListDomain DEF ListInv
  <2>4. Len(txs) + 1 \notin DOMAIN txs
    BY <2>2, <2>3
  <2> QED BY <1>3, <2>2, <2>4
<1> QED BY <1>2, <1>3 DEF ListGoes

\* What the command learns has its type.
LEMMA LearnsTyped ==
    ASSUME IInv, CommandInv, CommandStep
    PROVE  /\ cmd' \in CommandRecord /\ cmd'.seen <= NextNonce - 1
           /\ cmd'.contract \in PaymentsContracts /\ cmd'.piece \in PieceInfo
           /\ cmd'.run # 0 /\ cmd'.run <= MaxRuns
<1>1. /\ cmd \in CommandRecord /\ cmd.at \notin Ended /\ Leads(cmd.at, cmd'.at)
      /\ Learns(cmd, cmd') /\ IsCommand(cmd')
      /\ cmd.contract \in PaymentsContracts /\ cmd.piece \in PieceInfo
      /\ cmd.run # 0 /\ cmd.run <= MaxRuns /\ cmd.seen <= NextNonce - 1
  BY DEF CommandStep, Goes, CommandInv, Fits
<1>2. /\ cmd.piece.provider \in Providers /\ cmd.piece.size \in Nat
      /\ cmd.piece.termMin \in Nat /\ cmd.piece.paymentTokenAddress \in Tokens
      /\ UserKey \in Clients \X Tokens
  BY <1>1, Amounts DEF PieceInfo
<1>3. UsersAccount \in Account /\ UsersApproval \in Approval
  <2>1. pay[cmd.contract] \in PayState
    BY <1>1, SoundParts
  <2> QED BY <1>2, <2>1 DEF UsersAccount, UsersApproval, PayState
<1>4. supportsToken(cmd.piece.provider, cmd.piece.paymentTokenAddress) =>
          SPPrice(cmd.piece.provider, cmd.piece.paymentTokenAddress) \in Nat
  BY <1>2, SPPriceType
<1>5. CanCalculateStorageCost(cmd.piece) => StorageCost(cmd.piece) \in Nat
  <2>1. ASSUME CanCalculateStorageCost(cmd.piece)
        PROVE  StorageCost(cmd.piece) \in Nat
    <3>1. PICK price : price = SPPrice(cmd.piece.provider, cmd.piece.paymentTokenAddress)
      OBVIOUS
    <3>2. price \in Nat
      BY <1>4, <2>1, <3>1 DEF CanCalculateStorageCost
    <3>3. price * cmd.piece.size \in Nat
      BY <1>2, <3>2, Products
    <3>4. price * cmd.piece.size * cmd.piece.termMin \in Nat
      BY <1>2, <3>3, Products
    <3> QED BY <3>1, <3>4 DEF StorageCost
  <2> QED BY <2>1
<1>6. s.allocationLockupAmount \in Nat
  BY SoundParts DEF DDOState
<1>7. NextNonce - 1 \in Nat /\ Len(txs) \in Nat
  BY ListOrder DEF CommandInv
<1>8. /\ cmd'.run = cmd.run /\ cmd'.contract = cmd.contract /\ cmd'.piece = cmd.piece
      /\ cmd'.setup = cmd.setup /\ cmd'.curio = cmd.curio
  BY <1>1 DEF Learns
<1>9. /\ cmd'.cost \in Nat /\ cmd'.price \in Nat /\ cmd'.lockup \in Nat
      /\ cmd'.account \in Account /\ cmd'.approval \in Approval
      /\ cmd'.seen \in Nat /\ cmd'.seen <= NextNonce - 1
      /\ cmd'.receipt \in Nat /\ cmd'.i \in Nat \ {0}
  BY <1>1, <1>3, <1>4, <1>5, <1>6, <1>7 DEF Learns, CommandRecord
<1>10. cmd'.at \in Places
  BY <1>1 DEF Leads, Places, Ended, Sends, Waits, Offers, AfterWait
<1>11. cmd' \in CommandRecord
  BY <1>1, <1>8, <1>9, <1>10, CommandOf DEF CommandRecord
<1> QED BY <1>1, <1>8, <1>9, <1>11

\* The command fits its list after a step of its own.
LEMMA GoesFits ==
    ASSUME IInv, CommandInv, CommandStep
    PROVE  Fits(cmd', txs')
<1>1. /\ cmd' \in CommandRecord /\ cmd'.run <= MaxRuns /\ cmd'.run # 0
      /\ cmd'.contract \in PaymentsContracts /\ cmd'.piece \in PieceInfo
  BY LearnsTyped
<1>2. /\ DOMAIN txs \subseteq DOMAIN txs'
      /\ \A i \in DOMAIN txs : txs'[i] = txs[i]
      /\ \/ txs' = txs /\ (cmd.at \in Sends => cmd'.at = "failed")
         \/ /\ cmd.at \in Sends /\ txs'[Len(txs')] = NextTx
            /\ Len(txs') \in DOMAIN txs'
  BY CommandList DEF CommandStep
<1>3. /\ cmd.at \notin Ended /\ Leads(cmd.at, cmd'.at) /\ Fits(cmd, txs)
      /\ Learns(cmd, cmd') /\ Decides(cmd, cmd')
  BY DEF CommandStep, Goes, CommandInv
<1>4. cmd'.run = cmd.run /\ cmd'.curio = cmd.curio
  BY <1>3 DEF Learns
<1>5. cmd'.at \in Waits => txs' # <<>> /\ txs'[Len(txs')].run = cmd'.run
  <2>1. ASSUME cmd'.at \in Waits
        PROVE  cmd.at \in Sends /\ cmd'.at # "failed"
    BY <1>3, <2>1 DEF Leads, Waits, AfterWait, Sends
  <2>2. ASSUME cmd'.at \in Waits
        PROVE  txs'[Len(txs')].run = cmd'.run /\ DOMAIN txs' # {}
    BY <1>2, <1>4, <2>1, <2>2, NextTxIs
  <2>3. DOMAIN <<>> = {}
    OBVIOUS
  <2> QED BY <2>2, <2>3
<1>6. \/ /\ cmd'.receipt = cmd.receipt
         /\ cmd.receipt # 0 => cmd'.at \in Offers \cup {"done", "failed"}
      \/ /\ cmd.at = "waitRequest" /\ Waited /\ cmd'.receipt = Len(txs)
         /\ cmd'.at \in Offers \cup {"done", "failed"}
         /\ txs # <<>> /\ txs[Len(txs)].run = cmd.run
  <2>1. cmd.receipt # 0 => cmd.at \in Offers
    BY <1>3 DEF Fits, Ended
  <2>2. cmd.at \in Offers \cup {"waitRequest"} => cmd'.at \in Offers \cup {"done", "failed"}
    BY <1>3 DEF Leads, Offers
  <2>3. cmd.at = "waitRequest" => txs # <<>> /\ txs[Len(txs)].run = cmd.run
    BY <1>3 DEF Fits, Waits
  <2> QED BY <1>3, <2>1, <2>2, <2>3 DEF Learns
<1>7. txs # <<>> => Len(txs) \in DOMAIN txs
  <2>1. Len(txs) \in Nat /\ DOMAIN txs = 1 .. Len(txs)
    BY ListOrder DEF CommandInv
  <2>2. PICK S : txs \in Seq(S)
    BY DEF CommandInv, ListInv, IsList
  <2>3. txs # <<>> => Len(txs) # 0
    BY <2>2
  <2> QED BY <2>1, <2>3
<1>8. cmd'.receipt # 0 =>
          /\ cmd'.receipt \in DOMAIN txs
          /\ txs[cmd'.receipt].run = cmd'.run
          /\ txs[cmd'.receipt].status \in {"succeeded", "reverted"}
          /\ cmd'.at \in Offers \cup {"done", "failed"}
  BY <1>3, <1>4, <1>6, <1>7 DEF Fits, Waited, Mined
<1>9. cmd'.at \in Offers =>
          cmd'.curio /\ cmd'.receipt # 0 /\ txs[cmd'.receipt].events # <<>>
  <2>1. CASE cmd'.at \in Offers /\ cmd.at \in Offers
    <3>1. cmd.at # "waitRequest"
      BY <2>1 DEF Offers
    <3> QED BY <1>3, <1>4, <1>6, <2>1, <3>1 DEF Fits
  <2>2. CASE cmd'.at \in Offers /\ cmd.at \notin Offers
    <3>1. cmd.at = "waitRequest" /\ cmd'.at = "store"
      BY <1>3, <2>2 DEF Leads, Offers
    <3>2. cmd.curio /\ cmd'.receipt = Len(txs) /\ txs[Len(txs)].events # <<>>
      BY <1>3, <3>1 DEF Decides
    <3>3. Len(txs) # 0
      <4>1. txs # <<>>
        BY <1>3, <3>1 DEF Fits, Waits
      <4>2. Len(txs) \in Nat /\ DOMAIN txs = 1 .. Len(txs)
        BY ListOrder DEF CommandInv
      <4> QED BY <1>7, <4>1, <4>2
    <3> QED BY <1>4, <3>2, <3>3
  <2> QED BY <2>1, <2>2
<1>10. cmd'.at \in {"upload", "finalize"} => cmd'.i <= Len(txs[cmd'.receipt].events)
  <2>1. CASE cmd'.at = "upload"
    <3>1. cmd.at = "store"
      BY <1>3, <2>1 DEF Leads
    <3>2. cmd.i <= Len(Created) /\ cmd'.i = cmd.i /\ cmd'.receipt = cmd.receipt
      BY <1>3, <2>1, <3>1 DEF Decides, Learns
    <3> QED BY <3>2 DEF Created
  <2>2. CASE cmd'.at = "finalize"
    <3>1. cmd.at = "upload"
      BY <1>3, <2>2 DEF Leads
    <3>2. cmd'.i = cmd.i /\ cmd'.receipt = cmd.receipt
      BY <1>3, <2>2, <3>1 DEF Learns
    <3> QED BY <1>3, <3>1, <3>2 DEF Fits
  <2> QED BY <2>1, <2>2
<1>11. cmd'.receipt # 0 => cmd'.receipt \in DOMAIN txs'
                          /\ txs'[cmd'.receipt] = txs[cmd'.receipt]
  BY <1>2, <1>8
<1>12. cmd'.at \in Offers =>
          cmd'.curio /\ cmd'.receipt # 0 /\ txs'[cmd'.receipt].events # <<>>
  BY <1>9, <1>11
<1>13. cmd'.at \in {"upload", "finalize"} =>
          cmd'.i <= Len(txs'[cmd'.receipt].events)
  BY <1>9, <1>10, <1>11 DEF Offers
<1> QED BY <1>1, <1>5, <1>8, <1>11, <1>12, <1>13 DEF Fits

\* A step of the command keeps it all.
LEMMA GoesKeeps ==
    ASSUME IInv, CommandInv, CommandStep
    PROVE  CommandInv'
<1>1. /\ ListInv' /\ NextNonce' = NextNonce
      /\ \A i \in DOMAIN txs : txs'[i] = txs[i]
      /\ \/ txs' = txs
         \/ /\ cmd.at \in Sends /\ txs'[Len(txs')] = NextTx
            /\ DOMAIN txs' = DOMAIN txs \cup {Len(txs')}
  BY CommandList DEF CommandStep
<1>2. Fits(cmd', txs')
  BY GoesFits
<1>3. /\ cmd' \in CommandRecord /\ cmd'.seen <= NextNonce - 1
      /\ cmd'.piece \in PieceInfo
  BY LearnsTyped
<1>4. cmd.at \notin Ended /\ Leads(cmd.at, cmd'.at)
      /\ Learns(cmd, cmd') /\ Decides(cmd, cmd')
  BY DEF CommandStep, Goes
<1>5. TxsTyped'
  <2>1. cmd'.run = cmd.run /\ cmd.run \in Nat
    BY <1>4 DEF Learns, CommandInv, Fits, CommandRecord
  <2>2. \A i \in DOMAIN txs : TxTyped(txs[i]) /\ txs[i].run <= cmd.run
    BY DEF CommandInv, TxsTyped
  <2>3. cmd.at \in Sends => TxTyped(NextTx) /\ NextTx.run = cmd.run
    BY NextTxIs
  <2>4. ASSUME NEW i \in DOMAIN txs'
        PROVE  TxTyped(txs'[i]) /\ txs'[i].run <= cmd'.run
    BY <1>1, <2>1, <2>2, <2>3, <2>4
  <2> QED BY <2>4 DEF TxsTyped, TxTyped
<1>6. ~Mining'
  <2>1. ~Mining
    BY DEF CommandStep, Asking, CommandInv, RunsCreation, Idle
  <2>2. cmd.at \in Sends => NextTx.status # "running"
    BY NextTxIs
  <2>3. \A i \in DOMAIN txs' : txs'[i].status # "running"
    BY <1>1, <2>1, <2>2 DEF Mining
  <2> QED BY <2>3 DEF Mining
<1>7. cmd'.at \in Deficient => Deficit' > 0
  <2>1. CASE cmd.at \in Deficient /\ cmd'.at \in Deficient
    <3>1. /\ cmd'.cost = cmd.cost /\ cmd'.lockup = cmd.lockup
          /\ cmd'.account = cmd.account
      BY <1>4, <2>1 DEF Learns, Deficient
    <3>2. Deficit > 0
      BY <2>1 DEF CommandInv
    <3> QED BY <3>1, <3>2 DEF Deficit, Missing, RequiredDeposit
  <2>2. CASE cmd.at \notin Deficient /\ cmd'.at \in Deficient
    <3>1. cmd.at = "account" /\ cmd'.at = "balance"
      BY <1>4, <2>2 DEF Leads, Deficient
    <3>2. /\ cmd'.account = UsersAccount /\ Missing(UsersAccount) > 0
          /\ cmd'.cost = cmd.cost /\ cmd'.lockup = cmd.lockup
      BY <1>4, <3>1 DEF Decides, Learns
    <3> QED BY <3>2 DEF Deficit, Missing, RequiredDeposit
  <2> QED BY <2>1, <2>2
<1>8. wallet' \in WalletState
  BY DEF CommandStep, Asking, CommandInv
<1> QED BY <1>1, <1>2, <1>3, <1>5, <1>6, <1>7, <1>8 DEF CommandInv, RunsCreation

\* The command has just been started.
Started(c, run) ==
    /\ IsCommand(c) /\ c.run = run /\ c.at \in {"costs", "request"}
    /\ c.at = "costs" <=> c.setup
    /\ c.contract \in PaymentsContracts /\ c.piece \in PieceInfo
    /\ c.setup \in BOOLEAN /\ c.curio \in BOOLEAN
    /\ c.cost = 0 /\ c.price = 0 /\ c.lockup = 0
    /\ c.account = NoAccount /\ c.approval = NoApproval
    /\ c.seen = 0 /\ c.receipt = 0 /\ c.i = 1

LEMMA Starts ==
    ASSUME Execute
    PROVE  /\ call = Idle /\ UNCHANGED <<s, pay, epoch, call, wallet, txs, deals>>
           /\ cmd.at \in Ended /\ cmd.run < MaxRuns /\ Started(cmd', cmd.run + 1)
<1>1. PICK c \in PaymentsContracts, piece \in Pieces, setup \in BOOLEAN, curio \in BOOLEAN :
          execute(c, piece, setup, curio)
  BY Zenon DEF Execute
<1>2. /\ call = Idle /\ UNCHANGED <<s, pay, epoch, call, wallet, txs, deals>>
      /\ cmd.at \in Ended /\ cmd.run < MaxRuns
      /\ cmd' = [NotStarted EXCEPT
                  !.run = cmd.run + 1,
                  !.at = IF setup THEN "costs" ELSE "request",
                  !.contract = c, !.piece = piece,
                  !.setup = setup, !.curio = curio]
  BY <1>1 DEF execute, Asks
<1>3. piece \in PieceInfo
  BY PiecesAssumption
<1>4. PICK at \in {"costs", "request"} : at = IF setup THEN "costs" ELSE "request"
  OBVIOUS
<1>5. cmd' = [run |-> cmd.run + 1, at |-> at, contract |-> c, piece |-> piece,
              setup |-> setup, curio |-> curio, cost |-> 0, price |-> 0, lockup |-> 0,
              account |-> NoAccount, approval |-> NoApproval, seen |-> 0,
              receipt |-> 0, i |-> 1]
  BY <1>2, <1>4 DEF NotStarted
<1>6. IsCommand(cmd')
  BY <1>5 DEF IsCommand
<1>7. Started(cmd', cmd.run + 1)
  BY <1>3, <1>4, <1>5, <1>6 DEF Started
<1> QED BY <1>2, <1>7

LEMMA StartKeeps ==
    ASSUME CommandInv, Execute
    PROVE  CommandInv'
<1>1. /\ call = Idle /\ UNCHANGED <<s, pay, epoch, call, wallet, txs, deals>>
      /\ cmd.at \in Ended /\ cmd.run < MaxRuns /\ Started(cmd', cmd.run + 1)
  BY Starts
<1>2. ListInv' /\ NextNonce' = NextNonce /\ NextNonce - 1 \in Nat
  <2>1. ListInv /\ NextNonce - 1 \in Nat
    BY ListOrder DEF CommandInv
  <2> QED BY <1>1, <2>1 DEF ListInv, NextNonce, MinedTo
<1>3. cmd.run \in Nat
  BY DEF CommandInv, Fits, CommandRecord
<1>4. NoAccount \in Account /\ NoApproval \in Approval
  BY DEF NoAccount, Account, NoApproval, Approval
<1>5. /\ cmd'.run = cmd.run + 1 /\ cmd'.at \in {"costs", "request"}
      /\ cmd'.contract \in PaymentsContracts /\ cmd'.piece \in PieceInfo
      /\ cmd'.seen = 0 /\ cmd'.receipt = 0
  BY <1>1 DEF Started
<1>6. cmd' \in CommandRecord
  BY <1>1, <1>3, <1>4, CommandOf DEF Started, Places, Sends
<1>7. Fits(cmd', txs')
  <2>1. cmd'.run # 0 /\ cmd'.run <= MaxRuns
    BY <1>1, <1>3, <1>5, MaxRunsAssumption
  <2> QED BY <1>5, <1>6, <2>1 DEF Fits, Waits, AfterWait, Offers
<1>8. TxsTyped'
  <2>1. \A i \in DOMAIN txs : TxTyped(txs[i]) /\ txs[i].run <= cmd.run
                              /\ txs[i].run \in Nat
    BY MaxRunsAssumption DEF CommandInv, TxsTyped, TxTyped
  <2>2. \A i \in DOMAIN txs' : TxTyped(txs'[i]) /\ txs'[i].run <= cmd'.run
    BY <1>1, <1>3, <1>5, <2>1
  <2> QED BY <2>2 DEF TxsTyped, TxTyped
<1>9. RunsCreation' /\ wallet' \in WalletState
  BY <1>1 DEF CommandInv, RunsCreation, Mining
<1>10. cmd'.at \notin Deficient
  BY <1>5 DEF Deficient
<1> QED BY <1>2, <1>5, <1>7, <1>8, <1>9, <1>10 DEF CommandInv

\* The list after the chain has got to a transaction.
LEMMA MinesList ==
    ASSUME CommandInv, NEW i, NEW tx, Mines(i, tx)
    PROVE  /\ ListInv' /\ NextNonce' = i + 1 /\ NextNonce \in {i, i + 1}
           /\ i \in DOMAIN txs /\ DOMAIN txs' = DOMAIN txs /\ Len(txs') = Len(txs)
           /\ \A j \in DOMAIN txs : j # i => txs'[j] = txs[j]
           /\ txs'[i] = tx
           /\ \A j \in DOMAIN txs : j # i => txs'[j].status # "running"
           /\ txs[i].status \notin {"succeeded", "reverted"}
           /\ \A j \in DOMAIN txs : /\ txs'[j].run = txs[j].run
                                    /\ txs'[j].fn = txs[j].fn
                                    /\ txs'[j].contract = txs[j].contract
                                    /\ txs'[j].arg = txs[j].arg
<1>1. /\ i \in DOMAIN txs /\ ListInv /\ IsTx(tx) /\ Due(i, tx)
      /\ txs' = [txs EXCEPT ![i] = tx]
      /\ tx.run = txs[i].run /\ tx.fn = txs[i].fn
      /\ tx.contract = txs[i].contract /\ tx.arg = txs[i].arg
  BY DEF Mines, CommandInv
<1>2. /\ ListInv' /\ NextNonce' = i + 1 /\ NextNonce \in {i, i + 1}
      /\ Len(txs') = Len(txs) /\ DOMAIN txs' = DOMAIN txs
      /\ \A j \in DOMAIN txs : j # i => txs'[j] = txs[j]
      /\ txs'[i] = tx
      /\ \A j \in DOMAIN txs : j # i => txs'[j].status # "running"
  BY <1>1, ReceiptKeeps
<1>3. txs[i].status \notin {"succeeded", "reverted"}
  <2>1. CASE txs[i].status = "running"
    BY <2>1
  <2>2. CASE i = NextNonce
    <3>1. PICK m : m = NextNonce - 1
      OBVIOUS
    <3>2. MinedTo(txs, m) /\ NextNonce = m + 1 /\ m \in Nat
      BY <1>1, <3>1, NonceIs, ListOrder DEF ListInv
    <3>3. txs[i].status = "pending"
      BY <1>1, <2>2, <3>2 DEF MinedTo
    <3> QED BY <3>3
  <2> QED BY <1>1, <2>1, <2>2 DEF Due
<1> QED BY <1>1, <1>2, <1>3

LEMMA MinesKeeps ==
    ASSUME IInv, CommandInv, NEW i, NEW tx, Mines(i, tx), Effects(i, tx)
    PROVE  CommandInv'
<1>1. /\ ListInv' /\ NextNonce' = i + 1 /\ NextNonce \in {i, i + 1}
      /\ i \in DOMAIN txs /\ DOMAIN txs' = DOMAIN txs /\ Len(txs') = Len(txs)
      /\ \A j \in DOMAIN txs : j # i => txs'[j] = txs[j]
      /\ txs'[i] = tx
      /\ \A j \in DOMAIN txs : j # i => txs'[j].status # "running"
      /\ txs[i].status \notin {"succeeded", "reverted"}
      /\ \A j \in DOMAIN txs : /\ txs'[j].run = txs[j].run
                               /\ txs'[j].fn = txs[j].fn
                               /\ txs'[j].contract = txs[j].contract
                               /\ txs'[j].arg = txs[j].arg
  BY MinesList
<1>2. cmd' = cmd
  BY DEF Mines
<1>3. i \in Nat /\ NextNonce - 1 \in Nat
  BY <1>1, ListOrder DEF CommandInv
<1>4. tx.events \in Seq(AllocationIds)
  <2>1. txs[i].events \in Seq(AllocationIds)
    BY <1>1 DEF CommandInv, TxsTyped, TxTyped
  <2>2. createReturn => call.newAllocations \in Seq(AllocationIds)
    BY CreateFrameType DEF createReturn
  <2> QED BY <2>1, <2>2 DEF Mines
<1>5. TxsTyped'
  <2>1. ASSUME NEW j \in DOMAIN txs'
        PROVE  TxTyped(txs'[j]) /\ txs'[j].run <= cmd'.run
    <3>1. TxTyped(txs[j]) /\ txs[j].run <= cmd.run /\ j \in DOMAIN txs
      BY <1>1, <2>1 DEF CommandInv, TxsTyped
    <3>2. txs'[j].events \in Seq(AllocationIds)
      BY <1>1, <1>4, <3>1 DEF TxTyped
    <3> QED BY <1>1, <1>2, <3>1, <3>2 DEF TxTyped
  <2> QED BY <2>1 DEF TxsTyped, TxTyped
<1>6. Fits(cmd', txs')
  <2>1. Fits(cmd, txs)
    BY DEF CommandInv
  <2>2. cmd.receipt # 0 => cmd.receipt \in DOMAIN txs' /\ cmd.receipt # i
                           /\ txs'[cmd.receipt] = txs[cmd.receipt]
    BY <1>1, <2>1 DEF Fits
  <2>3. cmd.at \in Waits => txs' # <<>> /\ txs'[Len(txs')].run = cmd.run
    <3>1. Len(txs) \in Nat /\ DOMAIN txs = 1 .. Len(txs)
      BY ListOrder DEF CommandInv
    <3>2. Len(txs) \in DOMAIN txs
      BY <1>1, <3>1
    <3>3. DOMAIN <<>> = {}
      OBVIOUS
    <3>4. cmd.at \in Waits => txs[Len(txs)].run = cmd.run
      BY <2>1 DEF Fits
    <3> QED BY <1>1, <3>2, <3>3, <3>4
  <2>4. cmd.at \in Offers => cmd.receipt # 0
    BY <2>1 DEF Fits
  <2> QED BY <1>2, <2>1, <2>2, <2>3, <2>4 DEF Fits, Offers
<1>7. RunsCreation'
  <2>1. ASSUME Mining'
        PROVE  tx.status = "running"
    BY <1>1, <2>1 DEF Mining
  <2> QED BY <2>1 DEF RunsCreation, Mines
<1>8. cmd'.seen <= NextNonce' - 1
  <2>1. cmd.seen \in Nat /\ cmd.seen <= NextNonce - 1
    BY DEF CommandInv, Fits, CommandRecord
  <2> QED BY <1>1, <1>2, <1>3, <2>1
<1>9. cmd'.at \in Deficient => Deficit' > 0
  BY <1>2 DEF CommandInv, Deficit, Missing, RequiredDeposit
<1>10. wallet' \in WalletState
  BY EffectsAny
<1> QED BY <1>1, <1>5, <1>6, <1>7, <1>8, <1>9, <1>10 DEF CommandInv

\* What others do leaves it alone.
LEMMA AsideKeeps ==
    ASSUME IInv, CommandInv, Aside
    PROVE  CommandInv'
<1>1. UNCHANGED <<txs, cmd, wallet, deals>>
  BY DEF Aside
<1>2. RunsCreation'
  <2>1. CASE ~Mining
    BY <1>1, <2>1 DEF RunsCreation, Mining
  <2>2. CASE Mining /\ createAllocation
    <3>1. call.fn = "create" /\ call.client = User
      BY <2>2 DEF CommandInv, RunsCreation
    <3>2. call \in CreateFrame
      BY <3>1, CreateFrameType
    <3>3. call' = [call EXCEPT !.i = @ + 1]
      BY <2>2 DEF createAllocation, Continue
    <3>4. call'.fn = "create" /\ call'.client = User
      BY <3>1, <3>2, <3>3 DEF CreateFrame
    <3> QED BY <3>4 DEF RunsCreation
  <2>3. CASE UNCHANGED vars
    BY <1>1, <2>3 DEF CommandInv, RunsCreation, Mining, vars
  <2> QED BY <2>1, <2>2, <2>3 DEF Aside
<1>3. ListInv' /\ NextNonce' = NextNonce /\ TxsTyped'
  BY <1>1 DEF CommandInv, ListInv, NextNonce, MinedTo, TxsTyped
<1> QED BY <1>1, <1>2, <1>3 DEF CommandInv, Deficit, Missing, RequiredDeposit

LEMMA CommandInvStep ==
    ASSUME IInv, CommandInv, [CFFNext]_cffVars
    PROVE  CommandInv'
BY CreateKinds, GoesKeeps, StartKeeps, MinesKeeps, AsideKeeps

----------------------------------------------------------------------------
(* The diamond and the command.                                            *)

\* What holds of the diamond and of the command while both go on.
CreationInv ==
    IInv /\ TransactionInv /\ CreateInv /\ OnlyCreationMakes /\ CommandInv

LEMMA CreationInvStep ==
    ASSUME CreationInv, [CFFNext]_cffVars
    PROVE  CreationInv' /\ [AnyNext]_vars /\ Steps
<1>1. [AnyNext]_vars
  BY CreateChain DEF CreationInv
<1>2. Steps
  BY <1>1, StepKinds DEF CreationInv
<1>3. IInv'
  BY <1>1, IInvStep DEF CreationInv
<1>4. TransactionInv'
  BY <1>2, TransactionInvStep DEF CreationInv
<1>5. CreateInv' /\ OnlyCreationMakes'
  BY <1>2, CreateInvStep DEF CreationInv
<1>6. CommandInv'
  BY CommandInvStep DEF CreationInv
<1> QED BY <1>1, <1>2, <1>3, <1>4, <1>5, <1>6 DEF CreationInv

LEMMA CreationInvInit ==
    ASSUME CFFInit
    PROVE  CreationInv
<1>1. IInv
  BY InitSound DEF CFFInit
<1>2. TransactionInv /\ CreateInv /\ OnlyCreationMakes
  BY DEF CFFInit, Init, TransactionInv, CreateInv, OnlyCreationMakes, Idle
<1>3. /\ txs = <<>> /\ cmd = NotStarted /\ wallet \in WalletState
  BY WalletAssumption DEF CFFInit
<1>4. DOMAIN txs = {} /\ Len(txs) = 0 /\ txs \in Seq({})
  BY <1>3
<1>5. MinedTo(txs, 0) /\ IsList(txs)
  BY <1>4 DEF MinedTo, IsList
<1>6. NextNonce = 1
  BY <1>5, NonceIs
<1>7. ListInv
  <2>1. NextNonce - 1 = 0
    BY <1>6
  <2> QED BY <1>4, <1>5, <2>1 DEF ListInv
<1>8. cmd = [run |-> 0, at |-> "start", contract |-> ZERO, piece |-> NoPiece,
             setup |-> FALSE, curio |-> FALSE, cost |-> 0, price |-> 0, lockup |-> 0,
             account |-> NoAccount, approval |-> NoApproval, seen |-> 0,
             receipt |-> 0, i |-> 1]
  BY <1>3 DEF NotStarted
<1>9. NoAccount \in Account /\ NoApproval \in Approval
  BY DEF NoAccount, Account, NoApproval, Approval
<1>10. cmd \in CommandRecord
  BY <1>8, <1>9 DEF CommandRecord, Places, Ended
<1>11. Fits(cmd, txs)
  BY <1>8, <1>10, MaxRunsAssumption DEF Fits, Ended, Waits, AfterWait, Offers
<1>12. CommandInv
  BY <1>3, <1>4, <1>6, <1>7, <1>8, <1>11
     DEF CommandInv, TxsTyped, RunsCreation, Mining, Deficient
<1> QED BY <1>1, <1>2, <1>12 DEF CreationInv

\* The diamond's invariants hold beside the command, whose transactions have
\* arguments of its own; and what is known of the command holds throughout.
THEOREM CreationsInvariance == CFFSpec => []CreationInv
<1>1. CFFInit => CreationInv
  BY CreationInvInit
<1>2. CreationInv /\ [CFFNext]_cffVars => CreationInv'
  BY CreationInvStep
<1> QED BY <1>1, <1>2, PTL DEF CFFSpec

----------------------------------------------------------------------------
(* What the receipts say was created.                                      *)

\* The allocations in the receipts of list are the user's in the storage st,
\* and each is in one place.
ReceiptsSound(list, st) ==
    /\ \A i \in DOMAIN list : \A j \in DOMAIN list[i].events :
          st.allocationInfos[list[i].events[j]].client = User
    /\ \A i, k \in DOMAIN list :
          \A j \in DOMAIN list[i].events, l \in DOMAIN list[k].events :
             list[i].events[j] = list[k].events[l] => i = k /\ j = l

\* The ids a running creation has passed are its client's now, were nobody's
\* when it began, and are different.
MadeInv ==
    call.fn = "create" =>
        \A k \in 1 .. call.i - 1 :
            /\ s.allocationInfos[call.newAllocations[k]].client = call.client
            /\ call.saved.s.allocationInfos[call.newAllocations[k]].client = ZERO
            /\ \A l \in 1 .. call.i - 1 :
                  call.newAllocations[l] = call.newAllocations[k] => l = k

MadeSoFar == MadeInv /\ ReceiptsSound(txs, committed.s)

LEMMA MadeInvStep ==
    ASSUME CreationInv, MadeInv, Steps
    PROVE  MadeInv'
<1>0. IInv /\ TransactionInv /\ CreateInv
  BY DEF CreationInv
<1>1. CASE call' = Idle
  BY <1>1 DEF MadeInv, Idle
<1>2. CASE Begins
  <2>1. call'.fn = "create" => call'.i = 1
    BY <1>2 DEF Begins, createAllocationRequests, handleSectorContentChanged,
                settleSpTotalPayment
  <2>2. call'.fn = "create" => 1 .. call'.i - 1 = {}
    BY <2>1
  <2> QED BY <2>2 DEF MadeInv
<1>3. CASE Continues
  <2>1. call'.fn = call.fn /\ call # Idle /\ call'.saved = call.saved
    BY <1>3 DEF Continues
  <2>2. CASE createAllocation
    <3> DEFINE a == call.newAllocations[call.i]
    <3>1. /\ call.fn = "create" /\ call.i <= Len(call.newAllocations)
          /\ s.allocationInfos[a].client = ZERO
      BY <2>2 DEF createAllocation, creating, canCreateAllocation
    <3>2. /\ call.newAllocations \in Seq(AllocationIds) /\ call.i \in Nat \ {0}
          /\ call \in CreateFrame
      BY <1>0, <3>1, CreateFrameType
    <3>3. /\ call.client \in Clients /\ call.client # ZERO /\ a \in AllocationIds
      BY <1>0, <2>2, CreateFrameParts, ZeroAssumption DEF createAllocation
    <3>4. /\ call'.i = call.i + 1 /\ call'.newAllocations = call.newAllocations
          /\ call'.client = call.client
      BY <2>2, <3>2 DEF createAllocation, Continue, CreateFrame
    <3>5. \A b \in AllocationIds : s'.allocationInfos[b].client =
                IF b = a THEN call.client ELSE s.allocationInfos[b].client
      BY <1>0, <2>2, <3>3, SoundParts DEF createAllocation, DDOState
    <3>6. call.saved.s.allocationInfos[a].client = ZERO
      <4>1. a \notin Allocated(call.saved.s)
        BY <1>0, <2>2, CreateMakes
      <4> QED BY <3>3, <4>1 DEF Allocated
    <3>7. \A k \in 1 .. call.i - 1 : call.newAllocations[k] \in AllocationIds
      BY <3>1, <3>2
    <3>8. \A k \in 1 .. call.i - 1 :
              /\ call.newAllocations[k] # a
              /\ s'.allocationInfos[call.newAllocations[k]].client = call.client
      BY <3>1, <3>3, <3>5, <3>7 DEF MadeInv
    <3>9. 1 .. call'.i - 1 = (1 .. call.i - 1) \cup {call.i}
      BY <3>2, <3>4
    <3>10. call.i \notin 1 .. call.i - 1
      BY <3>2
    <3>11. s'.allocationInfos[a].client = call.client
      BY <3>3, <3>5
    <3>12. ASSUME NEW k \in 1 .. call'.i - 1
           PROVE  /\ s'.allocationInfos[call.newAllocations[k]].client = call.client
                  /\ call.saved.s.allocationInfos[call.newAllocations[k]].client = ZERO
                  /\ \A l \in 1 .. call'.i - 1 :
                        call.newAllocations[l] = call.newAllocations[k] => l = k
      <4>1. CASE k = call.i
        BY <3>6, <3>8, <3>9, <3>11, <4>1
      <4>2. CASE k \in 1 .. call.i - 1
        BY <3>1, <3>8, <3>9, <4>2 DEF MadeInv
      <4> QED BY <3>9, <4>1, <4>2
    <3> QED BY <2>1, <3>4, <3>12 DEF MadeInv
  <2>3. CASE ~createAllocation
    <3>1. call.fn # "create"
      BY <1>3, <2>3
         DEF Continues, activatePiece, rejectPiece, notifying, settleNext,
             settleSkip, settling
    <3> QED BY <2>1, <3>1 DEF MadeInv
  <2> QED BY <2>2, <2>3
<1>4. CASE UNCHANGED vars
  BY <1>4 DEF MadeInv, vars
<1> QED BY <1>1, <1>2, <1>3, <1>4 DEF Steps, Whole, Reverts, Revert, Returns

\* An allocation that is committed keeps its client.
LEMMA ClientsKept ==
    ASSUME CreationInv, [AnyNext]_vars
    PROVE  \A a \in AllocationIds :
               committed.s.allocationInfos[a].client # ZERO =>
                   committed'.s.allocationInfos[a].client =
                       committed.s.allocationInfos[a].client
<1>0. IInv /\ TransactionInv
  BY DEF CreationInv
<1>1. CASE AnyNext
  <2>1. ASSUME NEW a \in AllocationIds, committed.s.allocationInfos[a].client # ZERO
        PROVE  committed'.s.allocationInfos[a].client =
                   committed.s.allocationInfos[a].client
    <3>1. Final(committed.s.allocationInfos[a], committed'.s.allocationInfos[a])
      BY <1>0, <1>1, <2>1, TransactionFinal DEF Allocated
    <3>2. committed.s.allocationInfos[a] \in AllocationInfo
      BY <1>0, SoundParts DEF Snapshots, DDOState
    <3> QED BY <3>1, <3>2 DEF Final, AllocationInfo
  <2> QED BY <2>1
<1>2. CASE UNCHANGED vars
  BY <1>2 DEF vars, committed, Snapshot
<1> QED BY <1>1, <1>2

\* What is the client's in the committed storage is its own in the running call.
LEMMA ClientsNow ==
    ASSUME CreationInv, NEW a \in AllocationIds,
           committed.s.allocationInfos[a].client # ZERO
    PROVE  s.allocationInfos[a].client = committed.s.allocationInfos[a].client
<1>0. IInv /\ TransactionInv
  BY DEF CreationInv
<1>1. CASE call = Idle
  BY <1>1 DEF committed, Snapshot
<1>2. CASE call # Idle
  <2>1. committed = call.saved
    BY <1>2 DEF committed
  <2>2. Final(call.saved.s.allocationInfos[a], s.allocationInfos[a])
    BY <1>0, <1>2, <2>1 DEF TransactionInv, Allocated
  <2>3. call.saved.s.allocationInfos[a] \in AllocationInfo
    BY <1>0, <2>1, SoundParts DEF Snapshots, DDOState
  <2> QED BY <2>1, <2>2, <2>3 DEF Final, AllocationInfo
<1> QED BY <1>1, <1>2

LEMMA NotZero == User \in Clients /\ User # ZERO
BY WalletAssumption, ZeroAssumption

\* Receipts that stay, or are empty, stay sound.
LEMMA ReceiptsStay ==
    ASSUME CreationInv, [AnyNext]_vars, ReceiptsSound(txs, committed.s), NEW list,
           \A i \in DOMAIN list : \/ i \in DOMAIN txs /\ list[i].events = txs[i].events
                                  \/ list[i].events = <<>>
    PROVE  ReceiptsSound(list, committed'.s)
<1>1. DOMAIN <<>> = {}
  OBVIOUS
<1>2. ASSUME NEW i \in DOMAIN list, NEW j \in DOMAIN list[i].events
      PROVE  /\ i \in DOMAIN txs /\ list[i].events = txs[i].events
             /\ j \in DOMAIN txs[i].events
  BY <1>1, <1>2
<1>3. ASSUME NEW i \in DOMAIN list, NEW j \in DOMAIN list[i].events
      PROVE  committed'.s.allocationInfos[list[i].events[j]].client = User
  <2>1. /\ i \in DOMAIN txs /\ list[i].events = txs[i].events
        /\ j \in DOMAIN txs[i].events
    BY <1>2
  <2>2. txs[i].events[j] \in AllocationIds
    <3>1. txs[i].events \in Seq(AllocationIds)
      BY <2>1 DEF CreationInv, CommandInv, TxsTyped, TxTyped
    <3> QED BY <2>1, <3>1
  <2>3. committed.s.allocationInfos[txs[i].events[j]].client = User
    BY <2>1 DEF ReceiptsSound
  <2> QED BY <2>1, <2>2, <2>3, ClientsKept, NotZero
<1>4. ASSUME NEW i \in DOMAIN list, NEW k \in DOMAIN list,
             NEW j \in DOMAIN list[i].events, NEW l \in DOMAIN list[k].events,
             list[i].events[j] = list[k].events[l]
      PROVE  i = k /\ j = l
  BY <1>2, <1>4 DEF ReceiptsSound
<1> QED BY <1>3, <1>4 DEF ReceiptsSound

\* A creation that returns puts its allocations into its receipt.
LEMMA ReceiptsGrow ==
    ASSUME CreationInv, MadeSoFar, [AnyNext]_vars, NEW i, NEW tx, Mines(i, tx),
           txs[i].status = "running", createReturn, tx.events = call.newAllocations
    PROVE  ReceiptsSound(txs', committed'.s)
<1>0. IInv /\ CreateInv /\ CommandInv /\ TransactionInv
  BY DEF CreationInv
<1>1. /\ i \in DOMAIN txs /\ DOMAIN txs' = DOMAIN txs
      /\ \A j \in DOMAIN txs : j # i => txs'[j] = txs[j]
      /\ txs'[i] = tx
  BY <1>0, MinesList
<1>2. /\ call.fn = "create" /\ call.client = User /\ call # Idle
      /\ committed = call.saved /\ committed'.s = s'
      /\ s'.allocationInfos = s.allocationInfos
  <2>1. call.fn = "create" /\ call.client = User /\ call # Idle
    BY <1>0, <1>1 DEF CommandInv, RunsCreation, Mining, createReturn, Idle
  <2>2. committed = call.saved
    BY <2>1 DEF committed
  <2>3. call' = Idle /\ s' = [s EXCEPT !.reentrancyStatus = NOT_ENTERED]
    BY DEF createReturn
  <2>4. committed'.s = s'
    BY <2>3 DEF committed, Snapshot
  <2>5. s'.allocationInfos = s.allocationInfos
    BY <1>0, <2>3, SoundParts DEF DDOState
  <2> QED BY <2>1, <2>2, <2>4, <2>5
<1>3. \A k \in DOMAIN call.newAllocations : k \in 1 .. call.i - 1
  <2>1. /\ call.newAllocations \in Seq(AllocationIds) /\ call.i \in Nat
        /\ call.i > Len(call.newAllocations)
    BY <1>0, <1>2, CreateFrameType DEF createReturn, creating
  <2> QED BY <2>1
<1>4. \A k \in DOMAIN call.newAllocations :
          /\ s.allocationInfos[call.newAllocations[k]].client = User
          /\ call.saved.s.allocationInfos[call.newAllocations[k]].client = ZERO
          /\ \A l \in DOMAIN call.newAllocations :
                call.newAllocations[l] = call.newAllocations[k] => l = k
  BY <1>2, <1>3 DEF MadeSoFar, MadeInv
<1>5. ASSUME NEW k \in DOMAIN txs, k # i, NEW j \in DOMAIN txs[k].events
      PROVE  /\ committed'.s.allocationInfos[txs[k].events[j]].client = User
             /\ call.saved.s.allocationInfos[txs[k].events[j]].client = User
  <2>1. txs[k].events \in Seq(AllocationIds)
    BY <1>0 DEF CommandInv, TxsTyped, TxTyped
  <2>2. txs[k].events[j] \in AllocationIds
    BY <2>1
  <2>3. committed.s.allocationInfos[txs[k].events[j]].client = User
    BY DEF MadeSoFar, ReceiptsSound
  <2> QED BY <1>2, <2>2, <2>3, ClientsKept, NotZero
<1>6. ASSUME NEW k \in DOMAIN txs', NEW j \in DOMAIN txs'[k].events
      PROVE  committed'.s.allocationInfos[txs'[k].events[j]].client = User
  <2>1. CASE k = i
    BY <1>1, <1>2, <1>4, <1>6, <2>1
  <2>2. CASE k # i
    BY <1>1, <1>5, <1>6, <2>2
  <2> QED BY <2>1, <2>2
<1>7. ASSUME NEW k \in DOMAIN txs', NEW m \in DOMAIN txs',
             NEW j \in DOMAIN txs'[k].events, NEW l \in DOMAIN txs'[m].events,
             txs'[k].events[j] = txs'[m].events[l]
      PROVE  k = m /\ j = l
  <2>1. CASE k = i /\ m = i
    BY <1>1, <1>4, <1>7, <2>1
  <2>2. CASE k = i /\ m # i
    <3>1. /\ call.saved.s.allocationInfos[txs'[k].events[j]].client = ZERO
          /\ call.saved.s.allocationInfos[txs'[m].events[l]].client = User
      BY <1>1, <1>4, <1>5, <2>2
    <3> QED BY <1>7, <3>1, NotZero
  <2>3. CASE k # i /\ m = i
    <3>1. /\ call.saved.s.allocationInfos[txs'[m].events[l]].client = ZERO
          /\ call.saved.s.allocationInfos[txs'[k].events[j]].client = User
      BY <1>1, <1>4, <1>5, <2>3
    <3> QED BY <1>7, <3>1, NotZero
  <2>4. CASE k # i /\ m # i
    BY <1>1, <1>7, <2>4 DEF MadeSoFar, ReceiptsSound
  <2> QED BY <2>1, <2>2, <2>3, <2>4
<1> QED BY <1>6, <1>7 DEF ReceiptsSound

LEMMA ReceiptsStep ==
    ASSUME CreationInv, MadeSoFar, [CFFNext]_cffVars
    PROVE  MadeSoFar'
<1>1. [AnyNext]_vars /\ Steps
  BY CreationInvStep
<1>2. MadeInv'
  BY <1>1, MadeInvStep DEF MadeSoFar
<1>3. IInv /\ CommandInv
  BY DEF CreationInv
<1>4. CASE CommandStep
  <2>1. /\ \A i \in DOMAIN txs : txs'[i] = txs[i]
        /\ \/ txs' = txs
           \/ /\ cmd.at \in Sends /\ txs'[Len(txs')] = NextTx
              /\ DOMAIN txs' = DOMAIN txs \cup {Len(txs')}
    BY <1>3, <1>4, CommandList DEF CommandStep
  <2>2. cmd.at \in Sends => NextTx.events = <<>>
    BY <1>3, NextTxIs
  <2>3. \A i \in DOMAIN txs' : \/ i \in DOMAIN txs /\ txs'[i].events = txs[i].events
                               \/ txs'[i].events = <<>>
    BY <2>1, <2>2
  <2>4. ReceiptsSound(txs', committed'.s)
    BY <1>1, <2>3, ReceiptsStay DEF MadeSoFar
  <2> QED BY <1>2, <2>4 DEF MadeSoFar
<1>5. CASE UNCHANGED txs
  <2>1. ReceiptsSound(txs', committed'.s)
    BY <1>1, <1>5, ReceiptsStay DEF MadeSoFar
  <2> QED BY <1>2, <2>1 DEF MadeSoFar
<1>6. ASSUME NEW i, NEW tx, Mines(i, tx)
      PROVE  MadeSoFar'
  <2>1. /\ DOMAIN txs' = DOMAIN txs /\ txs'[i] = tx
        /\ \A j \in DOMAIN txs : j # i => txs'[j] = txs[j]
    BY <1>3, <1>6, MinesList
  <2>2. CASE tx.events = txs[i].events
    <3>1. \A k \in DOMAIN txs' : k \in DOMAIN txs /\ txs'[k].events = txs[k].events
      BY <2>1, <2>2
    <3>2. ReceiptsSound(txs', committed'.s)
      BY <1>1, <3>1, ReceiptsStay DEF MadeSoFar
    <3> QED BY <1>2, <3>2 DEF MadeSoFar
  <2>3. CASE /\ txs[i].status = "running" /\ createReturn
             /\ tx.events = call.newAllocations
    <3>1. ReceiptsSound(txs', committed'.s)
      BY <1>1, <1>6, <2>3, ReceiptsGrow
    <3> QED BY <1>2, <3>1 DEF MadeSoFar
  <2> QED BY <1>6, <2>2, <2>3 DEF Mines
<1>7. CASE Execute
  BY <1>5, <1>7, Starts
<1>8. CASE Aside
  BY <1>5, <1>8 DEF Aside
<1> QED BY <1>3, <1>4, <1>6, <1>7, <1>8, CreateKinds

LEMMA ReceiptsHold == CFFSpec => []MadeSoFar
<1>1. ASSUME CFFInit
      PROVE  MadeSoFar
  <2>1. txs = <<>> /\ call = Idle
    BY <1>1 DEF CFFInit, Init
  <2>2. DOMAIN txs = {}
    BY <2>1
  <2> QED BY <2>1, <2>2 DEF MadeSoFar, MadeInv, ReceiptsSound, Idle
<1>2. CreationInv /\ MadeSoFar /\ [CFFNext]_cffVars => MadeSoFar'
  BY ReceiptsStep
<1> QED BY <1>1, <1>2, CreationsInvariance, PTL DEF CFFSpec

----------------------------------------------------------------------------
(* What the Curio service is offered.                                      *)

Deal == [allocationId: AllocationIds, state: {"stored", "uploaded", "finalized"}]

\* An earlier run was through with the allocation, or this one has been at it.
OfferedAs(c, list, id) ==
    \E i \in DOMAIN list : \E j \in DOMAIN list[i].events :
        /\ id = list[i].events[j]
        /\ list[i].status \in {"succeeded", "reverted"}
        /\ \/ list[i].run < c.run
           \/ /\ i = c.receipt
              /\ j < c.i \/ (j = c.i /\ c.at \in {"upload", "finalize", "failed"})

Finalized(ds, id) == \E d \in DOMAIN ds : ds[d] = [allocationId |-> id, state |-> "finalized"]

\* How far the command c is with the list's receipt.
DealsFit(c, list, ds) ==
    /\ c.at \notin Offers \cup Ended => c.i = 1
    /\ c.at \in {"upload", "finalize"} =>
          ds # <<>> /\ ds[Len(ds)].allocationId = list[c.receipt].events[c.i]
    /\ c.at \in Offers \cup {"done"} /\ c.curio /\ c.receipt # 0 =>
          /\ list[c.receipt].events # <<>>
          /\ \A k \in DOMAIN list[c.receipt].events :
                c.at = "done" \/ k < c.i => Finalized(ds, list[c.receipt].events[k])

Once(ds) ==
    \A k, l \in DOMAIN ds : ds[k].allocationId = ds[l].allocationId => k = l

DealsInv ==
    /\ deals \in Seq(Deal) /\ Once(deals)
    /\ \A k \in DOMAIN deals : OfferedAs(cmd, txs, deals[k].allocationId)
    /\ DealsFit(cmd, txs, deals)

\* A deal that is stored comes last.
LEMMA StoredDeals ==
    ASSUME deals \in Seq(Deal), NEW id \in AllocationIds,
           deals' = Append(deals, [allocationId |-> id, state |-> "stored"])
    PROVE  /\ deals' \in Seq(Deal) /\ deals' # <<>>
           /\ DOMAIN deals' = DOMAIN deals \cup {Len(deals')}
           /\ Len(deals') \notin DOMAIN deals
           /\ \A k \in DOMAIN deals : deals'[k] = deals[k]
           /\ deals'[Len(deals')].allocationId = id
<1>1. PICK deal : deal = [allocationId |-> id, state |-> "stored"]
  OBVIOUS
<1>2. deal \in Deal /\ deal.allocationId = id /\ deals' = Append(deals, deal)
  BY <1>1 DEF Deal
<1> QED BY <1>2

\* The deal the command is at goes on.
LEMMA AdvancedDeals ==
    ASSUME deals \in Seq(Deal), deals # <<>>,
           NEW state \in {"stored", "uploaded", "finalized"}, Advanced(state)
    PROVE  /\ deals' \in Seq(Deal) /\ deals' # <<>>
           /\ Len(deals') = Len(deals) /\ DOMAIN deals' = DOMAIN deals
           /\ Len(deals) \in DOMAIN deals
           /\ \A k \in DOMAIN deals : deals'[k].allocationId = deals[k].allocationId
           /\ \A k \in DOMAIN deals : k # Len(deals) => deals'[k] = deals[k]
           /\ deals'[Len(deals)] =
                 [allocationId |-> deals[Len(deals)].allocationId, state |-> state]
<1>1. /\ Len(deals) \in Nat /\ DOMAIN deals = 1 .. Len(deals)
      /\ Len(deals) \in DOMAIN deals
  OBVIOUS
<1>2. PICK n : n = Len(deals)
  OBVIOUS
<1>3. deals' = [deals EXCEPT ![n].state = state]
  BY <1>2 DEF Advanced, Current
<1>4. PICK deal : deal = [deals[n] EXCEPT !.state = state]
  OBVIOUS
<1>5. deals' = [deals EXCEPT ![n] = deal] /\ deals[n] \in Deal
  BY <1>1, <1>2, <1>3, <1>4
<1>6. /\ deal = [allocationId |-> deals[n].allocationId, state |-> state]
      /\ deal \in Deal
  BY <1>4, <1>5 DEF Deal
<1>7. deals' \in Seq(Deal) /\ Len(deals') = Len(deals) /\ DOMAIN deals' = DOMAIN deals
  BY <1>1, <1>2, <1>5, <1>6
<1>8. /\ \A k \in DOMAIN deals : k # n => deals'[k] = deals[k]
      /\ deals'[n] = deal
  BY <1>1, <1>2, <1>5
<1>9. deals' # <<>>
  BY <1>1, <1>7
<1> QED BY <1>1, <1>2, <1>6, <1>7, <1>8, <1>9

\* What is known of the command when it offers deals.
LEMMA Offering ==
    ASSUME CreationInv, DealsInv, MadeSoFar, cmd.at \in Offers
    PROVE  /\ cmd.receipt \in DOMAIN txs /\ txs[cmd.receipt].run = cmd.run
           /\ txs[cmd.receipt].status \in {"succeeded", "reverted"}
           /\ Created \in Seq(AllocationIds) /\ Created # <<>>
           /\ DOMAIN Created = 1 .. Len(Created) /\ Len(Created) \in Nat
           /\ cmd.i \in Nat \ {0} /\ cmd.run \in Nat
           /\ cmd.at # "store" => cmd.i \in DOMAIN Created
           /\ \A k, l \in DOMAIN Created : Created[k] = Created[l] => k = l
<1>1. /\ cmd.receipt # 0 /\ cmd.receipt \in DOMAIN txs
      /\ txs[cmd.receipt].run = cmd.run
      /\ txs[cmd.receipt].status \in {"succeeded", "reverted"}
      /\ Created # <<>> /\ cmd.i \in Nat \ {0} /\ cmd.run \in Nat
      /\ cmd.at # "store" => cmd.i <= Len(Created)
  BY DEF CreationInv, CommandInv, Fits, CommandRecord, Created, Offers
<1>2. Created \in Seq(AllocationIds)
  BY <1>1 DEF CreationInv, CommandInv, TxsTyped, TxTyped, Created
<1>3. DOMAIN Created = 1 .. Len(Created) /\ Len(Created) \in Nat
  BY <1>2
<1>4. \A k, l \in DOMAIN Created : Created[k] = Created[l] => k = l
  BY <1>1 DEF MadeSoFar, ReceiptsSound, Created
<1> QED BY <1>1, <1>2, <1>3, <1>4

\* A command that goes on has been at what it was at before.
LEMMA OfferedStays ==
    ASSUME CreationInv, CommandStep, NEW id, OfferedAs(cmd, txs, id)
    PROVE  OfferedAs(cmd', txs', id)
<1>1. PICK i \in DOMAIN txs : \E j \in DOMAIN txs[i].events :
          /\ id = txs[i].events[j]
          /\ txs[i].status \in {"succeeded", "reverted"}
          /\ \/ txs[i].run < cmd.run
             \/ /\ i = cmd.receipt
                /\ \/ j < cmd.i
                   \/ j = cmd.i /\ cmd.at \in {"upload", "finalize", "failed"}
  BY DEF OfferedAs
<1>2. PICK j \in DOMAIN txs[i].events :
          /\ id = txs[i].events[j]
          /\ txs[i].status \in {"succeeded", "reverted"}
          /\ \/ txs[i].run < cmd.run
             \/ /\ i = cmd.receipt
                /\ \/ j < cmd.i
                   \/ j = cmd.i /\ cmd.at \in {"upload", "finalize", "failed"}
  BY <1>1
<1>3. i \in DOMAIN txs' /\ txs'[i] = txs[i]
  BY CommandList DEF CommandStep, CreationInv
<1>4. /\ cmd.at \notin Ended /\ Leads(cmd.at, cmd'.at)
      /\ Learns(cmd, cmd') /\ Decides(cmd, cmd')
  BY DEF CommandStep, Goes
<1>5. cmd'.run = cmd.run
  BY <1>4 DEF Learns
<1>6. CASE txs[i].run < cmd.run
  BY <1>2, <1>3, <1>5, <1>6 DEF OfferedAs
<1>7. CASE i = cmd.receipt
  <2>1. cmd.receipt # 0 /\ cmd.at \in Offers /\ cmd.i \in Nat
    <3>1. i # 0
      <4>1. DOMAIN txs = 1 .. Len(txs) /\ Len(txs) \in Nat
        BY ListOrder DEF CreationInv, CommandInv
      <4> QED BY <4>1
    <3> QED BY <1>4, <1>7, <3>1
            DEF CreationInv, CommandInv, Fits, CommandRecord, Ended
  <2>2. cmd'.receipt = cmd.receipt
    BY <1>4, <2>1 DEF Learns, Offers
  <2>6. j \in Nat
    <3>1. txs[i].events \in Seq(AllocationIds)
      BY DEF CreationInv, CommandInv, TxsTyped, TxTyped
    <3> QED BY <3>1
  <2>3. \/ j < cmd'.i
        \/ j = cmd'.i /\ cmd'.at \in {"upload", "finalize", "failed"}
    <3>1. CASE j < cmd.i
      BY <1>4, <2>1, <2>6, <3>1 DEF Learns
    <3>2. CASE j = cmd.i /\ cmd.at = "upload"
      BY <1>4, <3>2 DEF Learns, Leads
    <3>3. CASE j = cmd.i /\ cmd.at = "finalize"
      <4>1. CASE cmd'.at = "store"
        BY <1>4, <2>1, <2>6, <3>3, <4>1 DEF Decides
      <4>2. CASE cmd'.at = "failed"
        BY <1>4, <3>3, <4>2 DEF Learns
      <4> QED BY <1>4, <3>3, <4>1, <4>2 DEF Leads
    <3>4. CASE ~(txs[i].run < cmd.run)
      BY <1>2, <2>1, <3>1, <3>2, <3>3, <3>4 DEF Offers
    <3>5. CASE txs[i].run < cmd.run
      <4>1. txs[i].run = cmd.run /\ cmd.run \in Nat
        BY <1>7, <2>1 DEF CreationInv, CommandInv, Fits, CommandRecord
      <4> QED BY <3>5, <4>1
    <3> QED BY <3>4, <3>5
  <2> QED BY <1>2, <1>3, <1>7, <2>2, <2>3 DEF OfferedAs
<1> QED BY <1>2, <1>6, <1>7

\* What is stored now nobody was at before.
LEMMA StoresNew ==
    ASSUME CreationInv, MadeSoFar, DealsInv, cmd.at = "store", cmd.i <= Len(Created)
    PROVE  /\ Created[cmd.i] \in AllocationIds /\ cmd.i \in DOMAIN Created
           /\ ~OfferedAs(cmd, txs, Created[cmd.i])
<1>1. /\ cmd.receipt \in DOMAIN txs /\ txs[cmd.receipt].run = cmd.run
      /\ Created \in Seq(AllocationIds)
      /\ DOMAIN Created = 1 .. Len(Created) /\ Len(Created) \in Nat
      /\ cmd.i \in Nat \ {0} /\ cmd.run \in Nat
  BY Offering DEF Offers
<1>2. cmd.i \in DOMAIN Created
  BY <1>1
<1>3. ASSUME NEW i \in DOMAIN txs, NEW j \in DOMAIN txs[i].events,
             Created[cmd.i] = txs[i].events[j]
      PROVE  i = cmd.receipt /\ j = cmd.i
  BY <1>1, <1>2, <1>3 DEF MadeSoFar, ReceiptsSound, Created
<1>4. ~OfferedAs(cmd, txs, Created[cmd.i])
  BY <1>1, <1>3 DEF OfferedAs
<1> QED BY <1>1, <1>2, <1>4

\* What the Curio service has after a step of the command.
LEMMA DealsAfter ==
    ASSUME CreationInv, MadeSoFar, DealsInv, CommandStep
    PROVE  /\ deals' \in Seq(Deal) /\ Once(deals')
           /\ \A k \in DOMAIN deals' : OfferedAs(cmd', txs', deals'[k].allocationId)
           /\ \A id : /\ Finalized(deals, id)
                      /\ cmd.at \in {"upload", "finalize"} => id # Created[cmd.i]
                      => Finalized(deals', id)
           /\ cmd'.at = "upload" =>
                 deals' # <<>> /\ deals'[Len(deals')].allocationId = Created[cmd.i]
           /\ cmd'.at = "finalize" =>
                 deals' # <<>> /\ deals'[Len(deals')].allocationId = Created[cmd.i]
           /\ cmd.at = "finalize" /\ cmd'.at = "store" =>
                 Finalized(deals', Created[cmd.i])
<1>0. /\ deals \in Seq(Deal) /\ Once(deals) /\ DealsFit(cmd, txs, deals)
      /\ \A k \in DOMAIN deals : OfferedAs(cmd, txs, deals[k].allocationId)
  BY DEF DealsInv
<1>1. cmd.at \notin Ended /\ Leads(cmd.at, cmd'.at) /\ DealsGo
  BY DEF CommandStep, Goes
<1>2. \A k \in DOMAIN deals : OfferedAs(cmd', txs', deals[k].allocationId)
  BY <1>0, OfferedStays
<1>3. cmd.at \in {"upload", "finalize"} =>
          deals # <<>> /\ deals[Len(deals)].allocationId = Created[cmd.i]
  BY <1>0 DEF DealsFit, Created
<1>4. CASE /\ deals' = deals
           /\ cmd.at \in {"upload", "finalize"} => cmd'.at = "failed"
           /\ ~(cmd.at = "store" /\ cmd'.at = "upload")
  <2>1. cmd'.at \notin {"upload", "finalize"}
    BY <1>1, <1>4 DEF Leads
  <2>2. ~(cmd.at = "finalize" /\ cmd'.at = "store")
    BY <1>4
  <2> QED BY <1>0, <1>2, <1>4, <2>1, <2>2
<1>5. CASE /\ cmd.at = "store" /\ cmd.i <= Len(Created) /\ Stored /\ cmd'.at # "done"
  <2>1. PICK id : id = Created[cmd.i]
    OBVIOUS
  <2>2. id \in AllocationIds /\ cmd.i \in DOMAIN Created /\ ~OfferedAs(cmd, txs, id)
    BY <1>5, <2>1, StoresNew
  <2>3. deals' = Append(deals, [allocationId |-> id, state |-> "stored"])
    BY <1>5, <2>1 DEF Stored
  <2>4. /\ deals' \in Seq(Deal) /\ deals' # <<>>
        /\ DOMAIN deals' = DOMAIN deals \cup {Len(deals')}
        /\ Len(deals') \notin DOMAIN deals
        /\ \A k \in DOMAIN deals : deals'[k] = deals[k]
        /\ deals'[Len(deals')].allocationId = id
    BY <1>0, <2>2, <2>3, StoredDeals
  <2>5. OfferedAs(cmd', txs', id)
    <3>1. /\ cmd.receipt \in DOMAIN txs
          /\ txs[cmd.receipt].status \in {"succeeded", "reverted"}
      BY <1>5, Offering DEF Offers
    <3>2. cmd.receipt \in DOMAIN txs' /\ txs'[cmd.receipt] = txs[cmd.receipt]
      BY <3>1, CommandList DEF CommandStep, CreationInv
    <3>3. cmd'.receipt = cmd.receipt /\ cmd'.i = cmd.i
      BY <1>5 DEF CommandStep, Goes, Learns
    <3>4. cmd'.at \in {"upload", "failed"}
      BY <1>1, <1>5 DEF Leads
    <3>5. cmd.i \in DOMAIN txs'[cmd.receipt].events /\ id = txs'[cmd.receipt].events[cmd.i]
      BY <2>1, <2>2, <3>2 DEF Created
    <3> QED BY <3>1, <3>2, <3>3, <3>4, <3>5 DEF OfferedAs
  <2>6. ASSUME NEW k \in DOMAIN deals
        PROVE  deals[k].allocationId # id
    BY <1>0, <2>2
  <2>7. Once(deals')
    <3>1. ASSUME NEW k \in DOMAIN deals', NEW l \in DOMAIN deals',
                 deals'[k].allocationId = deals'[l].allocationId
          PROVE  k = l
      BY <1>0, <2>4, <2>6, <3>1 DEF Once
    <3> QED BY <3>1 DEF Once
  <2>8. \A k \in DOMAIN deals' : OfferedAs(cmd', txs', deals'[k].allocationId)
    BY <1>2, <2>4, <2>5
  <2>9. \A x : Finalized(deals, x) => Finalized(deals', x)
    BY <2>4 DEF Finalized
  <2> QED BY <1>5, <2>1, <2>4, <2>7, <2>8, <2>9
<1>6. ASSUME NEW state \in {"uploaded", "finalized"}, Advanced(state),
             cmd.at \in {"upload", "finalize"}
      PROVE  /\ deals' \in Seq(Deal) /\ Once(deals') /\ deals' # <<>>
             /\ \A k \in DOMAIN deals' : OfferedAs(cmd', txs', deals'[k].allocationId)
             /\ \A id : Finalized(deals, id) /\ id # Created[cmd.i]
                           => Finalized(deals', id)
             /\ deals'[Len(deals')].allocationId = Created[cmd.i]
             /\ state = "finalized" => Finalized(deals', Created[cmd.i])
  <2>1. /\ deals' \in Seq(Deal) /\ deals' # <<>>
        /\ Len(deals') = Len(deals) /\ DOMAIN deals' = DOMAIN deals
        /\ Len(deals) \in DOMAIN deals
        /\ \A k \in DOMAIN deals : deals'[k].allocationId = deals[k].allocationId
        /\ \A k \in DOMAIN deals : k # Len(deals) => deals'[k] = deals[k]
        /\ deals'[Len(deals)] =
              [allocationId |-> deals[Len(deals)].allocationId, state |-> state]
    BY <1>0, <1>3, <1>6, AdvancedDeals
  <2>2. Once(deals')
    BY <1>0, <2>1 DEF Once
  <2>3. ASSUME NEW id, Finalized(deals, id), id # Created[cmd.i]
        PROVE  Finalized(deals', id)
    <3>1. PICK d \in DOMAIN deals : deals[d] = [allocationId |-> id, state |-> "finalized"]
      BY <2>3 DEF Finalized
    <3>2. deals[d].allocationId = id
      BY <3>1
    <3>3. d # Len(deals)
      BY <1>3, <1>6, <2>3, <3>2
    <3> QED BY <2>1, <3>1, <3>3 DEF Finalized
  <2>4. state = "finalized" => Finalized(deals', Created[cmd.i])
    BY <1>3, <1>6, <2>1 DEF Finalized
  <2>5. \A k \in DOMAIN deals' : OfferedAs(cmd', txs', deals'[k].allocationId)
    BY <1>2, <2>1
  <2>6. deals'[Len(deals')].allocationId = Created[cmd.i]
    BY <1>3, <1>6, <2>1
  <2> QED BY <2>1, <2>2, <2>3, <2>4, <2>5, <2>6
<1>7. CASE cmd.at = "upload" /\ Advanced("uploaded")
  <2>1. cmd'.at \in {"finalize", "failed"}
    BY <1>1, <1>7 DEF Leads
  <2> QED BY <1>6, <1>7, <2>1
<1>8. CASE cmd.at = "finalize" /\ Advanced("finalized")
  <2>1. cmd'.at \in {"store", "failed"}
    BY <1>1, <1>8 DEF Leads
  <2> QED BY <1>6, <1>8, <2>1
<1> QED BY <1>1, <1>4, <1>5, <1>7, <1>8 DEF DealsGo

LEMMA DealsInvGoes ==
    ASSUME CreationInv, MadeSoFar, DealsInv, CommandStep
    PROVE  DealsInv'
<1>1. /\ deals' \in Seq(Deal) /\ Once(deals')
      /\ \A k \in DOMAIN deals' : OfferedAs(cmd', txs', deals'[k].allocationId)
      /\ \A id : /\ Finalized(deals, id)
                 /\ cmd.at \in {"upload", "finalize"} => id # Created[cmd.i]
                 => Finalized(deals', id)
      /\ cmd'.at = "upload" =>
            deals' # <<>> /\ deals'[Len(deals')].allocationId = Created[cmd.i]
      /\ cmd'.at = "finalize" =>
            deals' # <<>> /\ deals'[Len(deals')].allocationId = Created[cmd.i]
      /\ cmd.at = "finalize" /\ cmd'.at = "store" => Finalized(deals', Created[cmd.i])
  BY DealsAfter
<1>2. /\ cmd.at \notin Ended /\ Leads(cmd.at, cmd'.at)
      /\ Learns(cmd, cmd') /\ Decides(cmd, cmd') /\ DealsFit(cmd, txs, deals)
  BY DEF CommandStep, Goes, DealsInv
<1>3. cmd.at \in Offers =>
          /\ cmd'.receipt = cmd.receipt /\ cmd.curio /\ cmd.receipt # 0
          /\ txs'[cmd'.receipt].events = Created /\ Created # <<>>
          /\ DOMAIN Created = 1 .. Len(Created) /\ Len(Created) \in Nat
          /\ cmd.i \in Nat \ {0}
          /\ cmd.at # "store" => cmd.i \in DOMAIN Created
          /\ \A k, l \in DOMAIN Created : Created[k] = Created[l] => k = l
          /\ \A k \in DOMAIN Created : k < cmd.i => Finalized(deals, Created[k])
  <2>1. ASSUME cmd.at \in Offers
        PROVE  cmd'.receipt = cmd.receipt /\ cmd.curio /\ cmd.receipt # 0
    BY <1>2, <2>1 DEF Learns, Offers, CreationInv, CommandInv, Fits
  <2>2. ASSUME cmd.at \in Offers
        PROVE  txs'[cmd'.receipt].events = Created
    <3>1. cmd.receipt \in DOMAIN txs
      BY <2>2, Offering
    <3>2. txs'[cmd.receipt] = txs[cmd.receipt]
      BY <3>1, CommandList DEF CommandStep, CreationInv
    <3> QED BY <2>1, <2>2, <3>2 DEF Created
  <2>3. ASSUME cmd.at \in Offers
        PROVE  \A k \in DOMAIN Created : k < cmd.i => Finalized(deals, Created[k])
    BY <1>2, <2>1, <2>3 DEF DealsFit, Created
  <2> QED BY <2>1, <2>2, <2>3, Offering
<1>4. cmd'.at \notin Offers \cup Ended => cmd'.i = 1
  <2>1. ASSUME cmd'.at \notin Offers \cup Ended
        PROVE  cmd.at \notin Offers \cup Ended /\ cmd'.i = cmd.i
    BY <1>2, <2>1 DEF Leads, Offers, Ended, Learns
  <2> QED BY <1>2, <2>1 DEF DealsFit
<1>5. cmd'.at \in {"upload", "finalize"} =>
          /\ deals' # <<>>
          /\ deals'[Len(deals')].allocationId = txs'[cmd'.receipt].events[cmd'.i]
  <2>1. ASSUME cmd'.at \in {"upload", "finalize"}
        PROVE  cmd.at \in Offers /\ cmd'.i = cmd.i
    BY <1>2, <2>1 DEF Leads, Offers, Learns
  <2> QED BY <1>1, <1>3, <2>1
<1>6. ASSUME cmd'.at \in Offers \cup {"done"}, cmd'.curio, cmd'.receipt # 0
      PROVE  /\ txs'[cmd'.receipt].events # <<>>
             /\ \A k \in DOMAIN txs'[cmd'.receipt].events :
                   cmd'.at = "done" \/ k < cmd'.i =>
                       Finalized(deals', txs'[cmd'.receipt].events[k])
  <2>1. CASE cmd.at \in Offers
    <3>1. \A k \in DOMAIN Created : k < cmd.i => Finalized(deals', Created[k])
      <4>1. ASSUME NEW k \in DOMAIN Created, k < cmd.i,
                   cmd.at \in {"upload", "finalize"}
            PROVE  Created[k] # Created[cmd.i]
        <5>1. cmd.i \in DOMAIN Created /\ k # cmd.i
          BY <1>3, <2>1, <4>1
        <5> QED BY <1>3, <2>1, <5>1
      <4> QED BY <1>1, <1>3, <2>1, <4>1
    <3>2. CASE cmd'.at = "done"
      <4>1. cmd.at = "store" /\ ~(cmd.i <= Len(Created))
        BY <1>2, <2>1, <3>2 DEF Leads, Offers, Decides
      <4>2. \A k \in DOMAIN Created : k < cmd.i
        BY <1>3, <2>1, <4>1
      <4> QED BY <1>3, <2>1, <3>1, <4>2
    <3>3. CASE cmd.at = "finalize" /\ cmd'.at = "store"
      <4>1. cmd'.i = cmd.i + 1
        BY <1>2, <3>3 DEF Decides
      <4>2. \A k \in DOMAIN Created : k < cmd'.i => k < cmd.i \/ k = cmd.i
        BY <1>3, <2>1, <4>1
      <4> QED BY <1>1, <1>3, <2>1, <3>1, <3>3, <4>2
    <3>4. CASE cmd'.at # "done" /\ ~(cmd.at = "finalize" /\ cmd'.at = "store")
      <4>1. cmd'.i = cmd.i
        BY <1>2, <3>4 DEF Learns
      <4> QED BY <1>3, <2>1, <3>1, <3>4, <4>1
    <3> QED BY <3>2, <3>3, <3>4
  <2>2. CASE cmd.at \notin Offers
    <3>1. cmd.at = "waitRequest" /\ cmd'.at \in {"store", "done"}
      BY <1>2, <1>6, <2>2 DEF Leads, Offers
    <3>2. cmd.receipt = 0
      BY <3>1 DEF CreationInv, CommandInv, Fits, Offers
    <3>3. cmd'.curio = cmd.curio
      BY <1>2 DEF Learns
    <3>4. /\ cmd'.at = "store" /\ Waited /\ cmd'.receipt = Len(txs)
          /\ txs[Len(txs)].events # <<>>
      BY <1>2, <1>6, <3>1, <3>2, <3>3 DEF Decides
    <3>5. txs' = txs
      BY <3>1, CommandList DEF CommandStep, CreationInv, Sends
    <3>6. cmd'.i = 1
      BY <1>2, <3>1 DEF Learns, DealsFit, Offers, Ended
    <3>7. \A k \in DOMAIN txs[Len(txs)].events : ~(k < 1)
      <4>1. Len(txs) \in DOMAIN txs
        <5>1. cmd'.receipt # 0 /\ Len(txs) \in Nat /\ DOMAIN txs = 1 .. Len(txs)
          BY <1>6, ListOrder DEF CreationInv, CommandInv
        <5> QED BY <3>4, <5>1
      <4>2. txs[Len(txs)].events \in Seq(AllocationIds)
        BY <4>1 DEF CreationInv, CommandInv, TxsTyped, TxTyped
      <4> QED BY <4>2
    <3> QED BY <3>4, <3>5, <3>6, <3>7
  <2> QED BY <2>1, <2>2
<1> QED BY <1>1, <1>4, <1>5, <1>6 DEF DealsInv, DealsFit

LEMMA DealsInvStep ==
    ASSUME CreationInv, MadeSoFar, DealsInv, [CFFNext]_cffVars
    PROVE  DealsInv'
<1>0. IInv /\ CommandInv /\ DealsFit(cmd, txs, deals)
  BY DEF CreationInv, DealsInv
<1>1. CASE CommandStep
  BY <1>1, DealsInvGoes
<1>2. CASE Execute
  <2>1. /\ UNCHANGED <<txs, deals>> /\ cmd.run \in Nat
        /\ cmd'.run = cmd.run + 1 /\ cmd'.receipt = 0 /\ cmd'.i = 1
        /\ cmd'.at \notin Offers \cup {"done"}
    BY <1>0, <1>2, Starts DEF Started, Offers, CommandInv, Fits, CommandRecord
  <2>2. ASSUME NEW id, OfferedAs(cmd, txs, id)
        PROVE  OfferedAs(cmd', txs', id)
    <3>1. PICK i \in DOMAIN txs :
              /\ \E j \in DOMAIN txs[i].events : id = txs[i].events[j]
              /\ txs[i].status \in {"succeeded", "reverted"}
      BY <2>2 DEF OfferedAs
    <3>2. txs[i].run <= cmd.run /\ txs[i].run \in Nat
      BY <1>0, MaxRunsAssumption DEF CommandInv, TxsTyped, TxTyped
    <3>3. txs[i].run < cmd'.run
      BY <2>1, <3>2
    <3> QED BY <2>1, <3>1, <3>3 DEF OfferedAs
  <2>3. DealsFit(cmd', txs', deals')
    BY <2>1 DEF DealsFit, Offers
  <2> QED BY <2>1, <2>2, <2>3 DEF DealsInv
<1>3. ASSUME NEW i, NEW tx, Mines(i, tx)
      PROVE  DealsInv'
  <2>1. UNCHANGED <<cmd, deals>>
    BY <1>3 DEF Mines
  <2>2. /\ DOMAIN txs' = DOMAIN txs
        /\ \A k \in DOMAIN txs : k # i => txs'[k] = txs[k]
        /\ txs[i].status \notin {"succeeded", "reverted"}
    BY <1>0, <1>3, MinesList
  <2>3. ASSUME NEW id, OfferedAs(cmd, txs, id)
        PROVE  OfferedAs(cmd', txs', id)
    <3>1. PICK k \in DOMAIN txs : \E j \in DOMAIN txs[k].events :
              /\ id = txs[k].events[j]
              /\ txs[k].status \in {"succeeded", "reverted"}
              /\ \/ txs[k].run < cmd.run
                 \/ /\ k = cmd.receipt
                    /\ \/ j < cmd.i
                       \/ j = cmd.i /\ cmd.at \in {"upload", "finalize", "failed"}
      BY <2>3 DEF OfferedAs
    <3>2. txs'[k] = txs[k]
      BY <2>2, <3>1
    <3> QED BY <2>1, <2>2, <3>1, <3>2 DEF OfferedAs
  <2>4. cmd.receipt # 0 => txs'[cmd.receipt] = txs[cmd.receipt]
    BY <1>0, <2>2 DEF CommandInv, Fits
  <2>5. cmd.at \in Offers => cmd.receipt # 0
    BY <1>0 DEF CommandInv, Fits
  <2>6. DealsFit(cmd', txs', deals')
    BY <1>0, <2>1, <2>4, <2>5 DEF DealsFit, Offers
  <2> QED BY <2>1, <2>3, <2>6 DEF DealsInv
<1>4. CASE Aside
  BY <1>4 DEF Aside, DealsInv
<1> QED BY <1>0, <1>1, <1>2, <1>3, <1>4, CreateKinds

LEMMA DealsHold == CFFSpec => []DealsInv
<1>1. ASSUME CFFInit
      PROVE  DealsInv
  <2>1. deals = <<>> /\ cmd = NotStarted
    BY <1>1 DEF CFFInit
  <2>2. DOMAIN deals = {} /\ deals \in Seq(Deal)
    BY <2>1
  <2>3. cmd.at = "start"
    BY <2>1 DEF NotStarted
  <2> QED BY <2>2, <2>3 DEF DealsInv, DealsFit, Once, Offers, Ended
<1>2. CreationInv /\ MadeSoFar /\ DealsInv /\ [CFFNext]_cffVars => DealsInv'
  BY DealsInvStep
<1> QED BY <1>1, <1>2, CreationsInvariance, ReceiptsHold, PTL DEF CFFSpec

\* Whatever runs of the command are interrupted, fail and are started again,
\* its variables have their types, and its transactions are mined in the order
\* of their nonces.
THEOREM CreateTypeCorrect == CFFSpec => []CFFTypeOK
<1>1. ASSUME CreationInv, DealsInv
      PROVE  CFFTypeOK
  <2>1. /\ ListInv /\ TxsTyped /\ Fits(cmd, txs) /\ wallet \in WalletState
        /\ cmd.seen <= NextNonce - 1
    BY <1>1 DEF CreationInv, CommandInv
  <2>2. /\ InNonceOrder /\ NextNonce \in Nat /\ NextNonce - 1 \in 0 .. Len(txs)
        /\ Len(txs) \in Nat /\ DOMAIN txs = 1 .. Len(txs)
    BY <2>1, ListOrder
  <2>3. /\ cmd \in CommandRecord /\ cmd.run \in 0 .. MaxRuns
        /\ cmd.seen \in 0 .. Len(txs) /\ cmd.receipt \in 0 .. Len(txs)
    BY <2>1, <2>2, MaxRunsAssumption DEF Fits, CommandRecord
  <2>4. cmd \in [run: 0 .. MaxRuns,
                 at: Ended \cup Sends \cup DOMAIN AfterWait \cup
                     {"costs", "price", "lockup", "account", "balance", "allowance",
                      "approval", "waitRequest", "store", "upload", "finalize"},
                 contract: PaymentsContracts \cup {ZERO},
                 piece: PieceInfo \cup {NoPiece}, setup: BOOLEAN, curio: BOOLEAN,
                 cost: Nat, price: Nat, lockup: Nat, account: Account,
                 approval: Approval, seen: 0 .. Len(txs), receipt: 0 .. Len(txs),
                 i: Nat \ {0}]
    BY <2>3 DEF CommandRecord, Places, Waits, Offers
  <2>5. ASSUME NEW i \in DOMAIN txs
        PROVE  /\ txs[i].run \in 1 .. MaxRuns /\ txs[i].status \in Statuses
               /\ txs[i].contract \in PaymentsContracts
               /\ txs[i].events \in Seq(AllocationIds)
               /\ txs[i].fn \in {"approve", "deposit"} =>
                     txs[i].arg \in [key: Clients \X Tokens, amount: Nat]
               /\ txs[i].fn = "setOperatorApproval" =>
                     txs[i].arg \in
                        [key: Clients \X Tokens,
                         limits: [isApproved: BOOLEAN, rateAllowance: Nat,
                                  lockupAllowance: Nat, maxLockupPeriod: Nat]]
               /\ txs[i].fn = "createAllocationRequests" => txs[i].arg \in PieceInfo
    BY <2>1 DEF TxsTyped, TxTyped, ListInv, ApprovalLimits
  <2>6. deals \in Seq([allocationId: AllocationIds,
                       state: {"stored", "uploaded", "finalized"}])
    BY <1>1 DEF DealsInv, Deal
  <2> QED BY <2>1, <2>2, <2>4, <2>5, <2>6 DEF CFFTypeOK
<1> QED BY <1>1, CreationsInvariance, DealsHold, PTL

\* submitToCurio offers a deal for an allocation of the user's and for no
\* allocation twice, over all the runs of the command; and a run that has seen
\* its receipt and ends well has offered what was created, to the end.
THEOREM DealsAreCreated == CFFSpec => []DealsMatchAllocations
<1>1. ASSUME CreationInv, MadeSoFar, DealsInv
      PROVE  DealsMatchAllocations
  <2>1. ASSUME NEW k \in DOMAIN deals
        PROVE  s.allocationInfos[deals[k].allocationId].client = User
    <3>1. OfferedAs(cmd, txs, deals[k].allocationId)
      BY <1>1 DEF DealsInv
    <3>2. PICK i \in DOMAIN txs : \E j \in DOMAIN txs[i].events :
              deals[k].allocationId = txs[i].events[j]
      BY <3>1 DEF OfferedAs
    <3>3. PICK a \in AllocationIds : a = deals[k].allocationId
      <4>1. deals \in Seq(Deal)
        BY <1>1 DEF DealsInv
      <4>2. deals[k] \in Deal
        BY <4>1
      <4> QED BY <4>2 DEF Deal
    <3>4. /\ committed.s.allocationInfos[a].client = User
          /\ committed.s.allocationInfos[a].client # ZERO
      <4>1. committed.s.allocationInfos[deals[k].allocationId].client = User
        BY <1>1, <3>2 DEF MadeSoFar, ReceiptsSound
      <4> QED BY <3>3, <4>1, NotZero
    <3>5. s.allocationInfos[a].client = committed.s.allocationInfos[a].client
      BY <1>1, <3>4, ClientsNow
    <3> QED BY <3>3, <3>4, <3>5
  <2>2. \A k, l \in DOMAIN deals :
            deals[k].allocationId = deals[l].allocationId => k = l
    BY <1>1 DEF DealsInv, Once
  <2>3. cmd.at = "done" /\ cmd.curio /\ cmd.receipt # 0 =>
            /\ Created # <<>>
            /\ \A k \in DOMAIN Created :
                  \E d \in DOMAIN deals :
                      deals[d] = [allocationId |-> Created[k], state |-> "finalized"]
    BY <1>1 DEF DealsInv, DealsFit, Created, Finalized
  <2> QED BY <2>1, <2>2, <2>3 DEF DealsMatchAllocations
<1> QED BY <1>1, CreationsInvariance, ReceiptsHold, DealsHold, PTL

----------------------------------------------------------------------------
(* What the payment setup leaves.                                          *)

LimitsOf(approval) ==
    [isApproved |-> approval.isApproved, rateAllowance |-> approval.rateAllowance,
     lockupAllowance |-> approval.lockupAllowance,
     maxLockupPeriod |-> approval.maxLockupPeriod]

\* An approval that suffices, or the limits that are set in its place, allow
\* what the allocation needs on top of what was in use.
LEMMA LimitsSuffice ==
    ASSUME cmd \in CommandRecord, cmd.piece \in PieceInfo, WithinAllowance,
           NEW limits,
           \/ limits = NewLimits
           \/ limits = LimitsOf(cmd.approval) /\ Suffices(cmd.approval)
    PROVE  /\ limits.isApproved
           /\ cmd.approval.rateUsage + Rate <= limits.rateAllowance
           /\ cmd.approval.lockupUsage + LockupAllowance <= limits.lockupAllowance
<1>1. /\ cmd.approval.rateAllowance \in Nat /\ cmd.approval.lockupAllowance \in Nat
      /\ cmd.approval.rateUsage \in Nat /\ cmd.approval.lockupUsage \in Nat
      /\ cmd.approval.isApproved \in BOOLEAN
  BY DEF CommandRecord, Approval
<1>2. PICK rate, lockup : rate = Rate /\ lockup = LockupAllowance
  OBVIOUS
<1>3. rate \in Nat /\ lockup \in Nat
  BY <1>2, Amounts
<1>4. /\ RateShort(cmd.approval) <=>
            cmd.approval.rateAllowance - cmd.approval.rateUsage < rate
      /\ LockupShort(cmd.approval) <=>
            cmd.approval.lockupAllowance - cmd.approval.lockupUsage < lockup
  BY <1>2 DEF RateShort, LockupShort
<1>5. CASE limits = LimitsOf(cmd.approval) /\ Suffices(cmd.approval)
  <2>1. /\ limits.isApproved = cmd.approval.isApproved
        /\ limits.rateAllowance = cmd.approval.rateAllowance
        /\ limits.lockupAllowance = cmd.approval.lockupAllowance
    BY <1>5 DEF LimitsOf
  <2>2. /\ cmd.approval.isApproved /\ ~RateShort(cmd.approval)
        /\ ~LockupShort(cmd.approval)
    BY <1>5 DEF Suffices
  <2> QED BY <1>1, <1>2, <1>3, <1>4, <2>1, <2>2
<1>6. CASE limits = NewLimits
  <2>1. /\ limits.isApproved
        /\ limits.rateAllowance \in
              {cmd.approval.rateAllowance + rate, cmd.approval.rateAllowance}
        /\ RateShort(cmd.approval) =>
              limits.rateAllowance = cmd.approval.rateAllowance + rate
        /\ limits.lockupAllowance \in
              {cmd.approval.lockupAllowance + lockup, cmd.approval.lockupAllowance}
        /\ LockupShort(cmd.approval) =>
              limits.lockupAllowance = cmd.approval.lockupAllowance + lockup
    BY <1>2, <1>6 DEF NewLimits
  <2>2. /\ cmd.approval.rateUsage <= cmd.approval.rateAllowance
        /\ cmd.approval.lockupUsage <= cmd.approval.lockupAllowance
    BY DEF WithinAllowance
  <2>3. cmd.approval.rateUsage + rate <= limits.rateAllowance
    BY <1>1, <1>3, <1>4, <2>1, <2>2
  <2>4. cmd.approval.lockupUsage + lockup <= limits.lockupAllowance
    BY <1>1, <1>3, <1>4, <2>1, <2>2
  <2> QED BY <1>2, <2>1, <2>3, <2>4
<1> QED BY <1>5, <1>6

\* An account without streaming rails is settled at once.
LEMMA SettledWithoutRate ==
    ASSUME NEW account \in Account, account.lockupRate = 0, NEW now \in Nat
    PROVE  SettledAccount(account, now) =
               [funds |-> account.funds, lockupCurrent |-> account.lockupCurrent,
                lockupRate |-> 0, lockupLastSettledAt |-> now]
<1>1. account.lockupRate * (now - account.lockupLastSettledAt) = 0
  <2>1. PICK rate, n : rate = account.lockupRate /\ n = now - account.lockupLastSettledAt
    OBVIOUS
  <2>2. rate = 0 /\ n \in Int
    BY <2>1 DEF Account
  <2>3. rate * n = 0
    BY <2>2
  <2> QED BY <2>1, <2>3, Zenon
<1>2. SettledAccount(account, now) =
          [account EXCEPT !.lockupCurrent = @ + 0, !.lockupLastSettledAt = now]
  BY <1>1 DEF SettledAccount
<1>3. account.lockupCurrent + 0 = account.lockupCurrent
  BY DEF Account
<1>4. account = [funds |-> account.funds, lockupCurrent |-> account.lockupCurrent,
                 lockupRate |-> 0,
                 lockupLastSettledAt |-> account.lockupLastSettledAt]
  BY DEF Account
<1> QED BY <1>2, <1>3, <1>4

\* The account is left with what the command takes to be required, free.
LEMMA ExpectedSuffices ==
    ASSUME cmd \in CommandRecord, cmd.piece \in PieceInfo, epoch \in Nat,
           cmd.account.lockupRate = 0
    PROVE  \E funds, locked \in Nat :
               /\ Expected = [funds |-> funds, lockupCurrent |-> locked,
                              lockupRate |-> 0, lockupLastSettledAt |-> epoch]
               /\ locked + cmd.lockup <= funds /\ locked + cmd.cost <= funds
<1>1. /\ cmd.account \in Account /\ cmd.lockup \in Nat /\ cmd.cost \in Nat
  BY DEF CommandRecord
<1>2. PICK required : required = RequiredDeposit
  OBVIOUS
<1>3. required \in Nat /\ required >= cmd.lockup /\ required >= cmd.cost
  BY <1>2, Amounts
<1>4. Deficit = required - (cmd.account.funds - cmd.account.lockupCurrent)
  BY <1>2 DEF Deficit, Missing
<1>5. PICK more : more = Max2(0, Deficit)
  OBVIOUS
<1>6. /\ more \in Nat
      /\ more >= required - (cmd.account.funds - cmd.account.lockupCurrent)
  BY <1>1, <1>3, <1>4, <1>5 DEF Max2, Account
<1>7. PICK account : account = [cmd.account EXCEPT !.funds = @ + more]
  OBVIOUS
<1>8. /\ account \in Account /\ account.lockupRate = 0
      /\ account.funds = cmd.account.funds + more
      /\ account.lockupCurrent = cmd.account.lockupCurrent
  BY <1>1, <1>6, <1>7 DEF Account
<1>9. Expected = [funds |-> account.funds, lockupCurrent |-> account.lockupCurrent,
                  lockupRate |-> 0, lockupLastSettledAt |-> epoch]
  BY <1>5, <1>7, <1>8, SettledWithoutRate DEF Expected
<1>10. /\ account.funds \in Nat /\ account.lockupCurrent \in Nat
       /\ account.lockupCurrent + cmd.lockup <= account.funds
       /\ account.lockupCurrent + cmd.cost <= account.funds
  BY <1>1, <1>3, <1>6, <1>8 DEF Account
<1> QED BY <1>9, <1>10

\* The account and the approval of the payer bear the piece's rail: the account
\* has no streaming rail and is settled, with the lockup free.
Bears(p, k, funds, locked) ==
    /\ SettledAccount(p.accounts[k], epoch) =
          [funds |-> funds, lockupCurrent |-> locked, lockupRate |-> 0,
           lockupLastSettledAt |-> epoch]
    /\ locked + s.allocationLockupAmount <= funds
    /\ p.approvals[k].isApproved
    /\ p.approvals[k].lockupUsage + s.allocationLockupAmount <=
          p.approvals[k].lockupAllowance

WithRail(p, piece) ==
    CreateRail(p, piece.paymentTokenAddress, User,
               s.spConfigs[piece.provider].paymentAddress,
               s.commissionRateBps, epoch)

\* The rail n of q is new, and is all that q has on top of p.
NewRail(p, q, n, k) ==
    /\ q.accounts = p.accounts /\ q.approvals = p.approvals
    /\ q.rails = [p.rails EXCEPT ![n] = q.rails[n]]
    /\ q.nextRailId = n + 1 /\ q.paid = p.paid
    /\ RailExists(q, n) /\ ~Terminated(q, n) /\ Key(q, n) = k
    /\ q.rails[n].rate = 0 /\ q.rails[n].lockupFixed = 0
    /\ q.rails[n].lockupPeriod = 0

LEMMA RailCreated ==
    ASSUME NEW p, p \in PayState, p.nextRailId \in RailIds, NEW piece
    PROVE  NewRail(p, WithRail(p, piece), p.nextRailId,
                   <<User, piece.paymentTokenAddress>>)
<1>1. PICK q, n, k : /\ q = WithRail(p, piece) /\ n = p.nextRailId
                     /\ k = <<User, piece.paymentTokenAddress>>
  OBVIOUS
<1>2. PICK to, commission : /\ to = s.spConfigs[piece.provider].paymentAddress
                            /\ commission = s.commissionRateBps
  OBVIOUS
<1>3. PICK r : r = [NoRail EXCEPT !.token = piece.paymentTokenAddress, !.from = User,
                                  !.to = to, !.commissionRateBps = commission,
                                  !.settledUpTo = epoch]
  OBVIOUS
<1>5. q = [p EXCEPT !.nextRailId = @ + 1, !.rails[p.nextRailId] = r]
  BY <1>1, <1>2, <1>3, Zenon DEF WithRail, CreateRail
<1>6. /\ q.accounts = p.accounts /\ q.approvals = p.approvals
      /\ q.rails = [p.rails EXCEPT ![n] = r]
      /\ q.nextRailId = n + 1 /\ q.paid = p.paid
  BY <1>1, <1>5 DEF PayState
<1>7. q.rails[n] = r /\ n \in RailIds
  BY <1>1, <1>6 DEF PayState
<1>8. /\ r.from = User /\ r.token = piece.paymentTokenAddress /\ r.endEpoch = 0
      /\ r.rate = 0 /\ r.lockupFixed = 0 /\ r.lockupPeriod = 0
  BY <1>3 DEF NoRail
<1>9. RailExists(q, n) /\ ~Terminated(q, n) /\ Key(q, n) = k
  BY <1>1, <1>7, <1>8, NotZero DEF RailExists, Terminated, Key
<1>10. NewRail(p, q, n, k)
  BY <1>6, <1>7, <1>8, <1>9 DEF NewRail
<1> QED BY <1>1, <1>10

\* Such a payer's rail is opened.
LEMMA RailOpens ==
    ASSUME IInv, NEW c \in PaymentsContracts, NEW p, p = pay[c],
           p.nextRailId \in RailIds,
           NEW piece \in PieceInfo, validPieceForSP(piece),
           NEW k, k = <<User, piece.paymentTokenAddress>>,
           NEW funds \in Nat, NEW locked \in Nat, Bears(p, k, funds, locked)
    PROVE  CanOpenRail(p, piece, User)
<1>1. /\ p \in PayState /\ epoch \in Nat /\ k \in Clients \X Tokens
      /\ s.allocationLockupAmount \in Nat
  BY SoundParts, NotZero DEF DDOState, PieceInfo
<1>2. PICK q, n : q = WithRail(p, piece) /\ n = p.nextRailId
  OBVIOUS
<1>3. /\ q.accounts = p.accounts /\ q.approvals = p.approvals
      /\ RailExists(q, n) /\ ~Terminated(q, n) /\ Key(q, n) = k
      /\ q.rails[n].rate = 0 /\ q.rails[n].lockupFixed = 0
      /\ q.rails[n].lockupPeriod = 0
  <2>1. NewRail(p, q, n, k)
    BY <1>1, <1>2, RailCreated
  <2> QED BY <2>1 DEF NewRail
<1>4. PICK lockup : lockup = s.allocationLockupAmount
  OBVIOUS
<1>5. PICK a : a = SettledAccount(q.accounts[Key(q, n)], epoch)
  OBVIOUS
<1>6. /\ a.lockupLastSettledAt = epoch /\ a.lockupCurrent = locked /\ a.funds = funds
      /\ locked + lockup <= funds /\ lockup \in Nat
      /\ q.approvals[k].lockupUsage + lockup <= q.approvals[k].lockupAllowance
      /\ q.approvals[k].lockupUsage \in Nat /\ q.approvals[k].lockupAllowance \in Nat
  BY <1>1, <1>3, <1>4, <1>5 DEF Bears, PayState, Approval
<1>7. RailLockup(q.rails[n]) = 0
  BY <1>3 DEF RailLockup
<1>8. lockup + q.rails[n].rate * 0 = lockup
  BY <1>3, <1>6
<1>9. CanModifyRailLockup(q, n, 0, lockup, epoch)
  <2>1. /\ (Terminated(q, n) \/ a.lockupLastSettledAt # epoch) =>
               0 = q.rails[n].lockupPeriod /\ lockup <= q.rails[n].lockupFixed
    BY <1>3, <1>6
  <2>2. ~(0 > q.rails[n].lockupPeriod)
    BY <1>3
  <2>3. q.approvals[Key(q, n)].lockupUsage + (lockup - 0) <=
            q.approvals[Key(q, n)].lockupAllowance
    BY <1>3, <1>6
  <2>4. 0 <= a.lockupCurrent /\ a.lockupCurrent - 0 + lockup <= a.funds
    BY <1>6
  <2> QED BY <1>3, <1>5, <1>7, <1>8, <2>1, <2>2, <2>3, <2>4 DEF CanModifyRailLockup
<1>10. CanCreateRail(p, piece.paymentTokenAddress, User)
  BY DEF CanCreateRail, Bears
<1>11. s.spConfigs[piece.provider].paymentAddress # ZERO
       /\ supportsToken(piece.provider, piece.paymentTokenAddress)
  BY DEF validPieceForSP, isRegisteredSP
<1> QED BY <1>2, <1>4, <1>9, <1>10, <1>11 DEF CanOpenRail, WithRail

\* What changing the lockup of a rail does to it, and to its payer.
LEMMA LockupChanged ==
    ASSUME NEW now \in Nat, NEW p, PaySound(p, now), NEW id, RailExists(p, id),
           NEW period, NEW fixed, NEW k, k = Key(p, id),
           NEW q, q = ModifyRailLockup(p, id, period, fixed, now),
           NEW change,
           change = (fixed + p.rails[id].rate * period) - RailLockup(p.rails[id])
    PROVE  /\ q.rails[id].rate = p.rails[id].rate
           /\ q.rails[id].lockupPeriod = period /\ q.rails[id].lockupFixed = fixed
           /\ RailExists(q, id) /\ Key(q, id) = k
           /\ Terminated(q, id) <=> Terminated(p, id)
           /\ q.accounts[k] = [SettledAccount(p.accounts[k], now) EXCEPT
                                   !.lockupCurrent = @ + change]
           /\ q.approvals[k] = [p.approvals[k] EXCEPT
                                   !.lockupUsage = Usage(@, change)]
<1>1. /\ p \in PayState /\ id \in RailIds /\ p.rails[id] \in LiveRail
      /\ k \in Clients \X Tokens /\ p.approvals[k] \in Approval
      /\ p.rails[id].from # ZERO
  BY LiveRails DEF PaySound, RailExists
<1>2. PICK a : a = [SettledAccount(p.accounts[k], now) EXCEPT
                        !.lockupCurrent = @ + change]
  OBVIOUS
<1>3. q.rails = [p.rails EXCEPT ![id] = [p.rails[id] EXCEPT
          !.lockupPeriod = period, !.lockupFixed = fixed]]
  BY <1>1 DEF ModifyRailLockup, PayState
<1>4. /\ q.accounts = [p.accounts EXCEPT ![k] = a]
      /\ q.approvals = [p.approvals EXCEPT ![k] =
             [p.approvals[k] EXCEPT !.lockupUsage = Usage(@, change)]]
  <2>1. q.accounts = [p.accounts EXCEPT ![k] = a]
    BY <1>1, <1>2 DEF ModifyRailLockup, PayState
  <2>2. PICK used : used = Usage(p.approvals[k].lockupUsage, change)
    OBVIOUS
  <2>3. q.approvals = [p.approvals EXCEPT ![k] =
             [p.approvals[k] EXCEPT !.lockupUsage = used]]
    BY <1>1, <2>2 DEF ModifyRailLockup, PayState
  <2> QED BY <2>1, <2>2, <2>3
<1>5. PICK r : r = [p.rails[id] EXCEPT !.lockupPeriod = period, !.lockupFixed = fixed]
  OBVIOUS
<1>6. /\ r.rate = p.rails[id].rate /\ r.lockupPeriod = period /\ r.lockupFixed = fixed
      /\ r.from = p.rails[id].from /\ r.token = p.rails[id].token
      /\ r.endEpoch = p.rails[id].endEpoch
  BY <1>1, <1>5 DEF LiveRail
<1>7. /\ q.rails[id] = r /\ q.accounts[k] = a
      /\ q.approvals[k] = [p.approvals[k] EXCEPT !.lockupUsage = Usage(@, change)]
  BY <1>1, <1>3, <1>4, <1>5 DEF PayState
<1>8. RailExists(q, id) /\ Key(q, id) = k /\ (Terminated(q, id) <=> Terminated(p, id))
  BY <1>1, <1>6, <1>7 DEF RailExists, Key, Terminated
<1> QED BY <1>2, <1>6, <1>7, <1>8

\* What changing the rate of a rail does to it, and to its payer.
RateSet(p, q, id, rate, k, now) ==
    /\ q.rails[id].rate = rate /\ q.rails[id].lockupPeriod = 0
    /\ q.rails[id].lockupFixed = p.rails[id].lockupFixed
    /\ RailExists(q, id) /\ Key(q, id) = k
    /\ Terminated(q, id) <=> Terminated(p, id)
    /\ q.accounts[k] = [SettledAccount(p.accounts[k], now) EXCEPT
                            !.lockupCurrent = @ + 0, !.lockupRate = @ + rate]
    /\ q.approvals[k] = [p.approvals[k] EXCEPT
                             !.rateUsage = Usage(@, rate), !.lockupUsage = Usage(@, 0)]

LEMMA PaymentChanged ==
    ASSUME NEW now \in Nat, NEW p, PaySound(p, now), NEW id, RailExists(p, id),
           p.rails[id].rate = 0, p.rails[id].lockupPeriod = 0,
           NEW rate \in Nat, NEW k, k = Key(p, id),
           NEW q, q = ModifyRailPayment(p, id, rate, now)
    PROVE  RateSet(p, q, id, rate, k, now)
<1>1. /\ p \in PayState /\ id \in RailIds /\ p.rails[id] \in LiveRail
      /\ k \in Clients \X Tokens /\ p.approvals[k] \in Approval
      /\ p.rails[id].from # ZERO
  BY LiveRails DEF PaySound, RailExists
<1>2. rate - p.rails[id].rate = rate
      /\ (rate - p.rails[id].rate) * p.rails[id].lockupPeriod = 0
  OBVIOUS
<1>3. PICK a, to :
          /\ a = [SettledAccount(p.accounts[k], now) EXCEPT
                      !.lockupCurrent = @ + 0, !.lockupRate = @ + rate]
          /\ to = IF p.rails[id].rate = 0 /\ rate # 0 THEN now
                  ELSE p.rails[id].settledUpTo
  OBVIOUS
<1>5. /\ q.rails = [p.rails EXCEPT ![id] = [p.rails[id] EXCEPT
                          !.rate = rate, !.settledUpTo = to]]
      /\ q.accounts = [p.accounts EXCEPT ![k] = a]
      /\ q.approvals = [p.approvals EXCEPT ![k] =
             [p.approvals[k] EXCEPT !.rateUsage = Usage(@, rate),
                                    !.lockupUsage = Usage(@, 0)]]
  <2>1. q.rails = [p.rails EXCEPT ![id] = [p.rails[id] EXCEPT
                       !.rate = rate, !.settledUpTo = to]]
    BY <1>1, <1>2, <1>3 DEF ModifyRailPayment, PayState
  <2>2. q.accounts = [p.accounts EXCEPT ![k] = a]
    BY <1>1, <1>2, <1>3 DEF ModifyRailPayment, PayState
  <2>3. PICK streams, used : /\ streams = Usage(p.approvals[k].rateUsage, rate)
                             /\ used = Usage(p.approvals[k].lockupUsage, 0)
    OBVIOUS
  <2>4. q.approvals = [p.approvals EXCEPT ![k] =
             [p.approvals[k] EXCEPT !.rateUsage = streams, !.lockupUsage = used]]
    BY <1>1, <1>2, <2>3 DEF ModifyRailPayment, PayState
  <2> QED BY <2>1, <2>2, <2>3, <2>4
<1>7. PICK r : r = [p.rails[id] EXCEPT !.rate = rate, !.settledUpTo = to]
  OBVIOUS
<1>8. /\ r.rate = rate /\ r.lockupPeriod = 0 /\ r.lockupFixed = p.rails[id].lockupFixed
      /\ r.from = p.rails[id].from /\ r.token = p.rails[id].token
      /\ r.endEpoch = p.rails[id].endEpoch
  BY <1>1, <1>7 DEF LiveRail
<1>9. /\ q.rails[id] = r /\ q.accounts[k] = a
      /\ q.approvals[k] = [p.approvals[k] EXCEPT !.rateUsage = Usage(@, rate),
                                                 !.lockupUsage = Usage(@, 0)]
  BY <1>1, <1>5, <1>7 DEF PayState
<1>10. RailExists(q, id) /\ Key(q, id) = k /\ (Terminated(q, id) <=> Terminated(p, id))
  BY <1>1, <1>8, <1>9 DEF RailExists, Key, Terminated
<1> QED BY <1>3, <1>8, <1>9, <1>10 DEF RateSet

\* What is settled already stays as it is.
LEMMA SettledNow ==
    ASSUME NEW account \in Account, NEW now \in Nat,
           account.lockupLastSettledAt = now, account.lockupCurrent <= account.funds
    PROVE  SettledAccount(account, now) = account
<1>1. account.lockupRate * (now - account.lockupLastSettledAt) = 0
  <2>1. PICK rate, n : rate = account.lockupRate /\ n = now - account.lockupLastSettledAt
    OBVIOUS
  <2>2. rate \in Nat /\ n = 0
    BY <2>1 DEF Account
  <2>3. rate * n = 0
    BY <2>2
  <2> QED BY <2>1, <2>3, Zenon
<1>2. /\ account.lockupCurrent + 0 = account.lockupCurrent
      /\ account.funds >= account.lockupCurrent + 0
  BY DEF Account
<1>3. SettledAccount(account, now) =
          [account EXCEPT !.lockupCurrent = @ + 0, !.lockupLastSettledAt = now]
  BY <1>1, <1>2 DEF SettledAccount
<1> QED BY <1>2, <1>3 DEF Account

\* The rail n of u waits for its activation: its lockup, the amount, is all
\* that the operator has in use of the account and the approval beyond what
\* it had.
Pending(u, n, k, amount, funds, locked, approval) ==
    /\ PaySound(u, epoch)
    /\ RailExists(u, n) /\ ~Terminated(u, n) /\ Key(u, n) = k
    /\ u.rails[n].rate = 0 /\ u.rails[n].lockupPeriod = 0
    /\ u.rails[n].lockupFixed = amount
    /\ u.accounts[k].funds = funds /\ u.accounts[k].lockupCurrent = locked + amount
    /\ u.accounts[k].lockupRate = 0 /\ u.accounts[k].lockupLastSettledAt = epoch
    /\ u.approvals[k].lockupUsage = approval.lockupUsage + amount
    /\ u.approvals[k].lockupAllowance = approval.lockupAllowance
    /\ u.approvals[k].rateUsage = approval.rateUsage
    /\ u.approvals[k].rateAllowance = approval.rateAllowance
    /\ u.approvals[k].maxLockupPeriod = approval.maxLockupPeriod

LEMMA OpenedRailPends ==
    ASSUME IInv, NEW c \in PaymentsContracts, NEW p, p = pay[c],
           p.nextRailId \in RailIds,
           NEW piece \in PieceInfo, validPieceForSP(piece),
           NEW k, k = <<User, piece.paymentTokenAddress>>,
           NEW funds \in Nat, NEW locked \in Nat, Bears(p, k, funds, locked)
    PROVE  Pending(OpenedRail(p, piece, User), p.nextRailId, k,
                 s.allocationLockupAmount, funds, locked, p.approvals[k])
<1>1. /\ PaySound(p, epoch) /\ p \in PayState /\ epoch \in Nat
      /\ k \in Clients \X Tokens /\ s.allocationLockupAmount \in Nat
  BY SoundParts, NotZero DEF DDOState, PieceInfo
<1>2. PICK q, n : q = WithRail(p, piece) /\ n = p.nextRailId
  OBVIOUS
<1>3. PICK u : u = OpenedRail(p, piece, User)
  OBVIOUS
<1>4. PaySound(u, epoch)
  BY <1>1, <1>3, RailOpens, OpenedRailSound, NotZero
<1>5. PICK amount : amount = s.allocationLockupAmount
  OBVIOUS
<1>6. u = ModifyRailLockup(q, n, 0, amount, epoch)
  BY <1>2, <1>3, <1>5 DEF OpenedRail, WithRail
<1>7. /\ q.accounts = p.accounts /\ q.approvals = p.approvals
      /\ RailExists(q, n) /\ ~Terminated(q, n) /\ Key(q, n) = k
      /\ q.rails[n].rate = 0 /\ q.rails[n].lockupFixed = 0
      /\ q.rails[n].lockupPeriod = 0
  <2>1. NewRail(p, q, n, k)
    BY <1>1, <1>2, RailCreated
  <2> QED BY <2>1 DEF NewRail
<1>8. PaySound(q, epoch)
  <2>1. /\ piece.paymentTokenAddress \in Tokens /\ User \in Clients
        /\ s.spConfigs[piece.provider].paymentAddress \in Payees \cup {ZERO}
        /\ s.commissionRateBps \in Nat
    BY SoundParts, NotZero DEF DDOState, SPConfig, PieceInfo
  <2> QED BY <1>1, <1>2, <2>1, CreateRailSound DEF WithRail
<1>9. (amount + q.rails[n].rate * 0) - RailLockup(q.rails[n]) = amount
  <2>1. amount + q.rails[n].rate * 0 = amount
    BY <1>1, <1>5, <1>7
  <2>2. RailLockup(q.rails[n]) = 0
    BY <1>7 DEF RailLockup
  <2> QED BY <1>1, <1>5, <2>1, <2>2
<1>10. PICK change : change = (amount + q.rails[n].rate * 0) - RailLockup(q.rails[n])
  OBVIOUS
<1>11. change = amount /\ amount \in Nat
  BY <1>1, <1>5, <1>9, <1>10
<1>12. /\ u.rails[n].rate = q.rails[n].rate
       /\ u.rails[n].lockupPeriod = 0 /\ u.rails[n].lockupFixed = amount
       /\ RailExists(u, n) /\ Key(u, n) = k
       /\ Terminated(u, n) <=> Terminated(q, n)
       /\ u.accounts[k] = [SettledAccount(q.accounts[k], epoch) EXCEPT
                                !.lockupCurrent = @ + change]
       /\ u.approvals[k] = [q.approvals[k] EXCEPT !.lockupUsage = Usage(@, change)]
  BY <1>1, <1>6, <1>7, <1>8, <1>10, LockupChanged
<1>13. SettledAccount(q.accounts[k], epoch) =
           [funds |-> funds, lockupCurrent |-> locked, lockupRate |-> 0,
            lockupLastSettledAt |-> epoch]
  BY <1>7 DEF Bears
<1>14. /\ u.accounts[k].funds = funds /\ u.accounts[k].lockupCurrent = locked + amount
       /\ u.accounts[k].lockupRate = 0 /\ u.accounts[k].lockupLastSettledAt = epoch
  BY <1>11, <1>12, <1>13
<1>15. p.approvals[k] \in Approval
  BY <1>1 DEF PayState
<1>16. Usage(p.approvals[k].lockupUsage, amount) = p.approvals[k].lockupUsage + amount
  BY <1>11, <1>15 DEF Usage, Max2, Approval
<1>17. u.approvals[k] = [p.approvals[k] EXCEPT
                             !.lockupUsage = p.approvals[k].lockupUsage + amount]
  BY <1>7, <1>11, <1>12, <1>16
<1>18. /\ u.approvals[k].lockupUsage = p.approvals[k].lockupUsage + amount
       /\ u.approvals[k].lockupAllowance = p.approvals[k].lockupAllowance
       /\ u.approvals[k].rateUsage = p.approvals[k].rateUsage
       /\ u.approvals[k].rateAllowance = p.approvals[k].rateAllowance
       /\ u.approvals[k].maxLockupPeriod = p.approvals[k].maxLockupPeriod
  BY <1>15, <1>17 DEF Approval
<1>19. Pending(u, n, k, amount, funds, locked, p.approvals[k])
  BY <1>4, <1>7, <1>12, <1>14, <1>18 DEF Pending
<1> QED BY <1>2, <1>3, <1>5, <1>19

\* Such a rail is activated, at a rate that is not zero or at zero, when the
\* approval and the account have room for a month of it.
LEMMA PendingActivates ==
    ASSUME epoch \in Nat, NEW u, NEW n, NEW k, NEW amount \in Nat,
           NEW funds \in Nat, NEW locked \in Nat, NEW approval \in Approval,
           Pending(u, n, k, amount, funds, locked, approval),
           NEW rate \in Nat, NEW info, info.railId = n, pricePerEpoch(info) = rate,
           NEW month, month = rate * EPOCHS_PER_MONTH,
           approval.rateUsage + rate <= approval.rateAllowance,
           approval.lockupUsage + amount <= approval.lockupAllowance,
           approval.lockupUsage + month <= approval.lockupAllowance,
           EPOCHS_PER_MONTH <= approval.maxLockupPeriod,
           locked + amount <= funds, locked + month <= funds
    PROVE  canActivateRail(u, info)
<1>1. /\ u \in PayState /\ PaySound(u, epoch) /\ n \in RailIds /\ k \in Clients \X Tokens
      /\ u.accounts[k] \in Account /\ u.approvals[k] \in Approval
  BY LiveRails DEF Pending, PaySound, PayState, RailExists
<1>2. /\ RailExists(u, n) /\ ~Terminated(u, n) /\ Key(u, n) = k
      /\ u.rails[n].rate = 0 /\ u.rails[n].lockupPeriod = 0
      /\ u.rails[n].lockupFixed = amount
  BY DEF Pending
<1>3. /\ u.accounts[k].funds = funds /\ u.accounts[k].lockupCurrent = locked + amount
      /\ u.accounts[k].lockupRate = 0 /\ u.accounts[k].lockupLastSettledAt = epoch
  BY DEF Pending
<1>4. /\ u.approvals[k].lockupUsage = approval.lockupUsage + amount
      /\ u.approvals[k].lockupAllowance = approval.lockupAllowance
      /\ u.approvals[k].rateUsage = approval.rateUsage
      /\ u.approvals[k].rateAllowance = approval.rateAllowance
      /\ u.approvals[k].maxLockupPeriod = approval.maxLockupPeriod
  BY DEF Pending
<1>5. /\ approval.lockupUsage \in Nat /\ approval.rateUsage \in Nat
      /\ approval.lockupAllowance \in Nat /\ approval.rateAllowance \in Nat
      /\ approval.maxLockupPeriod \in Nat
  BY DEF Approval
<1>6. month \in Nat /\ EPOCHS_PER_MONTH \in Nat
  BY Products, EpochsAssumption
<1>7. SettledAccount(u.accounts[k], epoch) = u.accounts[k]
  BY <1>1, <1>3, SettledNow
<1>8. CanModifyRailPayment(u, n, rate, epoch)
  <2>1. rate - u.rails[n].rate = rate
        /\ (rate - u.rails[n].rate) * u.rails[n].lockupPeriod = 0
    BY <1>2
  <2>2. PICK a, v : a = u.accounts[k] /\ v = u.approvals[k]
    OBVIOUS
  <2>3. /\ v.rateUsage + rate <= v.rateAllowance
        /\ v.lockupUsage + 0 <= v.lockupAllowance
    BY <1>4, <1>5, <2>2
  <2>4. /\ a.lockupLastSettledAt = epoch /\ -0 <= a.lockupCurrent
        /\ 0 <= a.lockupRate + rate /\ a.lockupCurrent + 0 <= a.funds
    BY <1>3, <2>2
  <2>5. rate <= u.rails[n].rate \/ ~Terminated(u, n)
    BY <1>2
  <2>6. /\ Terminated(u, n) => rate <= u.rails[n].rate
        /\ rate # u.rails[n].rate /\ ~Terminated(u, n) => a.lockupLastSettledAt = epoch
        /\ rate > u.rails[n].rate =>
              /\ v.rateUsage + (rate - u.rails[n].rate) <= v.rateAllowance
              /\ v.lockupUsage + (rate - u.rails[n].rate) * u.rails[n].lockupPeriod <=
                    v.lockupAllowance
        /\ -((rate - u.rails[n].rate) * u.rails[n].lockupPeriod) <= a.lockupCurrent
        /\ u.rails[n].rate <= a.lockupRate + rate
        /\ a.lockupCurrent + (rate - u.rails[n].rate) * u.rails[n].lockupPeriod <= a.funds
    BY <1>2, <2>1, <2>3, <2>4
  <2> QED BY <1>2, <1>7, <2>2, <2>6, Zenon DEF CanModifyRailPayment
<1>9. PICK w : w = ModifyRailPayment(u, n, rate, epoch)
  OBVIOUS
<1>10. PaySound(w, epoch)
  BY <1>1, <1>8, <1>9, ModifyRailPaymentSound
<1>11. /\ w.rails[n].rate = rate /\ w.rails[n].lockupPeriod = 0
       /\ w.rails[n].lockupFixed = amount
       /\ RailExists(w, n) /\ Key(w, n) = k /\ ~Terminated(w, n)
       /\ w.accounts[k] = [u.accounts[k] EXCEPT !.lockupCurrent = @ + 0,
                                                !.lockupRate = @ + rate]
       /\ w.approvals[k] = [u.approvals[k] EXCEPT !.rateUsage = Usage(@, rate),
                                                  !.lockupUsage = Usage(@, 0)]
  <2>1. RateSet(u, w, n, rate, k, epoch)
    BY <1>1, <1>2, <1>9, PaymentChanged
  <2> QED BY <1>2, <1>7, <2>1 DEF RateSet
<1>12. /\ w.accounts[k].funds = funds /\ w.accounts[k].lockupCurrent = locked + amount
       /\ w.accounts[k].lockupLastSettledAt = epoch
  BY <1>1, <1>3, <1>11 DEF Account
<1>13. /\ w.approvals[k].lockupUsage = approval.lockupUsage + amount
       /\ w.approvals[k].lockupAllowance = approval.lockupAllowance
       /\ w.approvals[k].maxLockupPeriod = approval.maxLockupPeriod
  <2>1. Usage(u.approvals[k].lockupUsage, 0) = u.approvals[k].lockupUsage
    BY <1>1 DEF Usage, Max2, Approval
  <2>2. PICK used : used = Usage(u.approvals[k].rateUsage, rate)
    OBVIOUS
  <2>3. w.approvals[k] = [u.approvals[k] EXCEPT !.rateUsage = used,
                              !.lockupUsage = u.approvals[k].lockupUsage]
    BY <1>11, <2>1, <2>2
  <2> QED BY <1>1, <1>4, <2>3 DEF Approval
<1>14. SettledAccount(w.accounts[k], epoch) = w.accounts[k]
  <2>1. w.accounts[k] \in Account
    BY <1>1, <1>10 DEF PaySound, PayState
  <2> QED BY <1>12, <2>1, SettledNow
<1>15. CanModifyRailLockup(w, n, EPOCHS_PER_MONTH, 0, epoch)
  <2>1. RailLockup(w.rails[n]) = amount
    <3>1. amount + rate * 0 = amount
      OBVIOUS
    <3> QED BY <1>11, <3>1 DEF RailLockup
  <2>2. 0 + w.rails[n].rate * EPOCHS_PER_MONTH = month
    BY <1>6, <1>11
  <2>3. PICK a, v : a = w.accounts[k] /\ v = w.approvals[k]
    OBVIOUS
  <2>4. /\ EPOCHS_PER_MONTH <= v.maxLockupPeriod
        /\ v.lockupUsage + (month - amount) <= v.lockupAllowance
        /\ amount <= a.lockupCurrent /\ a.lockupCurrent - amount + month <= a.funds
        /\ a.lockupLastSettledAt = epoch
    BY <1>5, <1>6, <1>12, <1>13, <2>3
  <2> QED BY <1>11, <1>14, <2>1, <2>2, <2>3, <2>4, Zenon DEF CanModifyRailLockup
<1> QED BY <1>8, <1>9, <1>15 DEF canActivateRail

----------------------------------------------------------------------------
(* The limits of the approval that the command uses.                       *)

UsersLimits == LimitsOf(UsersApproval)

\* While a run of the command lasts, these limits change only when one of the
\* command's transactions is mined: nobody sets them by hand meanwhile.
ApprovalStep == cmd.at \notin Ended /\ txs' = txs => UsersLimits' = UsersLimits

ApprovalAlone == [][ApprovalStep]_cffVars

\* Where the command has not sent an approval yet.
Early == {"costs", "price", "lockup", "account", "balance", "allowance", "approve",
          "waitApprove", "deposit", "waitDeposit", "approval", "setOperatorApproval"}

\* Where it has read the approval, until it asks for the allocation.
Decided ==
    \/ cmd.at \in {"setOperatorApproval", "waitApproval"}
    \/ cmd.at = "request" /\ cmd.setup

Raises(i) == txs[i].fn = "setOperatorApproval"

\* The run's own change of the approval.
Own(i) == Raises(i) /\ txs[i].run = cmd.run

Raised == \E i \in DOMAIN txs : Own(i)

RaisedNow == \E i \in DOMAIN txs : Own(i) /\ txs[i].status = "succeeded"

\* No change by an earlier run was under way when the approval was read.
NoneUnderWay ==
    \A i \in DOMAIN txs : i > cmd.seen /\ Raises(i) => txs[i].run = cmd.run

RunningCreates ==
    \A i \in DOMAIN txs :
        txs[i].status = "running" => txs[i].fn = "createAllocationRequests"

RaisedOrEnough ==
    /\ cmd.at \in Early => ~Raised
    /\ cmd.at = "waitApproval" => Raised
    /\ cmd.at = "request" /\ cmd.setup => Suffices(cmd.approval) \/ Raised

RaisedAs ==
    Decided => \A i \in DOMAIN txs : Own(i) =>
        /\ i > cmd.seen /\ txs[i].contract = cmd.contract
        /\ txs[i].arg = [key |-> UserKey, limits |-> NewLimits]

\* The limits are those that were read, until the run's own are mined.
LimitsAre ==
    Decided /\ NoneUnderWay =>
        /\ RaisedNow => UsersLimits = NewLimits
        /\ ~RaisedNow => UsersLimits = LimitsOf(cmd.approval)

\* What a running creation would fall back to.
SavedLimits == LimitsOf(call.saved.pay[cmd.contract].approvals[UserKey])

LimitsSaved == Mining /\ cmd.at \notin Ended => SavedLimits = UsersLimits

LimitsInv == RunningCreates /\ RaisedOrEnough /\ RaisedAs /\ LimitsAre /\ LimitsSaved

\* What the command read and goes on with is the same to all of these.
LEMMA SameCommand ==
    ASSUME cmd'.price = cmd.price, cmd'.lockup = cmd.lockup,
           cmd'.piece = cmd.piece, cmd'.approval = cmd.approval
    PROVE  /\ UserKey' = UserKey /\ NewLimits' = NewLimits
           /\ Suffices(cmd.approval)' <=> Suffices(cmd.approval)
BY DEF UserKey, NewLimits, Suffices, RateShort, LockupShort, Rate, LockupAllowance

\* A step of the command leaves it, at every place, with the limits it knows.
LEMMA LimitsInvGoes ==
    ASSUME CreationInv, CommandInv', LimitsInv, CommandStep
    PROVE  LimitsInv'
<1>0. /\ IInv /\ CommandInv /\ cmd \in CommandRecord
      /\ NextNonce - 1 \in Nat /\ NextNonce - 1 <= Len(txs) /\ Len(txs) \in Nat
      /\ DOMAIN txs = 1 .. Len(txs) /\ cmd.seen <= NextNonce - 1 /\ cmd.seen \in Nat
  BY ListOrder DEF CreationInv, CommandInv, Fits, CommandRecord
<1>1. /\ cmd.at \notin Ended /\ Leads(cmd.at, cmd'.at)
      /\ Learns(cmd, cmd') /\ Decides(cmd, cmd') /\ pay' = pay
      /\ call' = call /\ call = Idle
  BY DEF CommandStep, Goes, Asking
<1>2. /\ DOMAIN txs \subseteq DOMAIN txs'
      /\ \A i \in DOMAIN txs : txs'[i] = txs[i]
      /\ \/ txs' = txs /\ (cmd.at \in Sends => cmd'.at = "failed")
         \/ /\ cmd.at \in Sends
            /\ Len(txs') = Len(txs) + 1
            /\ DOMAIN txs' = DOMAIN txs \cup {Len(txs')}
            /\ txs'[Len(txs')] = NextTx
  BY <1>0, CommandList DEF CommandStep
<1>3. /\ cmd'.run = cmd.run /\ cmd'.contract = cmd.contract
      /\ cmd'.piece = cmd.piece /\ cmd'.setup = cmd.setup
  BY <1>1 DEF Learns
<1>4. UserKey' = UserKey /\ UsersApproval' = UsersApproval /\ UsersLimits' = UsersLimits
  BY <1>1, <1>3 DEF UserKey, UsersApproval, UsersLimits
<1>5. cmd.at \in Sends =>
          /\ NextTx.status = "pending" /\ NextTx.run = cmd.run
          /\ NextTx.contract = cmd.contract
          /\ NextTx.fn = "setOperatorApproval" =>
                /\ cmd.at = "setOperatorApproval"
                /\ NextTx.arg = [key |-> UserKey, limits |-> NewLimits]
  BY <1>0, NextTxIs
<1>6. cmd.at = "setOperatorApproval" => NextTx.fn = "setOperatorApproval"
  BY DEF NextTx, Tx
<1>7. ~Mining'
  BY <1>1 DEF CommandInv, RunsCreation, Idle
<1>8. RunningCreates' /\ LimitsSaved'
  BY <1>7 DEF RunningCreates, LimitsSaved, Mining
<1>9. \A i \in DOMAIN txs : Own(i)' <=> Own(i)
  BY <1>2, <1>3 DEF Own, Raises
<1>10. CASE cmd.at \in Early \ {"setOperatorApproval", "approval"}
  <2>1. ~Raised'
    <3>1. ~Raised
      BY <1>10 DEF LimitsInv, RaisedOrEnough
    <3>2. txs' # txs => txs'[Len(txs')].fn # "setOperatorApproval"
      BY <1>2, <1>5, <1>10 DEF Early
    <3> QED BY <1>2, <1>9, <3>1, <3>2 DEF Raised, Own, Raises
  <2>2. cmd'.at \in Early \cup {"failed"}
        /\ cmd'.at \notin {"setOperatorApproval", "waitApproval", "request"}
    BY <1>1, <1>10 DEF Leads, Early
  <2> QED BY <1>8, <2>1, <2>2
          DEF LimitsInv, RaisedOrEnough, RaisedAs, LimitsAre, Decided, Early
<1>11. CASE cmd.at = "approval"
  <2>1. txs' = txs
    BY <1>2, <1>11 DEF Sends
  <2>2. ~Raised' /\ ~RaisedNow'
    <3>1. ~Raised
      BY <1>11 DEF LimitsInv, RaisedOrEnough, Early
    <3> QED BY <1>9, <2>1, <3>1 DEF Raised, RaisedNow
  <2>3. cmd'.at \in {"failed", "setOperatorApproval", "request"}
    BY <1>1, <1>11 DEF Leads
  <2>4. cmd'.at # "failed" =>
            /\ cmd'.approval = UsersApproval
            /\ cmd'.at = "request" => Suffices(UsersApproval)
    BY <1>1, <1>11 DEF Decides
  <2>5. cmd'.price = cmd.price /\ cmd'.lockup = cmd.lockup
    BY <1>1, <1>11 DEF Learns
  <2>6. cmd'.at = "request" => Suffices(cmd.approval)'
    BY <1>3, <2>4, <2>5 DEF Suffices, RateShort, LockupShort, Rate, LockupAllowance
  <2>7. cmd'.at # "failed" => UsersLimits' = LimitsOf(cmd.approval)'
    BY <1>4, <2>4 DEF UsersLimits, LimitsOf
  <2>8. RaisedOrEnough'
    BY <2>2, <2>3, <2>6 DEF RaisedOrEnough
  <2>9. RaisedAs'
    BY <2>2 DEF RaisedAs, Raised
  <2>10. LimitsAre'
    BY <2>2, <2>3, <2>7 DEF LimitsAre, Decided
  <2> QED BY <1>8, <2>8, <2>9, <2>10 DEF LimitsInv
<1>12. CASE cmd.at \in {"setOperatorApproval", "waitApproval"}
  <2>1. /\ cmd'.price = cmd.price /\ cmd'.lockup = cmd.lockup
        /\ cmd'.approval = cmd.approval /\ cmd'.seen = cmd.seen
    BY <1>1, <1>12 DEF Learns
  <2>2. NewLimits' = NewLimits
    BY <1>3, <2>1, SameCommand
  <2>3. Decided
    BY <1>12 DEF Decided
  <2>4. txs' # txs => /\ txs'[Len(txs')] = NextTx /\ cmd.at = "setOperatorApproval"
                      /\ DOMAIN txs' = DOMAIN txs \cup {Len(txs')}
                      /\ Len(txs') = Len(txs) + 1
                      /\ NextTx.arg = [key |-> UserKey, limits |-> NewLimits]
                      /\ NextTx.status = "pending" /\ NextTx.run = cmd.run
                      /\ NextTx.contract = cmd.contract
    BY <1>2, <1>5, <1>6, <1>12 DEF Sends
  <2>5. ASSUME NEW i \in DOMAIN txs', Own(i)'
        PROVE  /\ i > cmd.seen /\ txs'[i].contract = cmd.contract
               /\ txs'[i].arg = [key |-> UserKey, limits |-> NewLimits]
    <3>1. CASE i \in DOMAIN txs
      BY <1>2, <1>9, <2>3, <2>5, <3>1 DEF LimitsInv, RaisedAs
    <3>2. CASE i \notin DOMAIN txs
      <4>1. i = Len(txs) + 1 /\ txs'[i] = NextTx
        BY <2>4, <2>5, <3>2
      <4> QED BY <1>0, <2>4, <2>5, <3>2, <4>1
    <3> QED BY <3>1, <3>2
  <2>6. RaisedAs'
    BY <1>3, <1>4, <2>1, <2>2, <2>5 DEF RaisedAs
  <2>7. NoneUnderWay' => NoneUnderWay
    BY <1>2, <1>3, <2>1 DEF NoneUnderWay, Raises
  <2>8. RaisedNow' <=> RaisedNow
    <3>1. ASSUME NEW i \in DOMAIN txs', txs'[i].status = "succeeded"
          PROVE  i \in DOMAIN txs
      BY <2>4, <3>1
    <3> QED BY <1>2, <1>9, <3>1 DEF RaisedNow
  <2>9. LimitsAre'
    BY <1>4, <2>1, <2>2, <2>3, <2>7, <2>8 DEF LimitsInv, LimitsAre, LimitsOf
  <2>10. cmd'.at \in {"failed", "waitApproval", "request"}
         /\ (cmd.at = "setOperatorApproval" => cmd'.at # "request")
    BY <1>1, <1>12 DEF Leads
  <2>11. cmd'.at # "failed" => Raised'
    <3>1. CASE cmd.at = "waitApproval"
      <4>1. Raised
        BY <3>1 DEF LimitsInv, RaisedOrEnough
      <4> QED BY <1>2, <1>9, <4>1 DEF Raised
    <3>2. CASE cmd.at = "setOperatorApproval"
      <4>1. ASSUME cmd'.at # "failed"
            PROVE  /\ Len(txs') \in DOMAIN txs' /\ txs'[Len(txs')] = NextTx
        BY <1>2, <3>2, <4>1 DEF Sends
      <4> QED BY <1>3, <1>5, <1>6, <3>2, <4>1 DEF Raised, Own, Raises, Sends
    <3> QED BY <1>12, <3>1, <3>2
  <2>12. RaisedOrEnough'
    BY <2>10, <2>11 DEF RaisedOrEnough, Early
  <2> QED BY <1>8, <2>6, <2>9, <2>12 DEF LimitsInv
<1>13. CASE cmd.at \notin Early \cup {"waitApproval"}
  <2>1. cmd'.at \notin Early \cup {"waitApproval", "request"}
    BY <1>1, <1>13 DEF Leads, Early
  <2> QED BY <1>8, <2>1
          DEF LimitsInv, RaisedOrEnough, RaisedAs, LimitsAre, Decided, Early
<1> QED BY <1>10, <1>11, <1>12, <1>13 DEF Early

\* A deposit leaves the approvals alone; the limits that are set are those the
\* approval has then.
LEMMA DepositLeaves ==
    ASSUME NEW p \in PayState, NEW k, NEW amount, NEW now
    PROVE  Deposit(p, k, amount, now).approvals = p.approvals
BY DEF Deposit, PayState

LEMMA ApprovalSet ==
    ASSUME NEW p \in PayState, NEW k \in Clients \X Tokens,
           NEW limits \in ApprovalLimits
    PROVE  LimitsOf(SetOperatorApproval(p, k, limits).approvals[k]) = limits
<1>1. PICK v : v = [p.approvals[k] EXCEPT !.isApproved = limits.isApproved,
                                          !.rateAllowance = limits.rateAllowance,
                                          !.lockupAllowance = limits.lockupAllowance,
                                          !.maxLockupPeriod = limits.maxLockupPeriod]
  OBVIOUS
<1>2. SetOperatorApproval(p, k, limits).approvals = [p.approvals EXCEPT ![k] = v]
  BY <1>1 DEF PayState, SetOperatorApproval
<1>3. SetOperatorApproval(p, k, limits).approvals[k] = v
  BY <1>2 DEF PayState
<1>4. p.approvals[k] \in Approval
  BY DEF PayState
<1>5. /\ v.isApproved = limits.isApproved /\ v.rateAllowance = limits.rateAllowance
      /\ v.lockupAllowance = limits.lockupAllowance
      /\ v.maxLockupPeriod = limits.maxLockupPeriod
  BY <1>1, <1>4 DEF Approval
<1>6. limits = [isApproved |-> limits.isApproved, rateAllowance |-> limits.rateAllowance,
                lockupAllowance |-> limits.lockupAllowance,
                maxLockupPeriod |-> limits.maxLockupPeriod]
  BY DEF ApprovalLimits
<1> QED BY <1>3, <1>5, <1>6 DEF LimitsOf

\* Of the command's transactions only a change of the approval changes its
\* limits.
LEMMA LimitsAfter ==
    ASSUME CreationInv, LimitsSaved, cmd.at \notin Ended,
           NEW i, NEW tx, Mines(i, tx), Effects(i, tx)
    PROVE  \/ /\ tx.fn = "setOperatorApproval" /\ tx.status = "succeeded"
              /\ setOperatorApproval(tx.contract, tx.arg.key, tx.arg.limits)
           \/ UsersLimits' = UsersLimits
<1>1. /\ cmd' = cmd /\ tx.contract \in PaymentsContracts
      /\ tx.contract = txs[i].contract
  BY DEF Mines, CreationInv, CommandInv, TxsTyped, TxTyped
<1>2. UserKey' = UserKey
  BY <1>1 DEF UserKey
<1>3. cmd.contract \in PaymentsContracts
  BY DEF CreationInv, CommandInv, Fits
<1>4. DOMAIN pay = PaymentsContracts /\ \A c \in PaymentsContracts : pay[c] \in PayState
  BY SoundParts DEF CreationInv
<1>5. ASSUME pay' = pay
      PROVE  UsersLimits' = UsersLimits
  BY <1>1, <1>2, <1>5 DEF UsersLimits, UsersApproval
<1>6. CASE /\ tx.fn = "deposit" /\ AnyDeposit(tx.contract, tx.arg.key, tx.arg.amount)
  <2>1. PICK k, amount : k = tx.arg.key /\ amount = tx.arg.amount
    OBVIOUS
  <2>2. pay' = [pay EXCEPT ![tx.contract] = Deposit(pay[tx.contract], k, amount, epoch)]
    BY <1>6, <2>1 DEF AnyDeposit
  <2>3. Deposit(pay[tx.contract], k, amount, epoch).approvals = pay[tx.contract].approvals
    BY <1>1, <1>4, DepositLeaves
  <2>4. pay'[cmd.contract].approvals = pay[cmd.contract].approvals
    BY <1>1, <1>3, <1>4, <2>2, <2>3
  <2> QED BY <1>1, <1>2, <2>4 DEF UsersLimits, UsersApproval
<1>7. CASE createReturn
  BY <1>5, <1>7 DEF createReturn
<1>8. CASE Mining /\ createRevert
  <2>1. pay' = call.saved.pay
    BY <1>8 DEF createRevert, Revert
  <2> QED BY <1>1, <1>2, <1>8, <2>1
          DEF LimitsSaved, SavedLimits, UsersLimits, UsersApproval
<1>9. CASE \E ids \in Answers : createAllocationRequests(User, <<tx.arg>>, ids)
  BY <1>5, <1>9 DEF createAllocationRequests
<1> QED BY <1>5, <1>6, <1>7, <1>8, <1>9 DEF Effects

\* What the chain does with the command's transactions.
LEMMA LimitsInvMines ==
    ASSUME CreationInv, CommandInv', LimitsInv,
           NEW i, NEW tx, Mines(i, tx), Effects(i, tx)
    PROVE  LimitsInv'
<1>0. IInv /\ CommandInv
  BY DEF CreationInv
<1>1. /\ NextNonce \in {i, i + 1} /\ i \in DOMAIN txs /\ DOMAIN txs' = DOMAIN txs
      /\ \A j \in DOMAIN txs : j # i => txs'[j] = txs[j]
      /\ txs'[i] = tx
      /\ txs[i].status \notin {"succeeded", "reverted"}
      /\ \A j \in DOMAIN txs : /\ txs'[j].run = txs[j].run
                               /\ txs'[j].fn = txs[j].fn
                               /\ txs'[j].contract = txs[j].contract
                               /\ txs'[j].arg = txs[j].arg
  BY <1>0, MinesList
<1>2. cmd' = cmd
  BY DEF Mines
<1>3. /\ UserKey' = UserKey /\ NewLimits' = NewLimits
      /\ Suffices(cmd.approval)' <=> Suffices(cmd.approval)
  BY <1>2, SameCommand
<1>4. \A j \in DOMAIN txs : Own(j)' <=> Own(j)
  BY <1>1, <1>2 DEF Own, Raises
<1>5. RunningCreates'
  <2>1. ASSUME tx.status = "running"
        PROVE  tx.fn = "createAllocationRequests"
    <3>1. CASE txs[i].status = "running"
      BY <1>1, <3>1 DEF Mines, LimitsInv, RunningCreates
    <3>2. CASE ~Mining
      BY <2>1, <3>2 DEF Effects
    <3> QED BY <3>1, <3>2 DEF Mines, Due
  <2> QED BY <1>1, <2>1 DEF LimitsInv, RunningCreates
<1>6. RaisedOrEnough' /\ (Raised' <=> Raised)
  <2>1. Raised' <=> Raised
    BY <1>1, <1>4 DEF Raised
  <2> QED BY <1>2, <1>3, <2>1 DEF LimitsInv, RaisedOrEnough
<1>7. RaisedAs'
  BY <1>1, <1>2, <1>3, <1>4 DEF LimitsInv, RaisedAs, Decided
<1>8. NoneUnderWay' <=> NoneUnderWay
  BY <1>1, <1>2 DEF NoneUnderWay, Raises
<1>9. LimitsAre'
  <2>1. SUFFICES ASSUME Decided, NoneUnderWay
                 PROVE  /\ RaisedNow' => UsersLimits' = NewLimits
                        /\ ~RaisedNow' => UsersLimits' = LimitsOf(cmd.approval)
    BY <1>2, <1>3, <1>8 DEF LimitsAre, Decided, LimitsOf
  <2>2. cmd.at \notin Ended
    BY <2>1 DEF Decided, Ended
  <2>3. CASE /\ tx.fn = "setOperatorApproval" /\ tx.status = "succeeded"
             /\ setOperatorApproval(tx.contract, tx.arg.key, tx.arg.limits)
    <3>1. ~Mining
      BY <1>0, <2>3
         DEF setOperatorApproval, ClientTransaction, CommandInv, RunsCreation, Idle
    <3>2. i = NextNonce
      BY <1>1, <3>1 DEF Mines, Due, Mining
    <3>3. i > cmd.seen
      <4>1. cmd.seen \in Nat /\ cmd.seen <= NextNonce - 1 /\ NextNonce - 1 \in Nat
        BY <1>0, ListOrder DEF CommandInv, Fits, CommandRecord
      <4>2. NextNonce \in Int
        BY <1>0, <1>1, <3>2, ListOrder DEF CommandInv
      <4> QED BY <3>2, <4>1, <4>2
    <3>4. Own(i)
      BY <1>1, <2>1, <2>3, <3>3 DEF NoneUnderWay, Own, Raises, Mines
    <3>5. tx.contract = cmd.contract /\ tx.arg = [key |-> UserKey, limits |-> NewLimits]
      BY <1>1, <2>1, <3>4 DEF LimitsInv, RaisedAs
    <3>6. RaisedNow'
      BY <1>1, <1>4, <2>3, <3>4 DEF RaisedNow
    <3>7. /\ UserKey \in Clients \X Tokens /\ NewLimits \in ApprovalLimits
          /\ cmd.contract \in PaymentsContracts /\ DOMAIN pay = PaymentsContracts
          /\ pay[cmd.contract] \in PayState
      BY <1>0, <2>2, Amounts, SoundParts DEF CommandInv, Fits
    <3>8. PICK k, limits : k = UserKey /\ limits = NewLimits
      OBVIOUS
    <3>9. pay'[cmd.contract] = SetOperatorApproval(pay[cmd.contract], k, limits)
      <4>1. tx.arg.key = k /\ tx.arg.limits = limits
        BY <3>5, <3>8
      <4> QED BY <2>3, <3>5, <3>7, <4>1 DEF setOperatorApproval
    <3>10. LimitsOf(pay'[cmd.contract].approvals[k]) = limits
      BY <3>7, <3>8, <3>9, ApprovalSet
    <3>11. UsersLimits' = NewLimits
      BY <1>2, <1>3, <3>8, <3>10 DEF UsersLimits, UsersApproval, LimitsOf
    <3> QED BY <3>6, <3>11
  <2>4. CASE /\ UsersLimits' = UsersLimits
             /\ ~(tx.fn = "setOperatorApproval" /\ tx.status = "succeeded")
    <3>1. RaisedNow' <=> RaisedNow
      <4>1. ~(Own(i) /\ txs[i].status = "succeeded")
        BY <1>1
      <4>2. ~(Own(i) /\ txs'[i].status = "succeeded")
        BY <1>1, <2>4 DEF Own, Raises, Mines
      <4> QED BY <1>1, <1>4, <4>1, <4>2 DEF RaisedNow
    <3> QED BY <2>1, <2>4, <3>1 DEF LimitsInv, LimitsAre
  <2>5. tx.fn = "setOperatorApproval" /\ tx.status = "succeeded" =>
            setOperatorApproval(tx.contract, tx.arg.key, tx.arg.limits)
    <3>1. ASSUME tx.fn = "setOperatorApproval", Mining
          PROVE  FALSE
      <4>1. txs[i].status = "running"
        BY <3>1 DEF Mines, Due
      <4> QED BY <1>1, <3>1, <4>1 DEF LimitsInv, RunningCreates, Mines
    <3> QED BY <3>1 DEF Effects
  <2> QED BY <2>2, <2>3, <2>4, <2>5, LimitsAfter DEF LimitsInv
<1>10. LimitsSaved'
  <2>1. SUFFICES ASSUME Mining', cmd.at \notin Ended
                 PROVE  SavedLimits' = UsersLimits'
    BY <1>2 DEF LimitsSaved
  <2>2. call' # Idle
    BY <2>1 DEF CommandInv, RunsCreation, Idle
  <2>3. CASE /\ tx.status # "running" /\ UNCHANGED <<pay, call>>
    <3>1. Mining
      BY <1>1, <2>1, <2>3 DEF Mining
    <3>2. SavedLimits' = SavedLimits /\ UsersLimits' = UsersLimits
      BY <1>2, <1>3, <2>3 DEF SavedLimits, UsersLimits, UsersApproval
    <3> QED BY <2>1, <3>1, <3>2 DEF LimitsInv, LimitsSaved
  <2>4. CASE \E ids \in Answers : createAllocationRequests(User, <<tx.arg>>, ids)
    <3>1. pay' = pay /\ call'.saved.pay = pay
      BY <2>4 DEF createAllocationRequests, Snapshot
    <3> QED BY <1>2, <1>3, <3>1 DEF SavedLimits, UsersLimits, UsersApproval
  <2>5. ~(\/ AnyDeposit(tx.contract, tx.arg.key, tx.arg.amount)
          \/ setOperatorApproval(tx.contract, tx.arg.key, tx.arg.limits)
          \/ createReturn \/ createRevert)
    BY <2>2 DEF AnyDeposit, setOperatorApproval, ClientTransaction, createReturn,
                createRevert, Revert
  <2> QED BY <2>3, <2>4, <2>5 DEF Effects
<1> QED BY <1>5, <1>6, <1>7, <1>9, <1>10 DEF LimitsInv

LEMMA LimitsInvStep ==
    ASSUME CreationInv, LimitsInv, [CFFNext]_cffVars, ApprovalStep \/ UNCHANGED cffVars
    PROVE  LimitsInv'
<1>0. IInv /\ CommandInv /\ CommandInv'
  BY CreationInvStep DEF CreationInv
<1>1. CASE CommandStep
  BY <1>0, <1>1, LimitsInvGoes
<1>2. CASE Execute
  <2>1. /\ call = Idle /\ UNCHANGED <<call, txs>> /\ Started(cmd', cmd.run + 1)
    BY <1>2, Starts
  <2>2. ~Mining'
    BY <1>0, <2>1 DEF CommandInv, RunsCreation, Idle
  <2>3. ~Raised'
    <3>1. \A i \in DOMAIN txs : txs[i].run <= cmd.run /\ txs[i].run \in Nat
      BY <1>0, MaxRunsAssumption DEF CommandInv, TxsTyped, TxTyped
    <3>2. cmd'.run = cmd.run + 1 /\ cmd.run \in Nat
      BY <1>0, <2>1 DEF Started, CommandInv, Fits, CommandRecord
    <3>3. \A i \in DOMAIN txs : txs[i].run # cmd'.run
      BY <3>1, <3>2
    <3> QED BY <2>1, <3>3 DEF Raised, Own
  <2>4. cmd'.at = "costs" \/ (cmd'.at = "request" /\ ~cmd'.setup)
    BY <2>1 DEF Started
  <2> QED BY <2>2, <2>3, <2>4
          DEF LimitsInv, RunningCreates, RaisedOrEnough, RaisedAs, LimitsAre,
              LimitsSaved, Decided, Mining
<1>3. ASSUME NEW i, NEW tx, Mines(i, tx), Effects(i, tx)
      PROVE  LimitsInv'
  BY <1>0, <1>3, LimitsInvMines
<1>4. CASE Aside
  <2>1. cmd' = cmd /\ txs' = txs
    BY <1>4 DEF Aside
  <2>2. /\ UserKey' = UserKey /\ NewLimits' = NewLimits
        /\ Suffices(cmd.approval)' <=> Suffices(cmd.approval)
    BY <2>1, SameCommand
  <2>3. cmd.at \notin Ended => UsersLimits' = UsersLimits
    BY <2>1, <2>2 DEF ApprovalStep, cffVars, UsersLimits, UsersApproval
  <2>4. RunningCreates' /\ RaisedOrEnough' /\ RaisedAs'
    BY <2>1, <2>2
       DEF LimitsInv, RunningCreates, RaisedOrEnough, RaisedAs, Decided, Raised,
           Own, Raises
  <2>5. LimitsAre'
    <3>1. /\ Decided' <=> Decided
          /\ NoneUnderWay' <=> NoneUnderWay
          /\ RaisedNow' <=> RaisedNow
      BY <2>1 DEF Decided, NoneUnderWay, RaisedNow, Own, Raises
    <3>2. Decided => cmd.at \notin Ended
      BY DEF Decided, Ended
    <3> QED BY <2>1, <2>2, <2>3, <3>1, <3>2 DEF LimitsInv, LimitsAre, LimitsOf
  <2>6. LimitsSaved'
    <3>1. Mining' => Mining
      BY <2>1 DEF Mining
    <3>2. Mining => SavedLimits' = SavedLimits
      <4>1. CASE createAllocation
        <5>1. call \in CreateFrame
          BY <1>0, <4>1, CreateFrameParts DEF createAllocation
        <5>2. call'.saved = call.saved
          BY <4>1, <5>1 DEF createAllocation, Continue, CreateFrame
        <5> QED BY <2>1, <2>2, <5>2 DEF SavedLimits
      <4>2. CASE UNCHANGED vars
        BY <2>1, <2>2, <4>2 DEF SavedLimits, vars
      <4> QED BY <1>4, <4>1, <4>2 DEF Aside
    <3> QED BY <2>1, <2>3, <3>1, <3>2 DEF LimitsInv, LimitsSaved
  <2> QED BY <2>4, <2>5, <2>6 DEF LimitsInv
<1> QED BY <1>0, <1>1, <1>2, <1>3, <1>4, CreateKinds

LEMMA LimitsHold == CFFSpec /\ ApprovalAlone => []LimitsInv
<1>1. ASSUME CFFInit
      PROVE  LimitsInv
  <2>1. txs = <<>> /\ cmd = NotStarted
    BY <1>1 DEF CFFInit
  <2>2. DOMAIN txs = {}
    BY <2>1
  <2>3. cmd.at = "start"
    BY <2>1 DEF NotStarted
  <2> QED BY <2>2, <2>3
          DEF LimitsInv, RunningCreates, RaisedOrEnough, RaisedAs, LimitsAre,
              LimitsSaved, Raised, Early, Decided, Mining
<1>2. CreationInv /\ LimitsInv /\ [CFFNext]_cffVars /\ [ApprovalStep]_cffVars
          => LimitsInv'
  BY LimitsInvStep
<1> QED BY <1>1, <1>2, CreationsInvariance, PTL DEF CFFSpec, ApprovalAlone

----------------------------------------------------------------------------
(* The payment setup.                                                      *)

\* Set up, the account and the approval bear the piece's rail, and what the
\* approval and the account allow beyond it is what the command asked for.
LEMMA SetUpBears ==
    ASSUME CreationInv, LimitsInv, SetUp, WithinAllowance, cmd.account.lockupRate = 0
    PROVE  \E funds, locked \in Nat :
               /\ Bears(pay[cmd.contract], UserKey, funds, locked)
               /\ locked + cmd.cost <= funds
               /\ UsersApproval.rateUsage + Rate <= UsersApproval.rateAllowance
               /\ UsersApproval.lockupUsage + LockupAllowance <=
                      UsersApproval.lockupAllowance
<1>0. /\ IInv /\ CommandInv /\ cmd \in CommandRecord /\ epoch \in Nat
      /\ cmd.contract \in PaymentsContracts /\ cmd.piece \in PieceInfo
      /\ cmd.lockup \in Nat /\ UserKey \in Clients \X Tokens
      /\ pay[cmd.contract] \in PayState
  <2>1. IInv /\ CommandInv
    BY DEF CreationInv
  <2>2. cmd.at = "request" /\ cmd \in CommandRecord
    BY <2>1 DEF SetUp, CommandInv, Fits
  <2>3. cmd.contract \in PaymentsContracts /\ cmd.piece \in PieceInfo
    BY <2>1, <2>2 DEF CommandInv, Fits, Ended
  <2> QED BY <2>1, <2>2, <2>3, Amounts, SoundParts DEF CommandRecord
<1>1. PICK p : p = pay[cmd.contract]
  OBVIOUS
<1>2. /\ cmd.at = "request" /\ cmd.setup
      /\ \A i \in DOMAIN txs :
            /\ txs[i].run = cmd.run => txs[i].status = "succeeded"
            /\ i > cmd.seen /\ txs[i].fn = "setOperatorApproval" =>
                  txs[i].run = cmd.run
      /\ SettledAccount(p.accounts[UserKey], epoch) = Expected
      /\ p.approvals[UserKey].rateUsage = cmd.approval.rateUsage
      /\ p.approvals[UserKey].lockupUsage = cmd.approval.lockupUsage
      /\ s.allocationLockupAmount = cmd.lockup
  BY <1>1 DEF SetUp
<1>3. Decided /\ NoneUnderWay /\ (Raised => RaisedNow) /\ (Suffices(cmd.approval) \/ Raised)
  BY <1>2 DEF Decided, NoneUnderWay, Raises, Raised, RaisedNow, Own, LimitsInv, RaisedOrEnough
<1>4. \/ UsersLimits = NewLimits
      \/ UsersLimits = LimitsOf(cmd.approval) /\ Suffices(cmd.approval)
  BY <1>3 DEF LimitsInv, LimitsAre
<1>5. /\ UsersLimits.isApproved
      /\ cmd.approval.rateUsage + Rate <= UsersLimits.rateAllowance
      /\ cmd.approval.lockupUsage + LockupAllowance <= UsersLimits.lockupAllowance
  BY <1>0, <1>4, LimitsSuffice
<1>6. UsersApproval = p.approvals[UserKey]
  BY <1>1 DEF UsersApproval
<1>7. /\ UsersLimits.isApproved = UsersApproval.isApproved
      /\ UsersLimits.rateAllowance = UsersApproval.rateAllowance
      /\ UsersLimits.lockupAllowance = UsersApproval.lockupAllowance
  BY DEF UsersLimits, LimitsOf
<1>8. PICK funds \in Nat, locked \in Nat :
          /\ Expected = [funds |-> funds, lockupCurrent |-> locked,
                         lockupRate |-> 0, lockupLastSettledAt |-> epoch]
          /\ locked + cmd.lockup <= funds /\ locked + cmd.cost <= funds
  BY <1>0, ExpectedSuffices
<1>9. p.approvals[UserKey].lockupUsage + cmd.lockup <= p.approvals[UserKey].lockupAllowance
  <2>1. LockupAllowance = 2 * cmd.lockup
    BY DEF LockupAllowance
  <2>2. p.approvals[UserKey] \in Approval
    BY <1>0, <1>1 DEF PayState
  <2>3. /\ p.approvals[UserKey].lockupUsage \in Nat
        /\ p.approvals[UserKey].lockupAllowance \in Nat
    BY <2>2 DEF Approval
  <2>4. p.approvals[UserKey].lockupUsage + 2 * cmd.lockup <=
            p.approvals[UserKey].lockupAllowance
    BY <1>2, <1>5, <1>6, <1>7, <2>1
  <2> QED BY <1>0, <2>3, <2>4
<1>10. Bears(p, UserKey, funds, locked)
  BY <1>2, <1>5, <1>6, <1>7, <1>8, <1>9 DEF Bears
<1> QED BY <1>1, <1>2, <1>5, <1>6, <1>7, <1>8, <1>10

LEMMA SetUpParts ==
    ASSUME CreationInv, SetUp
    PROVE  /\ IInv /\ cmd \in CommandRecord /\ epoch \in Nat
           /\ cmd.contract \in PaymentsContracts /\ cmd.piece \in PieceInfo
           /\ UserKey = <<User, cmd.piece.paymentTokenAddress>>
           /\ UsersApproval \in Approval /\ pay[cmd.contract].nextRailId \in RailIds
           /\ validPieceForSP(cmd.piece) /\ s.allocationLockupAmount = cmd.lockup
           /\ UsersApproval = pay[cmd.contract].approvals[UserKey]
<1>1. IInv /\ CommandInv
  BY DEF CreationInv
<1>2. /\ cmd.at = "request" /\ cmd \in CommandRecord
      /\ pay[cmd.contract].nextRailId \in RailIds
      /\ validPieceForSP(cmd.piece) /\ s.allocationLockupAmount = cmd.lockup
  BY <1>1 DEF SetUp, CommandInv, Fits
<1>3. cmd.contract \in PaymentsContracts /\ cmd.piece \in PieceInfo
  BY <1>1, <1>2 DEF CommandInv, Fits, Ended
<1>4. UsersApproval \in Approval
  <2>1. UserKey \in Clients \X Tokens /\ pay[cmd.contract] \in PayState
    BY <1>1, <1>2, <1>3, Amounts, SoundParts
  <2> QED BY <2>1 DEF UsersApproval, PayState
<1> QED BY <1>1, <1>2, <1>3, <1>4, SoundParts DEF UserKey, UsersApproval

\* As long as nobody sets the approval by hand meanwhile, the payment setup is
\* enough for the allocation: whatever there was before, whatever others do,
\* and whatever became of earlier runs, once the setup's transactions have all
\* succeeded the diamond can open the allocation's rail.
THEOREM SetupIsEnough == CFFSpec /\ ApprovalAlone => []SetupSuffices
<1>1. ASSUME CreationInv, LimitsInv
      PROVE  SetupSuffices
  <2>1. SUFFICES ASSUME SetUp, WithinAllowance, cmd.account.lockupRate = 0
                 PROVE  OpensRail
    BY DEF SetupSuffices
  <2>2. PICK funds \in Nat, locked \in Nat :
            Bears(pay[cmd.contract], UserKey, funds, locked)
    BY <1>1, <2>1, SetUpBears
  <2>3. CanOpenRail(pay[cmd.contract], cmd.piece, User)
    BY <1>1, <2>1, <2>2, SetUpParts, RailOpens
  <2> QED BY <2>3 DEF OpensRail
<1> QED BY <1>1, CreationsInvariance, LimitsHold, PTL

\* Products grow with their factors.
LEMMA Grows == \A m, n, k \in Nat : n <= k => m * n <= m * k
  OBVIOUS

\* It is enough for the activation as well, with its month of lockup at the
\* price that was read, when the term is a month at least and twice the fixed
\* lockup covers a month.
THEOREM SetupIsLasting == CFFSpec /\ ApprovalAlone => []SetupLasts
<1>1. ASSUME CreationInv, LimitsInv
      PROVE  SetupLasts
  <2>1. SUFFICES ASSUME SetUp, WithinAllowance, cmd.account.lockupRate = 0,
                        cmd.piece.termMin >= EPOCHS_PER_MONTH,
                        cmd.cost = Rate * cmd.piece.termMin,
                        Rate * EPOCHS_PER_MONTH <= LockupAllowance,
                        UsersApproval.maxLockupPeriod >= EPOCHS_PER_MONTH
                 PROVE  ActivatesRail
    BY DEF SetupLasts, UsersApproval
  <2>2. /\ IInv /\ cmd \in CommandRecord /\ epoch \in Nat
        /\ cmd.contract \in PaymentsContracts /\ cmd.piece \in PieceInfo
        /\ UserKey = <<User, cmd.piece.paymentTokenAddress>>
        /\ UsersApproval \in Approval /\ pay[cmd.contract].nextRailId \in RailIds
        /\ validPieceForSP(cmd.piece) /\ s.allocationLockupAmount = cmd.lockup
        /\ UsersApproval = pay[cmd.contract].approvals[UserKey]
    BY <1>1, <2>1, SetUpParts
  <2>3. PICK funds \in Nat, locked \in Nat :
            /\ Bears(pay[cmd.contract], UserKey, funds, locked)
            /\ locked + cmd.cost <= funds
            /\ UsersApproval.rateUsage + Rate <= UsersApproval.rateAllowance
            /\ UsersApproval.lockupUsage + LockupAllowance <=
                   UsersApproval.lockupAllowance
    BY <1>1, <2>1, SetUpBears
  <2>4. PICK p, u, n, rate, month :
            /\ p = pay[cmd.contract] /\ u = OpenedRail(p, cmd.piece, User)
            /\ n = p.nextRailId /\ rate = Rate /\ month = Rate * EPOCHS_PER_MONTH
    OBVIOUS
  <2>5. /\ rate \in Nat /\ month \in Nat /\ EPOCHS_PER_MONTH \in Nat
        /\ cmd.lockup \in Nat /\ cmd.cost \in Nat /\ cmd.piece.termMin \in Nat
        /\ EPOCHS_PER_MONTH <= cmd.piece.termMin
    BY <2>1, <2>2, <2>4, Amounts, Products, EpochsAssumption DEF CommandRecord, PieceInfo
  <2>6. Pending(u, n, UserKey, cmd.lockup, funds, locked, UsersApproval)
    BY <2>2, <2>3, <2>4, OpenedRailPends
  <2>7. month <= cmd.cost
    BY <2>1, <2>4, <2>5, Grows
  <2>8. PICK info : info = [railId |-> n, pricePerBytePerEpoch |-> cmd.price,
                            pieceSize |-> cmd.piece.size]
    OBVIOUS
  <2>9. info.railId = n /\ pricePerEpoch(info) = rate
    BY <2>4, <2>8 DEF pricePerEpoch, Rate
  <2>10. /\ UsersApproval.lockupUsage \in Nat /\ UsersApproval.lockupAllowance \in Nat
         /\ LockupAllowance = 2 * cmd.lockup
    BY <2>2 DEF Approval, LockupAllowance
  <2>11. /\ UsersApproval.lockupUsage + cmd.lockup <= UsersApproval.lockupAllowance
         /\ UsersApproval.lockupUsage + month <= UsersApproval.lockupAllowance
    BY <2>1, <2>3, <2>4, <2>5, <2>10
  <2>12. locked + cmd.lockup <= funds /\ locked + month <= funds
    BY <2>2, <2>3, <2>5, <2>7 DEF Bears
  <2>13. UsersApproval.rateUsage + rate <= UsersApproval.rateAllowance
    BY <2>3, <2>4
  <2>14. month = rate * EPOCHS_PER_MONTH /\ EPOCHS_PER_MONTH <= UsersApproval.maxLockupPeriod
    BY <2>1, <2>2, <2>4, <2>5 DEF Approval
  <2>15. canActivateRail(u, info)
    BY <2>2, <2>5, <2>6, <2>9, <2>11, <2>12, <2>13, <2>14, PendingActivates
  <2> QED BY <2>4, <2>8, <2>15 DEF ActivatesRail
<1> QED BY <1>1, CreationsInvariance, LimitsHold, PTL
============================================================================
