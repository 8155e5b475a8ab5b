---------------------------- MODULE CommandProofs ----------------------------
(***************************************************************************)
(* The owner's and the user's commands beside the diamond.  Their          *)
(* transactions have arguments of their own, which the diamond's invariants *)
(* allow.  What a command has read is what is on the chain as long as none *)
(* of the key's transactions has been mined since, if nobody else has the  *)
(* key: that is what the promises of the commands rest on.                 *)
(***************************************************************************)
EXTENDS TransactionProofs, Commands

----------------------------------------------------------------------------
(* The key's transactions.                                                 *)

IsTx(tx) == DOMAIN tx = {"fn", "args", "arg", "status", "seen"}

IsList(list) == \E S : list \in Seq(S)

\* The first m transactions are mined, and the others are not.
MinedTo(list, m) ==
    /\ m \in 0 .. Len(list)
    /\ \A i \in DOMAIN list : i <= m <=> list[i].status # "pending"

TxsInv ==
    /\ IsList(txs)
    /\ \A i \in DOMAIN txs :
          /\ IsTx(txs[i])
          /\ txs[i].status \in {"pending", "succeeded", "reverted"}
    /\ MinedTo(txs, MinedCount)

LEMMA Listed ==
    ASSUME NEW list, IsList(list)
    PROVE  Len(list) \in Nat /\ DOMAIN list = 1 .. Len(list)
BY DEF IsList

LEMMA Counted ==
    ASSUME NEW list, IsList(list), NEW m, MinedTo(list, m)
    PROVE  Cardinality({i \in DOMAIN list : list[i].status # "pending"}) = m
<1>1. m \in Nat /\ Len(list) \in Nat /\ m <= Len(list) /\ DOMAIN list = 1 .. Len(list)
  BY Listed DEF MinedTo
<1>2. {i \in DOMAIN list : list[i].status # "pending"} = 1 .. m
  <2>1. \A i \in DOMAIN list : i <= m <=> list[i].status # "pending"
    BY DEF MinedTo
  <2> QED BY <1>1, <2>1
<1>3. Cardinality(1 .. m) = IF 1 > m THEN 0 ELSE m - 1 + 1
  BY <1>1, FS_Interval
<1>4. Cardinality(1 .. m) = m
  BY <1>1, <1>3
<1> QED BY <1>2, <1>4, Zenon

LEMMA CountIs ==
    ASSUME IsList(txs), NEW m, MinedTo(txs, m)
    PROVE  MinedCount = m /\ NextNonce = m + 1
<1>1. m \in Nat
  BY Listed DEF MinedTo
<1> QED BY <1>1, Counted DEF MinedCount, NextNonce

LEMMA CountIsAfter == (IsList(txs) /\ \E m : MinedTo(txs, m))' =>
                      (\A m : MinedTo(txs, m) => MinedCount = m /\ NextNonce = m + 1)'
<1>1. IsList(txs) /\ (\E m : MinedTo(txs, m)) =>
          \A m : MinedTo(txs, m) => MinedCount = m /\ NextNonce = m + 1
  BY CountIs
<1> QED BY <1>1, PTL

\* A transaction that is sent comes last, and is not mined.
LEMMA SentKeeps ==
    ASSUME TxsInv, NEW tx, IsTx(tx), tx.status = "pending", txs' = Append(txs, tx)
    PROVE  /\ TxsInv' /\ MinedCount' = MinedCount
           /\ Len(txs') = Len(txs) + 1
           /\ DOMAIN txs' = DOMAIN txs \cup {Len(txs) + 1}
           /\ \A i \in DOMAIN txs : txs'[i] = txs[i]
           /\ txs'[Len(txs) + 1] = tx
<1>1. PICK S : txs \in Seq(S)
  BY DEF TxsInv, IsList
<1>2. txs' \in Seq(S \cup {tx})
  BY <1>1
<1>3. /\ Len(txs') = Len(txs) + 1 /\ Len(txs) \in Nat
      /\ DOMAIN txs = 1 .. Len(txs)
      /\ DOMAIN txs' = DOMAIN txs \cup {Len(txs) + 1}
      /\ \A i \in DOMAIN txs : txs'[i] = txs[i]
      /\ txs'[Len(txs) + 1] = tx
  BY <1>1
<1>4. MinedTo(txs, MinedCount)
  BY DEF TxsInv
<1>5. MinedTo(txs', MinedCount)
  <2>1. MinedCount \in 0 .. Len(txs) /\ ~(Len(txs) + 1 <= MinedCount)
    BY <1>3, <1>4 DEF MinedTo
  <2> QED BY <1>3, <1>4, <2>1 DEF MinedTo
<1>6. IsList(txs')
  BY <1>2 DEF IsList
<1>7. PICK m : m = MinedCount
  OBVIOUS
<1>8. MinedCount' = m
  BY <1>5, <1>6, <1>7, CountIsAfter
<1>9. TxsInv'
  <2>1. \A i \in DOMAIN txs' : IsTx(txs'[i])
                               /\ txs'[i].status \in {"pending", "succeeded", "reverted"}
    BY <1>3 DEF TxsInv
  <2> QED BY <1>5, <1>6, <1>7, <1>8, <2>1 DEF TxsInv
<1> QED BY <1>3, <1>7, <1>8, <1>9

\* What a receipt leaves of a transaction.
SameTx(tx, new) ==
    /\ new.fn = tx.fn /\ new.args = tx.args /\ new.arg = tx.arg /\ new.seen = tx.seen
    /\ IsTx(new)

\* The next transaction is mined: it was pending, and is the last one mined.
LEMMA MinedKeeps ==
    ASSUME TxsInv, NEW i, i = NextNonce, i \in DOMAIN txs,
           NEW status \in {"succeeded", "reverted"}, Receipt(i, status)
    PROVE  /\ TxsInv' /\ i = MinedCount + 1 /\ MinedCount' = i
           /\ Len(txs') = Len(txs) /\ DOMAIN txs' = DOMAIN txs
           /\ \A j \in DOMAIN txs : j # i => txs'[j] = txs[j]
           /\ \A j \in DOMAIN txs : SameTx(txs[j], txs'[j])
           /\ txs[i].status = "pending" /\ txs'[i].status = status
<1>1. PICK S : txs \in Seq(S)
  BY DEF TxsInv, IsList
<1>2. PICK m : m = MinedCount
  OBVIOUS
<1>3. MinedTo(txs, m) /\ IsList(txs)
  BY <1>2 DEF TxsInv
<1>4. /\ i = m + 1 /\ m \in Nat /\ i \in Nat
      /\ Len(txs) \in Nat /\ DOMAIN txs = 1 .. Len(txs)
  BY <1>3, CountIs, Listed DEF MinedTo
<1>5. PICK new : new = [txs[i] EXCEPT !.status = status]
  OBVIOUS
<1>6. txs' = [txs EXCEPT ![i] = new]
  BY <1>5 DEF Receipt
<1>7. SameTx(txs[i], new) /\ new.status = status
  BY <1>5 DEF TxsInv, IsTx, SameTx
<1>8. txs' \in Seq(S \cup {new}) /\ Len(txs') = Len(txs) /\ DOMAIN txs' = DOMAIN txs
  <2>1. txs' \in [1 .. Len(txs) -> S \cup {new}]
    BY <1>1, <1>4, <1>6
  <2>2. txs' \in Seq(S \cup {new})
    BY <1>4, <2>1, FunctionIsSeq
  <2>3. DOMAIN txs' = DOMAIN txs
    BY <1>6
  <2>4. Len(txs') \in Nat /\ DOMAIN txs' = 1 .. Len(txs')
    BY <2>2
  <2>5. Len(txs') = Len(txs)
    BY <1>4, <2>3, <2>4
  <2> QED BY <2>2, <2>3, <2>5
<1>9. /\ \A j \in DOMAIN txs : j # i => txs'[j] = txs[j]
      /\ txs'[i] = new
  BY <1>6
<1>10. txs[i].status = "pending"
  BY <1>3, <1>4 DEF MinedTo
<1>11. MinedTo(txs', i)
  <2>1. i \in 0 .. Len(txs')
    BY <1>4, <1>8
  <2>2. ASSUME NEW j \in DOMAIN txs
        PROVE  j <= i <=> txs'[j].status # "pending"
    <3>1. j \in Nat /\ (j <= m <=> txs[j].status # "pending")
      BY <1>3, <1>4 DEF MinedTo
    <3> QED BY <1>4, <1>7, <1>9, <3>1
  <2> QED BY <2>1, <2>2, <1>8 DEF MinedTo
<1>12. IsList(txs')
  BY <1>8 DEF IsList
<1>13. MinedCount' = i
  BY <1>11, <1>12, CountIsAfter
<1>14. \A j \in DOMAIN txs : SameTx(txs[j], txs'[j])
  BY <1>7, <1>9 DEF SameTx, TxsInv
<1>15. TxsInv'
  <2>1. \A j \in DOMAIN txs' : IsTx(txs'[j])
                               /\ txs'[j].status \in {"pending", "succeeded", "reverted"}
    BY <1>7, <1>8, <1>9, <1>14 DEF TxsInv, SameTx
  <2> QED BY <1>11, <1>12, <1>13, <2>1 DEF TxsInv
<1> QED BY <1>2, <1>4, <1>7, <1>8, <1>9, <1>10, <1>13, <1>14, <1>15

LEMMA MinedOrder ==
    ASSUME TxsInv
    PROVE  InNonceOrder /\ MinedCount \in 0 .. Len(txs) /\ Len(txs) \in Nat
<1>1. /\ Len(txs) \in Nat /\ DOMAIN txs = 1 .. Len(txs)
      /\ MinedCount \in 0 .. Len(txs)
      /\ \A i \in DOMAIN txs : i <= MinedCount <=> txs[i].status # "pending"
  BY Listed DEF TxsInv, MinedTo
<1>2. \A i, j \in DOMAIN txs : i < j /\ txs[j].status # "pending" => txs[i].status # "pending"
  BY <1>1
<1>3. InNonceOrder
  BY <1>1, <1>2 DEF InNonceOrder, Mined, TxsInv
<1> QED BY <1>1, <1>3

----------------------------------------------------------------------------
(* A command on its own: what it was given, and the order of its steps.    *)

Requests ==
    {"config", "tokens", "ids", "paused", "blacklisted", "balance", "allowance",
     "verify", "account", "approval", "rail", "info", "railInfo", "idsOfClient",
     "idsOfProvider", "send", "wait"}

\* What `approve-token' is given fits into a word of the chain.
AmountsFit ==
    \A flags \in Approvals : flags.amount # <<>> => flags.amount[1] <= MaxUint256

\* What a command, and its transaction, was given.
ArgsTyped(name, args) ==
    /\ name \in {"registerSP", "updateSPConfig", "addSPToken", "updateSPToken",
                 "removeSPToken", "deactivateSP", "querySP"} => args.actorId \in Providers
    /\ name \in {"registerSP", "updateSPConfig"} => args.given \in Terms
    /\ name = "registerSP" => args.tokens \in Seq(TokenInput)
    /\ name \in {"addSPToken", "updateSPToken"} => args.price \in Nat
    /\ name = "updateSPToken" => args.isActive \in BOOLEAN
    /\ name = "setPaymentsContract" => args.contract \in PaymentsContracts \cup {ZERO}
    /\ name = "setCommissionRate" => args.bps \in Nat
    /\ name = "setAllocationLockupAmount" => args.amount \in Nat
    /\ name = "blacklistSector" => /\ args.entry \in Providers \X Sectors
                                   /\ args.blacklisted \in BOOLEAN
    /\ name \in {"approveToken", "setOperatorApproval", "withdraw"} =>
          args.contract \in PaymentsContracts
    /\ name \in {"approveToken", "setOperatorApproval", "withdraw", "addSPToken",
                 "updateSPToken", "removeSPToken"} => args.token \in Tokens
    /\ name = "approveToken" => /\ args.unlimited \in BOOLEAN
                                /\ args.amount # <<>> =>
                                      /\ args.amount[1] \in Nat
                                      /\ AmountsFit => args.amount[1] <= MaxUint256
    /\ name = "setOperatorApproval" =>
          /\ args.unlimited \in BOOLEAN /\ args.approved \in BOOLEAN
          /\ args.rate # <<>> => args.rate[1] \in Nat
          /\ args.lockup # <<>> => args.lockup[1] \in Nat
          /\ args.period # <<>> => args.period[1] \in Nat
    /\ name = "withdraw" => args.amount[1] \in Nat
    /\ name = "query" /\ "allocationId" \in DOMAIN args => args.allocationId \in AllocationIds

\* The steps each command takes.
StepsOf(name, args) ==
    CASE name = "registerSP" ->
            IF args.dryRun THEN {"config", "tokens"} ELSE {"send", "wait"}
      [] name = "updateSPConfig" -> {"config", "tokens", "send", "wait"}
      [] name = "listSPs" -> {"ids", "config", "tokens"}
      [] name = "querySP" -> {"config", "tokens"}
      [] name = "approveToken" ->
            {"balance", "allowance"} \cup
            IF args.checkOnly THEN {} ELSE {"send", "wait", "verify"}
      [] name = "setOperatorApproval" -> {"approval", "send", "wait", "verify"}
      [] name = "query" -> IF "allocationId" \in DOMAIN args THEN {"info", "railInfo"}
                           ELSE {"idsOfClient", "idsOfProvider"}
      [] OTHER -> {"paused", "blacklisted", "account", "approval", "rail", "send", "wait"}

\* A list of steps: requests, and an end.
Planned(todo) ==
    /\ todo \in Seq(Requests \cup Ends) /\ todo # <<>>
    /\ \A i \in DOMAIN todo : todo[i] \in Ends <=> i = Len(todo)

StepsIn(todo, steps) == \A i \in DOMAIN todo : todo[i] \in steps \cup Ends

\* The one step is not taken before the other.
After(todo, later, earlier) ==
    \A i \in DOMAIN todo :
        todo[i] = later => \E j \in DOMAIN todo : j < i /\ todo[j] = earlier

\* Nothing is sent twice.
Once(todo) ==
    \A i, j \in DOMAIN todo : todo[i] = "send" /\ todo[j] = "send" => i = j

Calm(todo) == \A i \in DOMAIN todo : todo[i] # "panicked"

\* The balance, or the allocation, is asked for first, if at all.
Early(todo) == \A i \in DOMAIN todo : todo[i] \in {"balance", "info"} => i = 1

Orderly(todo) == Once(todo) /\ Calm(todo) /\ Early(todo)

\* The answers a step goes by.
Needs(name, later, earlier) ==
    \/ name = "listSPs" /\ later \in {"config", "tokens"} /\ earlier = "ids"
    \/ name = "updateSPConfig" /\ later \in {"tokens", "send"} /\ earlier = "config"
    \/ name = "approveToken" /\ \/ later \in {"allowance", "send"} /\ earlier = "balance"
                                \/ later = "send" /\ earlier = "allowance"
    \/ name = "setOperatorApproval" /\ later = "send" /\ earlier = "approval"
    \/ name = "query" /\ later = "railInfo" /\ earlier = "info"

LEMMA TailPlanned ==
    ASSUME NEW todo, Planned(todo), Head(todo) \notin Ends
    PROVE  /\ Planned(Tail(todo))
           /\ \A i \in DOMAIN Tail(todo) :
                 /\ i + 1 \in DOMAIN todo /\ Tail(todo)[i] = todo[i + 1]
                 /\ i \in Nat \ {0}
<1>1. todo \in Seq(Requests \cup Ends) /\ todo # <<>>
  BY DEF Planned
<1>2. Len(todo) \in Nat /\ Len(todo) >= 1 /\ Head(todo) = todo[1]
  BY <1>1
<1>3. Len(todo) # 1
  BY <1>1, <1>2 DEF Planned
<1>4. /\ Tail(todo) \in Seq(Requests \cup Ends) /\ Len(Tail(todo)) = Len(todo) - 1
      /\ DOMAIN Tail(todo) = 1 .. Len(todo) - 1
      /\ \A i \in 1 .. Len(todo) - 1 : Tail(todo)[i] = todo[i + 1]
      /\ DOMAIN todo = 1 .. Len(todo)
  BY <1>1, <1>2
<1>5. Tail(todo) # <<>>
  <2>1. Len(Tail(todo)) # 0 /\ Len(<<>>) = 0
    BY <1>2, <1>3, <1>4
  <2> QED BY <2>1, Zenon
<1>6. \A i \in DOMAIN Tail(todo) : Tail(todo)[i] \in Ends <=> i = Len(Tail(todo))
  BY <1>2, <1>4 DEF Planned
<1> QED BY <1>2, <1>4, <1>5, <1>6 DEF Planned

LEMMA TailStepsIn ==
    ASSUME NEW todo, Planned(todo), Head(todo) \notin Ends, NEW steps, StepsIn(todo, steps)
    PROVE  StepsIn(Tail(todo), steps)
BY TailPlanned DEF StepsIn

LEMMA TailAfter ==
    ASSUME NEW todo, Planned(todo), Head(todo) \notin Ends, NEW later, NEW earlier,
           After(todo, later, earlier), Head(todo) # earlier
    PROVE  After(Tail(todo), later, earlier) /\ Head(todo) # later
<1>1. /\ todo \in Seq(Requests \cup Ends) /\ todo # <<>> /\ Head(todo) = todo[1]
      /\ 1 \in DOMAIN todo /\ DOMAIN todo = 1 .. Len(todo) /\ Len(todo) \in Nat
  BY DEF Planned
<1>2. Head(todo) # later
  BY <1>1 DEF After
<1>3. ASSUME NEW i \in DOMAIN Tail(todo), Tail(todo)[i] = later
      PROVE  \E j \in DOMAIN Tail(todo) : j < i /\ Tail(todo)[j] = earlier
  <2>1. /\ i + 1 \in DOMAIN todo /\ todo[i + 1] = later /\ i \in Nat
        /\ DOMAIN Tail(todo) = 1 .. Len(todo) - 1
        /\ \A j \in DOMAIN Tail(todo) : Tail(todo)[j] = todo[j + 1]
    BY <1>1, <1>3, TailPlanned
  <2>2. PICK j \in DOMAIN todo : j < i + 1 /\ todo[j] = earlier
    BY <2>1 DEF After
  <2>3. j # 1
    BY <1>1, <2>2
  <2>4. /\ j - 1 \in DOMAIN Tail(todo) /\ j - 1 < i
        /\ Tail(todo)[j - 1] = todo[(j - 1) + 1] /\ (j - 1) + 1 = j
    BY <1>1, <2>1, <2>2, <2>3
  <2> QED BY <2>2, <2>4
<1> QED BY <1>2, <1>3 DEF After

\* The end of a command is a plan.
LEMMA EndPlanned ==
    ASSUME NEW e \in Ends
    PROVE  /\ Planned(<<e>>) /\ Head(<<e>>) = e
           /\ \A steps : StepsIn(<<e>>, steps)
           /\ \A later, earlier : later \in Requests => After(<<e>>, later, earlier)
<1>1. e \in Requests \cup Ends /\ e \notin Requests
  BY DEF Ends, Requests
<1>2. /\ <<e>> \in Seq(Requests \cup Ends) /\ <<e>> # <<>> /\ Len(<<e>>) = 1
      /\ DOMAIN <<e>> = {1} /\ <<e>>[1] = e /\ Head(<<e>>) = e
  BY <1>1
<1>3. Planned(<<e>>)
  BY <1>2 DEF Planned
<1>4. \A steps : StepsIn(<<e>>, steps)
  BY <1>2 DEF StepsIn
<1>5. \A later, earlier : later \in Requests => After(<<e>>, later, earlier)
  BY <1>1, <1>2 DEF After
<1> QED BY <1>2, <1>3, <1>4, <1>5

----------------------------------------------------------------------------
(* What a step makes of the command.                                       *)

IsCommand(c) == DOMAIN c = {"run", "name", "args", "todo", "read", "seen", "tx"}

CmdsShape == DOMAIN cmds = Terminals /\ \A t \in Terminals : IsCommand(cmds[t])

Keeps(c, d) == IsCommand(d) /\ d.run = c.run /\ d.name = c.name /\ d.args = c.args

Begun(c, d, name, args, todo) ==
    /\ IsCommand(d)
    /\ Head(c.todo) \in Ends /\ c.run < MaxRuns /\ d.run = c.run + 1
    /\ d.name = name /\ d.args = args /\ d.todo = todo
    /\ d.read = <<>> /\ d.seen = 0 /\ d.tx = 0

Learnt(c, d, m, what, answer, todo) ==
    /\ Keeps(c, d) /\ d.tx = c.tx
    /\ Head(c.todo) = what /\ d.todo = todo
    /\ d.read = With(c.read, what, answer)
    /\ d.seen = IF c.read = <<>> THEN m ELSE c.seen

Gone(c, d, todo) ==
    /\ Keeps(c, d) /\ d.tx = c.tx /\ d.read = c.read /\ d.seen = c.seen
    /\ d.todo = todo

SentBy(c, d, n) ==
    /\ Keeps(c, d) /\ d.read = c.read /\ d.seen = c.seen
    /\ Head(c.todo) = "send" /\ d.todo = Tail(c.todo) /\ d.tx = n

RowGone(c, d) ==
    /\ Keeps(c, d) /\ d.tx = c.tx /\ d.seen = c.seen
    /\ c.name = "listSPs" /\ Head(c.todo) \in {"config", "tokens"}
    /\ d.todo = NextRow(c) /\ d.read = [c.read EXCEPT !.ids = Tail(@)]

\* The other terminals' commands stay as they are.
Only(t) ==
    /\ CmdsShape'
    /\ \A u \in Terminals : u # t => cmds'[u] = cmds[u]

LEMMA StartsBegins ==
    ASSUME CmdsShape, NEW t \in Terminals, NEW name, NEW args, NEW todo,
           Starts(t, name, args, todo)
    PROVE  Only(t) /\ Begun(cmds[t], cmds'[t], name, args, todo)
BY DEF CmdsShape, IsCommand, Starts, Begun, Only, Ended, At, NotStarted

LEMMA LearnsLearnt ==
    ASSUME CmdsShape, NEW t \in Terminals, NEW what, NEW answer, NEW todo,
           Learns(t, what, answer, todo)
    PROVE  Only(t) /\ Learnt(cmds[t], cmds'[t], MinedCount, what, answer, todo)
BY DEF CmdsShape, IsCommand, Learns, Learnt, Keeps, Only, At

LEMMA GoesGone ==
    ASSUME CmdsShape, NEW t \in Terminals, NEW todo, Goes(t, todo)
    PROVE  Only(t) /\ Gone(cmds[t], cmds'[t], todo)
BY DEF CmdsShape, IsCommand, Goes, Gone, Keeps, Only

LEMMA SentSentBy ==
    ASSUME CmdsShape, NEW t \in Terminals, NEW tx, Sent(t, tx), At(t) = "send"
    PROVE  /\ Only(t) /\ SentBy(cmds[t], cmds'[t], Len(txs) + 1)
           /\ txs' = Append(txs, tx)
BY DEF CmdsShape, IsCommand, Sent, SentBy, Keeps, Only, At, Rest

LEMMA NextRowGone ==
    ASSUME CmdsShape, NEW t \in Terminals, NextRowOf(t), cmds[t].name = "listSPs",
           At(t) \in {"config", "tokens"}
    PROVE  Only(t) /\ RowGone(cmds[t], cmds'[t])
BY DEF CmdsShape, IsCommand, NextRowOf, RowGone, Keeps, Only, At

----------------------------------------------------------------------------
(* The commands as they start.                                             *)

Plan(name, args, todo) ==
    /\ ArgsTyped(name, args)
    /\ Planned(todo) /\ StepsIn(todo, StepsOf(name, args))
    /\ \A later, earlier : Needs(name, later, earlier) => After(todo, later, earlier)
    /\ After(todo, "wait", "send") /\ After(todo, "verify", "wait")
    /\ Orderly(todo)
    /\ name = "registerSP" /\ args.dryRun => Head(todo) = "config"

LEMMA PlanSends ==
    /\ Planned(SendAndWait)
    /\ \A steps : {"send", "wait"} \subseteq steps => StepsIn(SendAndWait, steps)
    /\ After(SendAndWait, "wait", "send") /\ After(SendAndWait, "verify", "wait")
    /\ Orderly(SendAndWait)
BY DEF SendAndWait, Planned, StepsIn, After, Once, Calm, Early, Orderly, Requests, Ends

LEMMA PlanAsks ==
    ASSUME NEW what \in Requests \ {"wait", "verify"}
    PROVE  /\ Planned(<<what, "done">>)
           /\ \A steps : what \in steps => StepsIn(<<what, "done">>, steps)
           /\ After(<<what, "done">>, "wait", "send")
           /\ After(<<what, "done">>, "verify", "wait")
           /\ Orderly(<<what, "done">>)
BY DEF Planned, StepsIn, After, Once, Calm, Early, Orderly, Requests, Ends

\* A command that only sends: what it needs is to be given the right things.
LEMMA PlanOfSender ==
    ASSUME NEW name, NEW args, ArgsTyped(name, args),
           name \notin {"registerSP", "updateSPConfig", "listSPs", "querySP", "approveToken",
                        "setOperatorApproval", "query"}
    PROVE  Plan(name, args, SendAndWait)
<1>2. {"send", "wait"} \subseteq StepsOf(name, args)
  BY DEF StepsOf
<1>3. \A later, earlier : ~Needs(name, later, earlier)
  BY DEF Needs
<1> QED BY <1>2, <1>3, PlanSends DEF Plan

LEMMA PlanOfQuestion ==
    ASSUME NEW name, NEW args, ArgsTyped(name, args),
           name \notin {"registerSP", "updateSPConfig", "listSPs", "querySP", "approveToken",
                        "setOperatorApproval", "query"},
           NEW what \in {"paused", "blacklisted", "account", "approval", "rail"}
    PROVE  Plan(name, args, <<what, "done">>)
<1>1. what \in StepsOf(name, args) /\ what \in Requests \ {"wait", "verify"}
  BY DEF StepsOf, Requests
<1>2. \A later, earlier : ~Needs(name, later, earlier)
  BY DEF Needs
<1> QED BY <1>1, <1>2, PlanAsks DEF Plan

\* A list put together of two.
Joins(a, b, c) ==
    /\ a \in Seq(Requests \cup Ends) /\ b \in Seq(Requests \cup Ends)
    /\ c \in Seq(Requests \cup Ends)
    /\ Len(c) = Len(a) + Len(b)
    /\ \A i \in 1 .. Len(c) : c[i] = IF i <= Len(a) THEN a[i] ELSE b[i - Len(a)]

LEMMA JoinIs ==
    ASSUME NEW a, NEW b, NEW c, Joins(a, b, c)
    PROVE  a \o b = c
<1>1. PICK S : S = Requests \cup Ends
  OBVIOUS
<1>2. a \in Seq(S) /\ b \in Seq(S) /\ c \in Seq(S)
  BY <1>1 DEF Joins
<1>3. a \o b \in Seq(S) /\ Len(a \o b) = Len(c)
  BY <1>2 DEF Joins
<1>4. \A i \in 1 .. Len(a \o b) : (a \o b)[i] = c[i]
  BY <1>2, <1>3 DEF Joins
<1> QED BY <1>2, <1>3, <1>4, SeqEqual

LEMMA Joined ==
    /\ <<"config", "tokens">> \o <<"done">> = <<"config", "tokens", "done">>
    /\ <<"config", "tokens">> \o <<"send", "wait", "done">>
           = <<"config", "tokens", "send", "wait", "done">>
    /\ <<"balance", "allowance">> \o <<"done">> = <<"balance", "allowance", "done">>
    /\ <<"balance", "allowance">> \o <<"send", "wait", "verify", "done">>
           = <<"balance", "allowance", "send", "wait", "verify", "done">>
    /\ <<"approval">> \o <<"done">> = <<"approval", "done">>
    /\ <<"approval">> \o <<"send", "wait", "verify", "done">>
           = <<"approval", "send", "wait", "verify", "done">>
    /\ <<"account">> \o <<"send", "wait", "done">> = <<"account", "send", "wait", "done">>
    /\ <<>> \o <<"send", "wait", "done">> = <<"send", "wait", "done">>
<1>1. Joins(<<"config", "tokens">>, <<"done">>, <<"config", "tokens", "done">>)
  BY DEF Joins, Requests, Ends
<1>2. Joins(<<"config", "tokens">>, <<"send", "wait", "done">>,
            <<"config", "tokens", "send", "wait", "done">>)
  BY DEF Joins, Requests, Ends
<1>3. Joins(<<"balance", "allowance">>, <<"done">>, <<"balance", "allowance", "done">>)
  BY DEF Joins, Requests, Ends
<1>4. Joins(<<"balance", "allowance">>, <<"send", "wait", "verify", "done">>,
            <<"balance", "allowance", "send", "wait", "verify", "done">>)
  BY DEF Joins, Requests, Ends
<1>5. Joins(<<"approval">>, <<"done">>, <<"approval", "done">>)
  BY DEF Joins, Requests, Ends
<1>6. Joins(<<"approval">>, <<"send", "wait", "verify", "done">>,
            <<"approval", "send", "wait", "verify", "done">>)
  BY DEF Joins, Requests, Ends
<1>7. Joins(<<"account">>, <<"send", "wait", "done">>, <<"account", "send", "wait", "done">>)
  BY DEF Joins, Requests, Ends
<1>8. Joins(<<>>, <<"send", "wait", "done">>, <<"send", "wait", "done">>)
  BY DEF Joins, Requests, Ends
<1> QED BY <1>1, <1>2, <1>3, <1>4, <1>5, <1>6, <1>7, <1>8, JoinIs, Zenon

LEMMA SPPlans ==
    ASSUME NEW t \in Terminals, StartsSP(t)
    PROVE  \E name, args, todo : Starts(t, name, args, todo) /\ Plan(name, args, todo)
<1>1. ASSUME NEW flags \in Registrations, executeRegisterSP(t, flags)
      PROVE  Plan("registerSP", flags, RegisterSteps(flags.dryRun))
  <2>1. ArgsTyped("registerSP", flags) /\ flags.dryRun \in BOOLEAN
    BY OwnerAssumption DEF ArgsTyped, RegisterFlags
  <2>2. \A later, earlier : ~Needs("registerSP", later, earlier)
    BY DEF Needs
  <2>3. CASE flags.dryRun
    <3> DEFINE todo == <<"config", "tokens", "config", "tokens", "done">>
    <3>1. RegisterSteps(flags.dryRun) = todo
      BY <2>3 DEF RegisterSteps
    <3>2. /\ Planned(todo) /\ StepsIn(todo, {"config", "tokens"})
          /\ After(todo, "wait", "send") /\ After(todo, "verify", "wait")
          /\ Orderly(todo)
          /\ Head(todo) = "config"
      BY DEF Planned, StepsIn, After, Once, Calm, Early, Orderly, Requests, Ends
    <3>3. StepsOf("registerSP", flags) = {"config", "tokens"}
      BY <2>3 DEF StepsOf
    <3> HIDE DEF todo
    <3> QED BY <2>1, <2>2, <3>1, <3>2, <3>3 DEF Plan
  <2>4. CASE ~flags.dryRun
    <3>1. RegisterSteps(flags.dryRun) = SendAndWait
      BY <2>4 DEF RegisterSteps
    <3>2. StepsOf("registerSP", flags) = {"send", "wait"}
      BY <2>4 DEF StepsOf
    <3> QED BY <2>1, <2>2, <2>4, <3>1, <3>2, PlanSends DEF Plan
  <2> QED BY <2>1, <2>3, <2>4
<1>2. ASSUME NEW flags \in ConfigUpdates
      PROVE  Plan("updateSPConfig", flags,
                  <<"config", "tokens">> \o IF flags.dryRun THEN <<"done">> ELSE SendAndWait)
  <2>1. ArgsTyped("updateSPConfig", flags) /\ flags.dryRun \in BOOLEAN
    BY OwnerAssumption DEF ArgsTyped, UpdateConfigFlags
  <2>2. StepsOf("updateSPConfig", flags) = {"config", "tokens", "send", "wait"}
    BY DEF StepsOf
  <2>3. ASSUME NEW todo, Planned(todo), StepsIn(todo, {"config", "tokens", "send", "wait"}),
               After(todo, "wait", "send"), After(todo, "verify", "wait"), Orderly(todo),
               After(todo, "tokens", "config"), After(todo, "send", "config")
        PROVE  Plan("updateSPConfig", flags, todo)
    <3>1. \A later, earlier : Needs("updateSPConfig", later, earlier) =>
                                  After(todo, later, earlier)
      BY <2>3 DEF Needs
    <3> QED BY <2>1, <2>2, <2>3, <3>1 DEF Plan
  <2>4. CASE flags.dryRun
    <3> DEFINE todo == <<"config", "tokens", "done">>
    <3>1. <<"config", "tokens">> \o (IF flags.dryRun THEN <<"done">> ELSE SendAndWait) = todo
      <4>1. <<"config", "tokens">> \o <<"done">> = todo
        BY Joined
      <4>2. (IF flags.dryRun THEN <<"done">> ELSE SendAndWait) = <<"done">>
        BY <2>4
      <4> QED BY <4>1, <4>2, Zenon
    <3>2. /\ Planned(todo) /\ StepsIn(todo, {"config", "tokens", "send", "wait"})
          /\ After(todo, "wait", "send") /\ After(todo, "verify", "wait")
          /\ Orderly(todo)
          /\ After(todo, "tokens", "config") /\ After(todo, "send", "config")
      BY DEF Planned, StepsIn, After, Once, Calm, Early, Orderly, Requests, Ends
    <3> HIDE DEF todo
    <3> QED BY <2>3, <3>1, <3>2
  <2>5. CASE ~flags.dryRun
    <3> DEFINE todo == <<"config", "tokens", "send", "wait", "done">>
    <3>1. <<"config", "tokens">> \o (IF flags.dryRun THEN <<"done">> ELSE SendAndWait) = todo
      <4>1. <<"config", "tokens">> \o <<"send", "wait", "done">> = todo
        BY Joined
      <4>2. (IF flags.dryRun THEN <<"done">> ELSE SendAndWait) = <<"send", "wait", "done">>
        BY <2>5 DEF SendAndWait
      <4> QED BY <4>1, <4>2, Zenon
    <3>2. /\ Planned(todo) /\ StepsIn(todo, {"config", "tokens", "send", "wait"})
          /\ After(todo, "wait", "send") /\ After(todo, "verify", "wait")
          /\ Orderly(todo)
          /\ After(todo, "tokens", "config") /\ After(todo, "send", "config")
      BY DEF Planned, StepsIn, After, Once, Calm, Early, Orderly, Requests, Ends
    <3> HIDE DEF todo
    <3> QED BY <2>3, <3>1, <3>2
  <2> QED BY <2>1, <2>4, <2>5
<1>3. ASSUME NEW flags \in TokenUpdates
      PROVE  Plan("updateSPToken",
                  [actorId |-> flags.actorId, token |-> flags.token, price |-> flags.price,
                   isActive |-> flags.active /\ ~flags.inactive], SendAndWait)
  <2>1. flags \in UpdateTokenFlags
    BY OwnerAssumption
  <2>2. ArgsTyped("updateSPToken",
                  [actorId |-> flags.actorId, token |-> flags.token, price |-> flags.price,
                   isActive |-> flags.active /\ ~flags.inactive])
    BY <2>1 DEF ArgsTyped, UpdateTokenFlags
  <2> QED BY <2>2, PlanOfSender
<1>4. ASSUME NEW flags \in TokenAdditions
      PROVE  Plan("addSPToken", flags, SendAndWait)
  <2>1. flags \in AddTokenFlags
    BY OwnerAssumption
  <2>2. ArgsTyped("addSPToken", flags)
    BY <2>1 DEF ArgsTyped, AddTokenFlags
  <2> QED BY <2>2, PlanOfSender
<1>5. ASSUME NEW p \in Providers, NEW token \in Tokens
      PROVE  Plan("removeSPToken", [actorId |-> p, token |-> token], SendAndWait)
  <2>1. ArgsTyped("removeSPToken", [actorId |-> p, token |-> token])
    BY DEF ArgsTyped
  <2> QED BY <2>1, PlanOfSender
<1>6. ASSUME NEW p \in Providers
      PROVE  /\ Plan("deactivateSP", [actorId |-> p], SendAndWait)
             /\ Plan("querySP", [actorId |-> p], <<"config", "tokens", "done">>)
  <2> DEFINE todo == <<"config", "tokens", "done">>
  <2>1. ArgsTyped("deactivateSP", [actorId |-> p]) /\ ArgsTyped("querySP", [actorId |-> p])
    BY DEF ArgsTyped
  <2>2. /\ Planned(todo) /\ StepsIn(todo, {"config", "tokens"})
        /\ After(todo, "wait", "send") /\ After(todo, "verify", "wait")
        /\ Orderly(todo)
    BY DEF Planned, StepsIn, After, Once, Calm, Early, Orderly, Requests, Ends
  <2>3. StepsOf("querySP", [actorId |-> p]) = {"config", "tokens"}
    BY DEF StepsOf
  <2>4. \A later, earlier : ~Needs("querySP", later, earlier)
    BY DEF Needs
  <2> HIDE DEF todo
  <2>5. Plan("querySP", [actorId |-> p], todo)
    BY <2>1, <2>2, <2>3, <2>4 DEF Plan
  <2> QED BY <2>1, <2>5, PlanOfSender DEF todo
<1>7. Plan("listSPs", <<>>, <<"ids", "config", "tokens", "done">>)
  <2> DEFINE todo == <<"ids", "config", "tokens", "done">>
  <2>1. ArgsTyped("listSPs", <<>>)
    BY DEF ArgsTyped
  <2>2. /\ Planned(todo) /\ StepsIn(todo, {"ids", "config", "tokens"})
        /\ After(todo, "wait", "send") /\ After(todo, "verify", "wait")
        /\ Orderly(todo)
        /\ After(todo, "config", "ids") /\ After(todo, "tokens", "ids")
    BY DEF Planned, StepsIn, After, Once, Calm, Early, Orderly, Requests, Ends
  <2>3. StepsOf("listSPs", <<>>) = {"ids", "config", "tokens"}
    BY DEF StepsOf
  <2> HIDE DEF todo
  <2>4. \A later, earlier : Needs("listSPs", later, earlier) => After(todo, later, earlier)
    BY <2>2 DEF Needs
  <2>5. Plan("listSPs", <<>>, todo)
    BY <2>1, <2>2, <2>3, <2>4 DEF Plan
  <2> QED BY <2>5 DEF todo
<1> QED BY <1>1, <1>2, <1>3, <1>4, <1>5, <1>6, <1>7, Zenon
        DEF StartsSP, executeRegisterSP, executeUpdateSPConfig, executeUpdateSPToken,
            executeAddSPToken, executeRemoveSPToken, executeDeactivateSP, executeQuerySP,
            executeListSPs

LEMMA AdminPlans ==
    ASSUME NEW t \in Terminals, StartsAdmin(t)
    PROVE  \E name, args, todo : Starts(t, name, args, todo) /\ Plan(name, args, todo)
<1>1. ASSUME NEW c \in PaymentsContracts \cup {ZERO}
      PROVE  Plan("setPaymentsContract", [contract |-> c], SendAndWait)
  <2>1. ArgsTyped("setPaymentsContract", [contract |-> c])
    BY DEF ArgsTyped
  <2> QED BY <2>1, PlanOfSender
<1>2. ASSUME NEW n \in Nat
      PROVE  /\ Plan("setCommissionRate", [bps |-> n], SendAndWait)
             /\ Plan("setAllocationLockupAmount", [amount |-> n], SendAndWait)
  <2>1. /\ ArgsTyped("setCommissionRate", [bps |-> n])
        /\ ArgsTyped("setAllocationLockupAmount", [amount |-> n])
    BY DEF ArgsTyped
  <2> QED BY <2>1, PlanOfSender
<1>3. /\ Plan("pause", <<>>, SendAndWait) /\ Plan("unpause", <<>>, SendAndWait)
      /\ Plan("paused", <<>>, <<"paused", "done">>)
  <2>1. /\ ArgsTyped("pause", <<>>) /\ ArgsTyped("unpause", <<>>)
        /\ ArgsTyped("paused", <<>>)
    BY DEF ArgsTyped
  <2> QED BY <2>1, PlanOfSender, PlanOfQuestion
<1>4. ASSUME NEW entry \in Providers \X Sectors, NEW remove \in BOOLEAN
      PROVE  /\ Plan("blacklistSector", [entry |-> entry, blacklisted |-> ~remove], SendAndWait)
             /\ Plan("isSectorBlacklisted", [entry |-> entry], <<"blacklisted", "done">>)
  <2>1. /\ ArgsTyped("blacklistSector", [entry |-> entry, blacklisted |-> ~remove])
        /\ ArgsTyped("isSectorBlacklisted", [entry |-> entry])
    BY DEF ArgsTyped
  <2> QED BY <2>1, PlanOfSender, PlanOfQuestion
<1>5. /\ Commissions \subseteq Nat /\ LockupAmounts \subseteq Nat
      /\ BlacklistEntries \subseteq Providers \X Sectors
  BY InputsAssumption
<1>6. ASSUME NEW entry \in Providers \X Sectors
      PROVE  Plan("isSectorBlacklisted", [entry |-> entry], <<"blacklisted", "done">>)
  BY <1>4
<1>7. ASSUME NEW n \in Commissions
      PROVE  Plan("setCommissionRate", [bps |-> n], SendAndWait)
  BY <1>2, <1>5
<1>8. ASSUME NEW n \in LockupAmounts
      PROVE  Plan("setAllocationLockupAmount", [amount |-> n], SendAndWait)
  BY <1>2, <1>5
<1>9. ASSUME NEW entry \in BlacklistEntries, NEW remove \in BOOLEAN
      PROVE  /\ Plan("blacklistSector", [entry |-> entry, blacklisted |-> ~remove], SendAndWait)
             /\ Plan("isSectorBlacklisted", [entry |-> entry], <<"blacklisted", "done">>)
  BY <1>4, <1>5
<1>10. ASSUME NEW entry \in BlacklistEntries
       PROVE  Plan("isSectorBlacklisted", [entry |-> entry], <<"blacklisted", "done">>)
  BY <1>5, <1>6
<1> QED BY <1>1, <1>3, <1>7, <1>8, <1>9, <1>10, Zenon
        DEF StartsAdmin, setPaymentsContractCommand, setCommissionRateCommand,
            setLockupAmountCommand, pauseCommand, unpauseCommand, pausedCommand,
            blacklistSectorCommand, isSectorBlacklistedCommand

\* The contract that is configured is one of the payments contracts.
LEMMA Configured ==
    ASSUME NEW flag \in ContractFlags, ConfiguredContract(flag) # ZERO
    PROVE  ConfiguredContract(flag) \in PaymentsContracts
BY PaymentsAssumption DEF ConfiguredContract

LEMMA PaymentsPlans ==
    ASSUME NEW t \in Terminals, StartsPayments(t)
    PROVE  \E name, args, todo : Starts(t, name, args, todo) /\ Plan(name, args, todo)
<1>1. ASSUME NEW flags \in Approvals, executeApproveToken(t, flags)
      PROVE  \E name, args, todo : Starts(t, name, args, todo) /\ Plan(name, args, todo)
  <2> DEFINE args == [flags EXCEPT !.contract = ConfiguredContract(flags.contract)]
             last == IF flags.checkOnly THEN <<"done">> ELSE SendAndVerify
             todo == <<"balance", "allowance">> \o last
  <2>1. /\ Starts(t, "approveToken", args, todo)
        /\ ConfiguredContract(flags.contract) # ZERO
    BY <1>1 DEF executeApproveToken, StartsConfigured
  <2>2. /\ flags \in ApproveFlags /\ flags.checkOnly \in BOOLEAN
        /\ flags.contract \in ContractFlags
    BY PaymentsAssumption DEF ApproveFlags
  <2>3. PICK c \in PaymentsContracts : c = ConfiguredContract(flags.contract)
    BY <2>1, <2>2, Configured
  <2>4. ArgsTyped("approveToken", args) /\ args.checkOnly = flags.checkOnly
    <3>1. PICK d : d = [flags EXCEPT !.contract = c]
      OBVIOUS
    <3>2. /\ d.contract = c /\ d.token = flags.token /\ d.amount = flags.amount
          /\ d.unlimited = flags.unlimited /\ d.checkOnly = flags.checkOnly
      BY <2>2, <3>1 DEF ApproveFlags
    <3>3. /\ flags.token \in Tokens /\ flags.amount \in Seq(Nat)
          /\ flags.unlimited \in BOOLEAN
      BY <2>2 DEF ApproveFlags
    <3>4. flags.amount # <<>> => flags.amount[1] \in Nat
      BY <3>3
    <3>5. AmountsFit => (flags.amount # <<>> => flags.amount[1] <= MaxUint256)
      BY DEF AmountsFit
    <3>6. ArgsTyped("approveToken", d)
      BY <3>2, <3>3, <3>4, <3>5 DEF ArgsTyped
    <3> QED BY <2>3, <3>1, <3>2, <3>6
  <2> HIDE DEF args
  <2>5. ASSUME NEW list, Planned(list), StepsIn(list, StepsOf("approveToken", args)),
               After(list, "wait", "send"), After(list, "verify", "wait"), Orderly(list),
               After(list, "allowance", "balance"), After(list, "send", "balance"),
               After(list, "send", "allowance")
        PROVE  Plan("approveToken", args, list)
    <3>1. \A later, earlier : Needs("approveToken", later, earlier) =>
                                  After(list, later, earlier)
      BY <2>5 DEF Needs
    <3> QED BY <2>4, <2>5, <3>1 DEF Plan
  <2>6. CASE flags.checkOnly
    <3> DEFINE list == <<"balance", "allowance", "done">>
    <3>1. last = <<"done">>
      BY <2>6
    <3>2. todo = list
      BY <3>1, Joined, Zenon
    <3>3. /\ Planned(list) /\ StepsIn(list, {"balance", "allowance"})
          /\ After(list, "wait", "send") /\ After(list, "verify", "wait")
          /\ Orderly(list)
          /\ After(list, "allowance", "balance") /\ After(list, "send", "balance")
          /\ After(list, "send", "allowance")
      BY DEF Planned, StepsIn, After, Once, Calm, Early, Orderly, Requests, Ends
    <3>4. StepsOf("approveToken", args) = {"balance", "allowance"}
      BY <2>4, <2>6 DEF StepsOf
    <3> HIDE DEF list, todo
    <3>5. Plan("approveToken", args, list)
      BY <2>5, <3>3, <3>4
    <3> QED BY <2>1, <3>2, <3>5, Zenon
  <2>7. CASE ~flags.checkOnly
    <3> DEFINE list == <<"balance", "allowance", "send", "wait", "verify", "done">>
    <3>1. last = <<"send", "wait", "verify", "done">>
      BY <2>7 DEF SendAndVerify
    <3>2. todo = list
      BY <3>1, Joined, Zenon
    <3>3. /\ Planned(list)
          /\ StepsIn(list, {"balance", "allowance", "send", "wait", "verify"})
          /\ After(list, "wait", "send") /\ After(list, "verify", "wait")
          /\ Orderly(list)
          /\ After(list, "allowance", "balance") /\ After(list, "send", "balance")
          /\ After(list, "send", "allowance")
      BY DEF Planned, StepsIn, After, Once, Calm, Early, Orderly, Requests, Ends
    <3>4. StepsOf("approveToken", args) = {"balance", "allowance", "send", "wait", "verify"}
      BY <2>4, <2>7 DEF StepsOf
    <3> HIDE DEF list, todo
    <3>5. Plan("approveToken", args, list)
      BY <2>5, <3>3, <3>4
    <3> QED BY <2>1, <3>2, <3>5, Zenon
  <2> QED BY <2>2, <2>6, <2>7
<1>2. ASSUME NEW flags \in AllowanceSets, executeSetOperatorAllowance(t, flags)
      PROVE  \E name, args, todo : Starts(t, name, args, todo) /\ Plan(name, args, todo)
  <2> DEFINE args == [flags EXCEPT !.contract = ConfiguredContract(flags.contract)]
             last == IF flags.checkOnly THEN <<"done">> ELSE SendAndVerify
             todo == <<"approval">> \o last
  <2>1. /\ Starts(t, "setOperatorApproval", args, todo)
        /\ ConfiguredContract(flags.contract) # ZERO
    BY <1>2 DEF executeSetOperatorAllowance, StartsConfigured
  <2>2. /\ flags \in AllowanceFlags /\ flags.checkOnly \in BOOLEAN
        /\ flags.contract \in ContractFlags
    BY PaymentsAssumption DEF AllowanceFlags
  <2>3. PICK c \in PaymentsContracts : c = ConfiguredContract(flags.contract)
    BY <2>1, <2>2, Configured
  <2>4. ArgsTyped("setOperatorApproval", args)
    <3>1. PICK d : d = [flags EXCEPT !.contract = c]
      OBVIOUS
    <3>2. /\ d.contract = c /\ d.token = flags.token /\ d.rate = flags.rate
          /\ d.lockup = flags.lockup /\ d.period = flags.period
          /\ d.unlimited = flags.unlimited /\ d.approved = flags.approved
      BY <2>2, <3>1 DEF AllowanceFlags
    <3>3. /\ flags.token \in Tokens /\ flags.rate \in Seq(Nat)
          /\ flags.lockup \in Seq(Nat) /\ flags.period \in Seq(Nat)
          /\ flags.unlimited \in BOOLEAN /\ flags.approved \in BOOLEAN
      BY <2>2 DEF AllowanceFlags
    <3>4. ASSUME NEW list \in Seq(Nat), list # <<>>
          PROVE  list[1] \in Nat
      BY <3>4
    <3>5. /\ flags.rate # <<>> => flags.rate[1] \in Nat
          /\ flags.lockup # <<>> => flags.lockup[1] \in Nat
          /\ flags.period # <<>> => flags.period[1] \in Nat
      BY <3>3, <3>4
    <3>6. ArgsTyped("setOperatorApproval", d)
      BY <3>2, <3>3, <3>5 DEF ArgsTyped
    <3> QED BY <2>3, <3>1, <3>6
  <2> HIDE DEF args
  <2>5. ASSUME NEW list, Planned(list), After(list, "wait", "send"),
               StepsIn(list, {"approval", "send", "wait", "verify"}),
               After(list, "verify", "wait"), Orderly(list), After(list, "send", "approval")
        PROVE  Plan("setOperatorApproval", args, list)
    <3>1. \A later, earlier : Needs("setOperatorApproval", later, earlier) =>
                                  After(list, later, earlier)
      BY <2>5 DEF Needs
    <3>2. StepsOf("setOperatorApproval", args) = {"approval", "send", "wait", "verify"}
      BY DEF StepsOf
    <3> QED BY <2>4, <2>5, <3>1, <3>2 DEF Plan
  <2>6. CASE flags.checkOnly
    <3> DEFINE list == <<"approval", "done">>
    <3>1. last = <<"done">>
      BY <2>6
    <3>2. todo = list
      BY <3>1, Joined, Zenon
    <3>3. /\ Planned(list) /\ StepsIn(list, {"approval", "send", "wait", "verify"})
          /\ After(list, "wait", "send") /\ After(list, "verify", "wait")
          /\ Orderly(list)
          /\ After(list, "send", "approval")
      BY DEF Planned, StepsIn, After, Once, Calm, Early, Orderly, Requests, Ends
    <3> HIDE DEF list, todo
    <3>4. Plan("setOperatorApproval", args, list)
      BY <2>5, <3>3
    <3> QED BY <2>1, <3>2, <3>4, Zenon
  <2>7. CASE ~flags.checkOnly
    <3> DEFINE list == <<"approval", "send", "wait", "verify", "done">>
    <3>1. last = <<"send", "wait", "verify", "done">>
      BY <2>7 DEF SendAndVerify
    <3>2. todo = list
      BY <3>1, Joined, Zenon
    <3>3. /\ Planned(list) /\ StepsIn(list, {"approval", "send", "wait", "verify"})
          /\ After(list, "wait", "send") /\ After(list, "verify", "wait")
          /\ Orderly(list)
          /\ After(list, "send", "approval")
      BY DEF Planned, StepsIn, After, Once, Calm, Early, Orderly, Requests, Ends
    <3> HIDE DEF list, todo
    <3>4. Plan("setOperatorApproval", args, list)
      BY <2>5, <3>3
    <3> QED BY <2>1, <3>2, <3>4, Zenon
  <2> QED BY <2>2, <2>6, <2>7
<1>3. ASSUME NEW flags \in Withdrawals, executeWithdraw(t, flags)
      PROVE  \E name, args, todo : Starts(t, name, args, todo) /\ Plan(name, args, todo)
  <2> DEFINE args == [flags EXCEPT !.contract = ConfiguredContract(flags.contract)]
             first == IF flags.checkBalance THEN <<"account">> ELSE <<>>
             todo == first \o <<"send", "wait", "done">>
  <2>1. /\ Starts(t, "withdraw", args, todo)
        /\ ConfiguredContract(flags.contract) # ZERO
    BY <1>3 DEF executeWithdraw, StartsConfigured
  <2>2. /\ flags \in WithdrawFlags /\ flags.checkBalance \in BOOLEAN
        /\ flags.contract \in ContractFlags
    BY PaymentsAssumption DEF WithdrawFlags
  <2>3. PICK c \in PaymentsContracts : c = ConfiguredContract(flags.contract)
    BY <2>1, <2>2, Configured
  <2>4. ArgsTyped("withdraw", args)
    <3>1. PICK d : d = [flags EXCEPT !.contract = c]
      OBVIOUS
    <3>2. /\ d.contract = c /\ d.token = flags.token /\ d.amount = flags.amount
      BY <2>2, <3>1 DEF WithdrawFlags
    <3>3. /\ flags.token \in Tokens /\ flags.amount \in Seq(Nat) /\ flags.amount # <<>>
      BY <2>2 DEF WithdrawFlags
    <3>4. flags.amount[1] \in Nat
      BY <3>3
    <3>5. ArgsTyped("withdraw", d)
      BY <3>2, <3>3, <3>4 DEF ArgsTyped
    <3> QED BY <2>3, <3>1, <3>5
  <2> HIDE DEF args
  <2>5. CASE flags.checkBalance
    <3> DEFINE list == <<"account", "send", "wait", "done">>
    <3>1. first = <<"account">>
      BY <2>5
    <3>2. todo = list
      BY <3>1, Joined, Zenon
    <3>3. /\ Planned(list) /\ StepsIn(list, {"account", "send", "wait"})
          /\ After(list, "wait", "send") /\ After(list, "verify", "wait")
          /\ Orderly(list)
      BY DEF Planned, StepsIn, After, Once, Calm, Early, Orderly, Requests, Ends
    <3>5. {"account", "send", "wait"} \subseteq StepsOf("withdraw", args)
      BY DEF StepsOf
    <3>6. \A later, earlier : ~Needs("withdraw", later, earlier)
      BY DEF Needs
    <3> HIDE DEF list, todo
    <3>7. StepsIn(list, StepsOf("withdraw", args))
      BY <3>3, <3>5 DEF StepsIn
    <3>8. Plan("withdraw", args, list)
      BY <2>4, <3>3, <3>6, <3>7 DEF Plan
    <3> QED BY <2>1, <3>2, <3>8, Zenon
  <2>6. CASE ~flags.checkBalance
    <3>1. first = <<>>
      BY <2>6
    <3>2. todo = SendAndWait
      BY <3>1, Joined, Zenon DEF SendAndWait
    <3> HIDE DEF todo
    <3>3. Plan("withdraw", args, SendAndWait)
      BY <2>4, PlanOfSender
    <3> QED BY <2>1, <3>2, <3>3, Zenon
  <2> QED BY <2>2, <2>5, <2>6
<1> QED BY <1>1, <1>2, <1>3 DEF StartsPayments

LEMMA QueryPlans ==
    ASSUME NEW t \in Terminals, StartsQuery(t)
    PROVE  \E name, args, todo : Starts(t, name, args, todo) /\ Plan(name, args, todo)
<1>1. \A args : /\ Plan("queryAccount", args, <<"account", "done">>)
                /\ Plan("queryOperatorApproval", args, <<"approval", "done">>)
                /\ Plan("queryRail", args, <<"rail", "done">>)
  <2> SUFFICES ASSUME NEW args
               PROVE  /\ Plan("queryAccount", args, <<"account", "done">>)
                      /\ Plan("queryOperatorApproval", args, <<"approval", "done">>)
                      /\ Plan("queryRail", args, <<"rail", "done">>)
    OBVIOUS
  <2>1. /\ ArgsTyped("queryAccount", args) /\ ArgsTyped("queryOperatorApproval", args)
        /\ ArgsTyped("queryRail", args)
    BY DEF ArgsTyped
  <2> QED BY <2>1, PlanOfQuestion
<1>2. ASSUME NEW what \in {"idsOfClient", "idsOfProvider"}, NEW args,
             "allocationId" \notin DOMAIN args
      PROVE  Plan("query", args, <<what, "done">>)
  <2> DEFINE todo == <<what, "done">>
  <2>1. ArgsTyped("query", args)
    BY <1>2 DEF ArgsTyped
  <2>2. StepsOf("query", args) = {"idsOfClient", "idsOfProvider"}
    BY <1>2 DEF StepsOf
  <2>3. /\ Planned(todo) /\ StepsIn(todo, {"idsOfClient", "idsOfProvider"})
        /\ After(todo, "wait", "send") /\ After(todo, "verify", "wait")
        /\ Orderly(todo)
        /\ After(todo, "railInfo", "info")
    BY DEF Planned, StepsIn, After, Once, Calm, Early, Orderly, Requests, Ends
  <2> HIDE DEF todo
  <2>4. \A later, earlier : Needs("query", later, earlier) => After(todo, later, earlier)
    BY <2>3 DEF Needs
  <2>5. Plan("query", args, todo)
    BY <2>1, <2>2, <2>3, <2>4 DEF Plan
  <2> QED BY <2>5 DEF todo
<1>3. ASSUME NEW a \in AllocationIds
      PROVE  Plan("query", [allocationId |-> a], <<"info", "railInfo", "done">>)
  <2> DEFINE todo == <<"info", "railInfo", "done">>
             args == [allocationId |-> a]
  <2>1. ArgsTyped("query", args)
    BY DEF ArgsTyped
  <2>2. StepsOf("query", args) = {"info", "railInfo"}
    BY DEF StepsOf
  <2>3. /\ Planned(todo) /\ StepsIn(todo, {"info", "railInfo"})
        /\ After(todo, "wait", "send") /\ After(todo, "verify", "wait")
        /\ Orderly(todo)
        /\ After(todo, "railInfo", "info")
    BY DEF Planned, StepsIn, After, Once, Calm, Early, Orderly, Requests, Ends
  <2> HIDE DEF todo, args
  <2>4. \A later, earlier : Needs("query", later, earlier) => After(todo, later, earlier)
    BY <2>3 DEF Needs
  <2>5. Plan("query", args, todo)
    BY <2>1, <2>2, <2>3, <2>4 DEF Plan
  <2> QED BY <2>5 DEF todo, args
<1>4. Plan("query", <<>>, <<"idsOfClient", "done">>)
  <2>1. "allocationId" \notin DOMAIN <<>>
    OBVIOUS
  <2> QED BY <1>2, <2>1
<1>5. ASSUME NEW p \in Providers
      PROVE  Plan("query", [providerId |-> p], <<"idsOfProvider", "done">>)
  <2>1. "allocationId" \notin DOMAIN [providerId |-> p]
    OBVIOUS
  <2>2. PICK args : args = [providerId |-> p]
    OBVIOUS
  <2>3. Plan("query", args, <<"idsOfProvider", "done">>)
    BY <1>2, <2>1, <2>2
  <2> QED BY <2>2, <2>3
<1> QED BY <1>1, <1>3, <1>4, <1>5, Zenon
        DEF StartsQuery, executeQueryAccount, executeQueryOperatorApproval,
            executeQueryRail, executeQuery, StartsConfigured

StartsAny(t) == StartsSP(t) \/ StartsAdmin(t) \/ StartsPayments(t) \/ StartsQuery(t)

LEMMA AnyPlan ==
    ASSUME NEW t \in Terminals, StartsAny(t)
    PROVE  \E name, args, todo : Starts(t, name, args, todo) /\ Plan(name, args, todo)
BY SPPlans, AdminPlans, PaymentsPlans, QueryPlans, Zenon DEF StartsAny

----------------------------------------------------------------------------
(* A command while it runs: what it is told, and where it goes on.         *)

\* The rail of an allocation, at the payments contract of the moment.
RailAsked(id) ==
    LET r == s.allocationInfos[id].railId
    IN  IF r > 0 /\ s.paymentsContract # ZERO THEN pay[s.paymentsContract].rails[r]
        ELSE NoRail

Told(c, what, answer) ==
    /\ what \notin {"send", "wait", "start", "done", "failed", "panicked"}
    /\ what = "config" => answer = [s.spConfigs[Asked(c)] EXCEPT !.supportedTokens = <<>>]
    /\ what = "tokens" => /\ c.name # "listSPs"
                          /\ answer \in {<<>>, s.spConfigs[Asked(c)].supportedTokens}
    /\ what = "ids" => answer = s.registeredSPIds
    /\ what = "balance" => answer = wallet[c.args.token].balance
    /\ what = "allowance" \/ (what = "verify" /\ c.name = "approveToken") =>
          answer = wallet[c.args.token].allowances[c.args.contract]
    /\ what = "approval" \/ (what = "verify" /\ c.name # "approveToken") =>
          answer = pay[c.args.contract].approvals[KeyOf(c.args)]
    /\ what = "info" => answer = s.allocationInfos[c.args.allocationId]
    /\ what = "railInfo" => answer = RailAsked(c.args.allocationId)

Onward(c, what, answer) ==
    /\ what = "config" => isRegisteredSP(Asked(c))
    /\ what = "ids" => answer # <<>>
    /\ what = "info" => answer.client # ZERO
    /\ what = "allowance" /\ c.name = "approveToken" =>
          c.args.checkOnly \/ ~(answer >= ApprovalAmount(c))

Panics(c, what) ==
    /\ what = "config" /\ ~isRegisteredSP(Asked(c))
    /\ c.name = "listSPs" \/ (c.name = "registerSP" /\ c.read # <<>>)

Leads(c, what, answer, todo) ==
    \/ todo = Tail(c.todo) /\ Onward(c, what, answer)
    \/ \E e \in {"done", "failed"} : todo = <<e>>
    \/ todo = <<"panicked">> /\ Panics(c, what)

Answering(t) ==
    /\ \E what, answer, todo :
          /\ Learnt(cmds[t], cmds'[t], MinedCount, what, answer, todo)
          /\ Told(cmds[t], what, answer) /\ Leads(cmds[t], what, answer, todo)
    /\ UNCHANGED txs

Ending(t) == \E e \in {"done", "failed"} :
                 ~Ended(t) /\ Gone(cmds[t], cmds'[t], <<e>>)

Waiting(t) ==
    /\ At(t) = "wait" /\ Mined(cmds[t].tx) /\ Gone(cmds[t], cmds'[t], Rest(t))
    /\ UNCHANGED txs

Appending(t) ==
    At(t) = "send" /\ txs' = Append(txs, Transaction(t, Argument(cmds[t])))

\* What a terminal does once its command runs.
Running(t) ==
    \/ Answering(t) \/ Waiting(t)
    \/ (Ending(t) /\ (UNCHANGED txs \/ Appending(t)))
    \/ (SentBy(cmds[t], cmds'[t], Len(txs) + 1) /\ Appending(t))
    \/ (RowGone(cmds[t], cmds'[t]) /\ UNCHANGED txs)

Quiet == call = Idle /\ UNCHANGED <<s, pay, epoch, call, wallet>>

\* Only these commands ask for a provider's terms.
LEMMA AsksConfig ==
    ASSUME NEW name, NEW args, NEW todo, Planned(todo), StepsIn(todo, StepsOf(name, args))
    PROVE  /\ Head(todo) \in Requests \cup Ends
           /\ Head(todo) \in StepsOf(name, args) \cup Ends
           /\ Head(todo) \in {"config", "tokens"} =>
                 name \in {"registerSP", "updateSPConfig", "listSPs", "querySP"}
           /\ Head(todo) = "allowance" => name = "approveToken"
           /\ Head(todo) = "ids" => name = "listSPs"
           /\ Head(todo) = "balance" => name = "approveToken"
           /\ Head(todo) = "verify" => name \in {"approveToken", "setOperatorApproval"}
<1>1. /\ todo \in Seq(Requests \cup Ends) /\ todo # <<>>
      /\ Head(todo) = todo[1] /\ 1 \in DOMAIN todo
  BY DEF Planned
<1>2. Head(todo) \in Requests \cup Ends /\ Head(todo) \in StepsOf(name, args) \cup Ends
  BY <1>1 DEF StepsIn
<1> QED BY <1>2 DEF StepsOf, Ends

LEMMA AnswersAsk ==
    ASSUME CmdsShape, NEW t \in Terminals, Planned(cmds[t].todo),
           StepsIn(cmds[t].todo, StepsOf(cmds[t].name, cmds[t].args)),
           Answered(t), ~send(t), ~waitForTransaction(t)
    PROVE  /\ Quiet /\ Only(t)
           /\ Answering(t) \/ (RowGone(cmds[t], cmds'[t]) /\ UNCHANGED txs)
<1> DEFINE c == cmds[t]
<1>0. ASSUME NEW what, NEW answer, NEW todo, Learns(t, what, answer, todo),
             Told(c, what, answer), Leads(c, what, answer, todo)
      PROVE  Quiet /\ Only(t) /\ Answering(t)
  BY <1>0, LearnsLearnt DEF Learns, Asks, Quiet, Answering
<1>1. CASE getSPConfig(t)
  <2> DEFINE answer == [s.spConfigs[Asked(c)] EXCEPT !.supportedTokens = <<>>]
             todo == IF isRegisteredSP(Asked(c)) THEN Rest(t) ELSE <<WithoutConfig(c)>>
  <2>1. Learns(t, "config", answer, todo)
    BY <1>1 DEF getSPConfig
  <2>2. Told(c, "config", answer)
    BY DEF Told
  <2>3. c.name \in {"registerSP", "updateSPConfig", "listSPs", "querySP"}
    BY <2>1, AsksConfig DEF Learns, At
  <2>4. CASE isRegisteredSP(Asked(c))
    BY <2>1, <2>2, <2>4, <1>0 DEF Leads, Onward, Rest
  <2>5. CASE ~isRegisteredSP(Asked(c))
    <3>1. \/ WithoutConfig(c) \in {"done", "failed"}
          \/ WithoutConfig(c) = "panicked" /\ Panics(c, "config")
      BY <2>3, <2>5 DEF WithoutConfig, Panics
    <3>2. Leads(c, "config", answer, todo)
      BY <2>5, <3>1 DEF Leads
    <3> QED BY <2>1, <2>2, <3>2, <1>0
  <2> QED BY <2>4, <2>5
<1>2. CASE getSPSupportedTokens(t)
  <2>1. CASE c.name # "listSPs"
    <3> DEFINE answer == s.spConfigs[Asked(c)].supportedTokens
    <3>1. Learns(t, "tokens", answer, AfterTokens(c))
      BY <1>2, <2>1 DEF getSPSupportedTokens
    <3>2. Told(c, "tokens", answer)
      BY <2>1 DEF Told
    <3>3. Leads(c, "tokens", answer, AfterTokens(c))
      BY DEF Leads, Onward, AfterTokens
    <3> QED BY <3>1, <3>2, <3>3, <1>0
  <2>2. CASE c.name = "listSPs"
    BY <1>2, <2>2, NextRowGone DEF getSPSupportedTokens, Asks, Quiet
  <2> QED BY <2>1, <2>2
<1>3. CASE getAllSPIds(t)
  <2> DEFINE answer == s.registeredSPIds
             todo == IF answer = <<>> THEN <<"done">> ELSE Rest(t)
  <2>1. Learns(t, "ids", answer, todo)
    BY <1>3 DEF getAllSPIds
  <2>2. Told(c, "ids", answer) /\ Leads(c, "ids", answer, todo)
    BY DEF Told, Leads, Onward, Rest
  <2> QED BY <2>1, <2>2, <1>0
<1>4. CASE getPaused(t) \/ isSectorBlacklisted(t)
  <2>1. \/ Learns(t, "paused", s.paused, Rest(t))
        \/ Learns(t, "blacklisted", c.args.entry \in s.blacklistedSectors, Rest(t))
    BY <1>4, Zenon DEF getPaused, isSectorBlacklisted
  <2>2. \A answer : /\ Told(c, "paused", answer) /\ Leads(c, "paused", answer, Rest(t))
                    /\ Told(c, "blacklisted", answer)
                    /\ Leads(c, "blacklisted", answer, Rest(t))
    BY DEF Told, Leads, Onward, Rest
  <2> QED BY <2>1, <2>2, <1>0, Zenon
<1>5. CASE GetBalance(t)
  <2> DEFINE answer == wallet[c.args.token].balance
  <2>1. Learns(t, "balance", answer, Rest(t))
    BY <1>5 DEF GetBalance
  <2>2. Told(c, "balance", answer) /\ Leads(c, "balance", answer, Rest(t))
    BY DEF Told, Leads, Onward, Rest
  <2> QED BY <2>1, <2>2, <1>0
<1>6. CASE GetAllowance(t)
  <2> DEFINE answer == wallet[c.args.token].allowances[c.args.contract]
             enough == ~c.args.checkOnly /\ Sufficient(answer, ApprovalAmount(c))
             todo == IF enough THEN <<"done">> ELSE Rest(t)
  <2>1. \/ Learns(t, "allowance", answer, todo)
        \/ c.name = "approveToken" /\ Learns(t, "verify", answer, Rest(t))
    BY <1>6 DEF GetAllowance, Target
  <2>2. CASE Learns(t, "allowance", answer, todo)
    <3>1. Told(c, "allowance", answer)
      BY DEF Told
    <3>2. Leads(c, "allowance", answer, todo)
      BY DEF Leads, Onward, Rest, Sufficient
    <3> QED BY <2>2, <3>1, <3>2, <1>0
  <2>3. CASE c.name = "approveToken" /\ Learns(t, "verify", answer, Rest(t))
    <3>1. Told(c, "verify", answer) /\ Leads(c, "verify", answer, Rest(t))
      BY <2>3 DEF Told, Leads, Onward, Rest
    <3> QED BY <2>3, <3>1, <1>0
  <2> QED BY <2>1, <2>2, <2>3
<1>7. CASE GetAccount(t)
  <2>1. \E answer, short : Learns(t, "account", answer,
                                   IF short THEN <<"failed">> ELSE Rest(t))
    BY <1>7, Zenon DEF GetAccount
  <2>2. \A answer, short : /\ Told(c, "account", answer)
                           /\ Leads(c, "account", answer,
                                    IF short THEN <<"failed">> ELSE Rest(t))
    BY DEF Told, Leads, Onward, Rest
  <2> QED BY <2>1, <2>2, <1>0, Zenon
<1>8. CASE GetOperatorApproval(t)
  <2> DEFINE answer == pay[c.args.contract].approvals[KeyOf(c.args)]
  <2>1. PICK what \in {"approval", "verify"} :
            c.name # "approveToken" /\ Learns(t, what, answer, Rest(t))
    BY <1>8 DEF GetOperatorApproval, Target
  <2>2. Told(c, what, answer) /\ Leads(c, what, answer, Rest(t))
    BY <2>1 DEF Told, Leads, Onward, Rest
  <2> QED BY <2>1, <2>2, <1>0
<1>9. CASE GetRail(t)
  <2>1. \E answer, there : Learns(t, "rail", answer,
                                   IF there THEN Rest(t) ELSE <<"failed">>)
    BY <1>9, Zenon DEF GetRail
  <2>2. \A answer, there : /\ Told(c, "rail", answer)
                           /\ Leads(c, "rail", answer,
                                    IF there THEN Rest(t) ELSE <<"failed">>)
    BY DEF Told, Leads, Onward, Rest
  <2> QED BY <2>1, <2>2, <1>0, Zenon
<1>10. CASE GetAllocationInfo(t)
  <2> DEFINE answer == s.allocationInfos[c.args.allocationId]
  <2>1. PICK todo : /\ Learns(t, "info", answer, todo)
                    /\ todo = IF answer.client = ZERO THEN <<"done">> ELSE Rest(t)
    BY <1>10 DEF GetAllocationInfo
  <2>2. Told(c, "info", answer) /\ Leads(c, "info", answer, todo)
    BY <2>1 DEF Told, Leads, Onward, Rest
  <2> QED BY <2>1, <2>2, <1>0
<1>11. CASE GetAllocationRailInfo(t)
  <2> DEFINE answer == RailAsked(c.args.allocationId)
  <2>1. \E gone : Learns(t, "railInfo", answer,
                          IF gone THEN <<"failed">> ELSE Rest(t))
    BY <1>11, Zenon DEF GetAllocationRailInfo, RailOf, RailAsked
  <2>2. \A gone : /\ Told(c, "railInfo", answer)
                  /\ Leads(c, "railInfo", answer,
                           IF gone THEN <<"failed">> ELSE Rest(t))
    BY DEF Told, Leads, Onward, Rest
  <2> QED BY <2>1, <2>2, <1>0, Zenon
<1>12. CASE GetAllocationIdsForClient(t) \/ GetAllocationIdsForProvider(t)
  <2>1. \/ Learns(t, "idsOfClient", s.allocationIdsByClient[User], Rest(t))
        \/ Learns(t, "idsOfProvider", s.allocationIdsByProvider[c.args.providerId], Rest(t))
    BY <1>12, Zenon DEF GetAllocationIdsForClient, GetAllocationIdsForProvider
  <2>2. \A answer : /\ Told(c, "idsOfClient", answer)
                    /\ Leads(c, "idsOfClient", answer, Rest(t))
                    /\ Told(c, "idsOfProvider", answer)
                    /\ Leads(c, "idsOfProvider", answer, Rest(t))
    BY DEF Told, Leads, Onward, Rest
  <2> QED BY <2>1, <2>2, <1>0, Zenon
<1> QED BY <1>1, <1>2, <1>3, <1>4, <1>5, <1>6, <1>7, <1>8, <1>9, <1>10, <1>11, <1>12, Zenon
        DEF Answered

\* Every step of a terminal whose command runs.
LEMMA TerminalRuns ==
    ASSUME CmdsShape, NEW t \in Terminals, Planned(cmds[t].todo),
           StepsIn(cmds[t].todo, StepsOf(cmds[t].name, cmds[t].args)),
           Answered(t) \/ Fails(t)
    PROVE  Quiet /\ Only(t) /\ Running(t)
<1> DEFINE c == cmds[t]
           tx == Transaction(t, Argument(cmds[t]))
<1>1. CASE Answered(t) /\ ~send(t) /\ ~waitForTransaction(t)
  BY <1>1, AnswersAsk DEF Running
<1>2. CASE waitForTransaction(t)
  BY <1>2, GoesGone DEF waitForTransaction, MinedBy, Asks, Quiet, Running, Waiting
<1>3. CASE send(t)
  <2>1. /\ At(t) = "send" /\ Quiet
        /\ Sent(t, tx) \/ (Goes(t, <<"failed">>) /\ UNCHANGED txs)
    <3> HIDE DEF tx
    <3>1. /\ Sends(t)
          /\ Sent(t, tx) \/ (Goes(t, <<"failed">>) /\ UNCHANGED txs)
      BY <1>3, Zenon DEF send, tx
    <3> QED BY <3>1 DEF Sends, Quiet
  <2>2. ~Ended(t)
    BY <2>1 DEF Ended, Ends
  <2>3. CASE Sent(t, tx)
    BY <2>1, <2>3, SentSentBy DEF Running, Appending
  <2>4. CASE Goes(t, <<"failed">>) /\ UNCHANGED txs
    <3>1. Only(t) /\ Gone(cmds[t], cmds'[t], <<"failed">>)
      BY <2>4, GoesGone
    <3> QED BY <2>1, <2>2, <2>4, <3>1 DEF Running, Ending
  <2> QED BY <2>1, <2>3, <2>4
<1>4. CASE sendFails(t)
  <2>1. /\ At(t) = "send" /\ Quiet /\ Appending(t) /\ Goes(t, <<"failed">>)
    <3>1. Sends(t) /\ Appending(t) /\ Goes(t, <<"failed">>)
      BY <1>4, Zenon DEF sendFails, Appending, Sends
    <3> QED BY <3>1 DEF Sends, Quiet
  <2>2. ~Ended(t)
    BY <2>1 DEF Ended, Ends
  <2>3. Only(t) /\ Gone(cmds[t], cmds'[t], <<"failed">>)
    BY <2>1, GoesGone
  <2> QED BY <2>1, <2>2, <2>3 DEF Running, Ending
<1>5. CASE rowFails(t)
  BY <1>5, NextRowGone DEF rowFails, Asks, Quiet, Running
<1>6. CASE tokensFail(t)
  <2>1. c.name # "listSPs" /\ Learns(t, "tokens", <<>>, AfterTokens(c))
    BY <1>6 DEF tokensFail
  <2>2. Told(c, "tokens", <<>>)
    BY <2>1 DEF Told
  <2>3. Leads(c, "tokens", <<>>, AfterTokens(c))
    BY DEF Leads, Onward, AfterTokens
  <2>4. Only(t) /\ Learnt(cmds[t], cmds'[t], MinedCount, "tokens", <<>>, AfterTokens(c))
    BY <2>1, LearnsLearnt
  <2>5. Quiet /\ UNCHANGED txs
    BY <2>1 DEF Learns, Asks, Quiet
  <2>6. Answering(t)
    BY <2>2, <2>3, <2>4, <2>5, Zenon DEF Answering
  <2> QED BY <2>4, <2>5, <2>6 DEF Running
<1>7. CASE requestFails(t) \/ interrupt(t)
  <2>1. Quiet /\ UNCHANGED txs /\ ~Ended(t)
    BY <1>7 DEF requestFails, interrupt, Asks, Quiet
  <2>2. PICK e \in {"done", "failed"} : Goes(t, <<e>>)
    <3>1. CASE interrupt(t)
      BY <3>1 DEF interrupt
    <3>2. CASE requestFails(t)
      <4>1. Goes(t, IF At(t) \in DOMAIN AfterFailure THEN AfterFailure[At(t)]
                    ELSE IF Optional(t) THEN <<"done">>
                    ELSE <<"failed">>)
        BY <3>2 DEF requestFails
      <4>2. At(t) \in DOMAIN AfterFailure => AfterFailure[At(t)] = <<"done">>
        BY DEF AfterFailure
      <4>3. Goes(t, <<"done">>) \/ Goes(t, <<"failed">>)
        BY <4>1, <4>2, Zenon
      <4> QED BY <4>3
    <3> QED BY <1>7, <3>1, <3>2
  <2>3. Only(t) /\ Gone(cmds[t], cmds'[t], <<e>>)
    BY <2>2, GoesGone
  <2> QED BY <2>1, <2>3 DEF Running, Ending
<1> QED BY <1>1, <1>2, <1>3, <1>4, <1>5, <1>6, <1>7, Zenon DEF Fails

----------------------------------------------------------------------------
(* What holds of a command by itself.                                      *)

ReadsTyped(c) ==
    /\ "config" \in DOMAIN c.read => c.read.config \in SPConfig
    /\ "ids" \in DOMAIN c.read => c.read.ids \in Seq(Providers)
    /\ "balance" \in DOMAIN c.read => c.read.balance \in Nat
    /\ c.name = "setOperatorApproval" /\ "approval" \in DOMAIN c.read =>
          c.read.approval \in Approval

\* A step's answers are there when it comes to it.
HasRead(c) ==
    \A later, earlier :
        Needs(c.name, later, earlier) =>
            After(c.todo, later, earlier) \/ earlier \in DOMAIN c.read

\* The list is not at a provider that is not there.
Listing(c) ==
    c.name = "listSPs" /\ "ids" \in DOMAIN c.read /\ Head(c.todo) \notin Ends =>
        c.read.ids # <<>>

CommandInv(c) ==
    /\ IsCommand(c)
    /\ c.run \in 0 .. MaxRuns
    /\ ArgsTyped(c.name, c.args)
    /\ Planned(c.todo) /\ StepsIn(c.todo, StepsOf(c.name, c.args))
    /\ ReadsTyped(c) /\ HasRead(c) /\ Listing(c)

WalletTyped == wallet \in WalletState

\* The step at hand has its answers.
LEMMA HasReadHead ==
    ASSUME NEW c, CommandInv(c), NEW earlier, Needs(c.name, Head(c.todo), earlier)
    PROVE  earlier \in DOMAIN c.read
<1>1. After(c.todo, Head(c.todo), earlier) => FALSE
  <2>1. 1 \in DOMAIN c.todo /\ c.todo[1] = Head(c.todo)
        /\ \A j \in DOMAIN c.todo : ~(j < 1)
    BY DEF CommandInv, Planned
  <2> QED BY <2>1 DEF After
<1> QED BY <1>1 DEF CommandInv, HasRead

\* What comes after a step has its answers if the step's own is there.
LEMMA HasReadTail ==
    ASSUME NEW c, CommandInv(c), NEW d, d.name = c.name, d.todo = Tail(c.todo),
           Head(c.todo) \notin Ends, DOMAIN c.read \subseteq DOMAIN d.read,
           \/ Head(c.todo) \in DOMAIN d.read
           \/ Head(c.todo) \in {"send", "wait"}
    PROVE  HasRead(d)
<1> SUFFICES ASSUME NEW later, NEW earlier, Needs(c.name, later, earlier),
                    earlier \notin DOMAIN d.read
             PROVE  After(Tail(c.todo), later, earlier)
  BY DEF HasRead
<1>1. earlier \notin {"send", "wait"}
  BY DEF Needs
<1>2. After(c.todo, later, earlier) /\ Head(c.todo) # earlier
  BY <1>1 DEF CommandInv, HasRead
<1> QED BY <1>2, TailAfter DEF CommandInv

\* A command that ends.
LEMMA HasReadEnd ==
    ASSUME NEW d, NEW e \in Ends, d.todo = <<e>>
    PROVE  HasRead(d) /\ Listing(d)
<1>1. \A later, earlier : Needs(d.name, later, earlier) => later \in Requests
  BY DEF Needs, Requests
<1> QED BY <1>1, EndPlanned DEF HasRead, Listing

LEMMA AskedTyped ==
    ASSUME NEW c, CommandInv(c), Head(c.todo) \in {"config", "tokens"}
    PROVE  Asked(c) \in Providers
<1>1. c.name \in {"registerSP", "updateSPConfig", "listSPs", "querySP"}
  BY AsksConfig DEF CommandInv
<1>2. CASE c.name = "listSPs"
  <2>1. "ids" \in DOMAIN c.read
    BY <1>2, HasReadHead DEF Needs
  <2>2. c.read.ids \in Seq(Providers) /\ c.read.ids # <<>>
    BY <1>2, <2>1 DEF CommandInv, ReadsTyped, Listing, Ends
  <2>3. Head(c.read.ids) \in Providers
    BY <2>2
  <2> QED BY <1>2, <2>3 DEF Asked
<1>3. CASE c.name # "listSPs"
  BY <1>1, <1>3 DEF Asked, CommandInv, ArgsTyped
<1> QED BY <1>2, <1>3

LEMMA CommandBegins ==
    ASSUME NEW c, CommandInv(c), NEW d, NEW name, NEW args, NEW todo,
           Begun(c, d, name, args, todo), Plan(name, args, todo)
    PROVE  CommandInv(d)
<1>1. d.run \in 0 .. MaxRuns
  BY MaxRunsAssumption DEF CommandInv, Begun
<1>2. DOMAIN d.read = {}
  BY DEF Begun
<1>3. ReadsTyped(d) /\ HasRead(d) /\ Listing(d)
  BY <1>2 DEF ReadsTyped, HasRead, Listing, Begun, Plan
<1> QED BY <1>1, <1>3 DEF CommandInv, Begun, Plan

\* A command whose step is done, or that ends.
LEMMA CommandGoes ==
    ASSUME NEW c, CommandInv(c), NEW d, NEW todo, Gone(c, d, todo),
           \/ todo = Tail(c.todo) /\ Head(c.todo) = "wait"
           \/ \E e \in Ends : todo = <<e>>
    PROVE  CommandInv(d)
<1>0. IsCommand(d) /\ d.run \in 0 .. MaxRuns /\ ArgsTyped(d.name, d.args)
      /\ ReadsTyped(d)
  BY DEF CommandInv, Gone, Keeps, ReadsTyped
<1>1. CASE todo = Tail(c.todo) /\ Head(c.todo) = "wait"
  <2>1. Planned(c.todo) /\ Head(c.todo) \notin Ends
    BY <1>1 DEF CommandInv, Ends
  <2>2. Planned(d.todo) /\ StepsIn(d.todo, StepsOf(d.name, d.args))
    BY <1>1, <2>1, TailPlanned, TailStepsIn DEF CommandInv, Gone, Keeps
  <2>3. HasRead(d)
    BY <1>1, <2>1, HasReadTail DEF Gone, Keeps
  <2>4. Listing(d)
    BY <2>1 DEF CommandInv, Listing, Gone, Keeps
  <2> QED BY <1>0, <2>2, <2>3, <2>4 DEF CommandInv
<1>2. ASSUME NEW e \in Ends, todo = <<e>>
      PROVE  CommandInv(d)
  <2>1. d.todo = <<e>>
    BY <1>2 DEF Gone
  <2>2. Planned(d.todo) /\ StepsIn(d.todo, StepsOf(d.name, d.args))
    BY <2>1, EndPlanned
  <2> QED BY <1>0, <2>1, <2>2, HasReadEnd DEF CommandInv
<1> QED BY <1>1, <1>2

LEMMA CommandSends ==
    ASSUME NEW c, CommandInv(c), NEW d, NEW n, SentBy(c, d, n)
    PROVE  CommandInv(d)
<1>0. IsCommand(d) /\ d.run \in 0 .. MaxRuns /\ ArgsTyped(d.name, d.args)
      /\ ReadsTyped(d)
  BY DEF CommandInv, SentBy, Keeps, ReadsTyped
<1>1. Planned(c.todo) /\ Head(c.todo) \notin Ends
  BY DEF CommandInv, Ends, SentBy
<1>2. Planned(d.todo) /\ StepsIn(d.todo, StepsOf(d.name, d.args))
  BY <1>1, TailPlanned, TailStepsIn DEF CommandInv, SentBy, Keeps
<1>3. HasRead(d)
  BY <1>1, HasReadTail DEF SentBy, Keeps
<1>4. Listing(d)
  BY <1>1 DEF CommandInv, Listing, SentBy, Keeps
<1> QED BY <1>0, <1>2, <1>3, <1>4 DEF CommandInv

LEMMA Rows ==
    /\ Planned(<<"config", "tokens", "done">>) /\ Planned(<<"done">>)
    /\ StepsIn(<<"config", "tokens", "done">>, {"ids", "config", "tokens"})
    /\ StepsIn(<<"done">>, {"ids", "config", "tokens"})
    /\ Head(<<"config", "tokens", "done">>) = "config" /\ Head(<<"done">>) = "done"
    /\ \A later, earlier \in Requests :
          later \in {"wait", "verify"} =>
              /\ After(<<"config", "tokens", "done">>, later, earlier)
              /\ After(<<"done">>, later, earlier)
BY DEF Planned, StepsIn, After, Requests, Ends

LEMMA CommandRows ==
    ASSUME NEW c, CommandInv(c), NEW d, RowGone(c, d)
    PROVE  CommandInv(d)
<1>0. IsCommand(d) /\ d.run \in 0 .. MaxRuns /\ ArgsTyped(d.name, d.args)
      /\ d.name = "listSPs"
  BY DEF CommandInv, RowGone, Keeps
<1>1. c.read.ids \in Seq(Providers) /\ c.read.ids # <<>> /\ "ids" \in DOMAIN c.read
  <2>1. "ids" \in DOMAIN c.read
    BY HasReadHead DEF Needs, RowGone
  <2> QED BY <2>1 DEF CommandInv, ReadsTyped, Listing, RowGone, Ends
<1>2. PICK ids : ids = c.read.ids
  OBVIOUS
<1>3. Len(ids) \in Nat /\ Tail(ids) \in Seq(Providers) /\ Len(Tail(ids)) = Len(ids) - 1
  BY <1>1, <1>2
<1>4. PICK rest : rest = Tail(ids)
  OBVIOUS
<1>5. /\ DOMAIN d.read = DOMAIN c.read /\ d.read.ids = rest
      /\ "config" \in DOMAIN d.read => d.read.config = c.read.config
      /\ "balance" \in DOMAIN d.read => d.read.balance = c.read.balance
  BY <1>1, <1>2, <1>4 DEF RowGone
<1>6. ReadsTyped(d)
  BY <1>0, <1>3, <1>4, <1>5 DEF CommandInv, ReadsTyped
<1>7. d.todo = IF Len(ids) > 1 THEN <<"config", "tokens", "done">> ELSE <<"done">>
  BY <1>2 DEF RowGone, NextRow
<1>8. HasRead(d)
  BY <1>0, <1>1, <1>5 DEF HasRead, Needs
<1>9. StepsOf(d.name, d.args) = {"ids", "config", "tokens"}
  BY <1>0 DEF StepsOf
<1>10. Planned(d.todo) /\ StepsIn(d.todo, StepsOf(d.name, d.args))
  BY <1>7, <1>9, Rows
<1>11. Listing(d)
  <2>1. CASE Len(ids) > 1
    <3>1. rest # <<>>
      <4>1. Len(rest) # 0 /\ Len(<<>>) = 0
        BY <1>3, <1>4, <2>1
      <4> QED BY <4>1, Zenon
    <3> QED BY <1>5, <3>1 DEF Listing
  <2>2. CASE ~(Len(ids) > 1)
    BY <1>7, <2>2, Rows DEF Listing, Ends
  <2> QED BY <2>1, <2>2
<1> QED BY <1>0, <1>6, <1>8, <1>10, <1>11 DEF CommandInv

\* One more answer.
Adds(read, what, answer, new) ==
    /\ DOMAIN new = DOMAIN read \cup {what} /\ new[what] = answer
    /\ \A x \in DOMAIN read : x # what => new[x] = read[x]

LEMMA Remembered ==
    ASSUME NEW read, NEW what, NEW answer
    PROVE  Adds(read, what, answer, With(read, what, answer))
BY DEF With, Adds

\* The answers have their types.
LEMMA ToldTyped ==
    ASSUME IInv, WalletTyped, NEW c, CommandInv(c), NEW what, NEW answer,
           Head(c.todo) = what, Told(c, what, answer)
    PROVE  /\ what = "config" => answer \in SPConfig
           /\ what = "ids" => answer \in Seq(Providers)
           /\ what = "balance" => answer \in Nat
           /\ what \in {"allowance", "verify"} /\ c.name = "approveToken" => answer \in Nat
           /\ what \in {"approval", "verify"} /\ c.name = "setOperatorApproval" =>
                 answer \in Approval
<1>1. s \in DDOState /\ pay \in [PaymentsContracts -> PayState]
  BY SoundParts
<1>2. ASSUME what = "config"
      PROVE  answer \in SPConfig
  <2>1. Asked(c) \in Providers
    BY <1>2, AskedTyped
  <2>2. PICK config : config = s.spConfigs[Asked(c)]
    OBVIOUS
  <2>3. config \in SPConfig
    BY <1>1, <2>1, <2>2 DEF DDOState
  <2>4. answer = [config EXCEPT !.supportedTokens = <<>>]
    BY <1>2, <2>2 DEF Told
  <2>5. <<>> \in Seq(TokenConfig)
    OBVIOUS
  <2> QED BY <2>3, <2>4, <2>5 DEF SPConfig
<1>3. what = "ids" => answer \in Seq(Providers)
  BY <1>1 DEF Told, DDOState
<1>4. c.name = "approveToken" => c.args.token \in Tokens /\ c.args.contract \in PaymentsContracts
  BY DEF CommandInv, ArgsTyped
<1>5. what = "balance" => c.name = "approveToken"
  BY AsksConfig DEF CommandInv
<1>6. what = "balance" => answer \in Nat
  BY <1>4, <1>5 DEF Told, WalletTyped, WalletState
<1>7. what \in {"allowance", "verify"} /\ c.name = "approveToken" => answer \in Nat
  BY <1>4 DEF Told, WalletTyped, WalletState
<1>8. what \in {"approval", "verify"} /\ c.name = "setOperatorApproval" => answer \in Approval
  <2>1. c.name = "setOperatorApproval" =>
            c.args.token \in Tokens /\ c.args.contract \in PaymentsContracts
    BY DEF CommandInv, ArgsTyped
  <2>2. c.name = "setOperatorApproval" => KeyOf(c.args) \in Clients \X Tokens
    BY <2>1, WalletAssumption DEF KeyOf
  <2> QED BY <1>1, <2>1, <2>2 DEF Told, PayState
<1> QED BY <1>2, <1>3, <1>6, <1>7, <1>8

LEMMA CommandLearns ==
    ASSUME IInv, WalletTyped, NEW c, CommandInv(c), NEW d, NEW m, NEW what, NEW answer,
           NEW todo, Learnt(c, d, m, what, answer, todo), Told(c, what, answer),
           Leads(c, what, answer, todo), Head(c.todo) \notin Ends
    PROVE  CommandInv(d)
<1>0. /\ IsCommand(d) /\ d.run \in 0 .. MaxRuns /\ ArgsTyped(d.name, d.args)
      /\ d.name = c.name /\ d.args = c.args /\ Head(c.todo) = what /\ d.todo = todo
  BY DEF CommandInv, Learnt, Keeps
<1>1. PICK old, new : old = c.read /\ new = d.read
  OBVIOUS
<1>2. /\ DOMAIN new = DOMAIN old \cup {what} /\ new[what] = answer
      /\ \A x \in DOMAIN old : x # what => new[x] = old[x]
  <2>1. new = With(old, what, answer)
    BY <1>1 DEF Learnt
  <2>2. Adds(old, what, answer, new)
    BY <2>1, Remembered
  <2> QED BY <2>2 DEF Adds
<1>3. ReadsTyped(d)
  <2>1. /\ what = "config" => answer \in SPConfig
        /\ what = "ids" => answer \in Seq(Providers)
        /\ what = "balance" => answer \in Nat
        /\ what = "approval" /\ c.name = "setOperatorApproval" => answer \in Approval
    BY <1>0, ToldTyped
  <2>2. /\ "config" \in DOMAIN old => old["config"] \in SPConfig
        /\ "ids" \in DOMAIN old => old["ids"] \in Seq(Providers)
        /\ "balance" \in DOMAIN old => old["balance"] \in Nat
        /\ c.name = "setOperatorApproval" /\ "approval" \in DOMAIN old =>
              old["approval"] \in Approval
    BY <1>1 DEF CommandInv, ReadsTyped
  <2>3. /\ "config" \in DOMAIN new => new["config"] \in SPConfig
        /\ "ids" \in DOMAIN new => new["ids"] \in Seq(Providers)
        /\ "balance" \in DOMAIN new => new["balance"] \in Nat
        /\ c.name = "setOperatorApproval" /\ "approval" \in DOMAIN new =>
              new["approval"] \in Approval
    BY <1>2, <2>1, <2>2
  <2> QED BY <1>0, <1>1, <2>3 DEF ReadsTyped
<1>4. ASSUME NEW e \in Ends, todo = <<e>>
      PROVE  CommandInv(d)
  <2>1. Planned(d.todo) /\ StepsIn(d.todo, StepsOf(d.name, d.args))
    BY <1>0, <1>4, EndPlanned
  <2> QED BY <1>0, <1>3, <1>4, <2>1, HasReadEnd DEF CommandInv
<1>5. CASE todo = Tail(c.todo) /\ Onward(c, what, answer)
  <2>1. Planned(c.todo) /\ StepsIn(c.todo, StepsOf(c.name, c.args))
    BY DEF CommandInv
  <2>2. Planned(d.todo) /\ StepsIn(d.todo, StepsOf(d.name, d.args))
    BY <1>0, <1>5, <2>1, TailPlanned, TailStepsIn
  <2>3. HasRead(d)
    BY <1>0, <1>1, <1>2, <1>5, HasReadTail
  <2>4. Listing(d)
    <3> SUFFICES ASSUME d.name = "listSPs", "ids" \in DOMAIN d.read
                 PROVE  d.read.ids # <<>>
      BY DEF Listing
    <3>1. CASE what = "ids"
      <4>1. new["ids"] # <<>>
        BY <1>2, <1>5, <3>1 DEF Onward
      <4> QED BY <1>1, <4>1
    <3>2. CASE what # "ids"
      <4>1. "ids" \in DOMAIN old /\ new["ids"] = old["ids"]
        BY <1>1, <1>2, <3>2
      <4>2. old["ids"] # <<>>
        BY <1>0, <1>1, <4>1 DEF CommandInv, Listing
      <4> QED BY <1>1, <4>1, <4>2
    <3> QED BY <3>1, <3>2
  <2> QED BY <1>0, <1>3, <2>2, <2>3, <2>4 DEF CommandInv
<1>6. {"done", "failed", "panicked"} \subseteq Ends
  BY DEF Ends
<1> QED BY <1>4, <1>5, <1>6 DEF Leads

----------------------------------------------------------------------------
(* What the transactions say, and what they do when they are mined.        *)

TxTyped(tx) ==
    /\ ArgsTyped(tx.fn, tx.args)
    /\ tx.fn = "updateSPConfig" => tx.arg \in Terms
    /\ tx.fn = "approveToken" => tx.arg.amount \in Nat
    /\ tx.fn = "setOperatorApproval" => tx.arg \in ApprovalLimits

LEMMA ArgumentTyped ==
    ASSUME NEW c, CommandInv(c), Head(c.todo) = "send"
    PROVE  /\ c.name = "updateSPConfig" => Argument(c) = Defaulted(c.args.given, c.read.config)
                                           /\ Argument(c) \in Terms
           /\ c.name = "approveToken" => Argument(c).amount = ApprovalAmount(c)
                                         /\ ApprovalAmount(c) \in Nat
           /\ c.name = "setOperatorApproval" => Argument(c) = Allowances(c)
                                                /\ Allowances(c) \in ApprovalLimits
<1>1. ASSUME c.name = "updateSPConfig"
      PROVE  Argument(c) = Defaulted(c.args.given, c.read.config) /\ Argument(c) \in Terms
  <2>1. "config" \in DOMAIN c.read
    BY <1>1, HasReadHead DEF Needs
  <2>2. c.read.config \in SPConfig /\ c.args.given \in Terms
    BY <1>1, <2>1 DEF CommandInv, ReadsTyped, ArgsTyped
  <2>3. PICK given \in Terms, config \in SPConfig : given = c.args.given /\ config = c.read.config
    BY <2>2
  <2>4. Defaulted(given, config) \in Terms
    BY DEF Defaulted, Terms, SPConfig, Or
  <2>5. Argument(c) = Defaulted(c.args.given, c.read.config)
    BY <1>1 DEF Argument
  <2> QED BY <2>3, <2>4, <2>5
<1>2. ASSUME c.name = "approveToken"
      PROVE  Argument(c).amount = ApprovalAmount(c) /\ ApprovalAmount(c) \in Nat
  <2>1. "balance" \in DOMAIN c.read
    BY <1>2, HasReadHead DEF Needs
  <2>2. c.read.balance \in Nat
    BY <2>1 DEF CommandInv, ReadsTyped
  <2>3. c.args.amount # <<>> => c.args.amount[1] \in Nat
    BY <1>2 DEF CommandInv, ArgsTyped
  <2>4. ApprovalAmount(c) \in Nat
    BY <2>2, <2>3, WalletAssumption DEF ApprovalAmount, ElseRead
  <2>5. Argument(c) = [amount |-> ApprovalAmount(c)]
    BY <1>2 DEF Argument
  <2> QED BY <2>4, <2>5
<1>3. ASSUME c.name = "setOperatorApproval"
      PROVE  Argument(c) = Allowances(c) /\ Allowances(c) \in ApprovalLimits
  <2>1. "approval" \in DOMAIN c.read
    BY <1>3, HasReadHead DEF Needs
  <2>2. c.read.approval \in Approval
    BY <1>3, <2>1 DEF CommandInv, ReadsTyped
  <2>3. PICK read \in Approval : read = c.read.approval
    BY <2>2
  <2>4. read.rateAllowance \in Nat /\ read.lockupAllowance \in Nat /\ read.maxLockupPeriod \in Nat
    BY DEF Approval
  <2>5. /\ c.args.approved \in BOOLEAN
        /\ ElseRead(c.args.rate, read.rateAllowance) \in Nat
        /\ ElseRead(c.args.lockup, read.lockupAllowance) \in Nat
        /\ ElseRead(c.args.period, read.maxLockupPeriod) \in Nat
    BY <1>3, <2>4 DEF CommandInv, ArgsTyped, ElseRead
  <2>6. GivenAllowances(c) \in ApprovalLimits
    BY <2>3, <2>5 DEF GivenAllowances, ApprovalLimits
  <2>7. UnlimitedAllowances(c) \in ApprovalLimits
    BY <2>5, WalletAssumption DEF UnlimitedAllowances, ApprovalLimits, UNLIMITED_PERIOD
  <2>8. Argument(c) = Allowances(c)
    BY <1>3 DEF Argument
  <2> QED BY <2>6, <2>7, <2>8 DEF Allowances
<1> QED BY <1>1, <1>2, <1>3

LEMMA TransactionIs ==
    ASSUME NEW t \in Terminals, CommandInv(cmds[t]), At(t) = "send",
           NEW tx, tx = Transaction(t, Argument(cmds[t]))
    PROVE  /\ IsTx(tx) /\ TxTyped(tx) /\ tx.status = "pending"
           /\ tx.fn = cmds[t].name /\ tx.args = cmds[t].args
           /\ tx.arg = Argument(cmds[t])
           /\ tx.seen = IF cmds[t].read = <<>> THEN MinedCount ELSE cmds[t].seen
<1>1. PICK arg : arg = Argument(cmds[t])
  OBVIOUS
<1>2. /\ IsTx(tx) /\ tx.status = "pending"
      /\ tx.fn = cmds[t].name /\ tx.args = cmds[t].args /\ tx.arg = arg
      /\ tx.seen = IF cmds[t].read = <<>> THEN MinedCount ELSE cmds[t].seen
  BY <1>1 DEF Transaction, IsTx
<1>3. TxTyped(tx)
  <2>1. Head(cmds[t].todo) = "send"
    BY DEF At
  <2> QED BY <1>1, <1>2, <2>1, ArgumentTyped DEF TxTyped, CommandInv
<1> QED BY <1>1, <1>2, <1>3

\* The list a registration is sent with.
TokensOf(tx) == [i \in DOMAIN tx.args.tokens |-> OnChain(tx.args.tokens[i])]

LEMMA PricesTyped ==
    \A price \in Nat : ConvertTBPerMonthToBytesPerEpoch(price) \in Nat
<1>1. Step \in Nat \ {0}
  BY OwnerAssumption, EpochsAssumption, Products DEF Step
<1> QED BY <1>1, Quotients DEF ConvertTBPerMonthToBytesPerEpoch

LEMMA TokensTyped ==
    ASSUME NEW tx, tx.args.tokens \in Seq(TokenInput)
    PROVE  TokensOf(tx) \in Seq(TokenConfig)
<1>1. PICK list, tokens : list = tx.args.tokens /\ tokens = TokensOf(tx)
  OBVIOUS
<1>2. ASSUME NEW input \in TokenInput
      PROVE  OnChain(input) \in TokenConfig
  <2>1. input.price \in Nat /\ input.token \in Tokens /\ input.isActive \in BOOLEAN
    BY DEF TokenInput
  <2> QED BY <2>1, PricesTyped DEF OnChain, TokenConfig
<1>3. Len(list) \in Nat /\ DOMAIN list = 1 .. Len(list)
      /\ \A i \in DOMAIN list : list[i] \in TokenInput
  BY <1>1
<1>4. tokens = [i \in DOMAIN list |-> OnChain(list[i])]
  BY <1>1 DEF TokensOf
<1>5. tokens \in [1 .. Len(list) -> TokenConfig]
  BY <1>2, <1>3, <1>4
<1>6. tokens \in Seq(TokenConfig)
  BY <1>3, <1>5, FunctionIsSeq
<1> QED BY <1>1, <1>6

\* A transaction of the owner's is one of those the diamond takes anyhow.
LEMMA OwnerTransactionIsAny ==
    ASSUME NEW tx, TxTyped(tx), OwnerTransactions(tx)
    PROVE  AnySP \/ AnyAdmin
<1>1. CASE RegisterSP(tx)
  <2>1. /\ tx.args.actorId \in Providers /\ tx.args.given \in Terms
        /\ tx.args.tokens \in Seq(TokenInput)
        /\ registerSP(tx.args.actorId, tx.args.given, TokensOf(tx))
    BY <1>1 DEF RegisterSP, TxTyped, ArgsTyped, TokensOf
  <2> QED BY <2>1, TokensTyped, Zenon DEF AnySP
<1>2. CASE UpdateSPConfig(tx)
  <2>1. /\ tx.args.actorId \in Providers /\ tx.arg \in Terms
        /\ updateSPConfig(tx.args.actorId, tx.arg)
    BY <1>2 DEF UpdateSPConfig, TxTyped, ArgsTyped
  <2> QED BY <2>1, Zenon DEF AnySP
<1>3. CASE DeactivateSP(tx)
  <2>1. tx.args.actorId \in Providers /\ deactivateSP(tx.args.actorId)
    BY <1>3 DEF DeactivateSP, TxTyped, ArgsTyped
  <2> QED BY <2>1, Zenon DEF AnySP
<1>4. CASE AddSPToken(tx) \/ UpdateSPToken(tx)
  <2>1. PICK price : price = ConvertTBPerMonthToBytesPerEpoch(tx.args.price)
    OBVIOUS
  <2>2. /\ tx.args.actorId \in Providers /\ tx.args.token \in Tokens /\ price \in Nat
    BY <1>4, <2>1, PricesTyped DEF AddSPToken, UpdateSPToken, TxTyped, ArgsTyped
  <2>3. \/ addSPToken(tx.args.actorId, tx.args.token, price)
        \/ /\ updateSPToken(tx.args.actorId, tx.args.token, price, tx.args.isActive)
           /\ tx.args.isActive \in BOOLEAN
    BY <1>4, <2>1 DEF AddSPToken, UpdateSPToken, TxTyped, ArgsTyped
  <2> QED BY <2>2, <2>3, Zenon DEF AnySP
<1>5. CASE RemoveSPToken(tx)
  <2>1. /\ tx.args.actorId \in Providers /\ tx.args.token \in Tokens
        /\ removeSPToken(tx.args.actorId, tx.args.token)
    BY <1>5 DEF RemoveSPToken, TxTyped, ArgsTyped
  <2> QED BY <2>1, Zenon DEF AnySP
<1>6. CASE SetPaymentsContract(tx)
  <2>1. tx.args.contract \in PaymentsContracts /\ setPaymentsContract(tx.args.contract)
    BY <1>6 DEF SetPaymentsContract, setPaymentsContract, TxTyped, ArgsTyped
  <2> QED BY <2>1, Zenon DEF AnyAdmin
<1>7. CASE SetCommissionRate(tx) \/ SetAllocationLockupAmount(tx)
  <2>1. \/ tx.args.bps \in Nat /\ setCommissionRate(tx.args.bps)
        \/ tx.args.amount \in Nat /\ setAllocationLockupAmount(tx.args.amount)
    BY <1>7 DEF SetCommissionRate, SetAllocationLockupAmount, TxTyped, ArgsTyped
  <2> QED BY <2>1, Zenon DEF AnyAdmin
<1>8. CASE Pause(tx) \/ Unpause(tx)
  BY <1>8 DEF Pause, Unpause, AnyAdmin
<1>9. CASE BlacklistSector(tx)
  <2>1. /\ tx.args.entry \in Providers \X Sectors /\ tx.args.blacklisted \in BOOLEAN
        /\ blacklistSector(tx.args.entry[1], tx.args.entry[2], tx.args.blacklisted)
    BY <1>9 DEF BlacklistSector, TxTyped, ArgsTyped
  <2> QED BY <2>1, Zenon DEF AnyAdmin
<1> QED BY <1>1, <1>2, <1>3, <1>4, <1>5, <1>6, <1>7, <1>8, <1>9 DEF OwnerTransactions

\* What the transactions about money do.
LEMMA WalletIs ==
    ASSUME WalletTyped, NEW token \in Tokens
    PROVE  /\ DOMAIN wallet = Tokens
           /\ wallet[token].balance \in Nat
           /\ wallet[token].allowances \in [PaymentsContracts -> Nat]
BY DEF WalletTyped, WalletState

\* The user's transactions leave the diamond alone.
LEMMA PaymentsTransactionIsAny ==
    ASSUME NEW tx, TxTyped(tx), PaymentsTransactions(tx), WalletTyped
    PROVE  /\ AnyClient \/ UNCHANGED vars
           /\ UNCHANGED s /\ WalletTyped'
<1>1. CASE Approve(tx)
  <2>1. PICK n : n = tx.arg.amount % (MaxUint256 + 1)
    OBVIOUS
  <2>2. n \in Nat
    BY <1>1, <2>1, WalletAssumption DEF Approve, TxTyped
  <2>3. tx.args.token \in Tokens /\ tx.args.contract \in PaymentsContracts
    BY <1>1 DEF Approve, TxTyped, ArgsTyped
  <2>4. /\ wallet' = [wallet EXCEPT ![tx.args.token].allowances[tx.args.contract] = n]
        /\ UNCHANGED vars
    BY <1>1, <2>1 DEF Approve, approve, chainVars, vars
  <2>5. WalletTyped'
    BY <2>2, <2>3, <2>4 DEF WalletTyped, WalletState
  <2> QED BY <2>4, <2>5 DEF vars
<1>2. CASE SetOperatorApprovalOf(tx)
  <2>1. /\ tx.args.contract \in PaymentsContracts /\ KeyOf(tx.args) \in Clients \X Tokens
        /\ tx.arg \in ApprovalLimits
    BY <1>2, WalletAssumption DEF SetOperatorApprovalOf, TxTyped, ArgsTyped, KeyOf
  <2>2. /\ setOperatorApproval(tx.args.contract, KeyOf(tx.args), tx.arg)
        /\ UNCHANGED wallet
    BY <1>2 DEF SetOperatorApprovalOf
  <2>3. UNCHANGED s /\ WalletTyped'
    BY <2>2 DEF setOperatorApproval, ClientTransaction, WalletTyped
  <2> QED BY <2>1, <2>2, <2>3, Zenon DEF AnyClient
<1>3. CASE WithdrawOf(tx) \/ WithdrawTo(tx)
  <2>1. PICK n : n = tx.args.amount[1]
    OBVIOUS
  <2>2. /\ tx.args.contract \in PaymentsContracts /\ KeyOf(tx.args) \in Clients \X Tokens
        /\ n \in Nat /\ tx.args.token \in Tokens
    BY <1>3, <2>1, WalletAssumption DEF WithdrawOf, WithdrawTo, TxTyped, ArgsTyped, KeyOf
  <2>3. /\ withdraw(tx.args.contract, KeyOf(tx.args), n)
        /\ \/ UNCHANGED wallet
           \/ wallet' = [wallet EXCEPT ![tx.args.token].balance = @ + n]
    BY <1>3, <2>1 DEF WithdrawOf, WithdrawTo
  <2>4. WalletTyped'
    BY <2>2, <2>3 DEF WalletTyped, WalletState
  <2>5. UNCHANGED s
    BY <2>3 DEF withdraw, ClientTransaction
  <2> QED BY <2>2, <2>3, <2>4, <2>5, Zenon DEF AnyClient
<1> QED BY <1>1, <1>2, <1>3 DEF PaymentsTransactions

----------------------------------------------------------------------------
(* The steps of the system: a terminal's, a block's, and everybody else's. *)

Starting(t) ==
    \E name, args, todo :
        Begun(cmds[t], cmds'[t], name, args, todo) /\ Plan(name, args, todo)

OfTerminal(t) == Quiet /\ Only(t) /\ (Running(t) \/ (Starting(t) /\ UNCHANGED txs))

Succeeded(i) == Effect(txs[i]) /\ Receipt(i, "succeeded")

Reverted(i) == Receipt(i, "reverted") /\ UNCHANGED <<s, pay, epoch, call, wallet>>

Mines(i) ==
    /\ i = NextNonce /\ i \in DOMAIN txs /\ UNCHANGED cmds
    /\ Succeeded(i) \/ Reverted(i)

Aside == UNCHANGED <<txs, wallet, cmds>> /\ [AnyNext]_vars

TerminalsInv == CmdsShape /\ \A t \in Terminals : CommandInv(cmds[t])

LEMMA CmdKinds ==
    ASSUME TerminalsInv, epoch \in Nat, [CmdNext]_termVars
    PROVE  (\E t \in Terminals : OfTerminal(t)) \/ (\E i : Mines(i)) \/ Aside
<1>1. ASSUME NEW t \in Terminals, StartsAny(t)
      PROVE  OfTerminal(t)
  <2>1. PICK name, args, todo : Starts(t, name, args, todo) /\ Plan(name, args, todo)
    BY <1>1, AnyPlan
  <2>2. Quiet /\ UNCHANGED txs
    BY <2>1 DEF Starts, Asks, Quiet
  <2>3. Only(t) /\ Begun(cmds[t], cmds'[t], name, args, todo)
    BY <2>1, StartsBegins DEF TerminalsInv
  <2>4. Starting(t)
    BY <2>1, <2>3, Zenon DEF Starting
  <2> QED BY <2>2, <2>3, <2>4 DEF OfTerminal
<1>2. ASSUME NEW t \in Terminals, Answered(t) \/ Fails(t)
      PROVE  OfTerminal(t)
  <2>1. /\ CmdsShape /\ Planned(cmds[t].todo)
        /\ StepsIn(cmds[t].todo, StepsOf(cmds[t].name, cmds[t].args))
    BY DEF TerminalsInv, CommandInv
  <2> QED BY <1>2, <2>1, TerminalRuns DEF OfTerminal
<1>3. ASSUME mine
      PROVE  \E i : Mines(i)
  <2>1. Mines(NextNonce)
    BY <1>3, Zenon DEF mine, Mines, Succeeded, Reverted
  <2> QED BY <2>1, Zenon
<1>4. ASSUME Others(Next)
      PROVE  Aside
  BY <1>4, NextIsAny DEF Others, Aside
<1>5. ASSUME UNCHANGED termVars
      PROVE  Aside
  BY <1>5 DEF termVars, Aside, vars
<1> QED BY <1>1, <1>2, <1>3, <1>4, <1>5, Zenon DEF CmdNext, StartsAny

\* What the transactions on the list say, and when they were decided on.
TxsGood == \A i \in DOMAIN txs : TxTyped(txs[i]) /\ txs[i].seen \in 0 .. i - 1

\* To the diamond every step is one of its own.
LEMMA ChainStep ==
    ASSUME WalletTyped, TxsGood,
           (\E t \in Terminals : OfTerminal(t)) \/ (\E i : Mines(i)) \/ Aside
    PROVE  [AnyNext]_vars /\ WalletTyped'
<1>1. ASSUME NEW t \in Terminals, OfTerminal(t)
      PROVE  [AnyNext]_vars /\ WalletTyped'
  BY <1>1 DEF OfTerminal, Quiet, vars, WalletTyped
<1>2. ASSUME NEW i, Mines(i)
      PROVE  [AnyNext]_vars /\ WalletTyped'
  <2>1. TxTyped(txs[i])
    BY <1>2 DEF Mines, TxsGood
  <2>2. CASE OwnerTransactions(txs[i]) /\ UNCHANGED wallet
    <3>1. AnySP \/ AnyAdmin
      BY <2>1, <2>2, OwnerTransactionIsAny
    <3> QED BY <2>2, <3>1 DEF AnyNext, WalletTyped
  <2>3. CASE PaymentsTransactions(txs[i])
    <3>1. (AnyClient \/ UNCHANGED vars) /\ WalletTyped'
      BY <2>1, <2>3, PaymentsTransactionIsAny
    <3> QED BY <3>1 DEF AnyNext
  <2>4. CASE UNCHANGED <<s, pay, epoch, call, wallet>>
    BY <2>4 DEF vars, WalletTyped
  <2> QED BY <1>2, <2>2, <2>3, <2>4, Zenon DEF Mines, Succeeded, Reverted, Effect
<1>3. CASE Aside
  BY <1>3 DEF Aside, WalletTyped
<1> QED BY <1>1, <1>2, <1>3

----------------------------------------------------------------------------
(* A command and its transaction.                                          *)

NoSend(todo) == \A i \in DOMAIN todo : todo[i] # "send"

Sending(c, list, m) ==
    /\ c.seen \in 0 .. m
    /\ c.tx \in 0 .. Len(list)
    /\ Once(c.todo)
    /\ c.tx # 0 => /\ list[c.tx].fn = c.name /\ list[c.tx].args = c.args
                   /\ NoSend(c.todo)
    /\ After(c.todo, "wait", "send") \/ c.tx # 0
    /\ After(c.todo, "verify", "wait") \/ c.tx \in 1 .. m
    /\ "verify" \in DOMAIN c.read => c.tx \in 1 .. m

SendingAll == \A t \in Terminals : Sending(cmds[t], txs, MinedCount)

\* What the list of transactions comes to.
Grows(list, m, later, n) ==
    /\ m \in Nat /\ n \in Nat /\ Len(list) \in Nat /\ Len(later) \in Nat
    /\ m <= n /\ n <= Len(later) /\ m <= Len(list) /\ Len(list) <= Len(later)
    /\ \A i \in 1 .. Len(list) : later[i].fn = list[i].fn /\ later[i].args = list[i].args

LEMMA SendingStays ==
    ASSUME NEW c, NEW list, NEW m, NEW later, NEW n, Sending(c, list, m),
           Grows(list, m, later, n)
    PROVE  Sending(c, later, n)
<1>1. c.seen \in 0 .. n /\ c.tx \in 0 .. Len(later)
  BY DEF Sending, Grows
<1>2. c.tx # 0 => later[c.tx].fn = c.name /\ later[c.tx].args = c.args
  BY DEF Sending, Grows
<1>3. c.tx \in 1 .. m => c.tx \in 1 .. n
  BY DEF Grows
<1> QED BY <1>1, <1>2, <1>3 DEF Sending

\* What a list of steps is without its first.
LEMMA TailOnce ==
    ASSUME NEW todo, Planned(todo), Head(todo) \notin Ends, Once(todo)
    PROVE  /\ Once(Tail(todo))
           /\ Head(todo) = "send" => NoSend(Tail(todo))
           /\ NoSend(todo) => NoSend(Tail(todo)) /\ Head(todo) # "send"
<1>1. /\ todo \in Seq(Requests \cup Ends) /\ todo # <<>> /\ Head(todo) = todo[1]
      /\ 1 \in DOMAIN todo
  BY DEF Planned
<1>2. \A i \in DOMAIN Tail(todo) : /\ i + 1 \in DOMAIN todo /\ Tail(todo)[i] = todo[i + 1]
                                   /\ i \in Nat \ {0}
  BY TailPlanned
<1>3. Once(Tail(todo))
  <2> SUFFICES ASSUME NEW i \in DOMAIN Tail(todo), NEW j \in DOMAIN Tail(todo),
                      Tail(todo)[i] = "send", Tail(todo)[j] = "send"
               PROVE  i = j
    BY DEF Once
  <2>1. i + 1 = j + 1 /\ i \in Nat /\ j \in Nat
    BY <1>2 DEF Once
  <2> QED BY <2>1
<1>4. ASSUME Head(todo) = "send"
      PROVE  NoSend(Tail(todo))
  <2> SUFFICES ASSUME NEW i \in DOMAIN Tail(todo), Tail(todo)[i] = "send"
               PROVE  FALSE
    BY DEF NoSend
  <2>1. i + 1 = 1 /\ i \in Nat \ {0}
    BY <1>1, <1>2, <1>4 DEF Once
  <2> QED BY <2>1
<1>5. NoSend(todo) => NoSend(Tail(todo)) /\ Head(todo) # "send"
  BY <1>1, <1>2 DEF NoSend
<1> QED BY <1>3, <1>4, <1>5

\* A command that ends, with the transaction it has.
LEMMA SendingEnds ==
    ASSUME NEW c, NEW list, NEW m, Sending(c, list, m), NEW d, NEW e \in Ends,
           d.todo = <<e>>, d.name = c.name, d.args = c.args, d.tx = c.tx,
           d.seen \in 0 .. m, "verify" \in DOMAIN d.read => c.tx \in 1 .. m
    PROVE  Sending(d, list, m)
<1>1. After(d.todo, "wait", "send") /\ After(d.todo, "verify", "wait")
  BY EndPlanned DEF Requests
<1>2. Once(d.todo) /\ NoSend(d.todo)
  <2>1. e # "send"
    BY DEF Ends
  <2>2. DOMAIN <<e>> = {1} /\ <<e>>[1] = e
    OBVIOUS
  <2> QED BY <2>1, <2>2 DEF Once, NoSend
<1> QED BY <1>1, <1>2 DEF Sending

\* A step of a command's list is done: what the steps behind it rely on is there.
LEMMA SendingTail ==
    ASSUME NEW c, NEW list, NEW m, Sending(c, list, m), Planned(c.todo),
           Head(c.todo) \notin Ends, NEW d, d.todo = Tail(c.todo),
           NEW later, NEW n, Grows(list, m, later, n),
           d.name = c.name, d.args = c.args, d.seen \in 0 .. n, d.tx \in 0 .. Len(later),
           d.tx # 0 => later[d.tx].fn = d.name /\ later[d.tx].args = d.args,
           IF Head(c.todo) = "send" THEN d.tx # 0 ELSE d.tx = c.tx,
           Head(c.todo) = "wait" => d.tx \in 1 .. n,
           "verify" \in DOMAIN d.read => "verify" \in DOMAIN c.read \/ Head(c.todo) = "verify"
    PROVE  Sending(d, later, n)
<1>0. Once(c.todo) /\ (c.tx # 0 => NoSend(c.todo))
  BY DEF Sending
<1>1. /\ Once(d.todo)
      /\ d.tx # 0 => NoSend(d.todo)
      /\ Head(c.todo) = "send" => c.tx = 0
  <2>1. Once(d.todo) /\ (Head(c.todo) = "send" => NoSend(d.todo))
    BY <1>0, TailOnce
  <2>2. NoSend(c.todo) => NoSend(d.todo) /\ Head(c.todo) # "send"
    BY <1>0, TailOnce
  <2> QED BY <1>0, <2>1, <2>2
<1>2. After(d.todo, "wait", "send") \/ d.tx # 0
  BY TailAfter DEF Sending
<1>3. c.tx \in 1 .. m => Head(c.todo) # "send" /\ d.tx \in 1 .. n
  BY <1>1 DEF Grows
<1>4. After(d.todo, "verify", "wait") \/ d.tx \in 1 .. n
  BY <1>3, TailAfter DEF Sending
<1>5. Head(c.todo) = "verify" => c.tx \in 1 .. m
  <2>1. Head(c.todo) = "verify" => ~After(c.todo, "verify", "wait")
    BY TailAfter
  <2> QED BY <2>1 DEF Sending
<1> QED BY <1>1, <1>2, <1>3, <1>4, <1>5 DEF Sending

----------------------------------------------------------------------------
(* The list of transactions and the commands, step by step.                *)

ListInv == TxsInv /\ TxsGood

\* A transaction of a command.
LEMMA AppendingKeeps ==
    ASSUME ListInv, TerminalsInv, SendingAll, NEW t \in Terminals, Appending(t)
    PROVE  /\ ListInv' /\ MinedCount' = MinedCount
           /\ Grows(txs, MinedCount, txs', MinedCount')
           /\ Len(txs') = Len(txs) + 1 /\ DOMAIN txs' = DOMAIN txs \cup {Len(txs) + 1}
           /\ \A i \in DOMAIN txs : txs'[i] = txs[i]
           /\ txs'[Len(txs) + 1].fn = cmds[t].name
           /\ txs'[Len(txs) + 1].args = cmds[t].args
           /\ txs'[Len(txs) + 1].arg = Argument(cmds[t])
           /\ txs'[Len(txs) + 1].status = "pending"
           /\ txs'[Len(txs) + 1].seen = IF cmds[t].read = <<>> THEN MinedCount
                                        ELSE cmds[t].seen
<1>1. PICK tx : tx = Transaction(t, Argument(cmds[t]))
  OBVIOUS
<1>2. /\ IsTx(tx) /\ TxTyped(tx) /\ tx.status = "pending"
      /\ tx.fn = cmds[t].name /\ tx.args = cmds[t].args
      /\ tx.arg = Argument(cmds[t])
      /\ tx.seen = IF cmds[t].read = <<>> THEN MinedCount ELSE cmds[t].seen
  BY <1>1, TransactionIs DEF Appending, TerminalsInv
<1>3. txs' = Append(txs, tx)
  BY <1>1 DEF Appending
<1>4. /\ TxsInv' /\ MinedCount' = MinedCount /\ Len(txs') = Len(txs) + 1
      /\ DOMAIN txs' = DOMAIN txs \cup {Len(txs) + 1}
      /\ \A i \in DOMAIN txs : txs'[i] = txs[i]
      /\ txs'[Len(txs) + 1] = tx
  BY <1>2, <1>3, SentKeeps DEF ListInv
<1>5. MinedCount \in 0 .. Len(txs) /\ Len(txs) \in Nat
  BY MinedOrder DEF ListInv
<1>6. DOMAIN txs = 1 .. Len(txs)
  BY Listed DEF ListInv, TxsInv
<1>7. TxsGood'
  <2>1. tx.seen \in 0 .. (Len(txs) + 1) - 1
    <3>1. cmds[t].seen \in 0 .. MinedCount
      BY DEF SendingAll, Sending
    <3> QED BY <1>2, <1>5, <3>1
  <2>2. \A i \in DOMAIN txs : TxTyped(txs'[i]) /\ txs'[i].seen \in 0 .. i - 1
    BY <1>4 DEF ListInv, TxsGood
  <2> QED BY <1>2, <1>4, <2>1, <2>2 DEF TxsGood
<1>8. Grows(txs, MinedCount, txs', MinedCount')
  BY <1>4, <1>5, <1>6 DEF Grows
<1> QED BY <1>2, <1>4, <1>7, <1>8 DEF ListInv

\* Nothing is sent and nothing is mined.
LEMMA ListStays ==
    ASSUME ListInv, UNCHANGED txs
    PROVE  /\ ListInv' /\ MinedCount' = MinedCount
           /\ Grows(txs, MinedCount, txs', MinedCount')
<1>1. ListInv' /\ MinedCount' = MinedCount
  BY DEF ListInv, TxsInv, TxsGood, MinedCount, NextNonce
<1>2. MinedCount \in 0 .. Len(txs) /\ Len(txs) \in Nat
  BY MinedOrder DEF ListInv
<1> QED BY <1>1, <1>2 DEF Grows

\* A transaction is mined.
LEMMA MiningKeeps ==
    ASSUME ListInv, NEW i, Mines(i)
    PROVE  /\ ListInv' /\ i = MinedCount + 1 /\ MinedCount' = i /\ i \in DOMAIN txs
           /\ Grows(txs, MinedCount, txs', MinedCount')
           /\ DOMAIN txs' = DOMAIN txs
           /\ \A j \in DOMAIN txs : j # i => txs'[j] = txs[j]
           /\ \A j \in DOMAIN txs : SameTx(txs[j], txs'[j])
           /\ txs[i].status = "pending"
           /\ \/ Succeeded(i) /\ txs'[i].status = "succeeded"
              \/ Reverted(i) /\ txs'[i].status = "reverted"
<1>1. PICK status \in {"succeeded", "reverted"} :
         /\ Receipt(i, status)
         /\ \/ Succeeded(i) /\ status = "succeeded"
            \/ Reverted(i) /\ status = "reverted"
  BY DEF Mines, Succeeded, Reverted
<1>2. i = NextNonce /\ i \in DOMAIN txs
  BY DEF Mines
<1>3. /\ TxsInv' /\ i = MinedCount + 1 /\ MinedCount' = i
      /\ Len(txs') = Len(txs) /\ DOMAIN txs' = DOMAIN txs
      /\ \A j \in DOMAIN txs : j # i => txs'[j] = txs[j]
      /\ \A j \in DOMAIN txs : SameTx(txs[j], txs'[j])
      /\ txs[i].status = "pending" /\ txs'[i].status = status
  BY <1>1, <1>2, MinedKeeps DEF ListInv
<1>4. MinedCount \in 0 .. Len(txs) /\ Len(txs) \in Nat /\ DOMAIN txs = 1 .. Len(txs)
  BY MinedOrder, Listed DEF ListInv, TxsInv
<1>5. TxsGood'
  <2>1. \A tx, new : SameTx(tx, new) /\ TxTyped(tx) => TxTyped(new) /\ new.seen = tx.seen
    BY DEF SameTx, TxTyped
  <2> QED BY <1>3, <2>1 DEF ListInv, TxsGood
<1>6. Grows(txs, MinedCount, txs', MinedCount')
  BY <1>2, <1>3, <1>4 DEF Grows, SameTx
<1> QED BY <1>1, <1>2, <1>3, <1>5, <1>6 DEF ListInv

\* A command that is told something is at a question.
LEMMA ToldAsks ==
    ASSUME NEW c, NEW what, NEW answer, Told(c, what, answer)
    PROVE  what \notin Ends /\ what # "send" /\ what # "wait"
BY DEF Told, Ends

\* What a terminal's step makes of its command.
LEMMA TerminalCommand ==
    ASSUME IInv, WalletTyped, ListInv, TerminalsInv, SendingAll,
           NEW t \in Terminals, OfTerminal(t)
    PROVE  /\ ListInv' /\ MinedCount' = MinedCount
           /\ Grows(txs, MinedCount, txs', MinedCount')
           /\ CommandInv(cmds'[t]) /\ Sending(cmds'[t], txs', MinedCount')
<1> DEFINE c == cmds[t]
<1> PICK d : d = cmds'[t]
  OBVIOUS
<1> PICK list, m : list = txs' /\ m = MinedCount'
  OBVIOUS
<1>1. CommandInv(c) /\ Sending(c, txs, MinedCount)
  BY DEF TerminalsInv, SendingAll
<1>2. ListInv' /\ m = MinedCount /\ Grows(txs, MinedCount, list, m)
  <2>1. UNCHANGED txs \/ Appending(t)
    BY DEF OfTerminal, Running, Answering, Waiting
  <2> QED BY <2>1, ListStays, AppendingKeeps
<1>3. Planned(c.todo)
  BY <1>1 DEF CommandInv
<1>4. MinedCount \in 0 .. Len(txs) /\ Len(txs) \in Nat
  BY MinedOrder DEF ListInv
<1>5. c.seen \in 0 .. m /\ c.tx \in 0 .. Len(list)
      /\ (c.tx # 0 => list[c.tx].fn = c.name /\ list[c.tx].args = c.args)
  <2>1. Sending(c, list, m)
    BY <1>1, <1>2, SendingStays
  <2> QED BY <2>1 DEF Sending
<1>6. Sending(c, list, m)
  BY <1>1, <1>2, SendingStays
<1>7. ASSUME NEW e \in Ends, d.todo = <<e>>, Keeps(c, d), d.tx = c.tx, d.seen \in 0 .. m,
             "verify" \in DOMAIN d.read => "verify" \in DOMAIN c.read \/ c.tx \in 1 .. m
      PROVE  Sending(d, list, m)
  <2>1. "verify" \in DOMAIN d.read => c.tx \in 1 .. m
    BY <1>6, <1>7 DEF Sending
  <2>2. d.name = c.name /\ d.args = c.args
    BY <1>7 DEF Keeps
  <2> QED BY <1>6, <1>7, <2>1, <2>2, SendingEnds
<1>8. CASE Starting(t) /\ UNCHANGED txs
  <2>1. PICK name, args, todo : Begun(c, d, name, args, todo) /\ Plan(name, args, todo)
    BY <1>8 DEF Starting
  <2>2. CommandInv(d)
    BY <1>1, <2>1, CommandBegins
  <2>3. Sending(d, list, m)
    BY <2>1, <1>2, <1>4 DEF Sending, Begun, Plan, Orderly, Grows
  <2> QED BY <1>2, <2>2, <2>3
<1>9. CASE Answering(t)
  <2>1. PICK what, answer, todo :
            /\ Learnt(c, d, MinedCount, what, answer, todo)
            /\ Told(c, what, answer) /\ Leads(c, what, answer, todo)
    BY <1>9 DEF Answering
  <2>2. /\ what \notin Ends /\ what # "send" /\ what # "wait"
        /\ Keeps(c, d) /\ d.tx = c.tx /\ Head(c.todo) = what /\ d.todo = todo
        /\ d.read = With(c.read, what, answer)
        /\ d.seen = IF c.read = <<>> THEN MinedCount ELSE c.seen
    BY <2>1, ToldAsks DEF Learnt
  <2>3. CommandInv(d)
    BY <1>1, <2>1, <2>2, CommandLearns
  <2>4. d.seen \in 0 .. m
    BY <2>2, <1>2, <1>4, <1>5
  <2>5. DOMAIN d.read = DOMAIN c.read \cup {what}
    <3>1. Adds(c.read, what, answer, d.read)
      BY <2>2, Remembered
    <3> QED BY <3>1 DEF Adds
  <2>6. CASE todo = Tail(c.todo)
    <3>1. d.name = c.name /\ d.args = c.args
      BY <2>2 DEF Keeps
    <3> QED BY <1>1, <1>2, <1>3, <1>5, <2>2, <2>3, <2>4, <2>5, <2>6, <3>1, SendingTail
  <2>7. CASE \E e \in Ends : todo = <<e>>
    <3>1. what = "verify" => c.tx \in 1 .. m
      <4>1. what = "verify" => ~After(c.todo, "verify", "wait")
        BY <1>3, <2>2, TailAfter
      <4> QED BY <1>6, <4>1 DEF Sending
    <3> QED BY <1>2, <1>7, <2>2, <2>3, <2>4, <2>5, <2>7, <3>1
  <2>8. todo = Tail(c.todo) \/ \E e \in Ends : todo = <<e>>
    BY <2>1 DEF Leads, Ends
  <2> QED BY <2>6, <2>7, <2>8
<1>10. CASE Waiting(t)
  <2>1. /\ Head(c.todo) = "wait" /\ Mined(c.tx) /\ Gone(c, d, Tail(c.todo))
        /\ Keeps(c, d) /\ d.tx = c.tx /\ d.read = c.read /\ d.seen = c.seen
        /\ d.todo = Tail(c.todo)
    BY <1>10 DEF Waiting, At, Rest, Gone
  <2>2. CommandInv(d)
    BY <1>1, <2>1, CommandGoes
  <2>3. c.tx \in 1 .. m
    <3>1. c.tx # 0
      <4>1. ~After(c.todo, "wait", "send")
        BY <1>3, <2>1, TailAfter DEF Ends
      <4> QED BY <1>6, <4>1 DEF Sending
    <3>2. c.tx \in DOMAIN txs
      BY <1>1, <3>1, Listed DEF Sending, ListInv, TxsInv
    <3>3. c.tx <= MinedCount <=> txs[c.tx].status # "pending"
      BY <3>2 DEF ListInv, TxsInv, MinedTo
    <3> QED BY <1>2, <1>4, <1>5, <2>1, <3>1, <3>3 DEF Mined
  <2>4. d.name = c.name /\ d.args = c.args /\ Head(c.todo) \notin Ends
    BY <2>1 DEF Keeps, Ends
  <2>5. Sending(d, list, m)
    BY <1>1, <1>2, <1>3, <1>5, <2>1, <2>3, <2>4, SendingTail
  <2> QED BY <1>2, <2>2, <2>5
<1>11. CASE Ending(t)
  <2>1. PICK e \in {"done", "failed"} : Gone(c, d, <<e>>)
    BY <1>11 DEF Ending
  <2>2. e \in Ends
    BY DEF Ends
  <2>3. CommandInv(d)
    BY <1>1, <2>1, <2>2, CommandGoes
  <2>4. Sending(d, list, m)
    BY <1>5, <1>7, <2>1, <2>2 DEF Gone
  <2> QED BY <1>2, <2>3, <2>4
<1>12. CASE SentBy(c, d, Len(txs) + 1) /\ Appending(t)
  <2>1. /\ Head(c.todo) = "send" /\ d.todo = Tail(c.todo) /\ d.tx = Len(txs) + 1
        /\ d.name = c.name /\ d.args = c.args /\ d.read = c.read /\ d.seen = c.seen
    BY <1>12 DEF SentBy, Keeps
  <2>2. CommandInv(d)
    BY <1>1, <1>12, CommandSends
  <2>3. Len(list) = Len(txs) + 1 /\ list[d.tx].fn = c.name /\ list[d.tx].args = c.args
    BY <1>12, <2>1, AppendingKeeps
  <2>4. Head(c.todo) \notin Ends /\ d.tx # 0 /\ d.tx \in 0 .. Len(list)
    BY <1>4, <2>1, <2>3 DEF Ends
  <2>5. Sending(d, list, m)
    BY <1>1, <1>2, <1>3, <1>5, <2>1, <2>3, <2>4, SendingTail
  <2> QED BY <1>2, <2>2, <2>5
<1>13. CASE RowGone(c, d)
  <2>1. /\ Keeps(c, d) /\ d.tx = c.tx /\ d.seen = c.seen
        /\ d.todo = NextRow(c) /\ DOMAIN d.read = DOMAIN c.read
    BY <1>13 DEF RowGone
  <2>2. CommandInv(d)
    BY <1>1, <1>13, CommandRows
  <2>3. d.todo \in {<<"config", "tokens", "done">>, <<"done">>}
    BY <2>1 DEF NextRow
  <2>4. After(d.todo, "wait", "send") /\ After(d.todo, "verify", "wait")
    BY <2>3, Rows DEF Requests
  <2>5. Once(d.todo) /\ NoSend(d.todo)
    BY <2>3 DEF Once, NoSend
  <2>6. d.name = c.name /\ d.args = c.args
    BY <2>1 DEF Keeps
  <2>7. Sending(d, list, m)
    BY <1>6, <2>1, <2>4, <2>5, <2>6 DEF Sending
  <2> QED BY <1>2, <2>2, <2>7
<1> QED BY <1>8, <1>9, <1>10, <1>11, <1>12, <1>13 DEF OfTerminal, Running

\* The system's invariant as far as nobody has to leave the key alone.
CommandsInv ==
    /\ IInv /\ TransactionInv /\ RegistryInv /\ WalletTyped
    /\ ListInv /\ TerminalsInv /\ SendingAll

CmdKind == (\E t \in Terminals : OfTerminal(t)) \/ (\E i : Mines(i)) \/ Aside

LEMMA CmdStepKind ==
    ASSUME CommandsInv, [CmdNext]_termVars
    PROVE  CmdKind /\ [AnyNext]_vars
<1>1. epoch \in Nat
  BY SoundParts DEF CommandsInv
<1>2. CmdKind
  BY <1>1, CmdKinds DEF CommandsInv, CmdKind
<1>3. [AnyNext]_vars
  BY <1>2, ChainStep DEF CommandsInv, ListInv, CmdKind
<1> QED BY <1>2, <1>3

\* What holds of the diamond for any transactions holds for these.
LEMMA ChainKeeps ==
    ASSUME CommandsInv, CmdKind
    PROVE  IInv' /\ TransactionInv' /\ RegistryInv' /\ WalletTyped'
<1>1. [AnyNext]_vars /\ WalletTyped'
  BY ChainStep DEF CommandsInv, ListInv, CmdKind
<1>2. IInv'
  BY <1>1, IInvStep DEF CommandsInv
<1>3. TransactionInv'
  BY <1>1, StepKinds, TransactionInvStep DEF CommandsInv
<1>4. RegistryInv'
  BY <1>1, RegistryInvStep DEF CommandsInv
<1> QED BY <1>1, <1>2, <1>3, <1>4

LEMMA CommandsKeep ==
    ASSUME CommandsInv, CmdKind
    PROVE  CommandsInv' /\ Grows(txs, MinedCount, txs', MinedCount')
<1>0. IInv' /\ TransactionInv' /\ RegistryInv' /\ WalletTyped'
  BY ChainKeeps
<1>1. ASSUME NEW t \in Terminals, OfTerminal(t)
      PROVE  /\ ListInv' /\ TerminalsInv' /\ SendingAll'
             /\ Grows(txs, MinedCount, txs', MinedCount')
  <2>1. /\ ListInv' /\ Grows(txs, MinedCount, txs', MinedCount')
        /\ CommandInv(cmds'[t]) /\ Sending(cmds'[t], txs', MinedCount')
    BY <1>1, TerminalCommand DEF CommandsInv
  <2>2. CmdsShape' /\ \A u \in Terminals : u # t => cmds'[u] = cmds[u]
    BY <1>1 DEF OfTerminal, Only
  <2>3. TerminalsInv'
    BY <2>1, <2>2 DEF TerminalsInv, CommandsInv
  <2>4. SendingAll'
    <3>1. ASSUME NEW u \in Terminals
          PROVE  Sending(cmds'[u], txs', MinedCount')
      <4>1. Sending(cmds[u], txs', MinedCount')
        BY <2>1, SendingStays DEF CommandsInv, SendingAll
      <4> QED BY <2>1, <2>2, <4>1
    <3> QED BY <3>1 DEF SendingAll
  <2> QED BY <2>1, <2>3, <2>4
<1>2. ASSUME ListInv', UNCHANGED cmds, Grows(txs, MinedCount, txs', MinedCount')
      PROVE  /\ ListInv' /\ TerminalsInv' /\ SendingAll'
             /\ Grows(txs, MinedCount, txs', MinedCount')
  <2>1. TerminalsInv'
    BY <1>2 DEF TerminalsInv, CmdsShape, CommandsInv
  <2>2. ASSUME NEW u \in Terminals
        PROVE  Sending(cmds'[u], txs', MinedCount')
    <3>1. Sending(cmds[u], txs', MinedCount')
      BY <1>2, SendingStays DEF CommandsInv, SendingAll
    <3> QED BY <1>2, <3>1
  <2> QED BY <1>2, <2>1, <2>2 DEF SendingAll
<1>3. ASSUME NEW i, Mines(i)
      PROVE  /\ ListInv' /\ TerminalsInv' /\ SendingAll'
             /\ Grows(txs, MinedCount, txs', MinedCount')
  <2>1. ListInv' /\ Grows(txs, MinedCount, txs', MinedCount')
    BY <1>3, MiningKeeps DEF CommandsInv
  <2> QED BY <1>2, <1>3, <2>1 DEF Mines
<1>4. ASSUME Aside
      PROVE  /\ ListInv' /\ TerminalsInv' /\ SendingAll'
             /\ Grows(txs, MinedCount, txs', MinedCount')
  <2>1. ListInv' /\ Grows(txs, MinedCount, txs', MinedCount')
    BY <1>4, ListStays DEF CommandsInv, Aside
  <2>2. UNCHANGED cmds
    BY <1>4 DEF Aside
  <2> QED BY <1>2, <2>1, <2>2
<1>5. /\ ListInv' /\ TerminalsInv' /\ SendingAll'
      /\ Grows(txs, MinedCount, txs', MinedCount')
  BY <1>1, <1>3, <1>4, Zenon DEF CmdKind
<1> QED BY <1>0, <1>5 DEF CommandsInv

LEMMA CommandsBegin ==
    ASSUME CmdInit
    PROVE  CommandsInv /\ MinedCount = 0 /\ Len(txs) = 0
<1>1. IInv /\ TransactionInv /\ RegistryInv
  BY InitSound, RegistryInit DEF CmdInit, Init, TransactionInv
<1>2. WalletTyped
  BY WalletAssumption DEF CmdInit, WalletTyped
<1>3. txs = <<>> /\ txs \in Seq({}) /\ Len(txs) = 0 /\ DOMAIN txs = {}
  BY DEF CmdInit
<1>4. IsList(txs) /\ MinedTo(txs, 0)
  BY <1>3 DEF IsList, MinedTo
<1>5. MinedCount = 0
  BY <1>4, CountIs
<1>6. ListInv
  BY <1>3, <1>4, <1>5 DEF ListInv, TxsInv, TxsGood
<1>7. ASSUME NEW t \in Terminals
      PROVE  CommandInv(cmds[t]) /\ Sending(cmds[t], txs, MinedCount)
  <2>1. PICK c : c = cmds[t]
    OBVIOUS
  <2>2. /\ IsCommand(c) /\ c.run = 0 /\ c.name = "none" /\ c.todo = <<"start">>
        /\ c.read = <<>> /\ c.seen = 0 /\ c.tx = 0
    BY <2>1 DEF CmdInit, NotStarted, IsCommand
  <2>3. ArgsTyped(c.name, c.args)
    BY <2>2 DEF ArgsTyped
  <2>4. "start" \in Ends
    BY DEF Ends
  <2>5. Planned(c.todo) /\ StepsIn(c.todo, StepsOf(c.name, c.args))
    BY <2>2, <2>4, EndPlanned
  <2>6. HasRead(c) /\ Listing(c)
    BY <2>2, <2>4, HasReadEnd
  <2>7. DOMAIN c.read = {}
    BY <2>2
  <2>8. ReadsTyped(c)
    BY <2>7 DEF ReadsTyped
  <2>9. c.run \in 0 .. MaxRuns
    BY <2>2, MaxRunsAssumption
  <2>10. CommandInv(c)
    BY <2>2, <2>3, <2>5, <2>6, <2>8, <2>9 DEF CommandInv
  <2>11. After(c.todo, "wait", "send") /\ After(c.todo, "verify", "wait")
    BY <2>2, <2>4, EndPlanned DEF Requests
  <2>12. Once(c.todo)
    BY <2>2 DEF Once
  <2>13. Sending(c, txs, MinedCount)
    BY <1>3, <1>5, <2>2, <2>7, <2>11, <2>12 DEF Sending
  <2> QED BY <2>1, <2>10, <2>13
<1>8. CmdsShape
  BY <1>7 DEF CmdInit, CmdsShape, CommandInv
<1> QED BY <1>1, <1>2, <1>3, <1>5, <1>6, <1>7, <1>8 DEF CommandsInv, TerminalsInv, SendingAll

\* The commands and their transactions keep to their steps, and to what the
\* chain takes.
THEOREM CommandsInvariance == CmdSpec => []CommandsInv
<1>1. CmdInit => CommandsInv
  BY CommandsBegin
<1>2. CommandsInv /\ [CmdNext]_termVars => CommandsInv'
  BY CmdStepKind, CommandsKeep
<1> QED BY <1>1, <1>2, PTL DEF CmdSpec

----------------------------------------------------------------------------
(* No command meets a provider without terms where it takes them for       *)
(* granted.                                                                *)

ListedIn(st, ids) == \A k \in DOMAIN ids : Registered(st, ids[k])

Dry(c) == c.name = "registerSP" /\ c.args.dryRun /\ Head(c.todo) \notin Ends

Safe(c, st) ==
    /\ Calm(c.todo)
    /\ c.name = "listSPs" /\ "ids" \in DOMAIN c.read => ListedIn(st, c.read.ids)
    /\ Dry(c) => \/ Head(c.todo) = "config" /\ c.read = <<>>
                 \/ Registered(st, c.args.actorId)

SafeAll == \A t \in Terminals : Safe(cmds[t], s)

\* The providers on the list have terms.
LEMMA IdsRegistered ==
    ASSUME IInv, RegistryInv
    PROVE  ListedIn(s, s.registeredSPIds)
<1>1. s.registeredSPIds \in Seq(Providers)
  BY SoundParts DEF DDOState
<1> SUFFICES ASSUME NEW k \in DOMAIN s.registeredSPIds
             PROVE  Registered(s, s.registeredSPIds[k])
  BY DEF ListedIn
<1>2. PICK p \in Providers : p = s.registeredSPIds[k]
  BY <1>1
<1>3. ASSUME ~Registered(s, p)
      PROVE  FALSE
  <2>1. Cardinality(Occurrences(s.registeredSPIds, p)) = 0
    BY <1>3 DEF RegistryInv
  <2>2. Occurrences(s.registeredSPIds, p) \subseteq 1 .. Len(s.registeredSPIds)
        /\ Len(s.registeredSPIds) \in Nat
    BY <1>1 DEF Occurrences
  <2>3. IsFiniteSet(Occurrences(s.registeredSPIds, p))
    <3>1. IsFiniteSet(1 .. Len(s.registeredSPIds))
      BY <2>2, FS_Interval
    <3> QED BY <2>2, <3>1, FS_Subset
  <2>4. Occurrences(s.registeredSPIds, p) = {}
    BY <2>1, <2>3, FS_EmptySet
  <2>5. k \in Occurrences(s.registeredSPIds, p)
    BY <1>2 DEF Occurrences
  <2> QED BY <2>4, <2>5
<1> QED BY <1>2, <1>3

\* A provider stays registered.
LEMMA StaysRegistered ==
    ASSUME IInv, TransactionInv, RegistryInv, [AnyNext]_vars,
           NEW q \in Providers, Registered(s, q)
    PROVE  Registered(s', q)
<1>1. CASE AnySP
  <2>1. PICK p, config : Changes(p, config)
    BY <1>1, RegistryChange
  <2>2. s'.spConfigs[q] = IF q = p THEN config ELSE s.spConfigs[q]
    BY <2>1, SoundParts DEF Changes, DDOState
  <2> QED BY <2>1, <2>2 DEF Changes, Registered
<1>2. CASE s'.spConfigs = s.spConfigs
  BY <1>2 DEF Registered
<1> QED BY <1>1, <1>2, RegistryAlone

LEMMA SafeStays ==
    ASSUME CommandsInv, [AnyNext]_vars, NEW c, CommandInv(c), Safe(c, s)
    PROVE  Safe(c, s')
<1>1. ASSUME NEW q \in Providers, Registered(s, q)
      PROVE  Registered(s', q)
  BY <1>1, StaysRegistered DEF CommandsInv
<1>2. ASSUME c.name = "listSPs", "ids" \in DOMAIN c.read
      PROVE  ListedIn(s', c.read.ids)
  <2>1. c.read.ids \in Seq(Providers)
    BY <1>2 DEF CommandInv, ReadsTyped
  <2> QED BY <1>1, <1>2, <2>1 DEF Safe, ListedIn
<1>3. Dry(c) /\ Registered(s, c.args.actorId) => Registered(s', c.args.actorId)
  BY <1>1 DEF Dry, CommandInv, ArgsTyped
<1> QED BY <1>2, <1>3 DEF Safe

\* The steps of a terminal.
LEMMA SafeTerminal ==
    ASSUME CommandsInv, NEW t \in Terminals, OfTerminal(t), Safe(cmds[t], s)
    PROVE  Safe(cmds'[t], s)
<1> DEFINE c == cmds[t]
<1> PICK d : d = cmds'[t]
  OBVIOUS
<1>1. CommandInv(c) /\ Planned(c.todo) /\ StepsIn(c.todo, StepsOf(c.name, c.args))
  BY DEF CommandsInv, TerminalsInv, CommandInv
<1>2. ASSUME NEW e \in {"done", "failed"}, d.todo = <<e>>, d.name = c.name,
             c.name = "listSPs" /\ "ids" \in DOMAIN d.read => ListedIn(s, d.read.ids)
      PROVE  Safe(d, s)
  <2>1. Calm(d.todo) /\ Head(d.todo) \in Ends
    BY <1>2 DEF Calm, Ends
  <2> QED BY <1>2, <2>1 DEF Safe, Dry
<1>3. CASE Starting(t)
  <2>1. PICK name, args, todo : Begun(c, d, name, args, todo) /\ Plan(name, args, todo)
    BY <1>3 DEF Starting
  <2>2. DOMAIN d.read = {}
    BY <2>1 DEF Begun
  <2> QED BY <2>1, <2>2 DEF Safe, Dry, Begun, Plan, Orderly
<1>4. CASE Answering(t)
  <2>1. PICK what, answer, todo :
            /\ Learnt(c, d, MinedCount, what, answer, todo)
            /\ Told(c, what, answer) /\ Leads(c, what, answer, todo)
    BY <1>4 DEF Answering
  <2>2. /\ what \notin Ends /\ Keeps(c, d) /\ Head(c.todo) = what /\ d.todo = todo
        /\ Adds(c.read, what, answer, d.read)
    <3>1. d.read = With(c.read, what, answer)
      BY <2>1 DEF Learnt
    <3>2. Adds(c.read, what, answer, d.read)
      BY <3>1, Remembered
    <3> QED BY <2>1, <3>2, ToldAsks DEF Learnt
  <2>3. ASSUME c.name = "listSPs", "ids" \in DOMAIN d.read
        PROVE  ListedIn(s, d.read.ids)
    <3>1. CASE what = "ids"
      <4>1. d.read["ids"] = s.registeredSPIds
        BY <2>1, <2>2, <3>1 DEF Told, Adds
      <4> QED BY <4>1, IdsRegistered DEF CommandsInv
    <3>2. CASE what # "ids"
      <4>1. "ids" \in DOMAIN c.read /\ d.read["ids"] = c.read["ids"]
        BY <2>2, <2>3, <3>2 DEF Adds
      <4> QED BY <2>3, <4>1 DEF Safe
    <3> QED BY <3>1, <3>2
  <2>4. c.name = "registerSP" /\ what \in {"config", "tokens"} => c.args.dryRun
    <3>1. what \in StepsOf(c.name, c.args) \cup Ends
      BY <1>1, <2>2, AsksConfig
    <3>2. c.name = "registerSP" /\ ~c.args.dryRun =>
              StepsOf(c.name, c.args) = {"send", "wait"}
      BY DEF StepsOf
    <3> QED BY <2>2, <3>1, <3>2
  <2>5. CASE todo = Tail(c.todo) /\ Onward(c, what, answer)
    <3>1. Calm(d.todo)
      BY <1>1, <2>2, <2>5, TailPlanned DEF Safe, Calm
    <3>2. ASSUME Dry(d)
          PROVE  Registered(s, d.args.actorId)
      <4>1. Dry(c) /\ d.args = c.args
        BY <2>2, <3>2 DEF Dry, Keeps
      <4>2. CASE what = "config"
        <5>1. isRegisteredSP(Asked(c)) /\ Asked(c) = c.args.actorId
          BY <2>5, <4>1, <4>2 DEF Onward, Asked, Dry
        <5> QED BY <4>1, <5>1 DEF isRegisteredSP, Registered
      <4>3. CASE what # "config"
        BY <2>2, <4>1, <4>3 DEF Safe
      <4> QED BY <4>2, <4>3
    <3> QED BY <2>2, <2>3, <3>1, <3>2 DEF Safe, Keeps
  <2>6. CASE \E e \in {"done", "failed"} : todo = <<e>>
    BY <1>2, <2>2, <2>3, <2>6 DEF Keeps
  <2>7. CASE Panics(c, what)
    <3>1. /\ what = "config" /\ ~isRegisteredSP(Asked(c))
          /\ c.name = "listSPs" \/ (c.name = "registerSP" /\ c.read # <<>>)
      BY <2>7 DEF Panics
    <3>2. CASE c.name = "listSPs"
      <4>1. "ids" \in DOMAIN c.read
        BY <1>1, <2>2, <3>1, <3>2, HasReadHead DEF Needs
      <4>2. c.read.ids \in Seq(Providers) /\ c.read.ids # <<>>
        BY <1>1, <2>2, <3>2, <4>1 DEF CommandInv, ReadsTyped, Listing
      <4>3. 1 \in DOMAIN c.read.ids /\ Head(c.read.ids) = c.read.ids[1]
        BY <4>2
      <4>4. Registered(s, Asked(c))
        BY <3>2, <4>1, <4>3 DEF Safe, ListedIn, Asked
      <4> QED BY <3>1, <4>4 DEF Registered, isRegisteredSP
    <3>3. CASE c.name = "registerSP" /\ c.read # <<>>
      <4>1. Dry(c)
        BY <2>2, <2>4, <3>1, <3>3 DEF Dry
      <4>2. Registered(s, c.args.actorId) /\ Asked(c) = c.args.actorId
        BY <3>3, <4>1 DEF Safe, Asked
      <4> QED BY <3>1, <4>2 DEF Registered, isRegisteredSP
    <3> QED BY <3>1, <3>2, <3>3
  <2> QED BY <2>1, <2>5, <2>6, <2>7 DEF Leads
<1>5. CASE Ending(t)
  <2>1. PICK e \in {"done", "failed"} : Gone(c, d, <<e>>)
    BY <1>5 DEF Ending
  <2>2. d.todo = <<e>> /\ d.name = c.name /\ d.read = c.read
    BY <2>1 DEF Gone, Keeps
  <2> QED BY <1>2, <2>2 DEF Safe
<1>6. CASE Waiting(t) \/ SentBy(c, d, Len(txs) + 1)
  <2>1. /\ Head(c.todo) \in {"send", "wait"} /\ d.todo = Tail(c.todo)
        /\ d.name = c.name /\ d.read = c.read /\ d.args = c.args
    BY <1>6 DEF Waiting, At, Rest, Gone, SentBy, Keeps
  <2>2. Head(c.todo) \notin Ends
    BY <2>1 DEF Ends
  <2>3. Calm(d.todo)
    BY <1>1, <2>1, <2>2, TailPlanned DEF Safe, Calm
  <2>4. ~Dry(c)
    <3>1. Dry(c) => StepsOf(c.name, c.args) = {"config", "tokens"}
      BY DEF Dry, StepsOf
    <3> QED BY <1>1, <2>1, <2>2, <3>1, AsksConfig
  <2>5. ~Dry(d)
    BY <2>1, <2>2, <2>4 DEF Dry
  <2> QED BY <2>1, <2>3, <2>5 DEF Safe
<1>7. CASE RowGone(c, d)
  <2>1. /\ c.name = "listSPs" /\ d.name = c.name /\ d.todo = NextRow(c)
        /\ d.read = [c.read EXCEPT !.ids = Tail(@)]
        /\ Head(c.todo) \in {"config", "tokens"}
    BY <1>7 DEF RowGone, Keeps
  <2>2. "ids" \in DOMAIN c.read
    BY <1>1, <2>1, HasReadHead DEF Needs
  <2>3. c.read.ids \in Seq(Providers) /\ c.read.ids # <<>>
    BY <1>1, <2>1, <2>2 DEF CommandInv, ReadsTyped, Listing, Ends
  <2>4. PICK ids : ids = c.read.ids
    OBVIOUS
  <2>5. ListedIn(s, Tail(ids))
    <3>1. ListedIn(s, ids)
      BY <2>1, <2>2, <2>4 DEF Safe
    <3>2. \A k \in DOMAIN Tail(ids) : k + 1 \in DOMAIN ids /\ Tail(ids)[k] = ids[k + 1]
      BY <2>3, <2>4
    <3> QED BY <3>1, <3>2 DEF ListedIn
  <2>6. d.read.ids = Tail(ids)
    BY <2>1, <2>2, <2>4
  <2>7. Calm(d.todo)
    BY <2>1 DEF NextRow, Calm
  <2> QED BY <2>1, <2>5, <2>6, <2>7 DEF Safe, Dry
<1> QED BY <1>3, <1>4, <1>5, <1>6, <1>7 DEF OfTerminal, Running

LEMMA SafeStep ==
    ASSUME CommandsInv, SafeAll, CmdKind
    PROVE  SafeAll'
<1>0. [AnyNext]_vars
  BY ChainStep DEF CommandsInv, ListInv, CmdKind
<1>1. ASSUME NEW t \in Terminals
      PROVE  Safe(cmds[t], s')
  BY <1>0, SafeStays DEF CommandsInv, TerminalsInv, SafeAll
<1>2. ASSUME NEW t \in Terminals, OfTerminal(t)
      PROVE  SafeAll'
  <2>1. Safe(cmds'[t], s)
    BY <1>2, SafeTerminal DEF SafeAll
  <2>2. s' = s /\ \A u \in Terminals : u # t => cmds'[u] = cmds[u]
    BY <1>2 DEF OfTerminal, Quiet, Only
  <2> QED BY <1>1, <2>1, <2>2 DEF SafeAll
<1>3. UNCHANGED cmds => SafeAll'
  BY <1>1 DEF SafeAll
<1> QED BY <1>2, <1>3 DEF CmdKind, Mines, Aside

\* The list of the providers, and the second look of a dry run, never come to a
\* provider without terms, however the owner's commands overlap.
THEOREM TermsAreThere == CmdSpec => []NeverPanics
<1>1. CmdInit => SafeAll
  <2> SUFFICES ASSUME CmdInit, NEW t \in Terminals
               PROVE  Safe(cmds[t], s)
    BY DEF SafeAll
  <2>1. /\ cmds[t].name = "none" /\ cmds[t].todo = <<"start">>
    BY DEF CmdInit, NotStarted
  <2> QED BY <2>1 DEF Safe, Dry, Calm
<1>2. CommandsInv /\ SafeAll /\ [CmdNext]_termVars => SafeAll'
  BY CmdStepKind, SafeStep
<1>3. CommandsInv /\ SafeAll => NeverPanics
  <2> SUFFICES ASSUME CommandsInv, SafeAll, NEW t \in Terminals
               PROVE  Head(cmds[t].todo) # "panicked"
    BY DEF NeverPanics, At
  <2>1. Planned(cmds[t].todo) /\ Calm(cmds[t].todo)
    BY DEF CommandsInv, TerminalsInv, CommandInv, SafeAll, Safe
  <2>2. 1 \in DOMAIN cmds[t].todo /\ Head(cmds[t].todo) = cmds[t].todo[1]
    BY <2>1 DEF Planned
  <2> QED BY <2>1, <2>2 DEF Calm
<1> QED BY <1>1, <1>2, <1>3, CommandsInvariance, PTL DEF CmdSpec

----------------------------------------------------------------------------
(* Where an answer that a command has comes from.                          *)

Recalls(c, d, x) == x \in DOMAIN c.read /\ d.read[x] = c.read[x] /\ d.seen = c.seen

Hears(c, d, x) ==
    /\ Head(c.todo) = x /\ Told(c, x, d.read[x])
    /\ d.seen = IF c.read = <<>> THEN MinedCount ELSE c.seen

Same(c, d) ==
    /\ d.name = c.name /\ d.args = c.args
    /\ d.tx = c.tx \/ (c.tx = 0 /\ Head(c.todo) = "send")

LEMMA ReadsFrom ==
    ASSUME CommandsInv, NEW t \in Terminals, OfTerminal(t),
           NEW x \in DOMAIN cmds'[t].read \ {"ids"}
    PROVE  /\ Same(cmds[t], cmds'[t])
           /\ Recalls(cmds[t], cmds'[t], x) \/ Hears(cmds[t], cmds'[t], x)
<1> DEFINE c == cmds[t]
<1> PICK d : d = cmds'[t]
  OBVIOUS
<1>1. /\ CommandInv(c) /\ Planned(c.todo) /\ Once(c.todo)
      /\ c.tx # 0 => NoSend(c.todo)
  BY DEF CommandsInv, TerminalsInv, CommandInv, SendingAll, Sending
<1>2. CASE Starting(t)
  BY <1>2 DEF Starting, Begun
<1>3. CASE Answering(t)
  <2>1. PICK what, answer, todo :
            Learnt(c, d, MinedCount, what, answer, todo) /\ Told(c, what, answer)
    BY <1>3 DEF Answering
  <2>2. /\ Head(c.todo) = what /\ d.tx = c.tx /\ d.name = c.name /\ d.args = c.args
        /\ d.read = With(c.read, what, answer)
        /\ d.seen = IF c.read = <<>> THEN MinedCount ELSE c.seen
    BY <2>1 DEF Learnt, Keeps
  <2>3. Adds(c.read, what, answer, d.read)
    BY <2>2, Remembered
  <2>4. CASE x = what
    BY <2>1, <2>2, <2>3, <2>4 DEF Hears, Same, Adds
  <2>5. CASE x # what
    <3>1. x \in DOMAIN c.read /\ d.read[x] = c.read[x]
      BY <2>3, <2>5 DEF Adds
    <3>2. c.read # <<>>
      <4>1. DOMAIN <<>> = {}
        OBVIOUS
      <4> QED BY <3>1, <4>1
    <3> QED BY <2>2, <3>1, <3>2 DEF Recalls, Same
  <2> QED BY <2>4, <2>5
<1>4. CASE Waiting(t) \/ Ending(t)
  <2>1. /\ d.tx = c.tx /\ d.name = c.name /\ d.args = c.args
        /\ d.read = c.read /\ d.seen = c.seen
    BY <1>4 DEF Waiting, Ending, Gone, Keeps
  <2> QED BY <2>1 DEF Recalls, Same
<1>5. CASE SentBy(c, d, Len(txs) + 1)
  <2>1. /\ Head(c.todo) = "send" /\ d.name = c.name /\ d.args = c.args
        /\ d.read = c.read /\ d.seen = c.seen
    BY <1>5 DEF SentBy, Keeps
  <2>2. Head(c.todo) \notin Ends
    BY <2>1 DEF Ends
  <2>3. c.tx = 0
    <3>1. c.tx # 0 => Head(c.todo) # "send"
      BY <1>1, <2>2, TailOnce
    <3> QED BY <2>1, <3>1
  <2> QED BY <2>1, <2>3 DEF Recalls, Same
<1>6. CASE RowGone(c, d)
  <2>1. /\ d.name = c.name /\ d.args = c.args /\ d.tx = c.tx /\ d.seen = c.seen
        /\ d.read = [c.read EXCEPT !.ids = Tail(@)]
    BY <1>6 DEF RowGone, Keeps
  <2>2. x \in DOMAIN c.read /\ d.read[x] = c.read[x]
    BY <2>1
  <2> QED BY <2>1, <2>2 DEF Recalls, Same
<1> QED BY <1>2, <1>3, <1>4, <1>5, <1>6 DEF OfTerminal, Running


----------------------------------------------------------------------------
(* What holds between two transactions of the key.                         *)

LEMMA TerminalTxs ==
    ASSUME NEW t \in Terminals, OfTerminal(t)
    PROVE  Quiet /\ (UNCHANGED txs \/ Appending(t))
BY DEF OfTerminal, Running, Answering, Waiting

\* A transaction was decided on before it was sent.
TxsSeen == \A j \in DOMAIN txs : txs[j].seen <= MinedCount

LEMMA SeenStep ==
    ASSUME CommandsInv, TxsSeen, CmdKind
    PROVE  TxsSeen'
<1>1. /\ MinedCount \in 0 .. Len(txs) /\ Len(txs) \in Nat
      /\ \A j \in DOMAIN txs : txs[j].seen \in Nat
  BY MinedOrder DEF CommandsInv, ListInv, TxsGood
<1>2. ASSUME UNCHANGED txs
      PROVE  TxsSeen'
  <2>1. MinedCount' = MinedCount
    BY <1>2, ListStays DEF CommandsInv
  <2> QED BY <1>2, <2>1 DEF TxsSeen
<1>3. ASSUME NEW t \in Terminals, Appending(t)
      PROVE  TxsSeen'
  <2>1. /\ MinedCount' = MinedCount
        /\ DOMAIN txs' = DOMAIN txs \cup {Len(txs) + 1}
        /\ \A i \in DOMAIN txs : txs'[i] = txs[i]
        /\ txs'[Len(txs) + 1].seen = IF cmds[t].read = <<>> THEN MinedCount
                                     ELSE cmds[t].seen
    BY <1>3, AppendingKeeps DEF CommandsInv
  <2>2. cmds[t].seen \in 0 .. MinedCount
    BY DEF CommandsInv, SendingAll, Sending
  <2>3. txs'[Len(txs) + 1].seen <= MinedCount
    BY <1>1, <2>1, <2>2
  <2> QED BY <2>1, <2>3 DEF TxsSeen
<1>4. ASSUME NEW i, Mines(i)
      PROVE  TxsSeen'
  <2>1. /\ i = MinedCount + 1 /\ MinedCount' = i /\ DOMAIN txs' = DOMAIN txs
        /\ \A j \in DOMAIN txs : SameTx(txs[j], txs'[j])
    BY <1>4, MiningKeeps DEF CommandsInv
  <2>2. \A j \in DOMAIN txs : txs'[j].seen = txs[j].seen
    BY <2>1 DEF SameTx
  <2> QED BY <1>1, <2>1, <2>2 DEF TxsSeen
<1> QED BY <1>2, <1>3, <1>4, TerminalTxs DEF CmdKind, Aside

LEMMA SeenBefore == CmdSpec => []TxsSeen
<1>1. CmdInit => TxsSeen
  BY DEF CmdInit, TxsSeen
<1>2. CommandsInv /\ TxsSeen /\ [CmdNext]_termVars => TxsSeen'
  BY CmdStepKind, SeenStep
<1> QED BY <1>1, <1>2, CommandsInvariance, PTL DEF CmdSpec

\* An answer that no transaction was mined since is one of the moment, or was
\* there before the step.
LEMMA AnswersKept ==
    ASSUME CommandsInv, CmdKind, NEW u \in Terminals,
           NEW x \in DOMAIN cmds'[u].read \ {"ids"}, cmds'[u].seen = MinedCount'
    PROVE  /\ MinedCount' = MinedCount /\ (Quiet \/ Aside)
           /\ cmds'[u].name = cmds[u].name /\ cmds'[u].args = cmds[u].args
           /\ \/ /\ x \in DOMAIN cmds[u].read /\ cmds'[u].read[x] = cmds[u].read[x]
                 /\ cmds[u].seen = MinedCount
              \/ /\ Quiet /\ Head(cmds[u].todo) = x
                 /\ Told(cmds[u], x, cmds'[u].read[x])
<1>1. ASSUME NEW t \in Terminals, OfTerminal(t)
      PROVE  MinedCount' = MinedCount /\ Quiet
  BY <1>1, TerminalTxs, ListStays, AppendingKeeps DEF CommandsInv
<1>2. CASE OfTerminal(u)
  <2>1. /\ Same(cmds[u], cmds'[u])
        /\ Recalls(cmds[u], cmds'[u], x) \/ Hears(cmds[u], cmds'[u], x)
    BY <1>2, ReadsFrom
  <2> QED BY <1>1, <1>2, <2>1 DEF Same, Recalls, Hears
<1>3. ASSUME NEW t \in Terminals, OfTerminal(t), t # u
      PROVE  MinedCount' = MinedCount /\ Quiet /\ cmds'[u] = cmds[u]
  BY <1>1, <1>3 DEF OfTerminal, Only
<1>4. ASSUME NEW i, Mines(i)
      PROVE  FALSE
  <2>1. MinedCount' = MinedCount + 1 /\ cmds' = cmds
    BY <1>4, MiningKeeps DEF CommandsInv, Mines
  <2>2. cmds[u].seen \in 0 .. MinedCount /\ MinedCount \in Nat
    BY MinedOrder DEF CommandsInv, ListInv, SendingAll, Sending
  <2> QED BY <2>1, <2>2
<1>5. CASE Aside
  <2>1. MinedCount' = MinedCount /\ cmds' = cmds
    BY <1>5, ListStays DEF CommandsInv, Aside
  <2> QED BY <1>5, <2>1
<1> QED BY <1>2, <1>3, <1>4, <1>5 DEF CmdKind

\* A transaction nothing was mined since is one that a command sends, or was
\* on the list before.
LEMMA TransactionsKept ==
    ASSUME CommandsInv, TxsSeen, CmdKind,
           NEW j \in DOMAIN txs', txs'[j].seen = MinedCount'
    PROVE  /\ MinedCount' = MinedCount /\ (Quiet \/ Aside)
           /\ \/ j \in DOMAIN txs /\ txs'[j] = txs[j]
              \/ \E t \in Terminals :
                    /\ Quiet /\ Head(cmds[t].todo) = "send"
                    /\ txs'[j].fn = cmds[t].name /\ txs'[j].args = cmds[t].args
                    /\ txs'[j].arg = Argument(cmds[t])
                    /\ cmds[t].read = <<>> \/ cmds[t].seen = MinedCount
<1>1. ASSUME UNCHANGED txs
      PROVE  MinedCount' = MinedCount /\ j \in DOMAIN txs /\ txs'[j] = txs[j]
  BY <1>1, ListStays DEF CommandsInv
<1>2. ASSUME NEW t \in Terminals, OfTerminal(t), Appending(t)
      PROVE  /\ MinedCount' = MinedCount /\ Quiet
             /\ \/ j \in DOMAIN txs /\ txs'[j] = txs[j]
                \/ /\ Quiet /\ Head(cmds[t].todo) = "send"
                   /\ txs'[j].fn = cmds[t].name /\ txs'[j].args = cmds[t].args
                   /\ txs'[j].arg = Argument(cmds[t])
                   /\ cmds[t].read = <<>> \/ cmds[t].seen = MinedCount
  <2>1. /\ MinedCount' = MinedCount
        /\ DOMAIN txs' = DOMAIN txs \cup {Len(txs) + 1}
        /\ \A i \in DOMAIN txs : txs'[i] = txs[i]
        /\ txs'[Len(txs) + 1].fn = cmds[t].name
        /\ txs'[Len(txs) + 1].args = cmds[t].args
        /\ txs'[Len(txs) + 1].arg = Argument(cmds[t])
        /\ txs'[Len(txs) + 1].seen = IF cmds[t].read = <<>> THEN MinedCount
                                     ELSE cmds[t].seen
    BY <1>2, AppendingKeeps DEF CommandsInv
  <2>2. Quiet /\ Head(cmds[t].todo) = "send"
    BY <1>2 DEF OfTerminal, Appending, At
  <2> QED BY <2>1, <2>2
<1>3. ASSUME NEW i, Mines(i)
      PROVE  FALSE
  <2>1. /\ i = MinedCount + 1 /\ MinedCount' = i /\ DOMAIN txs' = DOMAIN txs
        /\ \A k \in DOMAIN txs : SameTx(txs[k], txs'[k])
    BY <1>3, MiningKeeps DEF CommandsInv
  <2>2. j \in DOMAIN txs /\ txs'[j].seen = txs[j].seen
    BY <2>1 DEF SameTx
  <2>3. txs[j].seen <= MinedCount /\ MinedCount \in Nat /\ txs[j].seen \in Nat
    BY <2>2, MinedOrder DEF TxsSeen, TxsGood, CommandsInv, ListInv
  <2> QED BY <2>1, <2>2, <2>3
<1>4. ASSUME NEW t \in Terminals, OfTerminal(t), UNCHANGED txs
      PROVE  Quiet
  BY <1>4 DEF OfTerminal
<1> QED BY <1>1, <1>2, <1>3, <1>4, TerminalTxs, Zenon DEF CmdKind, Aside

\* A transaction that succeeds is the next of the key.
LEMMA SucceedsByMining ==
    ASSUME CommandsInv, CmdKind, NEW i \in DOMAIN txs, Succeeds(i)
    PROVE  Mines(i) /\ Effect(txs[i]) /\ i = MinedCount + 1
<1>1. ASSUME UNCHANGED txs
      PROVE  FALSE
  BY <1>1 DEF Succeeds
<1>2. ASSUME NEW t \in Terminals, Appending(t)
      PROVE  FALSE
  <2>1. txs'[i] = txs[i]
    BY <1>2, AppendingKeeps DEF CommandsInv
  <2> QED BY <2>1 DEF Succeeds
<1>3. ASSUME NEW j, Mines(j)
      PROVE  Mines(i) /\ Effect(txs[i]) /\ i = MinedCount + 1
  <2>1. /\ j = MinedCount + 1 /\ \A k \in DOMAIN txs : k # j => txs'[k] = txs[k]
        /\ \/ Succeeded(j) /\ txs'[j].status = "succeeded"
           \/ Reverted(j) /\ txs'[j].status = "reverted"
    BY <1>3, MiningKeeps DEF CommandsInv
  <2>2. i = j
    BY <2>1 DEF Succeeds
  <2> QED BY <1>3, <2>1, <2>2, Zenon DEF Succeeds, Succeeded
<1> QED BY <1>1, <1>2, <1>3, TerminalTxs, Zenon DEF CmdKind, Aside


----------------------------------------------------------------------------
(* The owner's answers.                                                    *)

\* What a transaction with this name does.
LEMMA EffectIs ==
    ASSUME NEW tx, Effect(tx)
    PROVE  /\ tx.fn = "registerSP" => RegisterSP(tx)
           /\ tx.fn = "updateSPConfig" => UpdateSPConfig(tx)
           /\ tx.fn = "addSPToken" => AddSPToken(tx)
           /\ tx.fn = "updateSPToken" => UpdateSPToken(tx)
           /\ tx.fn = "removeSPToken" => RemoveSPToken(tx)
           /\ tx.fn = "deactivateSP" => DeactivateSP(tx)
           /\ tx.fn = "approveToken" => Approve(tx)
           /\ tx.fn = "setOperatorApproval" => SetOperatorApprovalOf(tx)
<1>1. CASE OwnerTransactions(tx)
  BY <1>1 DEF OwnerTransactions, RegisterSP, UpdateSPConfig, DeactivateSP, AddSPToken,
              UpdateSPToken, RemoveSPToken, SetPaymentsContract, SetCommissionRate,
              SetAllocationLockupAmount, Pause, Unpause, BlacklistSector
<1>2. CASE PaymentsTransactions(tx)
  BY <1>2 DEF PaymentsTransactions, Approve, SetOperatorApprovalOf, WithdrawOf, WithdrawTo
<1> QED BY <1>1, <1>2 DEF Effect

\* Nobody else has the owner's key: the registry changes by the transactions
\* of the commands only.
OwnersStep == UNCHANGED txs => s'.spConfigs = s.spConfigs

OwnerAlone == [][OwnersStep]_termVars

TermsOf(st, p) == [st.spConfigs[p] EXCEPT !.supportedTokens = <<>>]

ConfigRead(c) ==
    /\ c.name \in {"updateSPConfig", "querySP"} /\ "config" \in DOMAIN c.read =>
          c.read.config = TermsOf(s, c.args.actorId)
    /\ c.name = "querySP" /\ "tokens" \in DOMAIN c.read =>
          c.read.tokens \in {<<>>, s.spConfigs[c.args.actorId].supportedTokens}

TermsSent(tx) ==
    tx.fn = "updateSPConfig" =>
        tx.arg = Defaulted(tx.args.given, s.spConfigs[tx.args.actorId])

\* As long as no transaction was mined since.
TermsRead ==
    /\ TxsSeen
    /\ \A t \in Terminals : cmds[t].seen = MinedCount => ConfigRead(cmds[t])
    /\ \A j \in DOMAIN txs : txs[j].seen = MinedCount => TermsSent(txs[j])

LEMMA DefaultedIs ==
    ASSUME NEW given, NEW config \in SPConfig
    PROVE  Defaulted(given, [config EXCEPT !.supportedTokens = <<>>]) = Defaulted(given, config)
BY DEF Defaulted, SPConfig

LEMMA TermsReadStep ==
    ASSUME CommandsInv, TermsRead, CmdKind, Aside => s'.spConfigs = s.spConfigs
    PROVE  TermsRead'
<1>1. TxsSeen'
  BY SeenStep DEF TermsRead
<1>2. Quiet \/ Aside => s'.spConfigs = s.spConfigs
  BY DEF Quiet
<1>3. ASSUME NEW u \in Terminals, cmds'[u].seen = MinedCount'
      PROVE  ConfigRead(cmds[u])'
  <2>1. PICK c, d : c = cmds[u] /\ d = cmds'[u]
    OBVIOUS
  <2>2. ASSUME d.name \in {"updateSPConfig", "querySP"}, "config" \in DOMAIN d.read
        PROVE  d.read.config = [s'.spConfigs[d.args.actorId] EXCEPT !.supportedTokens = <<>>]
    <3>1. /\ MinedCount' = MinedCount /\ s'.spConfigs = s.spConfigs
          /\ d.name = c.name /\ d.args = c.args
          /\ \/ /\ "config" \in DOMAIN c.read /\ d.read["config"] = c.read["config"]
                /\ c.seen = MinedCount
             \/ Told(c, "config", d.read["config"])
      BY <1>2, <1>3, <2>1, <2>2, AnswersKept
    <3>2. CASE "config" \in DOMAIN c.read /\ d.read["config"] = c.read["config"]
               /\ c.seen = MinedCount
      <4>1. ConfigRead(c)
        BY <2>1, <3>2 DEF TermsRead
      <4> QED BY <2>2, <3>1, <3>2, <4>1 DEF ConfigRead, TermsOf
    <3>3. CASE Told(c, "config", d.read["config"])
      BY <2>2, <3>1, <3>3 DEF Told, Asked
    <3> QED BY <3>1, <3>2, <3>3
  <2>3. ASSUME d.name = "querySP", "tokens" \in DOMAIN d.read
        PROVE  d.read.tokens \in {<<>>, s'.spConfigs[d.args.actorId].supportedTokens}
    <3>1. /\ MinedCount' = MinedCount /\ s'.spConfigs = s.spConfigs
          /\ d.name = c.name /\ d.args = c.args
          /\ \/ /\ "tokens" \in DOMAIN c.read /\ d.read["tokens"] = c.read["tokens"]
                /\ c.seen = MinedCount
             \/ Told(c, "tokens", d.read["tokens"])
      BY <1>2, <1>3, <2>1, <2>3, AnswersKept
    <3>2. CASE "tokens" \in DOMAIN c.read /\ d.read["tokens"] = c.read["tokens"]
               /\ c.seen = MinedCount
      <4>1. ConfigRead(c)
        BY <2>1, <3>2 DEF TermsRead
      <4> QED BY <2>3, <3>1, <3>2, <4>1 DEF ConfigRead
    <3>3. CASE Told(c, "tokens", d.read["tokens"])
      BY <2>3, <3>1, <3>3 DEF Told, Asked
    <3> QED BY <3>1, <3>2, <3>3
  <2> QED BY <2>1, <2>2, <2>3 DEF ConfigRead, TermsOf
<1>4. ASSUME NEW j \in DOMAIN txs', txs'[j].seen = MinedCount'
      PROVE  TermsSent(txs[j])'
  <2>1. PICK tx : tx = txs'[j]
    OBVIOUS
  <2>2. SUFFICES ASSUME tx.fn = "updateSPConfig"
                 PROVE  tx.arg = Defaulted(tx.args.given, s'.spConfigs[tx.args.actorId])
    BY <2>1 DEF TermsSent
  <2>3. MinedCount' = MinedCount /\ s'.spConfigs = s.spConfigs
    BY <1>2, <1>4, TransactionsKept DEF TermsRead
  <2>4. CASE j \in DOMAIN txs /\ txs'[j] = txs[j]
    <3>1. TermsSent(tx)
      BY <1>4, <2>1, <2>3, <2>4 DEF TermsRead
    <3> QED BY <2>2, <2>3, <3>1 DEF TermsSent
  <2>5. ASSUME NEW t \in Terminals,
               Head(cmds[t].todo) = "send" /\ tx.fn = cmds[t].name
                   /\ tx.args = cmds[t].args /\ tx.arg = Argument(cmds[t])
                   /\ (cmds[t].read = <<>> \/ cmds[t].seen = MinedCount)
        PROVE  tx.arg = Defaulted(tx.args.given, s'.spConfigs[tx.args.actorId])
    <3>1. PICK c : c = cmds[t]
      OBVIOUS
    <3>2. CommandInv(c) /\ c.name = "updateSPConfig" /\ Head(c.todo) = "send"
      BY <2>2, <2>5, <3>1 DEF CommandsInv, TerminalsInv
    <3>3. "config" \in DOMAIN c.read
      BY <3>2, HasReadHead DEF Needs
    <3>4. c.read # <<>>
      <4>1. DOMAIN <<>> = {}
        OBVIOUS
      <4> QED BY <3>3, <4>1
    <3>5. c.read.config = TermsOf(s, c.args.actorId)
      BY <2>5, <3>1, <3>2, <3>3, <3>4 DEF TermsRead, ConfigRead
    <3>6. c.args.actorId \in Providers
      BY <3>2 DEF CommandInv, ArgsTyped
    <3>7. s.spConfigs[c.args.actorId] \in SPConfig
      BY <3>6, SoundParts DEF CommandsInv, DDOState
    <3>8. Argument(c) = Defaulted(c.args.given, c.read.config)
      BY <3>2, ArgumentTyped
    <3> QED BY <2>3, <2>5, <3>1, <3>5, <3>7, <3>8, DefaultedIs DEF TermsOf
  <2> QED BY <1>4, <2>1, <2>4, <2>5, TransactionsKept DEF TermsRead
<1> QED BY <1>1, <1>3, <1>4 DEF TermsRead


LEMMA AsideAlone ==
    ASSUME Aside, [OwnersStep]_termVars
    PROVE  s'.spConfigs = s.spConfigs
BY DEF Aside, OwnersStep, termVars

LEMMA TermsAreRead == CmdSpec /\ OwnerAlone => []TermsRead
<1>1. CmdInit => TermsRead
  <2> SUFFICES ASSUME CmdInit
               PROVE  TermsRead
    OBVIOUS
  <2>1. DOMAIN txs = {} /\ TxsSeen
    BY DEF CmdInit, TxsSeen
  <2>2. \A t \in Terminals : ConfigRead(cmds[t])
    BY DEF CmdInit, NotStarted, ConfigRead
  <2> QED BY <2>1, <2>2 DEF TermsRead
<1>2. CommandsInv /\ TermsRead /\ [CmdNext]_termVars /\ [OwnersStep]_termVars => TermsRead'
  BY CmdStepKind, TermsReadStep, AsideAlone
<1> QED BY <1>1, <1>2, CommandsInvariance, PTL DEF CmdSpec, OwnerAlone

LEMMA UpdateEffect ==
    ASSUME CommandsInv, TermsRead, CmdKind, NEW i \in DOMAIN txs,
           Succeeds(i), Fresh(i), txs[i].fn = "updateSPConfig"
    PROVE  s'.spConfigs[txs[i].args.actorId] =
              [s.spConfigs[txs[i].args.actorId] EXCEPT
                  !.paymentAddress = txs[i].args.given.paymentAddress,
                  !.minPieceSize = Or(txs[i].args.given.minPieceSize, @),
                  !.maxPieceSize = Or(txs[i].args.given.maxPieceSize, @),
                  !.minTermLength = Or(txs[i].args.given.minTermLength, @),
                  !.maxTermLength = Or(txs[i].args.given.maxTermLength, @)]
<1>1. PICK p, given, arg :
          p = txs[i].args.actorId /\ given = txs[i].args.given /\ arg = txs[i].arg
  OBVIOUS
<1>2. Effect(txs[i]) /\ txs[i].seen = MinedCount
  <2>1. i = MinedCount + 1 /\ MinedCount \in Nat
    BY SucceedsByMining, MinedOrder DEF CommandsInv, ListInv
  <2> QED BY <2>1, SucceedsByMining DEF Fresh
<1>3. p \in Providers
  BY <1>1 DEF CommandsInv, ListInv, TxsGood, TxTyped, ArgsTyped
<1>4. PICK config \in SPConfig : config = s.spConfigs[p]
  BY <1>3, SoundParts DEF CommandsInv, DDOState
<1>5. arg = Defaulted(given, config)
  BY <1>1, <1>2, <1>4 DEF TermsRead, TermsSent
<1>6. updateSPConfig(p, arg)
  BY <1>1, <1>2, EffectIs DEF UpdateSPConfig
<1>7. s'.spConfigs[p] = WithTerms(config, arg)
  BY <1>3, <1>4, <1>6, SoundParts DEF CommandsInv, updateSPConfig, DDOState
<1>8. WithTerms(config, arg) =
          [config EXCEPT
              !.paymentAddress = given.paymentAddress,
              !.minPieceSize = Or(given.minPieceSize, @),
              !.maxPieceSize = Or(given.maxPieceSize, @),
              !.minTermLength = Or(given.minTermLength, @),
              !.maxTermLength = Or(given.maxTermLength, @)]
  BY <1>5 DEF WithTerms, Defaulted, SPConfig
<1> QED BY <1>1, <1>4, <1>7, <1>8

\* An update of the terms that nothing of the owner's came between changes what
\* it was given and nothing else.
THEOREM UpdatesKeepTerms == CmdSpec /\ OwnerAlone => UpdateKeepsTerms
<1>1. CommandsInv /\ TermsRead /\ [CmdNext]_termVars =>
          [\A i \in DOMAIN txs :
              Succeeds(i) /\ Fresh(i) /\ txs[i].fn = "updateSPConfig" =>
                  LET p == txs[i].args.actorId
                      given == txs[i].args.given
                  IN  s'.spConfigs[p] =
                        [s.spConfigs[p] EXCEPT
                            !.paymentAddress = given.paymentAddress,
                            !.minPieceSize = Or(given.minPieceSize, @),
                            !.maxPieceSize = Or(given.maxPieceSize, @),
                            !.minTermLength = Or(given.minTermLength, @),
                            !.maxTermLength = Or(given.maxTermLength, @)]]_termVars
  BY CmdStepKind, UpdateEffect
<1> QED BY <1>1, TermsAreRead, CommandsInvariance, PTL DEF CmdSpec, UpdateKeepsTerms


----------------------------------------------------------------------------
(* What is approved fits into a word, if what was asked for does and no    *)
(* balance is more than half of the largest amount: without a limit twice  *)
(* the balance is approved.                                                *)

BalancesFit == \A token \in Tokens : 2 * wallet[token].balance <= MaxUint256

BalanceFits(c) ==
    c.name = "approveToken" /\ "balance" \in DOMAIN c.read =>
        2 * c.read.balance <= MaxUint256

AmountFits(tx) == tx.fn = "approveToken" => tx.arg.amount <= MaxUint256

FitsInv ==
    /\ \A t \in Terminals : BalanceFits(cmds[t])
    /\ \A i \in DOMAIN txs : AmountFits(txs[i])

\* What a terminal's step does to a command.
LEMMA CommandOf ==
    ASSUME CommandsInv, CmdKind, NEW u \in Terminals,
           NEW x \in DOMAIN cmds'[u].read \ {"ids"}
    PROVE  /\ Same(cmds[u], cmds'[u])
           /\ cmds'[u].name = cmds[u].name /\ cmds'[u].args = cmds[u].args
           /\ \/ x \in DOMAIN cmds[u].read /\ cmds'[u].read[x] = cmds[u].read[x]
              \/ /\ Quiet /\ Head(cmds[u].todo) = x
                 /\ Told(cmds[u], x, cmds'[u].read[x])
<1>1. ASSUME NEW t \in Terminals, OfTerminal(t), t # u
      PROVE  cmds'[u] = cmds[u]
  BY <1>1 DEF OfTerminal, Only
<1>2. CASE OfTerminal(u)
  <2>1. /\ Same(cmds[u], cmds'[u])
        /\ Recalls(cmds[u], cmds'[u], x) \/ Hears(cmds[u], cmds'[u], x)
    BY <1>2, ReadsFrom
  <2> QED BY <1>2, <2>1 DEF Same, Recalls, Hears, OfTerminal
<1>3. ASSUME UNCHANGED cmds
      PROVE  cmds'[u] = cmds[u]
  BY <1>3
<1> QED BY <1>1, <1>2, <1>3 DEF CmdKind, Mines, Aside, Same

\* What a step does to the list.
LEMMA TransactionOf ==
    ASSUME CommandsInv, CmdKind, NEW j \in DOMAIN txs'
    PROVE  \/ j \in DOMAIN txs /\ SameTx(txs[j], txs'[j])
           \/ \E t \in Terminals :
                 /\ Head(cmds[t].todo) = "send"
                 /\ txs'[j].fn = cmds[t].name /\ txs'[j].args = cmds[t].args
                 /\ txs'[j].arg = Argument(cmds[t]) /\ txs'[j].status = "pending"
<1>1. \A i \in DOMAIN txs : SameTx(txs[i], txs[i])
  BY DEF SameTx, CommandsInv, ListInv, TxsInv
<1>2. ASSUME UNCHANGED txs
      PROVE  j \in DOMAIN txs /\ SameTx(txs[j], txs'[j])
  BY <1>1, <1>2
<1>3. ASSUME NEW t \in Terminals, Appending(t)
      PROVE  \/ j \in DOMAIN txs /\ SameTx(txs[j], txs'[j])
             \/ /\ Head(cmds[t].todo) = "send"
                /\ txs'[j].fn = cmds[t].name /\ txs'[j].args = cmds[t].args
                /\ txs'[j].arg = Argument(cmds[t]) /\ txs'[j].status = "pending"
  <2>1. /\ DOMAIN txs' = DOMAIN txs \cup {Len(txs) + 1}
        /\ \A i \in DOMAIN txs : txs'[i] = txs[i]
        /\ txs'[Len(txs) + 1].fn = cmds[t].name
        /\ txs'[Len(txs) + 1].args = cmds[t].args
        /\ txs'[Len(txs) + 1].arg = Argument(cmds[t])
        /\ txs'[Len(txs) + 1].status = "pending"
    BY <1>3, AppendingKeeps DEF CommandsInv
  <2>2. Head(cmds[t].todo) = "send"
    BY <1>3 DEF Appending, At
  <2> QED BY <1>1, <2>1, <2>2
<1>4. ASSUME NEW i, Mines(i)
      PROVE  j \in DOMAIN txs /\ SameTx(txs[j], txs'[j])
  BY <1>4, MiningKeeps DEF CommandsInv
<1> QED BY <1>2, <1>3, <1>4, TerminalTxs, Zenon DEF CmdKind, Aside

LEMMA FitsStep ==
    ASSUME CommandsInv, AmountsFit, BalancesFit, FitsInv, CmdKind
    PROVE  FitsInv'
<1>1. ASSUME NEW u \in Terminals
      PROVE  BalanceFits(cmds[u])'
  <2>1. PICK c, d : c = cmds[u] /\ d = cmds'[u]
    OBVIOUS
  <2>2. SUFFICES ASSUME d.name = "approveToken", "balance" \in DOMAIN d.read
                 PROVE  2 * d.read.balance <= MaxUint256
    BY <2>1 DEF BalanceFits
  <2>3. /\ d.name = c.name
        /\ \/ "balance" \in DOMAIN c.read /\ d.read["balance"] = c.read["balance"]
           \/ Told(c, "balance", d.read["balance"])
    BY <2>1, <2>2, CommandOf
  <2>4. CASE "balance" \in DOMAIN c.read /\ d.read["balance"] = c.read["balance"]
    BY <2>1, <2>2, <2>3, <2>4 DEF FitsInv, BalanceFits
  <2>5. CASE Told(c, "balance", d.read["balance"])
    <3>1. c.args.token \in Tokens
      BY <2>1, <2>2, <2>3 DEF CommandsInv, TerminalsInv, CommandInv, ArgsTyped
    <3>2. d.read["balance"] = wallet[c.args.token].balance
      BY <2>5 DEF Told
    <3> QED BY <3>1, <3>2 DEF BalancesFit
  <2> QED BY <2>3, <2>4, <2>5
<1>2. ASSUME NEW j \in DOMAIN txs'
      PROVE  AmountFits(txs[j])'
  <2>1. PICK tx : tx = txs'[j]
    OBVIOUS
  <2>2. SUFFICES ASSUME tx.fn = "approveToken"
                 PROVE  tx.arg.amount <= MaxUint256
    BY <2>1 DEF AmountFits
  <2>3. CASE j \in DOMAIN txs /\ SameTx(txs[j], tx)
    BY <2>2, <2>3 DEF FitsInv, AmountFits, SameTx
  <2>4. ASSUME NEW t \in Terminals,
               Head(cmds[t].todo) = "send" /\ tx.fn = cmds[t].name
                   /\ tx.arg = Argument(cmds[t])
        PROVE  tx.arg.amount <= MaxUint256
    <3>1. PICK c : c = cmds[t]
      OBVIOUS
    <3>2. CommandInv(c) /\ BalanceFits(c) /\ c.name = "approveToken"
      BY <2>2, <2>4, <3>1 DEF CommandsInv, TerminalsInv, FitsInv
    <3>3. Argument(c).amount = ApprovalAmount(c)
      BY <2>4, <3>1, <3>2, ArgumentTyped
    <3>4. "balance" \in DOMAIN c.read
      BY <2>4, <3>1, <3>2, HasReadHead DEF Needs
    <3>5. /\ 2 * c.read.balance <= MaxUint256
          /\ c.args.amount # <<>> => c.args.amount[1] <= MaxUint256
      BY <3>2, <3>4 DEF BalanceFits, CommandInv, ArgsTyped
    <3>6. MaxUint256 <= MaxUint256
      BY WalletAssumption
    <3> QED BY <2>4, <3>1, <3>3, <3>5, <3>6 DEF ApprovalAmount, ElseRead
  <2> QED BY <2>1, <2>3, <2>4, TransactionOf
<1> QED BY <1>1, <1>2 DEF FitsInv

LEMMA FitsAlways ==
    ASSUME AmountsFit
    PROVE  CmdSpec /\ []BalancesFit => []FitsInv
<1>1. CmdInit => FitsInv
  BY DEF CmdInit, NotStarted, FitsInv, BalanceFits
<1>2. CommandsInv /\ BalancesFit /\ FitsInv /\ [CmdNext]_termVars => FitsInv'
  BY CmdStepKind, FitsStep
<1> QED BY <1>1, <1>2, CommandsInvariance, PTL DEF CmdSpec

\* Every terminal is at a step of its command, and no transaction says more
\* than the chain's numbers hold.
THEOREM CommandsTypes ==
    ASSUME AmountsFit
    PROVE  CmdSpec /\ []BalancesFit => []CommandsTypeOK
<1>1. ASSUME CommandsInv, FitsInv
      PROVE  CommandsTypeOK
  <2>1. InNonceOrder /\ MinedCount \in 0 .. Len(txs) /\ Len(txs) \in Nat
    BY <1>1, MinedOrder DEF CommandsInv, ListInv
  <2>2. ASSUME NEW t \in Terminals
        PROVE  /\ cmds[t].run \in 0 .. MaxRuns
               /\ cmds[t].tx \in 0 .. Len(txs) /\ cmds[t].seen \in 0 .. Len(txs)
               /\ At(t) \in Requests \cup Ends
    <3>1. CommandInv(cmds[t]) /\ Sending(cmds[t], txs, MinedCount)
      BY <1>1 DEF CommandsInv, TerminalsInv, SendingAll
    <3>2. cmds[t].seen \in 0 .. Len(txs)
      BY <2>1, <3>1 DEF Sending
    <3>3. cmds[t].todo \in Seq(Requests \cup Ends) /\ cmds[t].todo # <<>>
      BY <3>1 DEF CommandInv, Planned
    <3> QED BY <3>1, <3>2, <3>3 DEF CommandInv, Sending, At
  <2>3. ASSUME NEW i \in DOMAIN txs
        PROVE  /\ txs[i].status \in Statuses /\ txs[i].seen \in 0 .. i - 1
               /\ txs[i].fn = "approveToken" => txs[i].arg.amount \in 0 .. MaxUint256
    <3>1. /\ txs[i].status \in Statuses /\ TxTyped(txs[i]) /\ txs[i].seen \in 0 .. i - 1
      BY <1>1 DEF CommandsInv, ListInv, TxsInv, TxsGood, Statuses
    <3> QED BY <1>1, <3>1, WalletAssumption DEF FitsInv, AmountFits, TxTyped
  <2>4. wallet \in WalletState
    BY <1>1 DEF CommandsInv, WalletTyped
  <2> QED BY <2>1, <2>2, <2>3, <2>4 DEF CommandsTypeOK, Requests
<1> QED BY <1>1, FitsAlways, CommandsInvariance, PTL DEF CmdSpec


----------------------------------------------------------------------------
(* Approvals of a token.                                                   *)

\* The allowance the user's wallet has for a command's contract.
AllowanceOf(args) == wallet[args.token].allowances[args.contract]

\* The amount is settled when the allowance is compared with it.
Raises(c) ==
    c.name = "approveToken" =>
        /\ Early(c.todo)
        /\ "allowance" \in DOMAIN c.read =>
              /\ Head(c.todo) # "balance"
              /\ NoSend(c.todo) \/ c.read.allowance < ApprovalAmount(c)

RaisesAll == \A t \in Terminals : Raises(cmds[t])

LEMMA EarlyTail ==
    ASSUME NEW todo, Planned(todo), Head(todo) \notin Ends, Early(todo)
    PROVE  Early(Tail(todo)) /\ Head(Tail(todo)) \notin {"balance", "info"}
<1>1. \A i \in DOMAIN Tail(todo) : /\ i + 1 \in DOMAIN todo /\ Tail(todo)[i] = todo[i + 1]
                                   /\ i \in Nat \ {0}
  BY TailPlanned
<1>2. ASSUME NEW i \in DOMAIN Tail(todo)
      PROVE  Tail(todo)[i] \notin {"balance", "info"}
  <2>1. i \in Nat \ {0} /\ (Tail(todo)[i] \in {"balance", "info"} => i + 1 = 1)
    BY <1>1 DEF Early
  <2> QED BY <2>1
<1>3. Planned(Tail(todo))
  BY TailPlanned
<1>4. 1 \in DOMAIN Tail(todo) /\ Head(Tail(todo)) = Tail(todo)[1]
  BY <1>3 DEF Planned
<1> QED BY <1>2, <1>4 DEF Early

\* What a command does not hear of again stays.
LEMMA RaisesTerminal ==
    ASSUME CommandsInv, NEW t \in Terminals, OfTerminal(t), Raises(cmds[t])
    PROVE  Raises(cmds'[t])
<1> DEFINE c == cmds[t]
<1> PICK d : d = cmds'[t]
  OBVIOUS
<1>1. /\ CommandInv(c) /\ Planned(c.todo) /\ Once(c.todo)
      /\ StepsIn(c.todo, StepsOf(c.name, c.args))
  BY DEF CommandsInv, TerminalsInv, CommandInv, SendingAll, Sending
<1>2. ASSUME NEW e \in Ends, d.todo = <<e>>
      PROVE  Raises(d)
  <2>1. NoSend(d.todo) /\ Early(d.todo) /\ Head(d.todo) # "balance"
    BY <1>2 DEF NoSend, Early, Ends
  <2> QED BY <2>1 DEF Raises
<1>3. CASE Starting(t)
  <2>1. PICK name, args, todo : Begun(c, d, name, args, todo) /\ Plan(name, args, todo)
    BY <1>3 DEF Starting
  <2>2. DOMAIN d.read = {} /\ Early(d.todo)
    BY <2>1 DEF Begun, Plan, Orderly
  <2> QED BY <2>2 DEF Raises
<1>4. ASSUME Head(c.todo) \notin Ends, d.todo = Tail(c.todo), d.name = c.name,
             d.args = c.args, d.read = c.read
      PROVE  Raises(d)
  <2> SUFFICES ASSUME c.name = "approveToken"
               PROVE  /\ Early(d.todo)
                      /\ "allowance" \in DOMAIN d.read =>
                            /\ Head(d.todo) # "balance"
                            /\ NoSend(d.todo) \/ d.read.allowance < ApprovalAmount(d)
    BY <1>4 DEF Raises
  <2>1. Early(c.todo)
    BY DEF Raises
  <2>2. Early(d.todo) /\ Head(d.todo) # "balance"
    BY <1>1, <1>4, <2>1, EarlyTail
  <2>3. NoSend(c.todo) => NoSend(d.todo)
    BY <1>1, <1>4, TailOnce
  <2>4. ApprovalAmount(d) = ApprovalAmount(c)
    BY <1>4 DEF ApprovalAmount
  <2> QED BY <1>4, <2>2, <2>3, <2>4 DEF Raises
<1>5. CASE Answering(t)
  <2>1. PICK what, answer, todo :
            /\ Learnt(c, d, MinedCount, what, answer, todo)
            /\ Told(c, what, answer) /\ Leads(c, what, answer, todo)
    BY <1>5 DEF Answering
  <2>2. /\ what \notin Ends /\ d.name = c.name /\ d.args = c.args
        /\ Head(c.todo) = what /\ d.todo = todo /\ what # "send"
        /\ Adds(c.read, what, answer, d.read)
    <3>1. d.read = With(c.read, what, answer)
      BY <2>1 DEF Learnt
    <3>2. Adds(c.read, what, answer, d.read)
      BY <3>1, Remembered
    <3> QED BY <2>1, <3>2, ToldAsks DEF Learnt, Keeps
  <2>3. CASE todo = Tail(c.todo) /\ Onward(c, what, answer)
    <3> SUFFICES ASSUME c.name = "approveToken"
                 PROVE  /\ Early(d.todo)
                        /\ "allowance" \in DOMAIN d.read =>
                              /\ Head(d.todo) # "balance"
                              /\ NoSend(d.todo) \/ d.read.allowance < ApprovalAmount(d)
      BY <2>2 DEF Raises
    <3>1. Early(c.todo)
      BY DEF Raises
    <3>2. Early(d.todo) /\ Head(d.todo) # "balance"
      BY <1>1, <2>2, <2>3, <3>1, EarlyTail
    <3>3. NoSend(c.todo) => NoSend(d.todo)
      BY <1>1, <2>2, <2>3, TailOnce
    <3>4. CASE what = "allowance"
      <4>1. "balance" \in DOMAIN c.read /\ d.read["balance"] = c.read["balance"]
        <5>1. "balance" \in DOMAIN c.read
          BY <1>1, <2>2, <3>4, HasReadHead DEF Needs
        <5> QED BY <2>2, <3>4, <5>1 DEF Adds
      <4>2. ApprovalAmount(d) = ApprovalAmount(c)
        BY <2>2, <4>1 DEF ApprovalAmount
      <4>3. d.read["allowance"] = answer
        BY <2>2, <3>4 DEF Adds
      <4>4. CASE c.args.checkOnly
        <5>1. StepsOf(c.name, c.args) = {"balance", "allowance"}
          BY <4>4 DEF StepsOf
        <5>2. NoSend(c.todo)
          BY <1>1, <5>1 DEF StepsIn, NoSend, Ends
        <5> QED BY <3>2, <3>3, <5>2
      <4>5. CASE ~c.args.checkOnly
        <5>1. ~(answer >= ApprovalAmount(c))
          BY <2>3, <3>4, <4>5 DEF Onward
        <5>2. answer \in Nat
          <6>1. answer = wallet[c.args.token].allowances[c.args.contract]
            BY <2>1, <3>4 DEF Told
          <6>2. c.args.token \in Tokens /\ c.args.contract \in PaymentsContracts
            BY <1>1 DEF CommandInv, ArgsTyped
          <6>3. WalletTyped
            BY DEF CommandsInv
          <6> QED BY <6>1, <6>2, <6>3, WalletIs
        <5>3. ApprovalAmount(c) \in Nat
          <6>1. c.read.balance \in Nat /\ (c.args.amount # <<>> => c.args.amount[1] \in Nat)
            BY <1>1, <4>1 DEF CommandInv, ReadsTyped, ArgsTyped
          <6> QED BY <6>1, WalletAssumption DEF ApprovalAmount, ElseRead
        <5>4. answer < ApprovalAmount(c)
          BY <5>1, <5>2, <5>3
        <5> QED BY <3>2, <4>2, <4>3, <5>4
      <4> QED BY <4>4, <4>5
    <3>5. CASE what # "allowance"
      <4> SUFFICES ASSUME "allowance" \in DOMAIN d.read
                   PROVE  NoSend(d.todo) \/ d.read.allowance < ApprovalAmount(d)
        BY <3>2
      <4>1. "allowance" \in DOMAIN c.read /\ d.read["allowance"] = c.read["allowance"]
        BY <2>2, <3>5 DEF Adds
      <4>2. what # "balance"
        BY <2>2, <4>1 DEF Raises
      <4>3. CASE NoSend(c.todo)
        BY <3>3, <4>3
      <4>4. CASE ~NoSend(c.todo)
        <5>1. "balance" \in DOMAIN c.read
          <6>1. PICK i \in DOMAIN c.todo : c.todo[i] = "send"
            BY <4>4 DEF NoSend
          <6>2. After(c.todo, "send", "balance") \/ "balance" \in DOMAIN c.read
            BY <1>1 DEF CommandInv, HasRead, Needs
          <6>3. After(c.todo, "send", "balance") => FALSE
            <7>1. ASSUME NEW j \in DOMAIN c.todo, c.todo[j] = "balance"
                  PROVE  FALSE
              <8>1. j = 1 /\ Head(c.todo) = c.todo[1]
                BY <1>1, <3>1, <7>1 DEF Early, Planned
              <8> QED BY <2>2, <4>2, <7>1, <8>1
            <7> QED BY <6>1, <7>1 DEF After
          <6> QED BY <6>2, <6>3
        <5>2. d.read["balance"] = c.read["balance"]
          BY <2>2, <4>2, <5>1 DEF Adds
        <5>3. ApprovalAmount(d) = ApprovalAmount(c)
          BY <2>2, <5>2 DEF ApprovalAmount
        <5> QED BY <4>1, <4>4, <5>3 DEF Raises
      <4> QED BY <4>3, <4>4
    <3> QED BY <3>2, <3>4, <3>5
  <2>4. CASE \E e \in {"done", "failed"} : todo = <<e>>
    BY <1>2, <2>2, <2>4 DEF Ends
  <2>5. CASE todo = <<"panicked">>
    BY <1>2, <2>2, <2>5 DEF Ends
  <2> QED BY <2>1, <2>3, <2>4, <2>5 DEF Leads
<1>6. CASE Ending(t)
  BY <1>2, <1>6 DEF Ending, Gone, Ends
<1>7. CASE Waiting(t) \/ SentBy(c, d, Len(txs) + 1)
  <2>1. /\ Head(c.todo) \in {"send", "wait"} /\ d.todo = Tail(c.todo)
        /\ d.name = c.name /\ d.read = c.read /\ d.args = c.args
    BY <1>7 DEF Waiting, At, Rest, Gone, SentBy, Keeps
  <2>2. Head(c.todo) \notin Ends
    BY <2>1 DEF Ends
  <2> QED BY <1>4, <2>1, <2>2
<1>8. CASE RowGone(c, d)
  BY <1>8 DEF RowGone, Keeps, Raises
<1> QED BY <1>3, <1>5, <1>6, <1>7, <1>8 DEF OfTerminal, Running

LEMMA RaisesStep ==
    ASSUME CommandsInv, RaisesAll, CmdKind
    PROVE  RaisesAll'
<1>1. ASSUME NEW t \in Terminals, OfTerminal(t)
      PROVE  RaisesAll'
  BY <1>1, RaisesTerminal DEF RaisesAll, OfTerminal, Only
<1>2. UNCHANGED cmds => RaisesAll'
  BY DEF RaisesAll
<1> QED BY <1>1, <1>2 DEF CmdKind, Mines, Aside


AllowanceRead(c) ==
    c.name = "approveToken" /\ "allowance" \in DOMAIN c.read =>
        c.read.allowance = AllowanceOf(c.args)

RaisesTx(tx) == tx.fn = "approveToken" => AllowanceOf(tx.args) < tx.arg.amount

\* As long as no transaction was mined since: nothing else touches the wallet.
AllowancesRead ==
    /\ TxsSeen /\ RaisesAll
    /\ \A t \in Terminals : cmds[t].seen = MinedCount => AllowanceRead(cmds[t])
    /\ \A j \in DOMAIN txs : txs[j].seen = MinedCount => RaisesTx(txs[j])

LEMMA AllowancesReadStep ==
    ASSUME CommandsInv, AllowancesRead, CmdKind
    PROVE  AllowancesRead'
<1>1. TxsSeen' /\ RaisesAll'
  BY SeenStep, RaisesStep DEF AllowancesRead
<1>2. Quiet \/ Aside => wallet' = wallet
  BY DEF Quiet, Aside
<1>3. ASSUME NEW u \in Terminals, cmds'[u].seen = MinedCount'
      PROVE  AllowanceRead(cmds[u])'
  <2>1. PICK c, d : c = cmds[u] /\ d = cmds'[u]
    OBVIOUS
  <2>2. SUFFICES ASSUME d.name = "approveToken", "allowance" \in DOMAIN d.read
                 PROVE  d.read.allowance = wallet'[d.args.token].allowances[d.args.contract]
    BY <2>1 DEF AllowanceRead, AllowanceOf
  <2>3. /\ MinedCount' = MinedCount /\ wallet' = wallet
        /\ d.name = c.name /\ d.args = c.args
        /\ \/ /\ "allowance" \in DOMAIN c.read /\ d.read["allowance"] = c.read["allowance"]
              /\ c.seen = MinedCount
           \/ Told(c, "allowance", d.read["allowance"])
    BY <1>2, <1>3, <2>1, <2>2, AnswersKept
  <2>4. CASE "allowance" \in DOMAIN c.read /\ d.read["allowance"] = c.read["allowance"]
             /\ c.seen = MinedCount
    <3>1. AllowanceRead(c)
      BY <2>1, <2>4 DEF AllowancesRead
    <3> QED BY <2>2, <2>3, <2>4, <3>1 DEF AllowanceRead, AllowanceOf
  <2>5. CASE Told(c, "allowance", d.read["allowance"])
    BY <2>2, <2>3, <2>5 DEF Told
  <2> QED BY <2>3, <2>4, <2>5
<1>4. ASSUME NEW j \in DOMAIN txs', txs'[j].seen = MinedCount'
      PROVE  RaisesTx(txs[j])'
  <2>1. PICK tx : tx = txs'[j]
    OBVIOUS
  <2>2. SUFFICES ASSUME tx.fn = "approveToken"
                 PROVE  wallet'[tx.args.token].allowances[tx.args.contract] < tx.arg.amount
    BY <2>1 DEF RaisesTx, AllowanceOf
  <2>3. MinedCount' = MinedCount /\ wallet' = wallet
    BY <1>2, <1>4, TransactionsKept DEF AllowancesRead
  <2>4. CASE j \in DOMAIN txs /\ txs'[j] = txs[j]
    <3>1. RaisesTx(tx)
      BY <1>4, <2>1, <2>3, <2>4 DEF AllowancesRead
    <3> QED BY <2>2, <2>3, <3>1 DEF RaisesTx, AllowanceOf
  <2>5. ASSUME NEW t \in Terminals,
               Head(cmds[t].todo) = "send" /\ tx.fn = cmds[t].name
                   /\ tx.args = cmds[t].args /\ tx.arg = Argument(cmds[t])
                   /\ (cmds[t].read = <<>> \/ cmds[t].seen = MinedCount)
        PROVE  wallet'[tx.args.token].allowances[tx.args.contract] < tx.arg.amount
    <3>1. PICK c : c = cmds[t]
      OBVIOUS
    <3>2. CommandInv(c) /\ c.name = "approveToken" /\ Head(c.todo) = "send" /\ Raises(c)
      BY <2>2, <2>5, <3>1 DEF CommandsInv, TerminalsInv, AllowancesRead, RaisesAll
    <3>3. "allowance" \in DOMAIN c.read
      BY <3>2, HasReadHead DEF Needs
    <3>4. c.read # <<>>
      <4>1. DOMAIN <<>> = {}
        OBVIOUS
      <4> QED BY <3>3, <4>1
    <3>5. c.read.allowance = AllowanceOf(c.args)
      BY <2>5, <3>1, <3>2, <3>3, <3>4 DEF AllowancesRead, AllowanceRead
    <3>6. ~NoSend(c.todo)
      <4>1. 1 \in DOMAIN c.todo /\ c.todo[1] = Head(c.todo)
        BY <3>2 DEF CommandInv, Planned
      <4> QED BY <3>2, <4>1 DEF NoSend
    <3>7. c.read.allowance < ApprovalAmount(c)
      BY <3>2, <3>3, <3>6 DEF Raises
    <3>8. Argument(c).amount = ApprovalAmount(c)
      BY <3>2, ArgumentTyped
    <3> QED BY <2>3, <2>5, <3>1, <3>5, <3>7, <3>8 DEF AllowanceOf
  <2> QED BY <1>4, <2>1, <2>4, <2>5, TransactionsKept DEF AllowancesRead
<1> QED BY <1>1, <1>3, <1>4 DEF AllowancesRead

\* What a transaction of `approve-token' leaves.
LEMMA ApproveIs ==
    ASSUME CommandsInv, NEW tx, TxTyped(tx), AmountFits(tx), tx.fn = "approveToken",
           Approve(tx)
    PROVE  wallet'[tx.args.token].allowances[tx.args.contract] = tx.arg.amount
<1>1. /\ tx.args.token \in Tokens /\ tx.args.contract \in PaymentsContracts
      /\ tx.arg.amount \in Nat /\ tx.arg.amount <= MaxUint256
  BY DEF TxTyped, ArgsTyped, AmountFits
<1>2. tx.arg.amount % (MaxUint256 + 1) = tx.arg.amount
  BY <1>1, WalletAssumption
<1>3. wallet' = [wallet EXCEPT ![tx.args.token].allowances[tx.args.contract] = tx.arg.amount]
  BY <1>2 DEF Approve, approve
<1> QED BY <1>1, <1>3 DEF CommandsInv, WalletTyped, WalletState

LEMMA ApprovalRaises ==
    ASSUME CommandsInv, FitsInv, AllowancesRead, CmdKind, NEW i \in DOMAIN txs,
           Succeeds(i), Fresh(i), txs[i].fn = "approveToken"
    PROVE  wallet'[txs[i].args.token].allowances[txs[i].args.contract] >
               wallet[txs[i].args.token].allowances[txs[i].args.contract]
<1>1. PICK tx : tx = txs[i]
  OBVIOUS
<1>2. Effect(tx) /\ tx.seen = MinedCount
  <2>1. i = MinedCount + 1 /\ MinedCount \in Nat
    BY SucceedsByMining, MinedOrder DEF CommandsInv, ListInv
  <2> QED BY <1>1, <2>1, SucceedsByMining DEF Fresh
<1>3. TxTyped(tx) /\ AmountFits(tx) /\ RaisesTx(tx)
  BY <1>1, <1>2 DEF CommandsInv, ListInv, TxsGood, FitsInv, AllowancesRead
<1>4. wallet'[tx.args.token].allowances[tx.args.contract] = tx.arg.amount
  BY <1>1, <1>2, <1>3, EffectIs, ApproveIs
<1>5. /\ tx.args.token \in Tokens /\ tx.args.contract \in PaymentsContracts
      /\ tx.arg.amount \in Nat
  BY <1>1, <1>3 DEF TxTyped, ArgsTyped
<1>6. AllowanceOf(tx.args) \in Nat
  BY <1>5, WalletIs DEF CommandsInv, AllowanceOf
<1> QED BY <1>1, <1>3, <1>4, <1>5, <1>6 DEF RaisesTx, AllowanceOf

\* An approval that no other transaction of the user has overtaken raises the
\* allowance, whatever was asked for.
THEOREM ApprovalsRaise ==
    ASSUME AmountsFit
    PROVE  CmdSpec /\ []BalancesFit => ApprovalNeverLowers
<1>1. CmdInit => AllowancesRead
  <2> SUFFICES ASSUME CmdInit
               PROVE  AllowancesRead
    OBVIOUS
  <2>1. DOMAIN txs = {} /\ TxsSeen
    BY DEF CmdInit, TxsSeen
  <2>2. \A t \in Terminals : AllowanceRead(cmds[t]) /\ Raises(cmds[t])
    BY DEF CmdInit, NotStarted, AllowanceRead, Raises
  <2> QED BY <2>1, <2>2 DEF AllowancesRead, RaisesAll
<1>2. CommandsInv /\ AllowancesRead /\ [CmdNext]_termVars => AllowancesRead'
  BY CmdStepKind, AllowancesReadStep
<1>3. CommandsInv /\ FitsInv /\ AllowancesRead /\ [CmdNext]_termVars =>
          [\A i \in DOMAIN txs :
              Succeeds(i) /\ Fresh(i) /\ txs[i].fn = "approveToken" =>
                  wallet'[txs[i].args.token].allowances[txs[i].args.contract] >
                      wallet[txs[i].args.token].allowances[txs[i].args.contract]]_termVars
  BY CmdStepKind, ApprovalRaises
<1> QED BY <1>1, <1>2, <1>3, FitsAlways, CommandsInvariance, PTL
        DEF CmdSpec, ApprovalNeverLowers


----------------------------------------------------------------------------
(* Allowances of the diamond.                                              *)

\* What an approval lets the diamond do; the usage beside it is the rails'.
LimitsOf(approval) ==
    [isApproved |-> approval.isApproved, rateAllowance |-> approval.rateAllowance,
     lockupAllowance |-> approval.lockupAllowance,
     maxLockupPeriod |-> approval.maxLockupPeriod]

ApprovalOf(args) == pay[args.contract].approvals[KeyOf(args)]

\* Nobody else has the user's key: the limits of the user's approvals change by
\* the transactions of the commands only.
UsersStep ==
    UNCHANGED txs =>
        \A contract \in PaymentsContracts, token \in Tokens :
            LimitsOf(pay'[contract].approvals[<<User, token>>]) =
                LimitsOf(pay[contract].approvals[<<User, token>>])

UserAlone == [][UsersStep]_termVars

\* The limits the flags make of these.
Given(args, limits) ==
    [isApproved |-> args.approved,
     rateAllowance |-> ElseRead(args.rate, limits.rateAllowance),
     lockupAllowance |-> ElseRead(args.lockup, limits.lockupAllowance),
     maxLockupPeriod |-> ElseRead(args.period, limits.maxLockupPeriod)]

LimitsRead(c) ==
    c.name = "setOperatorApproval" /\ "approval" \in DOMAIN c.read =>
        LimitsOf(c.read.approval) = LimitsOf(ApprovalOf(c.args))

LimitsSent(tx) ==
    tx.fn = "setOperatorApproval" /\ ~tx.args.unlimited =>
        tx.arg = Given(tx.args, LimitsOf(ApprovalOf(tx.args)))

AllLimitsRead ==
    /\ TxsSeen
    /\ \A t \in Terminals : cmds[t].seen = MinedCount => LimitsRead(cmds[t])
    /\ \A j \in DOMAIN txs : txs[j].seen = MinedCount => LimitsSent(txs[j])

\* The limits are those that were, in a step that mines nothing.
LimitsStay ==
    \A contract \in PaymentsContracts, token \in Tokens :
        LimitsOf(pay'[contract].approvals[<<User, token>>]) =
            LimitsOf(pay[contract].approvals[<<User, token>>])

LEMMA GivenIs ==
    ASSUME NEW c, ~c.args.unlimited
    PROVE  Allowances(c) = Given(c.args, LimitsOf(c.read.approval))
BY DEF Allowances, GivenAllowances, Given, LimitsOf

LEMMA AllLimitsReadStep ==
    ASSUME CommandsInv, AllLimitsRead, CmdKind, Aside => LimitsStay
    PROVE  AllLimitsRead'
<1>1. TxsSeen'
  BY SeenStep DEF AllLimitsRead
<1>2. Quiet \/ Aside => LimitsStay
  BY DEF Quiet, LimitsStay
<1>3. ASSUME NEW args, args.contract \in PaymentsContracts, args.token \in Tokens, LimitsStay
      PROVE  LimitsOf(pay'[args.contract].approvals[KeyOf(args)]) = LimitsOf(ApprovalOf(args))
  BY <1>3 DEF LimitsStay, ApprovalOf, KeyOf
<1>4. ASSUME NEW u \in Terminals, cmds'[u].seen = MinedCount'
      PROVE  LimitsRead(cmds[u])'
  <2>1. PICK c, d : c = cmds[u] /\ d = cmds'[u]
    OBVIOUS
  <2>2. SUFFICES ASSUME d.name = "setOperatorApproval", "approval" \in DOMAIN d.read
                 PROVE  LimitsOf(d.read.approval) =
                            LimitsOf(pay'[d.args.contract].approvals[KeyOf(d.args)])
    BY <2>1 DEF LimitsRead, ApprovalOf, KeyOf
  <2>3. /\ MinedCount' = MinedCount /\ LimitsStay
        /\ d.name = c.name /\ d.args = c.args
        /\ \/ /\ "approval" \in DOMAIN c.read /\ d.read["approval"] = c.read["approval"]
              /\ c.seen = MinedCount
           \/ Told(c, "approval", d.read["approval"])
    BY <1>2, <1>4, <2>1, <2>2, AnswersKept
  <2>4. d.args.contract \in PaymentsContracts /\ d.args.token \in Tokens
    BY <2>1, <2>2, <2>3 DEF CommandsInv, TerminalsInv, CommandInv, ArgsTyped
  <2>5. LimitsOf(d.read.approval) = LimitsOf(ApprovalOf(d.args))
    <3>1. CASE "approval" \in DOMAIN c.read /\ d.read["approval"] = c.read["approval"]
               /\ c.seen = MinedCount
      <4>1. LimitsRead(c)
        BY <2>1, <3>1 DEF AllLimitsRead
      <4> QED BY <2>2, <2>3, <3>1, <4>1 DEF LimitsRead
    <3>2. CASE Told(c, "approval", d.read["approval"])
      BY <2>3, <3>2 DEF Told, ApprovalOf
    <3> QED BY <2>3, <3>1, <3>2
  <2> QED BY <1>3, <2>3, <2>4, <2>5
<1>5. ASSUME NEW j \in DOMAIN txs', txs'[j].seen = MinedCount'
      PROVE  LimitsSent(txs[j])'
  <2>1. PICK tx : tx = txs'[j]
    OBVIOUS
  <2>2. SUFFICES ASSUME tx.fn = "setOperatorApproval", ~tx.args.unlimited
                 PROVE  tx.arg = Given(tx.args,
                                  LimitsOf(pay'[tx.args.contract].approvals[KeyOf(tx.args)]))
    BY <2>1 DEF LimitsSent, ApprovalOf, Given, KeyOf, ElseRead, LimitsOf
  <2>3. MinedCount' = MinedCount /\ LimitsStay
    BY <1>2, <1>5, TransactionsKept DEF AllLimitsRead
  <2>4. /\ tx.args.contract \in PaymentsContracts /\ tx.args.token \in Tokens
        /\ tx.arg = Given(tx.args, LimitsOf(ApprovalOf(tx.args)))
    <3>1. CASE j \in DOMAIN txs /\ txs'[j] = txs[j]
      <4>1. LimitsSent(tx) /\ TxTyped(tx)
        BY <1>5, <2>1, <2>3, <3>1 DEF AllLimitsRead, CommandsInv, ListInv, TxsGood
      <4> QED BY <2>2, <4>1 DEF LimitsSent, TxTyped, ArgsTyped
    <3>2. ASSUME NEW t \in Terminals,
                 Head(cmds[t].todo) = "send" /\ tx.fn = cmds[t].name
                     /\ tx.args = cmds[t].args /\ tx.arg = Argument(cmds[t])
                     /\ (cmds[t].read = <<>> \/ cmds[t].seen = MinedCount)
          PROVE  /\ tx.args.contract \in PaymentsContracts /\ tx.args.token \in Tokens
                 /\ tx.arg = Given(tx.args, LimitsOf(ApprovalOf(tx.args)))
      <4>1. PICK c : c = cmds[t]
        OBVIOUS
      <4>2. CommandInv(c) /\ c.name = "setOperatorApproval" /\ Head(c.todo) = "send"
            /\ ~c.args.unlimited
        BY <2>2, <3>2, <4>1 DEF CommandsInv, TerminalsInv
      <4>3. "approval" \in DOMAIN c.read
        BY <4>2, HasReadHead DEF Needs
      <4>4. c.read # <<>>
        <5>1. DOMAIN <<>> = {}
          OBVIOUS
        <5> QED BY <4>3, <5>1
      <4>5. LimitsOf(c.read.approval) = LimitsOf(ApprovalOf(c.args))
        BY <3>2, <4>1, <4>2, <4>3, <4>4 DEF AllLimitsRead, LimitsRead
      <4>6. Argument(c) = Allowances(c)
        BY <4>2, ArgumentTyped
      <4>7. Allowances(c) = Given(c.args, LimitsOf(c.read.approval))
        BY <4>2, GivenIs
      <4>8. c.args.contract \in PaymentsContracts /\ c.args.token \in Tokens
        BY <4>2 DEF CommandInv, ArgsTyped
      <4> QED BY <3>2, <4>1, <4>5, <4>6, <4>7, <4>8
    <3> QED BY <1>5, <2>1, <3>1, <3>2, TransactionsKept DEF AllLimitsRead
  <2> QED BY <1>3, <2>3, <2>4
<1> QED BY <1>1, <1>4, <1>5 DEF AllLimitsRead

LEMMA AsideLimits ==
    ASSUME Aside, [UsersStep]_termVars
    PROVE  LimitsStay
BY DEF Aside, UsersStep, LimitsStay, termVars

LEMMA LimitsAreRead == CmdSpec /\ UserAlone => []AllLimitsRead
<1>1. CmdInit => AllLimitsRead
  <2> SUFFICES ASSUME CmdInit
               PROVE  AllLimitsRead
    OBVIOUS
  <2>1. DOMAIN txs = {} /\ TxsSeen
    BY DEF CmdInit, TxsSeen
  <2>2. \A t \in Terminals : LimitsRead(cmds[t])
    BY DEF CmdInit, NotStarted, LimitsRead
  <2> QED BY <2>1, <2>2 DEF AllLimitsRead
<1>2. CommandsInv /\ AllLimitsRead /\ [CmdNext]_termVars /\ [UsersStep]_termVars =>
          AllLimitsRead'
  BY CmdStepKind, AllLimitsReadStep, AsideLimits
<1> QED BY <1>1, <1>2, CommandsInvariance, PTL DEF CmdSpec, UserAlone

\* What a transaction of `set-operator-allowance' leaves.
LEMMA SetApprovalIs ==
    ASSUME CommandsInv, NEW tx, TxTyped(tx), tx.fn = "setOperatorApproval",
           SetOperatorApprovalOf(tx)
    PROVE  pay'[tx.args.contract].approvals[KeyOf(tx.args)] =
               [ApprovalOf(tx.args) EXCEPT
                   !.isApproved = tx.arg.isApproved,
                   !.rateAllowance = tx.arg.rateAllowance,
                   !.lockupAllowance = tx.arg.lockupAllowance,
                   !.maxLockupPeriod = tx.arg.maxLockupPeriod]
<1>1. PICK c, k, limits : c = tx.args.contract /\ k = KeyOf(tx.args) /\ limits = tx.arg
  OBVIOUS
<1>2. c \in PaymentsContracts /\ k \in Clients \X Tokens
  BY <1>1, WalletAssumption DEF TxTyped, ArgsTyped, KeyOf
<1>3. PICK p \in PayState : p = pay[c]
  BY <1>2, SoundParts DEF CommandsInv
<1>4. pay' = [pay EXCEPT ![c] = SetOperatorApproval(p, k, limits)]
  BY <1>1, <1>3 DEF SetOperatorApprovalOf, setOperatorApproval
<1>5. pay'[c] = SetOperatorApproval(p, k, limits)
  BY <1>2, <1>4, SoundParts DEF CommandsInv
<1>6. SetOperatorApproval(p, k, limits).approvals[k] =
          [p.approvals[k] EXCEPT
              !.isApproved = limits.isApproved,
              !.rateAllowance = limits.rateAllowance,
              !.lockupAllowance = limits.lockupAllowance,
              !.maxLockupPeriod = limits.maxLockupPeriod]
  BY <1>2 DEF SetOperatorApproval, PayState, Approval
<1> QED BY <1>1, <1>3, <1>5, <1>6 DEF ApprovalOf


LEMMA AllowancesEffect ==
    ASSUME CommandsInv, AllLimitsRead, CmdKind, NEW i \in DOMAIN txs,
           Succeeds(i), Fresh(i), txs[i].fn = "setOperatorApproval",
           ~txs[i].args.unlimited
    PROVE  pay'[txs[i].args.contract].approvals[KeyOf(txs[i].args)] =
              [pay[txs[i].args.contract].approvals[KeyOf(txs[i].args)] EXCEPT
                  !.isApproved = txs[i].args.approved,
                  !.rateAllowance = ElseRead(txs[i].args.rate, @),
                  !.lockupAllowance = ElseRead(txs[i].args.lockup, @),
                  !.maxLockupPeriod = ElseRead(txs[i].args.period, @)]
<1>1. PICK tx : tx = txs[i]
  OBVIOUS
<1>2. Effect(tx) /\ tx.seen = MinedCount
  <2>1. i = MinedCount + 1 /\ MinedCount \in Nat
    BY SucceedsByMining, MinedOrder DEF CommandsInv, ListInv
  <2> QED BY <1>1, <2>1, SucceedsByMining DEF Fresh
<1>3. TxTyped(tx) /\ SetOperatorApprovalOf(tx) /\ LimitsSent(tx)
  BY <1>1, <1>2, EffectIs DEF CommandsInv, ListInv, TxsGood, AllLimitsRead
<1>4. tx.args.contract \in PaymentsContracts /\ KeyOf(tx.args) \in Clients \X Tokens
  BY <1>1, <1>3, WalletAssumption DEF TxTyped, ArgsTyped, KeyOf
<1>5. PICK approval \in Approval : approval = ApprovalOf(tx.args)
  BY <1>4, SoundParts DEF CommandsInv, ApprovalOf, PayState
<1>6. pay'[tx.args.contract].approvals[KeyOf(tx.args)] =
          [approval EXCEPT !.isApproved = tx.arg.isApproved,
                           !.rateAllowance = tx.arg.rateAllowance,
                           !.lockupAllowance = tx.arg.lockupAllowance,
                           !.maxLockupPeriod = tx.arg.maxLockupPeriod]
  BY <1>1, <1>3, <1>5, SetApprovalIs
<1>7. tx.arg = Given(tx.args, LimitsOf(approval))
  BY <1>1, <1>3, <1>5 DEF LimitsSent
<1>8. /\ tx.arg.isApproved = tx.args.approved
      /\ tx.arg.rateAllowance = ElseRead(tx.args.rate, approval.rateAllowance)
      /\ tx.arg.lockupAllowance = ElseRead(tx.args.lockup, approval.lockupAllowance)
      /\ tx.arg.maxLockupPeriod = ElseRead(tx.args.period, approval.maxLockupPeriod)
  BY <1>7 DEF Given, LimitsOf
<1>9. pay[tx.args.contract].approvals[KeyOf(tx.args)] = approval
  BY <1>5 DEF ApprovalOf
<1> QED BY <1>1, <1>6, <1>8, <1>9 DEF Approval

\* `payments set-operator-allowance' changes the allowances it is given and keeps
\* the others, if nothing of the user's came between.
THEOREM UpdatesKeepAllowances == CmdSpec /\ UserAlone => UpdateKeepsAllowances
<1>1. CommandsInv /\ AllLimitsRead /\ [CmdNext]_termVars =>
          [\A i \in DOMAIN txs :
              Succeeds(i) /\ Fresh(i) /\ txs[i].fn = "setOperatorApproval"
                  /\ ~txs[i].args.unlimited =>
                  LET args == txs[i].args
                      k == KeyOf(args)
                  IN  pay'[args.contract].approvals[k] =
                        [pay[args.contract].approvals[k] EXCEPT
                            !.isApproved = args.approved,
                            !.rateAllowance = ElseRead(args.rate, @),
                            !.lockupAllowance = ElseRead(args.lockup, @),
                            !.maxLockupPeriod = ElseRead(args.period, @)]]_termVars
  BY CmdStepKind, AllowancesEffect
<1> QED BY <1>1, LimitsAreRead, CommandsInvariance, PTL DEF CmdSpec, UpdateKeepsAllowances

----------------------------------------------------------------------------
(* What the commands report.                                               *)

\* What the last transaction has set is there.
Took(tx) ==
    /\ tx.fn = "approveToken" => AllowanceOf(tx.args) = tx.arg.amount
    /\ tx.fn = "setOperatorApproval" => LimitsOf(ApprovalOf(tx.args)) = tx.arg

Agrees(c, tx) ==
    /\ c.name = "approveToken" => c.read.verify = tx.arg.amount
    /\ c.name = "setOperatorApproval" => LimitsOf(c.read.verify) = tx.arg

Reported(c, list, m) ==
    "verify" \in DOMAIN c.read =>
        /\ c.name \in {"approveToken", "setOperatorApproval"}
        /\ c.tx = m /\ list[c.tx].status = "succeeded" => Agrees(c, list[c.tx])

LastTook ==
    MinedCount \in DOMAIN txs /\ txs[MinedCount].status = "succeeded" =>
        Took(txs[MinedCount])

ReportsInv == LastTook /\ \A t \in Terminals : Reported(cmds[t], txs, MinedCount)

LEMMA LastTookStep ==
    ASSUME CommandsInv, FitsInv, LastTook, CmdKind, Aside => LimitsStay
    PROVE  LastTook'
<1>0. /\ MinedCount \in Nat /\ Len(txs) \in Nat /\ DOMAIN txs = 1 .. Len(txs)
      /\ MinedCount \in 0 .. Len(txs)
  BY MinedOrder, Listed DEF CommandsInv, ListInv, TxsInv
<1>1. ASSUME Quiet \/ Aside, NEW tx, TxTyped(tx), Took(tx)
      PROVE  Took(tx)'
  <2>1. wallet' = wallet /\ LimitsStay
    BY <1>1 DEF Quiet, Aside, LimitsStay
  <2>2. tx.fn = "approveToken" =>
            wallet'[tx.args.token].allowances[tx.args.contract] = tx.arg.amount
    BY <1>1, <2>1 DEF Took, AllowanceOf
  <2>3. tx.fn = "setOperatorApproval" =>
            LimitsOf(pay'[tx.args.contract].approvals[KeyOf(tx.args)]) = tx.arg
    <3>1. tx.fn = "setOperatorApproval" =>
              tx.args.contract \in PaymentsContracts /\ tx.args.token \in Tokens
      BY <1>1 DEF TxTyped, ArgsTyped
    <3> QED BY <1>1, <2>1, <3>1 DEF Took, LimitsStay, ApprovalOf, KeyOf
  <2> QED BY <2>2, <2>3 DEF Took, AllowanceOf, ApprovalOf, KeyOf
<1>2. ASSUME Quiet \/ Aside, NEW m \in DOMAIN txs, m = MinedCount, MinedCount' = m,
             txs'[m] = txs[m]
      PROVE  LastTook'
  <2>1. PICK tx : tx = txs[m]
    OBVIOUS
  <2>2. TxTyped(tx)
    BY <2>1 DEF CommandsInv, ListInv, TxsGood
  <2>3. tx.status = "succeeded" => Took(tx)'
    BY <1>1, <1>2, <2>1, <2>2 DEF LastTook
  <2> QED BY <1>2, <2>1, <2>3 DEF LastTook
<1>3. ASSUME NEW t \in Terminals, OfTerminal(t)
      PROVE  LastTook'
  <2>1. Quiet /\ MinedCount' = MinedCount
        /\ \A i \in DOMAIN txs : txs'[i] = txs[i]
    BY <1>3, TerminalTxs, ListStays, AppendingKeeps DEF CommandsInv
  <2>2. CASE MinedCount \in DOMAIN txs
    BY <1>2, <2>1, <2>2
  <2>3. CASE MinedCount \notin DOMAIN txs
    <3>1. MinedCount = 0
      BY <1>0, <2>3
    <3>2. 0 \notin DOMAIN txs'
      BY <1>3, CommandsKeep, Listed DEF CommandsInv, ListInv, TxsInv, CmdKind
    <3> QED BY <2>1, <3>1, <3>2 DEF LastTook
  <2> QED BY <2>2, <2>3
<1>4. CASE Aside
  <2>1. MinedCount' = MinedCount /\ txs' = txs
    BY <1>4, ListStays DEF CommandsInv, Aside
  <2>2. CASE MinedCount \in DOMAIN txs
    BY <1>2, <1>4, <2>1, <2>2
  <2>3. CASE MinedCount \notin DOMAIN txs
    BY <2>1, <2>3 DEF LastTook
  <2> QED BY <2>2, <2>3
<1>5. ASSUME NEW i, Mines(i)
      PROVE  LastTook'
  <2>1. /\ MinedCount' = i /\ i \in DOMAIN txs /\ SameTx(txs[i], txs'[i])
        /\ \/ Succeeded(i) /\ txs'[i].status = "succeeded"
           \/ Reverted(i) /\ txs'[i].status = "reverted"
    BY <1>5, MiningKeeps DEF CommandsInv
  <2>2. PICK tx, new : tx = txs[i] /\ new = txs'[i]
    OBVIOUS
  <2>3. SUFFICES ASSUME new.status = "succeeded"
                 PROVE  Took(new)'
    BY <2>1, <2>2 DEF LastTook
  <2>4. /\ Effect(tx) /\ TxTyped(tx) /\ AmountFits(tx)
        /\ new.fn = tx.fn /\ new.args = tx.args /\ new.arg = tx.arg
    BY <2>1, <2>2, <2>3, Zenon
       DEF Succeeded, CommandsInv, ListInv, TxsGood, FitsInv, SameTx
  <2>5. new.fn = "approveToken" =>
            wallet'[new.args.token].allowances[new.args.contract] = new.arg.amount
    BY <2>4, EffectIs, ApproveIs
  <2>6. new.fn = "setOperatorApproval" =>
            LimitsOf(pay'[new.args.contract].approvals[KeyOf(new.args)]) = new.arg
    <3>1. SUFFICES ASSUME tx.fn = "setOperatorApproval"
                   PROVE  LimitsOf(pay'[tx.args.contract].approvals[KeyOf(tx.args)]) = tx.arg
      BY <2>4 DEF KeyOf
    <3>2. tx.args.contract \in PaymentsContracts /\ KeyOf(tx.args) \in Clients \X Tokens
      BY <2>4, <3>1, WalletAssumption DEF TxTyped, ArgsTyped, KeyOf
    <3>3. PICK approval \in Approval : approval = ApprovalOf(tx.args)
      BY <3>2, SoundParts DEF CommandsInv, ApprovalOf, PayState
    <3>4. pay'[tx.args.contract].approvals[KeyOf(tx.args)] =
              [approval EXCEPT !.isApproved = tx.arg.isApproved,
                               !.rateAllowance = tx.arg.rateAllowance,
                               !.lockupAllowance = tx.arg.lockupAllowance,
                               !.maxLockupPeriod = tx.arg.maxLockupPeriod]
      BY <2>4, <3>1, <3>3, EffectIs, SetApprovalIs
    <3>5. tx.arg \in ApprovalLimits
      BY <2>4, <3>1 DEF TxTyped
    <3> QED BY <3>4, <3>5 DEF LimitsOf, Approval, ApprovalLimits
  <2> QED BY <2>5, <2>6 DEF Took, AllowanceOf, ApprovalOf, KeyOf
<1> QED BY <1>3, <1>4, <1>5 DEF CmdKind


LEMMA ReportedStep ==
    ASSUME CommandsInv, ReportsInv, CmdKind, NEW u \in Terminals
    PROVE  Reported(cmds'[u], txs', MinedCount')
<1>0. /\ MinedCount \in Nat /\ Len(txs) \in Nat /\ DOMAIN txs = 1 .. Len(txs)
      /\ MinedCount \in 0 .. Len(txs)
  BY MinedOrder, Listed DEF CommandsInv, ListInv, TxsInv
<1>1. PICK c, d, m : c = cmds[u] /\ d = cmds'[u] /\ m = MinedCount
  OBVIOUS
<1>2. /\ CommandInv(c) /\ Sending(c, txs, m) /\ Reported(c, txs, m)
      /\ StepsIn(c.todo, StepsOf(c.name, c.args)) /\ Planned(c.todo)
  BY <1>1 DEF CommandsInv, TerminalsInv, CommandInv, SendingAll, ReportsInv
<1>3. SUFFICES ASSUME "verify" \in DOMAIN d.read
               PROVE  Reported(d, txs', MinedCount')
  BY <1>1 DEF Reported
<1>4. /\ d.name = c.name /\ d.args = c.args /\ Same(c, d)
      /\ \/ "verify" \in DOMAIN c.read /\ d.read["verify"] = c.read["verify"]
         \/ /\ Quiet /\ Head(c.todo) = "verify"
            /\ Told(c, "verify", d.read["verify"])
  BY <1>1, <1>3, CommandOf
<1>5. d.name \in {"approveToken", "setOperatorApproval"}
  <2>1. CASE "verify" \in DOMAIN c.read
    BY <1>2, <1>4, <2>1 DEF Reported
  <2>2. CASE Head(c.todo) = "verify"
    BY <1>2, <1>4, <2>2, AsksConfig DEF Ends
  <2> QED BY <1>4, <2>1, <2>2
<1>6. c.tx \in 1 .. m /\ d.tx = c.tx
  <2>1. CASE "verify" \in DOMAIN c.read
    BY <1>0, <1>1, <1>2, <1>4, <2>1 DEF Sending, Same
  <2>2. CASE Head(c.todo) = "verify"
    <3>1. 1 \in DOMAIN c.todo /\ c.todo[1] = Head(c.todo)
          /\ \A j \in DOMAIN c.todo : ~(j < 1)
      BY <1>2 DEF Planned
    <3>2. ~After(c.todo, "verify", "wait")
      BY <2>2, <3>1 DEF After
    <3> QED BY <1>2, <1>4, <2>2, <3>2 DEF Sending, Same
  <2> QED BY <1>4, <2>1, <2>2
<1>7. SUFFICES ASSUME d.tx = MinedCount', txs'[d.tx].status = "succeeded"
               PROVE  Agrees(d, txs'[d.tx])
  BY <1>5 DEF Reported
<1>8. ASSUME NEW i, Mines(i)
      PROVE  FALSE
  <2>1. MinedCount' = MinedCount + 1
    BY <1>8, MiningKeeps DEF CommandsInv
  <2> QED BY <1>0, <1>1, <1>6, <1>7, <2>1
<1>9. MinedCount' = m /\ \A i \in DOMAIN txs : txs'[i] = txs[i]
  <2>1. ASSUME NEW t \in Terminals, OfTerminal(t)
        PROVE  MinedCount' = MinedCount /\ \A i \in DOMAIN txs : txs'[i] = txs[i]
    BY <2>1, TerminalTxs, ListStays, AppendingKeeps DEF CommandsInv
  <2>2. ASSUME Aside
        PROVE  MinedCount' = MinedCount /\ \A i \in DOMAIN txs : txs'[i] = txs[i]
    BY <2>2, ListStays DEF CommandsInv, Aside
  <2> QED BY <1>1, <1>8, <2>1, <2>2 DEF CmdKind
<1>10. PICK tx : tx = txs[m]
  OBVIOUS
<1>11. m \in DOMAIN txs /\ d.tx = m /\ txs'[d.tx] = tx /\ tx.status = "succeeded"
  BY <1>0, <1>1, <1>6, <1>7, <1>9, <1>10
<1>12. CASE "verify" \in DOMAIN c.read /\ d.read["verify"] = c.read["verify"]
  <2>1. Agrees(c, tx)
    BY <1>2, <1>6, <1>10, <1>11, <1>12 DEF Reported
  <2> QED BY <1>4, <1>11, <1>12, <2>1 DEF Agrees
<1>13. CASE Told(c, "verify", d.read["verify"])
  <2>1. tx.fn = c.name /\ tx.args = c.args
    BY <1>0, <1>2, <1>6, <1>10, <1>11 DEF Sending
  <2>2. Took(tx)
    BY <1>1, <1>10, <1>11 DEF ReportsInv, LastTook
  <2>3. d.name = "approveToken" => d.read.verify = tx.arg.amount
    BY <1>4, <1>13, <2>1, <2>2 DEF Told, Took, AllowanceOf
  <2>4. d.name = "setOperatorApproval" => LimitsOf(d.read.verify) = tx.arg
    BY <1>4, <1>13, <2>1, <2>2 DEF Told, Took, ApprovalOf
  <2> QED BY <1>11, <2>3, <2>4 DEF Agrees
<1> QED BY <1>4, <1>12, <1>13

\* What a command shows as the new allowance or approval is what its transaction
\* has set, if no later one is mined.
THEOREM TrueReports ==
    ASSUME AmountsFit
    PROVE  CmdSpec /\ []BalancesFit /\ UserAlone => []ReportsAreTrue
<1>1. CmdInit => ReportsInv
  <2> SUFFICES ASSUME CmdInit
               PROVE  ReportsInv
    OBVIOUS
  <2>1. DOMAIN txs = {}
    BY DEF CmdInit
  <2>2. \A t \in Terminals : Reported(cmds[t], txs, MinedCount)
    BY DEF CmdInit, NotStarted, Reported
  <2> QED BY <2>1, <2>2 DEF ReportsInv, LastTook
<1>2. CommandsInv /\ FitsInv /\ ReportsInv /\ [CmdNext]_termVars /\ [UsersStep]_termVars =>
          ReportsInv'
  BY CmdStepKind, AsideLimits, LastTookStep, ReportedStep DEF ReportsInv
<1>3. CommandsInv /\ ReportsInv => ReportsAreTrue
  <2> SUFFICES ASSUME CommandsInv, ReportsInv, NEW t \in Terminals, NEW c, c = cmds[t],
                      "verify" \in DOMAIN c.read, c.tx = MinedCount,
                      txs[c.tx].status = "succeeded"
               PROVE  IF c.name = "approveToken" THEN c.read.verify = txs[c.tx].arg.amount
                      ELSE \A field \in DOMAIN txs[c.tx].arg :
                               c.read.verify[field] = txs[c.tx].arg[field]
    BY Zenon DEF ReportsAreTrue
  <2>1. PICK tx : tx = txs[c.tx]
    OBVIOUS
  <2>2. c.name \in {"approveToken", "setOperatorApproval"} /\ Agrees(c, tx)
    BY <2>1 DEF ReportsInv, Reported
  <2>3. ASSUME c.name = "setOperatorApproval", NEW field \in DOMAIN tx.arg
        PROVE  c.read.verify[field] = tx.arg[field]
    <3>1. tx.arg = LimitsOf(c.read.verify)
      BY <2>2, <2>3 DEF Agrees
    <3>2. DOMAIN tx.arg = {"isApproved", "rateAllowance", "lockupAllowance", "maxLockupPeriod"}
      BY <3>1 DEF LimitsOf
    <3> QED BY <2>3, <3>1, <3>2 DEF LimitsOf
  <2> QED BY <2>1, <2>2, <2>3 DEF Agrees
<1> QED BY <1>1, <1>2, <1>3, FitsAlways, CommandsInvariance, PTL DEF CmdSpec, UserAlone


----------------------------------------------------------------------------
(* What `sp query' shows.                                                  *)

\* A provider that is active is registered, and asks for a term.
Offers(st, p) ==
    st.spConfigs[p].isActive =>
        Registered(st, p) /\ st.spConfigs[p].minTermLength > 0

ActiveTerms == \A p \in Providers : Offers(s, p)

LEMMA ActiveTermsStep ==
    ASSUME CommandsInv, ActiveTerms, [AnyNext]_vars
    PROVE  ActiveTerms'
<1>0. s \in DDOState
  BY SoundParts DEF CommandsInv
<1>a. ASSUME NEW p \in Providers
      PROVE  s.spConfigs[p] \in SPConfig
  BY <1>0 DEF DDOState
\* One provider's configuration changes.
<1>b. ASSUME NEW p \in Providers, NEW config, s'.spConfigs = [s.spConfigs EXCEPT ![p] = config],
             config.isActive => config.paymentAddress # ZERO /\ config.minTermLength > 0
      PROVE  ActiveTerms'
  <2> SUFFICES ASSUME NEW q \in Providers
               PROVE  Offers(s', q)
    BY DEF ActiveTerms
  <2>1. CASE q = p
    <3>1. s'.spConfigs[q] = config
      BY <1>0, <1>b, <2>1 DEF DDOState
    <3> QED BY <1>b, <3>1 DEF Offers, Registered
  <2>2. CASE q # p
    <3>1. s'.spConfigs[q] = s.spConfigs[q]
      BY <1>0, <1>b, <2>2 DEF DDOState
    <3> QED BY <3>1 DEF Offers, Registered, ActiveTerms
  <2> QED BY <2>1, <2>2
\* One provider's tokens.
<1>c. ASSUME NEW p \in Providers, NEW tokens,
             s' = [s EXCEPT !.spConfigs[p].supportedTokens = tokens]
      PROVE  ActiveTerms'
  <2>1. PICK old \in SPConfig : old = s.spConfigs[p]
    BY <1>a
  <2>2. PICK config : config = [old EXCEPT !.supportedTokens = tokens]
    OBVIOUS
  <2>3. s'.spConfigs = [s.spConfigs EXCEPT ![p] = config]
    BY <1>0, <1>c, <2>1, <2>2 DEF DDOState
  <2>4. /\ config.isActive = old.isActive /\ config.minTermLength = old.minTermLength
        /\ config.paymentAddress = old.paymentAddress
    BY <2>2 DEF SPConfig
  <2>5. Offers(s, p)
    BY DEF ActiveTerms
  <2> QED BY <1>b, <2>1, <2>3, <2>4, <2>5 DEF Offers, Registered
<1>1. ASSUME NEW p \in Providers, NEW terms, NEW tokens,
             registerSP(p, terms, tokens) \/ updateSPConfig(p, terms)
      PROVE  ActiveTerms'
  <2>1. PICK old \in SPConfig : old = s.spConfigs[p]
    BY <1>a
  <2>2. PICK config :
            /\ s'.spConfigs = [s.spConfigs EXCEPT ![p] = config]
            /\ \/ config = [WithTerms(old, terms) EXCEPT
                               !.isActive = TRUE, !.supportedTokens = @ \o tokens]
               \/ config = WithTerms(old, terms)
    BY <1>0, <1>1, <2>1 DEF registerSP, updateSPConfig, DDOState
  <2>3. terms.paymentAddress # ZERO /\ terms.minTermLength > 0
    BY <1>1 DEF registerSP, updateSPConfig, validateSPConfig
  <2>4. /\ config.paymentAddress = terms.paymentAddress
        /\ config.minTermLength = terms.minTermLength
    BY <2>2 DEF WithTerms, SPConfig
  <2> QED BY <1>b, <2>2, <2>3, <2>4
<1>2. ASSUME NEW p \in Providers, deactivateSP(p)
      PROVE  ActiveTerms'
  <2>1. PICK old \in SPConfig : old = s.spConfigs[p]
    BY <1>a
  <2>2. PICK config : config = [old EXCEPT !.isActive = FALSE]
    OBVIOUS
  <2>3. s'.spConfigs = [s.spConfigs EXCEPT ![p] = config]
    BY <1>0, <1>2, <2>1, <2>2 DEF deactivateSP, DDOState
  <2>4. ~config.isActive
    BY <2>2 DEF SPConfig
  <2> QED BY <1>b, <2>3, <2>4
<1>3. ASSUME NEW p \in Providers, NEW token, NEW price, addSPToken(p, token, price)
      PROVE  ActiveTerms'
  <2>1. \E tokens : s' = [s EXCEPT !.spConfigs[p].supportedTokens = tokens]
    BY <1>3 DEF addSPToken
  <2> QED BY <1>c, <2>1
<1>4. ASSUME NEW p \in Providers, NEW token, NEW price, NEW active,
             updateSPToken(p, token, price, active)
      PROVE  ActiveTerms'
  <2>1. \E i, entry : s' = [s EXCEPT !.spConfigs[p].supportedTokens[i] = entry]
    BY <1>4 DEF updateSPToken
  <2>2. \E tokens : s' = [s EXCEPT !.spConfigs[p].supportedTokens = tokens]
    BY <1>0, <1>a, <2>1 DEF DDOState, SPConfig
  <2> QED BY <1>c, <2>2
<1>5. ASSUME NEW p \in Providers, NEW token, removeSPToken(p, token)
      PROVE  ActiveTerms'
  <2>1. \E tokens : s' = [s EXCEPT !.spConfigs[p].supportedTokens = tokens]
    BY <1>5 DEF removeSPToken
  <2> QED BY <1>c, <2>1
<1>6. s'.spConfigs = s.spConfigs => ActiveTerms'
  BY DEF ActiveTerms, Offers, Registered
<1>7. AnySP => ActiveTerms'
  BY <1>1, <1>2, <1>3, <1>4, <1>5, Zenon DEF AnySP
<1> QED BY <1>6, <1>7, RegistryAlone DEF CommandsInv

LEMMA ActiveTermsAlways == CmdSpec => []ActiveTerms
<1>1. CmdInit => ActiveTerms
  <2> SUFFICES ASSUME CmdInit, NEW p \in Providers
               PROVE  Offers(s, p)
    BY DEF ActiveTerms
  <2>1. ~s.spConfigs[p].isActive
    BY DEF CmdInit, Init, Initialized, NoSPConfig
  <2> QED BY <2>1 DEF Offers
<1>2. CommandsInv /\ ActiveTerms /\ [CmdNext]_termVars => ActiveTerms'
  BY CmdStepKind, ActiveTermsStep
<1> QED BY <1>1, <1>2, CommandsInvariance, PTL DEF CmdSpec


\* The price of a token is that of its one entry.
LEMMA PriceIs ==
    ASSUME NEW p, NEW tokens, tokens = s.spConfigs[p].supportedTokens,
           OneEntryEach(tokens), NEW k \in DOMAIN tokens, tokens[k].isActive, k \in Nat,
           isRegisteredSP(p)
    PROVE  /\ supportsToken(p, tokens[k].token)
           /\ SPPrice(p, tokens[k].token) = tokens[k].pricePerBytePerEpoch
<1>1. ActivePrices(p, tokens[k].token) = {k}
  BY DEF ActivePrices, OneEntryEach
<1>2. (CHOOSE i \in {k} : \A j \in {k} : i <= j) = k
  OBVIOUS
<1>3. SPPrice(p, tokens[k].token) = tokens[k].pricePerBytePerEpoch
  BY <1>1, <1>2 DEF SPPrice
<1> QED BY <1>1, <1>3 DEF supportsToken

LEMMA QuoteIs ==
    ASSUME CommandsInv, ActiveTerms, NEW c, CommandInv(c), c.name = "querySP",
           "config" \in DOMAIN c.read, "tokens" \in DOMAIN c.read, ConfigRead(c),
           c.read.config.isActive, NEW k \in DOMAIN c.read.tokens, NEW size, NEW term,
           c.read.tokens[k].isActive,
           size \in c.read.config.minPieceSize .. c.read.config.maxPieceSize,
           term \in c.read.config.minTermLength .. c.read.config.maxTermLength,
           NEW piece,
           piece = [provider |-> c.args.actorId, size |-> size, termMin |-> term,
                    paymentTokenAddress |-> c.read.tokens[k].token]
    PROVE  /\ CanCalculateStorageCost(piece)
           /\ StorageCost(piece) = ExampleCost(c.read.tokens[k], size, term)
<1>1. PICK p \in Providers : p = c.args.actorId
  BY DEF CommandInv, ArgsTyped
<1>2. PICK config \in SPConfig : config = s.spConfigs[p]
  BY SoundParts DEF CommandsInv, DDOState
<1>3. c.read.config = [config EXCEPT !.supportedTokens = <<>>]
  BY <1>1, <1>2 DEF ConfigRead, TermsOf
<1>4. PICK tokens : tokens = config.supportedTokens
  OBVIOUS
<1>5. c.read.tokens = tokens
  <2>1. c.read.tokens \in {<<>>, tokens}
    BY <1>1, <1>2, <1>4 DEF ConfigRead
  <2>2. DOMAIN <<>> = {}
    OBVIOUS
  <2> QED BY <2>1, <2>2
<1>6. /\ config.isActive
      /\ size \in config.minPieceSize .. config.maxPieceSize
      /\ term \in config.minTermLength .. config.maxTermLength
  BY <1>3 DEF SPConfig
<1>7. isRegisteredSP(p) /\ config.minTermLength > 0
  BY <1>1, <1>2, <1>6 DEF ActiveTerms, Offers, Registered, isRegisteredSP
<1>8. OneEntryEach(tokens)
  BY <1>1, <1>2, <1>4 DEF CommandsInv, RegistryInv
<1>9. k \in DOMAIN tokens /\ k \in Nat /\ tokens[k].isActive
  <2>1. tokens \in Seq(TokenConfig)
    BY <1>4 DEF SPConfig
  <2> QED BY <1>5, <2>1
<1>10. /\ supportsToken(p, tokens[k].token)
       /\ SPPrice(p, tokens[k].token) = tokens[k].pricePerBytePerEpoch
  BY <1>2, <1>4, <1>7, <1>8, <1>9, PriceIs
<1>11. /\ piece.provider = p /\ piece.size = size /\ piece.termMin = term
       /\ piece.paymentTokenAddress = tokens[k].token
  BY <1>1, <1>5
<1>12. /\ term > 0 /\ size >= config.minPieceSize /\ size <= config.maxPieceSize
       /\ term >= config.minTermLength /\ term <= config.maxTermLength
  BY <1>6, <1>7 DEF SPConfig
<1>13. CanCalculateStorageCost(piece)
  BY <1>2, <1>6, <1>10, <1>11, <1>12 DEF CanCalculateStorageCost
<1>14. StorageCost(piece) = tokens[k].pricePerBytePerEpoch * size * term
  BY <1>10, <1>11, Zenon DEF StorageCost
<1>15. ExampleCost(c.read.tokens[k], size, term) = tokens[k].pricePerBytePerEpoch * size * term
  BY <1>5, Zenon DEF ExampleCost
<1> QED BY <1>13, <1>14, <1>15

\* The example costs that `sp query' shows are what the contract asks for, if
\* nothing of the owner's has come since the query began.
THEOREM TrueQuotes == CmdSpec /\ OwnerAlone => []QuotesAreCosts
<1>1. ASSUME CommandsInv, ActiveTerms, TermsRead
      PROVE  QuotesAreCosts
  <2> SUFFICES ASSUME NEW t \in Terminals,
                      cmds[t].name = "querySP", At(t) = "done",
                      {"config", "tokens"} \subseteq DOMAIN cmds[t].read,
                      cmds[t].seen = MinedCount, cmds[t].read.config.isActive
               PROVE  \A k \in DOMAIN cmds[t].read.tokens,
                         size \in ExampleSizes, term \in ExampleTerms :
                          LET config == cmds[t].read.config
                              entry == cmds[t].read.tokens[k]
                              piece == [provider |-> cmds[t].args.actorId, size |-> size,
                                        termMin |-> term,
                                        paymentTokenAddress |-> entry.token]
                          IN  /\ entry.isActive
                              /\ size \in config.minPieceSize .. config.maxPieceSize
                              /\ term \in config.minTermLength .. config.maxTermLength
                              => /\ CanCalculateStorageCost(piece)
                                 /\ StorageCost(piece) = ExampleCost(entry, size, term)
    BY DEF QuotesAreCosts
  <2> SUFFICES ASSUME NEW k \in DOMAIN cmds[t].read.tokens,
                      NEW size \in ExampleSizes, NEW term \in ExampleTerms,
                      cmds[t].read.tokens[k].isActive,
                      size \in cmds[t].read.config.minPieceSize ..
                                   cmds[t].read.config.maxPieceSize,
                      term \in cmds[t].read.config.minTermLength ..
                                   cmds[t].read.config.maxTermLength,
                      NEW piece,
                      piece = [provider |-> cmds[t].args.actorId, size |-> size,
                               termMin |-> term,
                               paymentTokenAddress |-> cmds[t].read.tokens[k].token]
               PROVE  /\ CanCalculateStorageCost(piece)
                      /\ StorageCost(piece) = ExampleCost(cmds[t].read.tokens[k], size, term)
    BY Zenon
  <2>1. CommandInv(cmds[t]) /\ ConfigRead(cmds[t])
    BY <1>1 DEF CommandsInv, TerminalsInv, TermsRead
  <2>2. "config" \in DOMAIN cmds[t].read /\ "tokens" \in DOMAIN cmds[t].read
    OBVIOUS
  <2> QED BY <1>1, <2>1, <2>2, QuoteIs
<1> QED BY <1>1, TermsAreRead, ActiveTermsAlways, CommandsInvariance, PTL DEF CmdSpec


----------------------------------------------------------------------------
(* The providers' prices.                                                  *)

\* A price for a terabyte and a month, as it is shown after it was rounded.
LEMMA Associates ==
    \A a, b, c \in Nat : a * b * c = a * (b * c)
BY SMT

LEMMA Rounded ==
    \A a \in Nat, b \in Nat \ {0} : (a \div b) * b <= a /\ a < (a \div b) * b + b
BY SMT

LEMMA ShownPrice ==
    ASSUME NEW asked \in Nat, NEW price, price = ConvertTBPerMonthToBytesPerEpoch(asked)
    PROVE  /\ ConvertBytesPerEpochToTBPerMonth(price) <= asked
           /\ asked < ConvertBytesPerEpochToTBPerMonth(price) + Step
<1>1. Step \in Nat \ {0}
  BY OwnerAssumption, EpochsAssumption, Products DEF Step
<1>2. price \in Nat
  BY PricesTyped
<1>3. ConvertBytesPerEpochToTBPerMonth(price) = price * Step
  BY <1>2, OwnerAssumption, EpochsAssumption, Associates
     DEF ConvertBytesPerEpochToTBPerMonth, Step
<1>4. price = asked \div Step
  BY DEF ConvertTBPerMonthToBytesPerEpoch
<1> HIDE DEF Step
<1> QED BY <1>1, <1>3, <1>4, Rounded

\* The transactions that ask a price of a provider for a token, and the last.
Asking(list, p, token) == {i \in DOMAIN list : AskedOf(list[i], p, token) # {}}

Charged(entry, prices) ==
    \E asked \in prices :
        entry.pricePerBytePerEpoch = ConvertTBPerMonthToBytesPerEpoch(asked)

Fair(list, p, entry) ==
    \A m \in Asking(list, p, entry.token) :
        (\A j \in Asking(list, p, entry.token) : j <= m) =>
            Charged(entry, AskedOf(list[m], p, entry.token))

PricesInv ==
    \A p \in Providers : \A k \in DOMAIN s.spConfigs[p].supportedTokens :
        Fair(txs, p, s.spConfigs[p].supportedTokens[k])

\* What is asked comes from the flags.
LEMMA AskedIsTyped ==
    ASSUME NEW tx, TxTyped(tx), NEW p, NEW token
    PROVE  AskedOf(tx, p, token) \subseteq Nat
<1>1. ASSUME tx.fn = "registerSP", NEW i \in DOMAIN tx.args.tokens
      PROVE  tx.args.tokens[i].price \in Nat
  <2>1. tx.args.tokens \in Seq(TokenInput)
    BY <1>1 DEF TxTyped, ArgsTyped
  <2>2. tx.args.tokens[i] \in TokenInput
    BY <1>1, <2>1
  <2> QED BY <2>2 DEF TokenInput
<1>2. tx.fn \in {"addSPToken", "updateSPToken"} => tx.args.price \in Nat
  BY DEF TxTyped, ArgsTyped
<1>3. CASE tx.fn = "registerSP"
  BY <1>1, <1>3 DEF AskedOf
<1>4. CASE tx.fn \in {"addSPToken", "updateSPToken"}
  BY <1>2, <1>4 DEF AskedOf
<1>5. CASE tx.fn \notin {"registerSP", "addSPToken", "updateSPToken"}
  BY <1>5 DEF AskedOf
<1> QED BY <1>3, <1>4, <1>5

LEMMA NothingAsked ==
    ASSUME NEW tx, NEW p, NEW token,
           \/ tx.status # "succeeded"
           \/ tx.fn \notin {"registerSP", "addSPToken", "updateSPToken"}
           \/ tx.args.actorId # p
           \/ tx.fn \in {"addSPToken", "updateSPToken"} /\ tx.args.token # token
    PROVE  AskedOf(tx, p, token) = {}
<1>1. CASE tx.status # "succeeded"
  BY <1>1 DEF AskedOf
<1>2. CASE tx.fn \notin {"registerSP", "addSPToken", "updateSPToken"}
  BY <1>2 DEF AskedOf
<1>3. CASE tx.args.actorId # p
  BY <1>3 DEF AskedOf
<1>4. CASE tx.fn \in {"addSPToken", "updateSPToken"} /\ tx.args.token # token
  BY <1>4 DEF AskedOf
<1> QED BY <1>1, <1>2, <1>3, <1>4

\* An entry stays fair, as the list grows by what asks for nothing of it.
LEMMA FairStays ==
    ASSUME NEW list, NEW later, NEW p, NEW old, NEW entry, Fair(list, p, old),
           entry.token = old.token,
           entry.pricePerBytePerEpoch = old.pricePerBytePerEpoch,
           DOMAIN list \subseteq DOMAIN later,
           \A i \in DOMAIN later :
               \/ i \in DOMAIN list /\ AskedOf(later[i], p, old.token) =
                                           AskedOf(list[i], p, old.token)
               \/ /\ AskedOf(later[i], p, old.token) = {}
                  /\ i \in DOMAIN list => AskedOf(list[i], p, old.token) = {}
    PROVE  Fair(later, p, entry)
<1>1. Asking(later, p, entry.token) = Asking(list, p, old.token)
  BY DEF Asking
<1>2. \A m \in Asking(list, p, old.token) :
          AskedOf(later[m], p, entry.token) = AskedOf(list[m], p, old.token)
  BY DEF Asking
<1> QED BY <1>1, <1>2 DEF Fair, Charged

\* An entry is fair that has the price of the last transaction of all.
LEMMA FairLast ==
    ASSUME NEW list, NEW p, NEW entry, NEW i \in DOMAIN list,
           \A j \in DOMAIN list : j \in Int, \A j \in DOMAIN list : j > i =>
               AskedOf(list[j], p, entry.token) = {},
           Charged(entry, AskedOf(list[i], p, entry.token))
    PROVE  Fair(list, p, entry)
<1>1. i \in Asking(list, p, entry.token)
  BY DEF Asking, Charged
<1>2. ASSUME NEW m \in Asking(list, p, entry.token),
             \A j \in Asking(list, p, entry.token) : j <= m
      PROVE  m = i
  <2>1. i <= m /\ ~(m > i) /\ m \in Int /\ i \in Int
    BY <1>1, <1>2 DEF Asking
  <2> QED BY <2>1
<1> QED BY <1>2 DEF Fair


\* What a transaction that succeeds does to an entry: it has the price it asks
\* for, or is one that was there and that it asks nothing for.
LEMMA EntryFrom ==
    ASSUME CommandsInv, NEW tx, TxTyped(tx), Effect(tx),
           NEW new, new.fn = tx.fn, new.args = tx.args, new.status = "succeeded",
           NEW p \in Providers, NEW entry,
           NEW k \in DOMAIN s'.spConfigs[p].supportedTokens,
           entry = s'.spConfigs[p].supportedTokens[k]
    PROVE  \/ Charged(entry, AskedOf(new, p, entry.token))
           \/ /\ AskedOf(new, p, entry.token) = {}
              /\ \E i \in DOMAIN s.spConfigs[p].supportedTokens :
                    LET old == s.spConfigs[p].supportedTokens[i]
                    IN  /\ old.token = entry.token
                        /\ old.pricePerBytePerEpoch = entry.pricePerBytePerEpoch
<1>0. s \in DDOState
  BY SoundParts DEF CommandsInv
<1>1. PICK tokens, later :
          /\ tokens = s.spConfigs[p].supportedTokens
          /\ later = s'.spConfigs[p].supportedTokens
  OBVIOUS
<1>2. /\ s.spConfigs[p] \in SPConfig /\ tokens \in Seq(TokenConfig)
      /\ OneEntryEach(tokens)
      /\ ~isRegisteredSP(p) => tokens = <<>>
  BY <1>0, <1>1 DEF DDOState, SPConfig, CommandsInv, RegistryInv, Registered, isRegisteredSP
<1>3. k \in DOMAIN later /\ entry = later[k]
  BY <1>1
<1> DEFINE Unasked == /\ AskedOf(new, p, entry.token) = {}
                 /\ \E i \in DOMAIN tokens :
                       /\ tokens[i].token = entry.token
                       /\ tokens[i].pricePerBytePerEpoch = entry.pricePerBytePerEpoch
<1>4. ASSUME later = tokens, AskedOf(new, p, entry.token) = {}
      PROVE  Unasked
  BY <1>3, <1>4
<1>5. ASSUME NEW q \in Providers, q # p,
             \E config : s'.spConfigs = [s.spConfigs EXCEPT ![q] = config]
      PROVE  later = tokens
  BY <1>0, <1>1, <1>5 DEF DDOState
<1>6. CASE tx.fn = "registerSP"
  <2>1. PICK q \in Providers : q = tx.args.actorId
    BY <1>6 DEF TxTyped, ArgsTyped
  <2>2. PICK list, terms : list = TokensOf(tx) /\ terms = tx.args.given
    OBVIOUS
  <2>3. registerSP(q, terms, list)
    BY <1>6, <2>1, <2>2, EffectIs DEF RegisterSP, TokensOf
  <2>4. PICK config :
            /\ s'.spConfigs = [s.spConfigs EXCEPT ![q] = config]
            /\ config = [WithTerms(s.spConfigs[q], terms) EXCEPT
                            !.isActive = TRUE, !.supportedTokens = @ \o list]
    BY <1>0, <2>3 DEF registerSP, DDOState
  <2>5. CASE q = p
    <3>1. later = config.supportedTokens
      BY <1>0, <1>1, <2>4, <2>5 DEF DDOState
    <3>2. tokens = <<>>
      BY <1>2, <2>3, <2>5 DEF registerSP
    <3>3. tx.args.tokens \in Seq(TokenInput) /\ list \in Seq(TokenConfig)
      BY <1>6, <2>2, TokensTyped DEF TxTyped, ArgsTyped
    <3>4. config.supportedTokens = <<>> \o list
      <4>1. PICK before \in SPConfig : before = s.spConfigs[q] /\ before.supportedTokens = <<>>
        BY <1>1, <1>2, <2>5, <3>2
      <4>2. config = [WithTerms(before, terms) EXCEPT
                         !.isActive = TRUE, !.supportedTokens = @ \o list]
        BY <2>4, <4>1
      <4>3. PICK w : w = WithTerms(before, terms)
        OBVIOUS
      <4>4. "supportedTokens" \in DOMAIN w /\ w.supportedTokens = <<>>
        BY <4>1, <4>3 DEF WithTerms, SPConfig
      <4> QED BY <4>2, <4>3, <4>4
    <3>5. <<>> \o list = list
      BY <3>3
    <3>6. k \in DOMAIN tx.args.tokens /\ entry = OnChain(tx.args.tokens[k])
      <4>1. later = TokensOf(tx)
        BY <2>2, <3>1, <3>4, <3>5
      <4> QED BY <1>3, <4>1 DEF TokensOf
    <3>7. PICK input : input = tx.args.tokens[k]
      OBVIOUS
    <3>8. /\ entry.token = input.token
          /\ entry.pricePerBytePerEpoch = ConvertTBPerMonthToBytesPerEpoch(input.price)
      BY <3>6, <3>7 DEF OnChain
    <3>9. input.price \in AskedOf(new, p, entry.token)
      BY <1>6, <2>1, <2>5, <3>6, <3>7, <3>8 DEF AskedOf
    <3> QED BY <3>8, <3>9 DEF Charged
  <2>6. CASE q # p
    <3>1. AskedOf(new, p, entry.token) = {}
      BY <2>1, <2>6, NothingAsked
    <3>2. later = tokens
      BY <1>5, <2>4, <2>6
    <3> QED BY <1>1, <1>4, <3>1, <3>2
  <2> QED BY <2>5, <2>6
<1>7. CASE tx.fn = "addSPToken"
  <2>1. PICK q \in Providers : q = tx.args.actorId
    BY <1>7 DEF TxTyped, ArgsTyped
  <2>2. PICK token, price : token = tx.args.token
                            /\ price = ConvertTBPerMonthToBytesPerEpoch(tx.args.price)
    OBVIOUS
  <2>3. addSPToken(q, token, price)
    BY <1>7, <2>1, <2>2, EffectIs DEF AddSPToken
  <2>4. CASE q = p
    <3>1. PICK last : last = [token |-> token, pricePerBytePerEpoch |-> price,
                              isActive |-> TRUE]
      OBVIOUS
    <3>2. later = Append(tokens, last) /\ Positions(tokens, token) = {}
      BY <1>0, <1>1, <1>2, <2>3, <2>4, <3>1 DEF addSPToken, DDOState, SPConfig
    <3>3. (k \in DOMAIN tokens /\ entry = tokens[k]) \/ entry = last
      BY <1>2, <1>3, <3>2
    <3>4. CASE entry = last
      <4>1. tx.args.price \in AskedOf(new, p, entry.token)
        BY <1>7, <2>1, <2>2, <2>4, <3>1, <3>4 DEF AskedOf
      <4> QED BY <2>2, <3>1, <3>4, <4>1 DEF Charged
    <3>5. CASE k \in DOMAIN tokens /\ entry = tokens[k]
      <4>1. entry.token # token
        BY <3>2, <3>5 DEF Positions
      <4>2. AskedOf(new, p, entry.token) = {}
        BY <1>7, <2>2, <4>1, NothingAsked
      <4> QED BY <1>1, <3>5, <4>2
    <3> QED BY <3>3, <3>4, <3>5
  <2>5. CASE q # p
    <3>1. AskedOf(new, p, entry.token) = {}
      BY <2>1, <2>5, NothingAsked
    <3>2. later = tokens
      BY <1>0, <1>1, <2>3, <2>5 DEF addSPToken, DDOState
    <3> QED BY <1>1, <1>4, <3>1, <3>2
  <2> QED BY <2>4, <2>5
<1>8. CASE tx.fn = "updateSPToken"
  <2>1. PICK q \in Providers : q = tx.args.actorId
    BY <1>8 DEF TxTyped, ArgsTyped
  <2>2. PICK token, price, active :
            /\ token = tx.args.token /\ active = tx.args.isActive
            /\ price = ConvertTBPerMonthToBytesPerEpoch(tx.args.price)
    OBVIOUS
  <2>3. updateSPToken(q, token, price, active)
    BY <1>8, <2>1, <2>2, EffectIs DEF UpdateSPToken
  <2>4. CASE q = p
    <3>1. PICK other : other = [token |-> token, pricePerBytePerEpoch |-> price,
                                isActive |-> active]
      OBVIOUS
    <3>2. PICK i : i = First(Positions(tokens, token))
      OBVIOUS
    <3>3. later = [tokens EXCEPT ![i] = other] /\ Positions(tokens, token) # {}
      BY <1>0, <1>1, <1>2, <2>3, <2>4, <3>1, <3>2 DEF updateSPToken, DDOState, SPConfig
    <3>4. i \in DOMAIN tokens /\ tokens[i].token = token
      BY <1>2, <3>2, <3>3, FirstIsOne
    <3>5. CASE k = i
      <4>1. entry = other
        BY <1>2, <1>3, <3>3, <3>4, <3>5
      <4>2. tx.args.price \in AskedOf(new, p, entry.token)
        BY <1>8, <2>1, <2>2, <2>4, <3>1, <4>1 DEF AskedOf
      <4> QED BY <2>2, <3>1, <4>1, <4>2 DEF Charged
    <3>6. CASE k # i
      <4>1. k \in DOMAIN tokens /\ entry = tokens[k]
        BY <1>2, <1>3, <3>3, <3>6
      <4>2. entry.token # token
        BY <1>2, <3>4, <3>6, <4>1 DEF OneEntryEach
      <4>3. AskedOf(new, p, entry.token) = {}
        BY <1>8, <2>2, <4>2, NothingAsked
      <4> QED BY <1>1, <4>1, <4>3
    <3> QED BY <3>5, <3>6
  <2>5. CASE q # p
    <3>1. AskedOf(new, p, entry.token) = {}
      BY <2>1, <2>5, NothingAsked
    <3>2. later = tokens
      BY <1>0, <1>1, <2>3, <2>5 DEF updateSPToken, DDOState
    <3> QED BY <1>1, <1>4, <3>1, <3>2
  <2> QED BY <2>4, <2>5
<1>9. CASE tx.fn = "removeSPToken"
  <2>0. AskedOf(new, p, entry.token) = {}
    BY <1>9, NothingAsked
  <2>1. PICK q \in Providers : q = tx.args.actorId
    BY <1>9 DEF TxTyped, ArgsTyped
  <2>2. PICK token : token = tx.args.token /\ removeSPToken(q, token)
    BY <1>9, <2>1, EffectIs DEF RemoveSPToken
  <2>3. CASE q = p
    <3>1. PICK i : i = First(Positions(tokens, token))
      OBVIOUS
    <3>2. later = SwapRemove(tokens, i) /\ Positions(tokens, token) # {}
      BY <1>0, <1>1, <1>2, <2>2, <2>3, <3>1 DEF removeSPToken, DDOState, SPConfig
    <3>3. i \in DOMAIN tokens
      BY <1>2, <3>1, <3>2, FirstIsOne
    <3>4. entry \in EntriesOf(later)
      BY <1>3 DEF EntriesOf
    <3>5. entry \in EntriesOf(tokens)
      BY <1>2, <3>2, <3>3, <3>4, SwapRemoveEntry
    <3> QED BY <1>1, <2>0, <3>5 DEF EntriesOf
  <2>4. CASE q # p
    <3>1. later = tokens
      BY <1>0, <1>1, <2>2, <2>4 DEF removeSPToken, DDOState
    <3> QED BY <1>1, <1>4, <2>0, <3>1
  <2> QED BY <2>3, <2>4
<1>10. CASE tx.fn \notin {"registerSP", "addSPToken", "updateSPToken", "removeSPToken"}
  <2>1. AskedOf(new, p, entry.token) = {}
    BY <1>10, NothingAsked
  <2>2. later = tokens
    <3>1. CASE UpdateSPConfig(tx)
      <4>1. PICK q, terms : q \in Providers /\ updateSPConfig(q, terms)
        BY <3>1 DEF UpdateSPConfig, TxTyped, ArgsTyped
      <4>2. CASE q = p
        <5>1. s'.spConfigs[p] = WithTerms(s.spConfigs[p], terms)
          BY <1>0, <4>1, <4>2 DEF updateSPConfig, DDOState
        <5> QED BY <1>1, <1>2, <5>1 DEF WithTerms, SPConfig
      <4>3. CASE q # p
        BY <1>0, <1>1, <4>1, <4>3 DEF updateSPConfig, DDOState
      <4> QED BY <4>2, <4>3
    <3>2. CASE DeactivateSP(tx)
      <4>1. PICK q : q \in Providers /\ deactivateSP(q)
        BY <3>2 DEF DeactivateSP, TxTyped, ArgsTyped
      <4> QED BY <1>0, <1>1, <1>2, <4>1 DEF deactivateSP, DDOState, SPConfig
    <3>3. CASE PaymentsTransactions(tx)
      <4>1. UNCHANGED s
        BY <3>3, PaymentsTransactionIsAny DEF CommandsInv
      <4> QED BY <1>1, <4>1
    <3>4. CASE \/ SetPaymentsContract(tx) \/ SetCommissionRate(tx)
               \/ SetAllocationLockupAmount(tx) \/ Pause(tx) \/ Unpause(tx)
               \/ BlacklistSector(tx)
      <4>1. s'.spConfigs = s.spConfigs
        BY <1>0, <3>4 DEF SetPaymentsContract, SetCommissionRate, SetAllocationLockupAmount,
               Pause, Unpause, BlacklistSector, setPaymentsContract, setCommissionRate,
               setAllocationLockupAmount, pause, unpause, blacklistSector, DDOState
      <4> QED BY <1>1, <4>1
    <3> QED BY <1>10, <3>1, <3>2, <3>3, <3>4
            DEF Effect, OwnerTransactions, RegisterSP, AddSPToken, UpdateSPToken, RemoveSPToken
  <2> QED BY <1>1, <1>4, <2>1, <2>2
<1> QED BY <1>6, <1>7, <1>8, <1>9, <1>10


\* What is pending or reverted has asked for nothing.
LEMMA PricesStay ==
    ASSUME CommandsInv, PricesInv, s'.spConfigs = s.spConfigs,
           DOMAIN txs \subseteq DOMAIN txs',
           \A i \in DOMAIN txs' :
               \/ i \in DOMAIN txs /\ txs'[i] = txs[i]
               \/ /\ txs'[i].status # "succeeded"
                  /\ i \in DOMAIN txs => txs[i].status # "succeeded"
    PROVE  PricesInv'
<1>1. SUFFICES ASSUME NEW p \in Providers, NEW k \in DOMAIN s.spConfigs[p].supportedTokens,
                      NEW entry, entry = s.spConfigs[p].supportedTokens[k]
               PROVE  Fair(txs', p, entry)
  BY DEF PricesInv
<1>2. Fair(txs, p, entry)
  BY <1>1 DEF PricesInv
<1>3. \A i \in DOMAIN txs' :
         \/ i \in DOMAIN txs /\ AskedOf(txs'[i], p, entry.token) =
                                    AskedOf(txs[i], p, entry.token)
         \/ /\ AskedOf(txs'[i], p, entry.token) = {}
            /\ i \in DOMAIN txs => AskedOf(txs[i], p, entry.token) = {}
  BY NothingAsked
<1>4. PICK list, later : list = txs /\ later = txs'
  OBVIOUS
<1>5. Fair(later, p, entry)
  BY <1>2, <1>3, <1>4, FairStays
<1> QED BY <1>4, <1>5

LEMMA PricesMined ==
    ASSUME CommandsInv, PricesInv, NEW i, Mines(i), Succeeded(i)
    PROVE  PricesInv'
<1>1. PICK list, later : list = txs /\ later = txs'
  OBVIOUS
<1>2. /\ i \in DOMAIN list /\ DOMAIN later = DOMAIN list
      /\ \A j \in DOMAIN list : j # i => later[j] = list[j]
      /\ list[i].status = "pending"
      /\ SameTx(list[i], later[i])
  BY <1>1, MiningKeeps DEF CommandsInv
<1>3. TxTyped(list[i]) /\ Effect(list[i])
  BY <1>1, <1>2 DEF CommandsInv, ListInv, TxsGood, Succeeded
<1>4. later[i].status = "succeeded"
  BY <1>1, <1>2 DEF Succeeded, Receipt, CommandsInv, ListInv, TxsInv, IsTx
<1>5. later[i].fn = list[i].fn /\ later[i].args = list[i].args
  BY <1>2 DEF SameTx
<1>6. /\ \A j \in DOMAIN list : j \in Int
      /\ i \in Int
      /\ \A j \in DOMAIN list : j > i => list[j].status = "pending"
  <2>1. Len(txs) \in Nat /\ DOMAIN txs = 1 .. Len(txs)
    BY Listed DEF CommandsInv, ListInv, TxsInv
  <2>2. i = MinedCount + 1 /\ MinedCount \in 0 .. Len(txs)
    BY MiningKeeps, MinedOrder DEF CommandsInv, ListInv
  <2>3. \A j \in DOMAIN txs : j <= MinedCount <=> txs[j].status # "pending"
    BY DEF CommandsInv, ListInv, TxsInv, MinedTo
  <2> QED BY <1>1, <2>1, <2>2, <2>3
<1>7. SUFFICES ASSUME NEW p \in Providers, NEW k \in DOMAIN s'.spConfigs[p].supportedTokens,
                      NEW entry, entry = s'.spConfigs[p].supportedTokens[k]
               PROVE  Fair(later, p, entry)
  BY <1>1 DEF PricesInv
<1>8. CASE Charged(entry, AskedOf(later[i], p, entry.token))
  <2>1. \A j \in DOMAIN later : j > i => AskedOf(later[j], p, entry.token) = {}
    <3>1. SUFFICES ASSUME NEW j \in DOMAIN later, j > i
                   PROVE  AskedOf(later[j], p, entry.token) = {}
      OBVIOUS
    <3>2. later[j].status = "pending"
      BY <1>2, <1>6, <3>1
    <3> QED BY <3>2, NothingAsked
  <2> QED BY <1>2, <1>6, <1>8, <2>1, FairLast
<1>9. CASE /\ AskedOf(later[i], p, entry.token) = {}
           /\ \E n \in DOMAIN s.spConfigs[p].supportedTokens :
                 LET old == s.spConfigs[p].supportedTokens[n]
                 IN  /\ old.token = entry.token
                     /\ old.pricePerBytePerEpoch = entry.pricePerBytePerEpoch
  <2>1. PICK n \in DOMAIN s.spConfigs[p].supportedTokens :
                 LET old == s.spConfigs[p].supportedTokens[n]
                 IN  /\ old.token = entry.token
                     /\ old.pricePerBytePerEpoch = entry.pricePerBytePerEpoch
    BY <1>9
  <2>2. PICK old : old = s.spConfigs[p].supportedTokens[n]
    OBVIOUS
  <2>3. /\ entry.token = old.token /\ entry.pricePerBytePerEpoch = old.pricePerBytePerEpoch
        /\ Fair(list, p, old)
    BY <1>1, <2>1, <2>2 DEF PricesInv
  <2>4. AskedOf(list[i], p, old.token) = {}
    BY <1>2, NothingAsked
  <2>5. \A j \in DOMAIN later :
           \/ j \in DOMAIN list /\ AskedOf(later[j], p, old.token) =
                                      AskedOf(list[j], p, old.token)
           \/ /\ AskedOf(later[j], p, old.token) = {}
              /\ j \in DOMAIN list => AskedOf(list[j], p, old.token) = {}
    BY <1>2, <1>9, <2>3, <2>4
  <2> QED BY <1>2, <2>3, <2>5, FairStays
<1>10. \/ Charged(entry, AskedOf(later[i], p, entry.token))
       \/ /\ AskedOf(later[i], p, entry.token) = {}
          /\ \E n \in DOMAIN s.spConfigs[p].supportedTokens :
                LET old == s.spConfigs[p].supportedTokens[n]
                IN  /\ old.token = entry.token
                    /\ old.pricePerBytePerEpoch = entry.pricePerBytePerEpoch
  BY <1>3, <1>4, <1>5, <1>7, EntryFrom
<1> QED BY <1>8, <1>9, <1>10

LEMMA PricesStep ==
    ASSUME CommandsInv, PricesInv, CmdKind, Aside => s'.spConfigs = s.spConfigs
    PROVE  PricesInv'
<1>1. ASSUME UNCHANGED txs, s'.spConfigs = s.spConfigs
      PROVE  PricesInv'
  BY <1>1, PricesStay
<1>2. ASSUME NEW t \in Terminals, OfTerminal(t), Appending(t)
      PROVE  PricesInv'
  <2>1. /\ DOMAIN txs' = DOMAIN txs \cup {Len(txs) + 1}
        /\ \A i \in DOMAIN txs : txs'[i] = txs[i]
        /\ txs'[Len(txs) + 1].status = "pending"
    BY <1>2, AppendingKeeps DEF CommandsInv
  <2>2. s'.spConfigs = s.spConfigs
    BY <1>2 DEF OfTerminal, Quiet
  <2>3. Len(txs) + 1 \notin DOMAIN txs
    BY Listed DEF CommandsInv, ListInv, TxsInv
  <2> QED BY <2>1, <2>2, <2>3, PricesStay
<1>3. ASSUME NEW i, Mines(i)
      PROVE  PricesInv'
  <2>1. /\ DOMAIN txs' = DOMAIN txs
        /\ \A j \in DOMAIN txs : j # i => txs'[j] = txs[j]
        /\ txs[i].status = "pending"
        /\ \/ Succeeded(i)
           \/ Reverted(i) /\ txs'[i].status = "reverted"
    BY <1>3, MiningKeeps DEF CommandsInv
  <2>2. CASE Succeeded(i)
    BY <1>3, <2>2, PricesMined
  <2>3. CASE Reverted(i) /\ txs'[i].status = "reverted"
    BY <2>1, <2>3, PricesStay DEF Reverted
  <2> QED BY <2>1, <2>2, <2>3
<1>4. ASSUME NEW t \in Terminals, OfTerminal(t), UNCHANGED txs
      PROVE  s'.spConfigs = s.spConfigs
  BY <1>4 DEF OfTerminal, Quiet
<1> QED BY <1>1, <1>2, <1>3, <1>4, TerminalTxs, Zenon DEF CmdKind, Aside

\* The last of some numbers, as the module asks for it.
LEMMA LastOf ==
    ASSUME NEW n \in Nat, NEW S \in SUBSET (1 .. n), S # {}
    PROVE  Max(S) \in S /\ \A j \in S : j <= Max(S)
<1> DEFINE T == {n - j : j \in S}
<1>1. T \subseteq Nat /\ T # {}
  OBVIOUS
<1>2. PICK x \in T : \A y \in T : x <= y
  <2> HIDE DEF T
  <2> QED BY <1>1, MinExists
<1>3. PICK m \in S : x = n - m
  BY <1>2
<1>4. \A j \in S : m >= j
  <2>1. SUFFICES ASSUME NEW j \in S
                 PROVE  m >= j
    OBVIOUS
  <2>2. n - m <= n - j
    BY <1>2, <1>3
  <2> QED BY <2>2
<1>5. Max(S) \in S /\ \A j \in S : Max(S) >= j
  BY <1>4 DEF Max
<1> QED BY <1>5

\* Nobody but the owner's terminals changes the providers' terms: the price that
\* is shown is the one last asked for, rounded down by less than a step.
THEOREM PricesAsked == CmdSpec /\ OwnerAlone => []PricesAsAsked
<1>1. CmdInit => PricesInv
  <2>1. CmdInit => DOMAIN txs = {}
    BY DEF CmdInit
  <2> QED BY <2>1 DEF PricesInv, Fair, Asking
<1>2. CommandsInv /\ PricesInv /\ [CmdNext]_termVars /\ [OwnersStep]_termVars => PricesInv'
  BY CmdStepKind, PricesStep, AsideAlone
<1>3. ASSUME CommandsInv, PricesInv
      PROVE  PricesAsAsked
  <2>1. SUFFICES ASSUME NEW p \in Providers, NEW k \in DOMAIN s.spConfigs[p].supportedTokens,
                        NEW entry, entry = s.spConfigs[p].supportedTokens[k],
                        NEW asking, asking = Asking(txs, p, entry.token), asking # {},
                        NEW shown,
                        shown = ConvertBytesPerEpochToTBPerMonth(entry.pricePerBytePerEpoch)
                 PROVE  \E asked \in AskedOf(txs[Max(asking)], p, entry.token) :
                            shown <= asked /\ asked < shown + Step
    BY Zenon DEF PricesAsAsked, Asking
  <2>2. Len(txs) \in Nat /\ asking \subseteq 1 .. Len(txs)
    BY <2>1, Listed DEF Asking, CommandsInv, ListInv, TxsInv
  <2>3. PICK m : m = Max(asking)
    OBVIOUS
  <2>4. m \in asking /\ \A j \in asking : j <= m
    BY <2>1, <2>2, <2>3, LastOf
  <2>5. Charged(entry, AskedOf(txs[m], p, entry.token))
    BY <1>3, <2>1, <2>4 DEF PricesInv, Fair
  <2>6. PICK asked \in AskedOf(txs[m], p, entry.token) :
            entry.pricePerBytePerEpoch = ConvertTBPerMonthToBytesPerEpoch(asked)
    BY <2>5 DEF Charged
  <2>7. asked \in Nat
    <3>1. TxTyped(txs[m])
      BY <1>3, <2>1, <2>4 DEF Asking, CommandsInv, ListInv, TxsGood
    <3> QED BY <2>6, <3>1, AskedIsTyped
  <2>8. shown <= asked /\ asked < shown + Step
    BY <2>1, <2>6, <2>7, ShownPrice
  <2> QED BY <2>3, <2>6, <2>8
<1> QED BY <1>1, <1>2, <1>3, CommandsInvariance, PTL DEF CmdSpec, OwnerAlone



----------------------------------------------------------------------------
(* The rail of an allocation.                                              *)

LEMMA CommandsAllocations ==
    ASSUME SingleContract
    PROVE  CmdSpec => []AllocationInv
<1>1. CmdInit => AllocationInv
  BY AllocationInvInit DEF CmdInit
<1>2. CommandsInv /\ CommandsInv' /\ AllocationInv /\ [CmdNext]_termVars => AllocationInv'
  <2> SUFFICES ASSUME CommandsInv, CommandsInv', AllocationInv, [CmdNext]_termVars
               PROVE  AllocationInv'
    OBVIOUS
  <2>1. IInv'
    BY DEF CommandsInv
  <2> QED BY <2>1, CmdStepKind, AllocationInvStep
<1> QED BY <1>1, <1>2, CommandsInvariance, PTL DEF CmdSpec

\* A query asks for the allocation once, and goes on only if there is one.
Queried(c) ==
    c.name = "query" =>
        /\ Early(c.todo)
        /\ "info" \in DOMAIN c.read =>
              /\ Head(c.todo) # "info"
              /\ Head(c.todo) \notin Ends => c.read.info.client # ZERO

LEMMA QueriedTerminal ==
    ASSUME CommandsInv, NEW t \in Terminals, OfTerminal(t), Queried(cmds[t])
    PROVE  Queried(cmds'[t])
<1> DEFINE c == cmds[t]
<1> PICK d : d = cmds'[t]
  OBVIOUS
<1>1. CommandInv(c) /\ Planned(c.todo)
  BY DEF CommandsInv, TerminalsInv, CommandInv
<1>2. ASSUME NEW e \in Ends, d.todo = <<e>>
      PROVE  Queried(d)
  <2>1. Early(d.todo) /\ Head(d.todo) = e /\ e # "info"
    BY <1>2 DEF Early, Ends
  <2> QED BY <2>1 DEF Queried
<1>3. CASE Starting(t)
  <2>1. PICK name, args, todo : Begun(c, d, name, args, todo) /\ Plan(name, args, todo)
    BY <1>3 DEF Starting
  <2>2. DOMAIN d.read = {} /\ Early(d.todo)
    BY <2>1 DEF Begun, Plan, Orderly
  <2> QED BY <2>2 DEF Queried
<1>4. ASSUME Head(c.todo) \notin Ends, d.todo = Tail(c.todo), d.name = c.name,
             d.read = c.read
      PROVE  Queried(d)
  <2>1. c.name = "query" => Early(d.todo) /\ Head(d.todo) # "info"
    BY <1>1, <1>4, EarlyTail DEF Queried
  <2> QED BY <1>4, <2>1 DEF Queried
<1>5. CASE Answering(t)
  <2>1. PICK what, answer, todo :
            /\ Learnt(c, d, MinedCount, what, answer, todo)
            /\ Told(c, what, answer) /\ Leads(c, what, answer, todo)
    BY <1>5 DEF Answering
  <2>2. /\ what \notin Ends /\ d.name = c.name
        /\ Head(c.todo) = what /\ d.todo = todo
        /\ Adds(c.read, what, answer, d.read)
    <3>1. d.read = With(c.read, what, answer)
      BY <2>1 DEF Learnt
    <3>2. Adds(c.read, what, answer, d.read)
      BY <3>1, Remembered
    <3> QED BY <2>1, <3>2, ToldAsks DEF Learnt, Keeps
  <2>3. CASE todo = Tail(c.todo) /\ Onward(c, what, answer)
    <3> SUFFICES ASSUME c.name = "query"
                 PROVE  /\ Early(d.todo)
                        /\ "info" \in DOMAIN d.read =>
                              Head(d.todo) # "info" /\ d.read.info.client # ZERO
      BY <2>2 DEF Queried
    <3>1. Early(d.todo) /\ Head(d.todo) # "info"
      BY <1>1, <2>2, <2>3, EarlyTail DEF Queried
    <3>2. CASE what = "info"
      <4>1. d.read["info"] = answer /\ answer.client # ZERO
        BY <2>2, <2>3, <3>2 DEF Adds, Onward
      <4> QED BY <3>1, <4>1
    <3>3. CASE what # "info"
      <4>1. "info" \in DOMAIN d.read =>
                "info" \in DOMAIN c.read /\ d.read["info"] = c.read["info"]
        BY <2>2, <3>3 DEF Adds
      <4> QED BY <2>2, <3>1, <4>1 DEF Queried
    <3> QED BY <3>2, <3>3
  <2>4. CASE \E e \in Ends : todo = <<e>>
    BY <1>2, <2>2, <2>4
  <2> QED BY <2>1, <2>3, <2>4 DEF Leads, Ends
<1>6. CASE Waiting(t)
  <2>1. /\ Head(c.todo) = "wait" /\ d.todo = Tail(c.todo) /\ d.name = c.name
        /\ d.read = c.read
    BY <1>6 DEF Waiting, At, Rest, Gone, Keeps
  <2>2. Head(c.todo) \notin Ends
    BY <2>1 DEF Ends
  <2> QED BY <1>4, <2>1, <2>2
<1>7. CASE Ending(t)
  <2>1. \E e \in Ends : d.todo = <<e>>
    BY <1>7 DEF Ending, Gone, Ends
  <2> QED BY <1>2, <2>1
<1>8. CASE SentBy(c, d, Len(txs) + 1)
  <2>1. /\ Head(c.todo) = "send" /\ d.todo = Tail(c.todo) /\ d.name = c.name
        /\ d.read = c.read
    BY <1>8 DEF SentBy, Keeps
  <2>2. Head(c.todo) \notin Ends
    BY <2>1 DEF Ends
  <2> QED BY <1>4, <2>1, <2>2
<1>9. CASE RowGone(c, d)
  BY <1>9 DEF RowGone, Keeps, Queried
<1> QED BY <1>3, <1>5, <1>6, <1>7, <1>8, <1>9 DEF OfTerminal, Running

QueriedAll == \A t \in Terminals : Queried(cmds[t])

LEMMA QueriedStep ==
    ASSUME CommandsInv, QueriedAll, CmdKind
    PROVE  QueriedAll'
<1>1. ASSUME NEW t \in Terminals, OfTerminal(t)
      PROVE  QueriedAll'
  BY <1>1, QueriedTerminal DEF QueriedAll, OfTerminal, Only
<1>2. ASSUME UNCHANGED cmds
      PROVE  QueriedAll'
  BY <1>2 DEF QueriedAll
<1> QED BY <1>1, <1>2 DEF CmdKind, Mines, Aside

\* The rail that is shown serves the allocation that is shown, or that
\* allocation once it is activated.
Shows(rail, info) ==
    rail # NoRail =>
        /\ rail.from = info.client
        /\ rail.token = info.paymentToken
        /\ rail.rate \in {pricePerEpoch(info)} \cup IF info.activated THEN {} ELSE {0}

Shown(c) ==
    /\ c.name = "query" /\ "info" \in DOMAIN c.read =>
          /\ c.args.allocationId \in AllocationIds
          /\ c.read.info \in AllocationInfo
          /\ c.read.info.client # ZERO =>
                Final(c.read.info, committed.s.allocationInfos[c.args.allocationId])
    /\ c.name = "query" /\ "railInfo" \in DOMAIN c.read =>
          "info" \in DOMAIN c.read /\ Shows(c.read.railInfo, c.read.info)

QueriesInv == QueriedAll /\ \A t \in Terminals : Shown(cmds[t])

LEMMA QueryAsks ==
    ASSUME NEW c, CommandInv(c), c.name = "query", Head(c.todo) \in {"info", "railInfo"}
    PROVE  c.args.allocationId \in AllocationIds
<1>1. Head(c.todo) \in StepsOf(c.name, c.args) \cup Ends
  BY AsksConfig DEF CommandInv
<1>2. "allocationId" \in DOMAIN c.args
  BY <1>1 DEF StepsOf, Ends
<1> QED BY <1>2 DEF CommandInv, ArgsTyped

\* The rail of an allocation, whatever has become of it since it was looked at.
LEMMA RailServes ==
    ASSUME IInv, RailInv(s, pay), NEW a \in AllocationIds, NEW info \in AllocationInfo,
           info.client # ZERO, Final(info, s.allocationInfos[a]),
           NEW rail, rail = RailAsked(a)
    PROVE  Shows(rail, info)
<1>1. PICK now : now = s.allocationInfos[a]
  OBVIOUS
<1>2. /\ now.client = info.client /\ now.paymentToken = info.paymentToken
      /\ pricePerEpoch(now) = pricePerEpoch(info)
      /\ info.activated => now.activated
  BY <1>1 DEF Final, AllocationInfo, pricePerEpoch
<1>3. a \in Allocated(s)
  BY <1>1, <1>2 DEF Allocated
<1>4. /\ s.paymentsContract # ZERO /\ now.railId \in RailIds
      /\ ServesAllocation(pay[s.paymentsContract].rails[now.railId], now)
  BY <1>1, <1>3 DEF RailInv, RailMapInverse, RailsServe
<1>5. now.railId > 0
  BY <1>4 DEF RailIds
<1>6. rail = pay[s.paymentsContract].rails[now.railId]
  BY <1>1, <1>4, <1>5 DEF RailAsked
<1>7. rail \in Rail
  <2>1. s.paymentsContract \in PaymentsContracts
    BY <1>4, SoundParts DEF DDOState
  <2>2. pay[s.paymentsContract] \in PayState
    BY <2>1, SoundParts DEF PaySound
  <2> QED BY <1>4, <1>6, <2>2 DEF PayState
<1>8. rail # NoRail => rail.from # ZERO
  BY <1>7, ZeroAssumption DEF Rail, LiveRail
<1> QED BY <1>2, <1>4, <1>6, <1>8 DEF ServesAllocation, Shows

\* An answer that is not asked for again stays.
LEMMA AnswerStays ==
    ASSUME CommandsInv, CmdKind, NEW u \in Terminals,
           NEW x \in DOMAIN cmds[u].read \ {"ids"}, Head(cmds[u].todo) # x,
           DOMAIN cmds'[u].read # {}
    PROVE  x \in DOMAIN cmds'[u].read /\ cmds'[u].read[x] = cmds[u].read[x]
<1> PICK c, d : c = cmds[u] /\ d = cmds'[u]
  OBVIOUS
<1>1. ASSUME d.read = c.read
      PROVE  x \in DOMAIN d.read /\ d.read[x] = c.read[x]
  BY <1>1
<1>2. ASSUME NEW t \in Terminals, OfTerminal(t), t # u
      PROVE  d.read = c.read
  BY <1>2 DEF OfTerminal, Only
<1>3. CASE OfTerminal(u)
  <2>1. CASE Starting(u)
    BY <2>1 DEF Starting, Begun
  <2>2. CASE Answering(u)
    <3>1. PICK what, answer, todo : Learnt(c, d, MinedCount, what, answer, todo)
      BY <2>2 DEF Answering
    <3>2. Adds(c.read, what, answer, d.read) /\ what # x
      BY <3>1, Remembered DEF Learnt
    <3> QED BY <3>2 DEF Adds
  <2>3. CASE Waiting(u) \/ Ending(u)
    BY <1>1, <2>3 DEF Waiting, Ending, Gone
  <2>4. CASE SentBy(c, d, Len(txs) + 1)
    BY <1>1, <2>4 DEF SentBy
  <2>5. CASE RowGone(c, d)
    BY <2>5 DEF RowGone
  <2> QED BY <1>3, <2>1, <2>2, <2>3, <2>4, <2>5 DEF OfTerminal, Running
<1>4. ASSUME UNCHANGED cmds
      PROVE  d.read = c.read
  BY <1>4
<1> QED BY <1>1, <1>2, <1>3, <1>4, Zenon DEF CmdKind, Mines, Aside

LEMMA ShownStep ==
    ASSUME CommandsInv, AllocationInv, QueriesInv, CmdKind, [AnyNext]_vars,
           NEW u \in Terminals
    PROVE  Shown(cmds[u])'
<1> PICK c, d : c = cmds[u] /\ d = cmds'[u]
  OBVIOUS
<1>1. Shown(c) /\ Queried(c) /\ CommandInv(c)
  BY DEF QueriesInv, QueriedAll, CommandsInv, TerminalsInv
<1>2. \A a \in Allocated(committed.s) :
          Final(committed.s.allocationInfos[a], committed'.s.allocationInfos[a])
  <2>1. CASE AnyNext
    BY <2>1, TransactionFinal DEF CommandsInv
  <2>2. CASE UNCHANGED vars
    BY <2>2 DEF vars, committed, Snapshot, Final
  <2> QED BY <2>1, <2>2
<1>3. Quiet => committed.s = s /\ committed'.s = s
  BY DEF Quiet, committed, Snapshot
<1>4. ASSUME d.name = "query", "info" \in DOMAIN d.read
      PROVE  /\ d.args.allocationId \in AllocationIds
             /\ d.read.info \in AllocationInfo
             /\ d.read.info.client # ZERO =>
                   Final(d.read.info, committed'.s.allocationInfos[d.args.allocationId])
  <2>1. /\ d.name = c.name /\ d.args = c.args
        /\ \/ "info" \in DOMAIN c.read /\ d.read["info"] = c.read["info"]
           \/ Quiet /\ Head(c.todo) = "info" /\ Told(c, "info", d.read["info"])
    BY <1>4, CommandOf
  <2>2. CASE "info" \in DOMAIN c.read /\ d.read["info"] = c.read["info"]
    <3>1. PICK a, info, now :
              /\ a = c.args.allocationId /\ info = c.read.info
              /\ now = committed.s.allocationInfos[a]
      OBVIOUS
    <3>2. /\ a \in AllocationIds /\ info \in AllocationInfo
          /\ info.client # ZERO => Final(info, now)
      BY <1>1, <1>4, <2>1, <2>2, <3>1 DEF Shown
    <3>3. ASSUME info.client # ZERO
          PROVE  Final(info, committed'.s.allocationInfos[a])
      <4>1. now.client = info.client
        BY <3>2, <3>3 DEF Final, AllocationInfo
      <4>2. a \in Allocated(committed.s)
        BY <3>1, <3>2, <3>3, <4>1 DEF Allocated
      <4>3. Final(now, committed'.s.allocationInfos[a])
        BY <1>2, <3>1, <4>2
      <4> QED BY <3>2, <3>3, <4>3, FinalTransitive
    <3> QED BY <2>1, <2>2, <3>1, <3>2, <3>3
  <2>3. CASE Quiet /\ Head(c.todo) = "info" /\ Told(c, "info", d.read["info"])
    <3>1. c.args.allocationId \in AllocationIds
      BY <1>1, <1>4, <2>1, <2>3, QueryAsks
    <3>2. d.read["info"] = s.allocationInfos[c.args.allocationId]
      BY <2>3 DEF Told
    <3>3. d.read["info"] \in AllocationInfo
      BY <3>1, <3>2, SoundParts DEF CommandsInv, DDOState
    <3> QED BY <1>3, <2>1, <2>3, <3>1, <3>2, <3>3 DEF Final
  <2> QED BY <2>1, <2>2, <2>3
<1>5. ASSUME d.name = "query", "railInfo" \in DOMAIN d.read
      PROVE  "info" \in DOMAIN d.read /\ Shows(d.read.railInfo, d.read.info)
  <2>1. /\ d.name = c.name /\ d.args = c.args
        /\ \/ "railInfo" \in DOMAIN c.read /\ d.read["railInfo"] = c.read["railInfo"]
           \/ /\ Quiet /\ Head(c.todo) = "railInfo"
              /\ Told(c, "railInfo", d.read["railInfo"])
    BY <1>5, CommandOf
  <2>2. "info" \in DOMAIN c.read
    <3>1. CASE Head(c.todo) = "railInfo"
      BY <1>1, <1>5, <2>1, <3>1, HasReadHead DEF Needs
    <3>2. CASE "railInfo" \in DOMAIN c.read
      BY <1>1, <1>5, <2>1, <3>2 DEF Shown
    <3> QED BY <2>1, <3>1, <3>2
  <2>3. "info" \in DOMAIN d.read /\ d.read["info"] = c.read["info"]
    BY <1>1, <1>5, <2>1, <2>2, AnswerStays DEF Queried
  <2>4. CASE "railInfo" \in DOMAIN c.read /\ d.read["railInfo"] = c.read["railInfo"]
    BY <1>1, <1>5, <2>1, <2>3, <2>4 DEF Shown
  <2>5. CASE Quiet /\ Head(c.todo) = "railInfo" /\ Told(c, "railInfo", d.read["railInfo"])
    <3>1. d.read["railInfo"] = RailAsked(c.args.allocationId)
      BY <2>5 DEF Told
    <3>2. c.args.allocationId \in AllocationIds /\ c.read.info \in AllocationInfo
      BY <1>1, <1>5, <2>1, <2>2 DEF Shown
    <3>3. c.read.info.client # ZERO
      BY <1>1, <1>5, <2>1, <2>2, <2>5 DEF Queried, Ends
    <3>4. Final(c.read.info, s.allocationInfos[c.args.allocationId])
      BY <1>1, <1>3, <1>5, <2>1, <2>2, <2>5, <3>3 DEF Shown
    <3>5. Shows(d.read["railInfo"], c.read.info)
      BY <3>1, <3>2, <3>3, <3>4, RailServes DEF CommandsInv, AllocationInv
    <3> QED BY <2>3, <3>5
  <2> QED BY <2>1, <2>4, <2>5
<1> QED BY <1>4, <1>5 DEF Shown

LEMMA QueriesInvariance ==
    ASSUME SingleContract
    PROVE  CmdSpec => []QueriesInv
<1>1. CmdInit => QueriesInv
  BY DEF CmdInit, NotStarted, QueriesInv, QueriedAll, Queried, Shown
<1>2. CommandsInv /\ AllocationInv /\ QueriesInv /\ [CmdNext]_termVars => QueriesInv'
  <2> SUFFICES ASSUME CommandsInv, AllocationInv, QueriesInv, [CmdNext]_termVars
               PROVE  QueriesInv'
    OBVIOUS
  <2>1. CmdKind /\ [AnyNext]_vars
    BY CmdStepKind
  <2>2. QueriedAll'
    BY <2>1, QueriedStep DEF QueriesInv
  <2>3. \A t \in Terminals : Shown(cmds[t])'
    BY <2>1, ShownStep
  <2> QED BY <2>2, <2>3 DEF QueriesInv
<1> QED BY <1>1, <1>2, CommandsInvariance, CommandsAllocations, PTL DEF CmdSpec

\* With one payments contract, the rail that `allocations query' shows serves the
\* allocation it shows, although the two were asked for at different moments and
\* everybody else goes on between them.
THEOREM TrueRails ==
    ASSUME SingleContract
    PROVE  CmdSpec => []RailShownIsAllocations
<1>1. ASSUME QueriesInv
      PROVE  RailShownIsAllocations
  <2>1. ASSUME NEW t \in Terminals, cmds[t].name = "query",
               "railInfo" \in DOMAIN cmds[t].read
        PROVE  Shows(cmds[t].read.railInfo, cmds[t].read.info)
    BY <1>1, <2>1 DEF QueriesInv, Shown
  <2> QED BY <2>1 DEF RailShownIsAllocations, Shows
<1> QED BY <1>1, QueriesInvariance, PTL
=============================================================================
