------------------------------ MODULE Terminal ------------------------------
(***************************************************************************)
(* Commands of the client, each in a terminal of its own, that share one   *)
(* key.  A command is a list of steps: requests to the node, a transaction *)
(* and the wait for it, and the end it comes to.  What the node answers is *)
(* remembered, and a later step decides by it although the chain may have  *)
(* gone on since.                                                          *)
(*                                                                         *)
(* The connection itself (NewClient, the key, the addresses from the       *)
(* environment and the flags) has no state; without it a command does not  *)
(* start.                                                                  *)
(***************************************************************************)
EXTENDS Wallet

CONSTANT Terminals

VARIABLE cmds       \* the command each terminal runs, or has run last

termVars == <<s, pay, epoch, call, txs, wallet, cmds>>

\* todo: the steps ahead.  read: the answers, by step.  seen: how many of the
\* key's transactions were mined at the first answer.  tx: its transaction.
NotStarted ==
    [run |-> 0, name |-> "none", args |-> <<>>, todo |-> <<"start">>,
     read |-> <<>>, seen |-> 0, tx |-> 0]

Ends == {"start", "done", "failed", "panicked"}

At(t) == Head(cmds[t].todo)

Ended(t) == At(t) \in Ends

\* The steps after this one.
Rest(t) == Tail(cmds[t].todo)

MinedCount == NextNonce - 1

----------------------------------------------------------------------------
Asks == call = Idle /\ UNCHANGED <<s, pay, epoch, call, wallet, txs>>

\* The flags are good, and the configuration names a node and the contracts
\* the command needs (config.GetMissingConfig).
Starts(t, name, args, todo) ==
    /\ Asks
    /\ Ended(t)
    /\ cmds[t].run < MaxRuns
    /\ cmds' = [cmds EXCEPT
         ![t] = [NotStarted EXCEPT !.run = cmds[t].run + 1, !.name = name,
                                   !.args = args, !.todo = todo]]

Goes(t, todo) == cmds' = [cmds EXCEPT ![t].todo = todo]

\* The answers that are remembered when one more has come.
With(read, what, answer) ==
    [x \in DOMAIN read \cup {what} |-> IF x = what THEN answer ELSE read[x]]

\* The node answers the question the command is at.
Learns(t, what, answer, todo) ==
    /\ Asks
    /\ At(t) = what
    /\ cmds' = [cmds EXCEPT
         ![t].read = With(@, what, answer),
         ![t].seen = IF cmds[t].read = <<>> THEN MinedCount ELSE @,
         ![t].todo = todo]

\* A transaction of a command that reads nothing goes by what is on the chain
\* when it is sent.
Transaction(t, arg) ==
    [fn |-> cmds[t].name, args |-> cmds[t].args, arg |-> arg, status |-> "pending",
     seen |-> IF cmds[t].read = <<>> THEN MinedCount ELSE cmds[t].seen]

\* contract.Transact: estimate, sign, send.
Sent(t, tx) ==
    /\ txs' = Append(txs, tx)
    /\ cmds' = [cmds EXCEPT ![t].tx = Len(txs) + 1, ![t].todo = Rest(t)]

\* Wrong on purpose: the transaction is looked up and not waited for.
FoundBy(c) == c.tx \in DOMAIN txs

\* Wrong on purpose: the wait is for a receipt of success.
SucceededBy(c) == txs[c.tx].status = "succeeded"

\* WaitForTransaction, whatever the receipt says.
MinedBy(c) == Mined(c.tx)

waitForTransaction(t) ==
    /\ Asks
    /\ At(t) = "wait"
    /\ MinedBy(cmds[t])
    /\ Goes(t, Rest(t))

\* What a request that fails leads to: without the receipt, or without the
\* answer that was only to be shown, the command still ends well.
AfterFailure ==
    [wait |-> <<"done">>, verify |-> <<"done">>]

interrupt(t) ==
    /\ Asks
    /\ ~Ended(t)
    /\ Goes(t, <<"failed">>)
=============================================================================
