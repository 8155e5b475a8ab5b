------------------------------- MODULE Sender -------------------------------
(***************************************************************************)
(* The node and the chain as a command of the client meets them: it sends  *)
(* transactions of one account, one at a time, and waits for receipts.     *)
(*                                                                         *)
(* The node executes a transaction when it estimates its gas, and refuses  *)
(* one that would revert; between that and the block the storage may       *)
(* change, so that a transaction that was accepted reverts after all.  Any *)
(* request to the node may fail, also after the node has done what it was  *)
(* asked.  The command may be interrupted and started again.               *)
(*                                                                         *)
(* The node answers from the storage between two transactions, so the      *)
(* steps that ask it are taken when no call is running.                    *)
(***************************************************************************)
EXTENDS DDODiamond, FiniteSets

CONSTANT MaxRuns    \* bound: how often the command is started

ASSUME MaxRunsAssumption == MaxRuns \in Nat

VARIABLE txs        \* the transactions sent, in the order of their nonces

chainVars == <<s, pay, epoch, call>>

Statuses == {"pending", "running", "succeeded", "reverted"}

\* Transactions of one sender are mined in the order of their nonces.
NextNonce == Cardinality({i \in DOMAIN txs : txs[i].status # "pending"}) + 1

Mined(i) == txs[i].status \in {"succeeded", "reverted"}

InNonceOrder ==
    \A i, j \in DOMAIN txs : i < j /\ txs[j].status # "pending" => Mined(i)

Receipt(i, status) == txs' = [txs EXCEPT ![i].status = status]

Mining == \E i \in DOMAIN txs : txs[i].status = "running"

\* Wrong on purpose: the wait is for a receipt of success.
WaitedSuccess == txs[Len(txs)].status = "succeeded"

\* WaitForTransaction looks the transaction up and then waits for its
\* receipt, whatever it says.
Waited == Mined(Len(txs))

\* The node's answer to calculateStorageCost, and when there is one.
CanCalculateStorageCost(piece) ==
    LET config == s.spConfigs[piece.provider]
    IN  /\ piece.termMin > 0
        /\ config.isActive
        /\ piece.size >= config.minPieceSize /\ piece.size <= config.maxPieceSize
        /\ piece.termMin >= config.minTermLength
        /\ piece.termMin <= config.maxTermLength
        /\ supportsToken(piece.provider, piece.paymentTokenAddress)

StorageCost(piece) ==
    SPPrice(piece.provider, piece.paymentTokenAddress) * piece.size * piece.termMin

\* The steps of a call with a loop.
CallStep ==
    \/ createAllocation \/ createRevert \/ createReturn
    \/ activatePiece \/ rejectPiece \/ notifyRevert \/ notifyReturn
    \/ settleNext \/ settleSkip \/ settleRevert \/ settleReturn
=============================================================================
