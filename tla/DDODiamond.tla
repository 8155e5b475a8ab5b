----------------------------- MODULE DDODiamond -----------------------------
(***************************************************************************)
(* The deployed diamond: the facets over their shared storage, the payment *)
(* contract they drive, the clients that fund their accounts there, and    *)
(* the blocks that pass.  A facet's operation is an action of Next with    *)
(* its arguments drawn from the sets below.                                *)
(***************************************************************************)
EXTENDS SPFacet, AdminFacet, AllocationFacet

CONSTANTS
    SPTerms,           \* paymentAddress, piece sizes and terms of a provider
    TokenLists,        \* token lists a provider is registered with
    Prices,            \* prices the owner sets for a token
    Commissions,       \* commission rates the owner sets
    LockupAmounts,     \* lockup amounts the owner sets
    BlacklistEntries,  \* pairs <<provider, sector>> the owner may blacklist
    PieceBatches,      \* arguments of createAllocationRequests
    Answers,           \* ids the verified registry answers with
    Notifications,     \* sector notifications miners send
    Batches,           \* pairs <<startIndex, batchSize>> of settlements
    Deposits,          \* amounts a client deposits or withdraws
    Limits,            \* operator approvals a client gives the diamond
    MaxFunds           \* bound: funds of an account

NotificationPiece ==
    [sectorNumber: Sectors, dataCid: Seq(Nat), pieceSize: Nat,
     allocationId: AllocationIds]

Terms == [paymentAddress: Payees \cup {ZERO}, minPieceSize: Nat,
          maxPieceSize: Nat, minTermLength: Nat, maxTermLength: Nat]

ASSUME InputsAssumption ==
    /\ SPTerms \subseteq Terms
    /\ TokenLists \subseteq Seq(TokenConfig)
    /\ Prices \subseteq Nat
    /\ Commissions \subseteq Nat
    /\ LockupAmounts \subseteq Nat
    /\ BlacklistEntries \subseteq Providers \X Sectors
    /\ PieceBatches \subseteq Seq(PieceInfo)
    /\ Answers \subseteq Seq(AllocationIds)
    /\ Notifications \subseteq Seq(NotificationPiece)
    /\ Batches \subseteq Nat \X Nat
    /\ Deposits \subseteq Nat
    /\ Limits \subseteq [isApproved: BOOLEAN, rateAllowance: Nat,
                         lockupAllowance: Nat, maxLockupPeriod: Nat]

----------------------------------------------------------------------------
(* Transactions of the clients on a payments contract.                     *)

ClientTransaction == call = Idle /\ UNCHANGED <<s, epoch, call>>

deposit(c, k, amount) ==
    /\ ClientTransaction
    /\ pay[c].accounts[k].funds + amount <= MaxFunds
    /\ pay' = [pay EXCEPT ![c] = Deposit(@, k, amount, epoch)]

withdraw(c, k, amount) ==
    /\ ClientTransaction
    /\ CanWithdraw(pay[c], k, amount, epoch)
    /\ pay' = [pay EXCEPT ![c] = Withdraw(@, k, amount, epoch)]

setOperatorApproval(c, k, limits) ==
    /\ ClientTransaction
    /\ pay' = [pay EXCEPT ![c] = SetOperatorApproval(@, k, limits)]

\* The diamond is told (railTerminated) and does nothing.
terminateRail(c, railId) ==
    /\ ClientTransaction
    /\ CanTerminateRail(pay[c], railId, epoch)
    /\ pay' = [pay EXCEPT ![c] = TerminateRail(@, railId, epoch)]

\* Anyone may settle a rail at the payments contract itself.
settleRail(c, railId) ==
    /\ ClientTransaction
    /\ CanSettle(c, railId, epoch)
    /\ Settle(c, railId, epoch)

Tick ==
    /\ call = Idle
    /\ epoch < MaxEpoch
    /\ epoch' = epoch + 1
    /\ UNCHANGED <<s, pay, call>>

----------------------------------------------------------------------------
Init ==
    /\ \E contract \in PaymentsContracts \cup {ZERO},
          commission \in Commissions, lockup \in LockupAmounts :
             s = Initialized(contract, commission, lockup)
    /\ pay = [c \in PaymentsContracts |-> PayInit]
    /\ epoch = 0
    /\ call = Idle

SPNext ==
    \E p \in Providers :
        \/ \E terms \in SPTerms :
              \/ \E tokens \in TokenLists : registerSP(p, terms, tokens)
              \/ updateSPConfig(p, terms)
        \/ \E token \in Tokens :
              \/ \E price \in Prices :
                    \/ addSPToken(p, token, price)
                    \/ \E active \in BOOLEAN :
                          updateSPToken(p, token, price, active)
              \/ removeSPToken(p, token)
        \/ deactivateSP(p)

AdminNext ==
    \/ \E c \in PaymentsContracts : setPaymentsContract(c)
    \/ \E rate \in Commissions : setCommissionRate(rate)
    \/ \E amount \in LockupAmounts : setAllocationLockupAmount(amount)
    \/ pause
    \/ unpause
    \/ \E entry \in BlacklistEntries, blacklisted \in BOOLEAN :
          blacklistSector(entry[1], entry[2], blacklisted)

AllocationNext ==
    \/ \E client \in Clients, pieces \in PieceBatches, ids \in Answers :
          createAllocationRequests(client, pieces, ids)
    \/ createAllocation \/ createRevert \/ createReturn
    \/ \E miner \in Providers, pieces \in Notifications :
          handleSectorContentChanged(miner, pieces)
    \/ activatePiece \/ rejectPiece \/ notifyRevert \/ notifyReturn
    \/ \E until \in 0 .. epoch + 1 :
          \/ \E a \in AllocationIds : settleSpPayment(a, until)
          \/ \E p \in Providers, b \in Batches :
                settleSpTotalPayment(p, until, b[1], b[2])
    \/ settleNext \/ settleSkip \/ settleRevert \/ settleReturn

ClientNext ==
    \E c \in PaymentsContracts :
        \/ \E k \in Clients \X Tokens :
              \/ \E amount \in Deposits : deposit(c, k, amount) \/ withdraw(c, k, amount)
              \/ \E limits \in Limits : setOperatorApproval(c, k, limits)
        \/ \E r \in RailIds : terminateRail(c, r) \/ settleRail(c, r)

Next == SPNext \/ AdminNext \/ AllocationNext \/ ClientNext \/ Tick

Spec == Init /\ [][Next]_vars

=============================================================================
