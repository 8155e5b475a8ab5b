----------------------------- MODULE MCSettle ------------------------------
(***************************************************************************)
(* `sp settle' for a provider with one or two allocations under way, while *)
(* the client makes another, ends rails, and somebody else settles.        *)
(***************************************************************************)
EXTENDS SettleCLI

CONSTANTS
    c1, t1, sp, fp,
    Made            \* allocations made before the command starts: 1 or 2

Piece == [pieceCid |-> <<1>>, size |-> 1, provider |-> 1, termMin |-> 1,
          termMax |-> 1, paymentTokenAddress |-> t1]

MCCids == {<<1>>}

MCPieceBatches == {<<Piece>>}

MCAnswers == {<<Made + 1>>}

Account1 == <<c1, t1>>

\* A rail of an activated allocation, opened and activated in block 0.
Opened(p) ==
    LET r == p.nextRailId
        created == ModifyRailLockup(CreateRail(p, t1, c1, sp, 1, 0), r, 0, 1, 0)
    IN  ModifyRailLockup(ModifyRailPayment(created, r, 1, 0), r, 1, 0, 0)

Funded ==
    SetOperatorApproval(Deposit(PayInit, Account1, 7, 0), Account1,
        [isApproved |-> TRUE, rateAllowance |-> 3, lockupAllowance |-> 4,
         maxLockupPeriod |-> 1])

Active(a) ==
    [client |-> c1, provider |-> 1, activated |-> TRUE, pieceCidHash |-> <<1>>,
     paymentToken |-> t1, pieceSize |-> 1, railId |-> a,
     pricePerBytePerEpoch |-> 1, sectorNumber |-> a]

\* The provider is registered, the allocations are made and activated.
MCInit ==
    /\ s = [Initialized(fp, 1, 1) EXCEPT
              !.spConfigs[1] =
                  [paymentAddress |-> sp, minPieceSize |-> 1, maxPieceSize |-> 1,
                   minTermLength |-> 1, maxTermLength |-> 1, isActive |-> TRUE,
                   supportedTokens |-> <<[token |-> t1, isActive |-> TRUE,
                                          pricePerBytePerEpoch |-> 1]>>],
              !.registeredSPIds = <<1>>,
              !.allocationInfos = [a \in AllocationIds |->
                  IF a <= Made THEN Active(a) ELSE NoAllocation],
              !.allocationIdsByClient[c1] = [i \in 1 .. Made |-> i],
              !.allocationIdsByProvider[1] = [i \in 1 .. Made |-> i],
              !.railIdToAllocationId = [r \in RailIds |->
                  IF r <= Made THEN r ELSE 0]]
    /\ pay = [c \in PaymentsContracts |->
                IF Made = 1 THEN Opened(Funded) ELSE Opened(Opened(Funded))]
    /\ epoch = 0
    /\ call = Idle
    /\ cli = NotStarted
    /\ txs = <<>>

\* What others do.
Environment ==
    \/ \E ids \in Answers : createAllocationRequests(c1, <<Piece>>, ids)
    \/ createAllocation \/ createRevert \/ createReturn
    \/ \E r \in RailIds : terminateRail(fp, r) \/ settleRail(fp, r)
    \/ Tick

\* The whole provider, or at first one allocation.
Commands ==
    \E u \in UntilEpochs :
        execute(1, 0, u) \/ (cli.run = 0 /\ execute(0, 1, u))

MCNext == Commands \/ Command \/ nodeFails \/ interrupt \/ Mine \/ Others(Environment)

MCSpec == MCInit /\ [][MCNext]_cliVars /\ CLIFairness
=============================================================================
