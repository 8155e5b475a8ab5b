--------------------------- MODULE LibDDOStorage ---------------------------
(***************************************************************************)
(* The storage every facet of the DDO diamond shares                       *)
(* (contracts/src/diamond/libraries/LibDDOStorage.sol), the guards on it,  *)
(* and the execution of a transaction.                                     *)
(*                                                                         *)
(* A call that loops is executed one iteration per step, as an EVM         *)
(* transaction is: `call' is the frame of the running transaction, no      *)
(* other transaction starts before it ends, and a revert puts back the     *)
(* storage the frame saved when it began.  A call without a loop is one    *)
(* step.  A call whose checks fail before it writes is not enabled.        *)
(***************************************************************************)
EXTENDS FilecoinPay, Sequences

CONSTANTS
    Providers,          \* actor ids of storage providers
    AllocationIds,      \* ids the verified registry gives to allocations
    Sectors,            \* sector numbers
    Cids,               \* piece CIDs: sequences of bytes
    PaymentsContracts,  \* deployed payment contracts
    EPOCHS_PER_MONTH,   \* the lockup period of an activated rail
    MaxEpoch            \* bound: the last block

MAX_COMMISSION_RATE_BPS == 100
NOT_ENTERED == 1
ENTERED == 2

\* The verified registry and the deal actors never use id 0.
ASSUME IdsAssumption == /\ Providers \subseteq Nat \ {0}
                        /\ AllocationIds \subseteq Nat \ {0}
ASSUME CidsAssumption == Cids \subseteq Seq(Nat) \ {<<>>}
ASSUME ZeroAssumption ==
    ZERO \notin Clients \cup Tokens \cup Payees \cup PaymentsContracts
ASSUME EpochsAssumption == EPOCHS_PER_MONTH \in Nat \ {0} /\ MaxEpoch \in Nat

VARIABLES
    s,      \* DDOState, the storage of the diamond
    pay,    \* the state of every payments contract
    epoch,  \* block.number
    call    \* the frame of the running transaction

vars == <<s, pay, epoch, call>>

----------------------------------------------------------------------------
(* The structs.  A mapping's missing key reads as the zero struct.         *)

AllocationInfo ==
    [client: Clients \cup {ZERO}, provider: Providers \cup {0},
     activated: BOOLEAN, pieceCidHash: Cids \cup {<<>>},
     paymentToken: Tokens \cup {ZERO}, pieceSize: Nat, railId: Nat,
     pricePerBytePerEpoch: Nat, sectorNumber: Sectors \cup {0}]

NoAllocation ==
    [client |-> ZERO, provider |-> 0, activated |-> FALSE,
     pieceCidHash |-> <<>>, paymentToken |-> ZERO, pieceSize |-> 0,
     railId |-> 0, pricePerBytePerEpoch |-> 0, sectorNumber |-> 0]

TokenConfig == [token: Tokens, pricePerBytePerEpoch: Nat, isActive: BOOLEAN]

SPConfig ==
    [paymentAddress: Payees \cup {ZERO}, minPieceSize: Nat, maxPieceSize: Nat,
     minTermLength: Nat, maxTermLength: Nat, isActive: BOOLEAN,
     supportedTokens: Seq(TokenConfig)]

NoSPConfig ==
    [paymentAddress |-> ZERO, minPieceSize |-> 0, maxPieceSize |-> 0,
     minTermLength |-> 0, maxTermLength |-> 0, isActive |-> FALSE,
     supportedTokens |-> <<>>]

\* downloadURL and expirationOffset reach only the events and the verified
\* registry.
PieceInfo ==
    [pieceCid: Cids, size: Nat, provider: Providers, termMin: Nat,
     termMax: Nat, paymentTokenAddress: Tokens]

DDOState ==
    [paymentsContract: PaymentsContracts \cup {ZERO},
     commissionRateBps: Nat,
     allocationLockupAmount: Nat,
     allocationInfos: [AllocationIds -> AllocationInfo],
     allocationIdsByClient: [Clients -> Seq(AllocationIds)],
     allocationIdsByProvider: [Providers -> Seq(AllocationIds)],
     spConfigs: [Providers -> SPConfig],
     reentrancyStatus: {NOT_ENTERED, ENTERED},
     registeredSPIds: Seq(Providers),
     paused: BOOLEAN,
     railIdToAllocationId: [RailIds -> AllocationIds \cup {0}],
     blacklistedSectors: SUBSET (Providers \X Sectors)]

\* Storage after the deployment's diamond cut has run InitDiamond.init.
Initialized(paymentsContract, commission, lockup) ==
    [paymentsContract |-> paymentsContract,
     commissionRateBps |-> commission,
     allocationLockupAmount |-> lockup,
     allocationInfos |-> [a \in AllocationIds |-> NoAllocation],
     allocationIdsByClient |-> [c \in Clients |-> <<>>],
     allocationIdsByProvider |-> [p \in Providers |-> <<>>],
     spConfigs |-> [p \in Providers |-> NoSPConfig],
     reentrancyStatus |-> NOT_ENTERED,
     registeredSPIds |-> <<>>,
     paused |-> FALSE,
     railIdToAllocationId |-> [r \in RailIds |-> 0],
     blacklistedSectors |-> {}]

----------------------------------------------------------------------------
(* Transactions and guards.                                                *)

Idle == [fn |-> "none"]

\* A frame remembers the storage a revert puts back.
Snapshot == [s |-> s, pay |-> pay]

Revert ==
    /\ s' = call.saved.s
    /\ pay' = call.saved.pay
    /\ call' = Idle
    /\ UNCHANGED epoch

\* One iteration of the running call's loop.
Continue == call' = [call EXCEPT !.i = @ + 1]

notPaused == ~s.paused
nonReentrant == s.reentrancyStatus # ENTERED

\* A transaction of the diamond's owner (enforceIsContractOwner) that writes
\* only to the diamond's storage.
OwnerTransaction == call = Idle /\ UNCHANGED <<pay, epoch, call>>

isRegisteredSP(actorId) == s.spConfigs[actorId].paymentAddress # ZERO
============================================================================
