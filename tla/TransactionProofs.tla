------------------------- MODULE TransactionProofs --------------------------
(***************************************************************************)
(* Transactions with a loop, taken whole: what a running call has done so  *)
(* far, compared with the storage a revert would put back.  First the      *)
(* kinds of steps a call is made of, then one invariant per promise: what  *)
(* is committed when the call returns follows from what the invariant says *)
(* of the running call.  Last comes the provider registry, whose           *)
(* transactions are single steps.  All of it holds for any number of       *)
(* payments contracts.                                                     *)
(***************************************************************************)
EXTENDS DDOProofs

----------------------------------------------------------------------------
(* The kinds of steps.                                                     *)

\* A transaction without a loop, or a block.
Whole ==
    /\ call = Idle /\ call' = Idle
    /\ \/ AnyAdmin \/ AnySP \/ AnyClient \/ Tick
       \/ \E a \in AllocationIds, until \in Nat : settleSpPayment(a, until)

Begins ==
    /\ call = Idle /\ call' # Idle /\ call'.saved = Snapshot
    /\ UNCHANGED <<pay, epoch>>
    /\ \/ \E client \in Clients, pieces \in Seq(PieceInfo), ids \in Seq(AllocationIds) :
             createAllocationRequests(client, pieces, ids)
       \/ \E miner \in Providers, pieces \in Seq(NotificationPiece) :
             handleSectorContentChanged(miner, pieces)
       \/ \E p \in Providers, until, start, size \in Nat :
             settleSpTotalPayment(p, until, start, size)

Continues ==
    /\ call # Idle /\ call' # Idle
    /\ call'.saved = call.saved /\ call'.fn = call.fn
    /\ UNCHANGED epoch
    /\ createAllocation \/ activatePiece \/ rejectPiece \/ settleNext \/ settleSkip

Reverts == call # Idle /\ Revert

Returns ==
    /\ call # Idle /\ call' = Idle
    /\ UNCHANGED <<pay, epoch>>
    /\ createReturn \/ notifyReturn \/ settleReturn

\* What the lemmas below ask of a step, whatever arguments its settlements have:
\* those of Next are among them.
Steps == Whole \/ Begins \/ Continues \/ Reverts \/ Returns \/ UNCHANGED vars

\* Every step is of one of these kinds.
LEMMA Kinds ==
    ASSUME IInv, AnyNext
    PROVE  Whole \/ Begins \/ Continues \/ Reverts \/ Returns
<1>1. CASE AnyAdmin \/ AnySP \/ AnyClient \/ Tick
  <2>1. call = Idle /\ call' = Idle
    <3>1. CASE AnyAdmin \/ AnySP
      BY <3>1, OwnerChanges
    <3>2. CASE AnyClient \/ Tick
      BY <3>2 DEF AnyClient, ClientTransaction, AnyDeposit, withdraw,
                  setOperatorApproval, terminateRail, settleRail, Tick
    <3> QED BY <1>1, <3>1, <3>2
  <2> QED BY <1>1, <2>1 DEF Whole
<1>2. CASE AnyAllocation
  <2>1. CASE createRevert \/ notifyRevert \/ settleRevert
    BY <2>1 DEF Reverts, createRevert, creating, notifyRevert, notifying,
                settleRevert, settling, Idle
  <2>2. CASE createReturn \/ notifyReturn \/ settleReturn
    BY <2>2 DEF Returns, createReturn, notifyReturn, settleReturn, Idle
  <2>3. ASSUME NEW client \in Clients, NEW pieces \in Seq(PieceInfo), NEW ids \in Seq(AllocationIds),
               createAllocationRequests(client, pieces, ids)
        PROVE  Begins
    <3>1. /\ call = Idle /\ call' # Idle /\ call'.saved = Snapshot
          /\ UNCHANGED <<pay, epoch>>
      BY <2>3 DEF createAllocationRequests, Idle
    <3> QED BY <2>3, <3>1 DEF Begins
  <2>4. ASSUME NEW miner \in Providers, NEW pieces \in Seq(NotificationPiece),
               handleSectorContentChanged(miner, pieces)
        PROVE  Begins
    <3>1. /\ call = Idle /\ call' # Idle /\ call'.saved = Snapshot
          /\ UNCHANGED <<pay, epoch>>
      BY <2>4 DEF handleSectorContentChanged, Idle
    <3> QED BY <2>4, <3>1 DEF Begins
  <2>5. ASSUME NEW until \in Nat, NEW p \in Providers, NEW b \in Nat \X Nat,
               settleSpTotalPayment(p, until, b[1], b[2])
        PROVE  Begins
    <3>1. /\ call = Idle /\ call' # Idle /\ call'.saved = Snapshot
          /\ UNCHANGED <<pay, epoch>>
      BY <2>5 DEF settleSpTotalPayment, Idle
    <3>2. until \in Nat /\ b[1] \in Nat /\ b[2] \in Nat
      BY SoundParts, InputsAssumption
    <3> QED BY <2>5, <3>1, <3>2 DEF Begins
  <2>6. ASSUME NEW until \in Nat, NEW a \in AllocationIds,
               settleSpPayment(a, until)
        PROVE  Whole
    <3>1. call = Idle /\ call' = Idle
      BY <2>6 DEF settleSpPayment
    <3>2. until \in Nat
      BY SoundParts
    <3> QED BY <2>6, <3>1, <3>2 DEF Whole
  <2>7. CASE createAllocation
    <3>1. call \in CreateFrame /\ Continue /\ epoch' = epoch
      BY <2>7, CreateFrameParts DEF createAllocation
    <3>2. /\ call # Idle /\ call' # Idle
          /\ call'.saved = call.saved /\ call'.fn = call.fn
      BY <3>1 DEF Continue, CreateFrame, Idle
    <3> QED BY <2>7, <3>1, <3>2 DEF Continues
  <2>8. CASE activatePiece \/ rejectPiece
    <3>1. PICK b \in BOOLEAN :
              /\ call \in NotifyFrame /\ epoch' = epoch
              /\ call' = [call EXCEPT !.i = @ + 1, !.accepted = Append(@, b)]
      BY <2>8, NotifyFrameParts DEF activatePiece, rejectPiece
    <3>2. /\ call # Idle /\ call' # Idle
          /\ call'.saved = call.saved /\ call'.fn = call.fn
      BY <3>1, NotifyContinues
    <3> QED BY <2>8, <3>1, <3>2 DEF Continues
  <2>9. CASE settleNext \/ settleSkip
    <3>1. call \in SettleFrame /\ Continue /\ epoch' = epoch
      BY <2>9, SoundParts
         DEF settleNext, settleSkip, settling, Frames, Idle, CreateFrame, NotifyFrame
    <3>2. /\ call # Idle /\ call' # Idle
          /\ call'.saved = call.saved /\ call'.fn = call.fn
      BY <3>1 DEF Continue, SettleFrame, Idle
    <3> QED BY <2>9, <3>1, <3>2 DEF Continues
  <2> QED BY <1>2, <2>1, <2>2, <2>3, <2>4, <2>5, <2>6, <2>7, <2>8, <2>9
          DEF AnyAllocation
<1> QED BY <1>1, <1>2 DEF AnyNext

LEMMA StepKinds ==
    ASSUME IInv, [AnyNext]_vars
    PROVE  Steps
BY Kinds DEF Steps

\* Only a transaction without a loop and the return of one with a loop change
\* what is committed.
LEMMA Commits ==
    ASSUME IInv
    PROVE  /\ Begins \/ Continues \/ Reverts =>
                 committed'.s = committed.s /\ committed'.pay = committed.pay
                 /\ epoch' = epoch
           /\ Whole => committed.s = s /\ committed'.s = s'
                       /\ committed.pay = pay /\ committed'.pay = pay'
           /\ Returns => committed = call.saved /\ committed'.s = s'
                         /\ committed'.pay = pay
           /\ UNCHANGED vars => committed' = committed
<1>1. Begins \/ Continues \/ Reverts =>
          committed'.s = committed.s /\ committed'.pay = committed.pay
          /\ epoch' = epoch
  BY DEF Begins, Continues, Reverts, Revert, committed, Snapshot
<1>2. Whole => committed.s = s /\ committed'.s = s'
               /\ committed.pay = pay /\ committed'.pay = pay'
  BY DEF Whole, committed, Snapshot
<1>3. Returns => committed = call.saved /\ committed'.s = s' /\ committed'.pay = pay
  BY DEF Returns, committed, Snapshot
<1>4. UNCHANGED vars => committed' = committed
  BY DEF vars, committed, Snapshot
<1> QED BY <1>1, <1>2, <1>3, <1>4

----------------------------------------------------------------------------
(* The diamond's settings and its allocations while a call runs.           *)

\* An allocation is the one it was, or has been activated with its sector.
Final(old, new) ==
    new = old \/ /\ ~old.activated
                 /\ new = [old EXCEPT !.activated = TRUE,
                                      !.sectorNumber = new.sectorNumber]

\* A running call leaves the owner's settings alone, and takes away or changes
\* no allocation that was there when it began but for its one activation.
TransactionInv ==
    call # Idle =>
        /\ s.spConfigs = call.saved.s.spConfigs
        /\ s.paused = call.saved.s.paused
        /\ s.commissionRateBps = call.saved.s.commissionRateBps
        /\ s.paymentsContract = call.saved.s.paymentsContract
        /\ s.blacklistedSectors = call.saved.s.blacklistedSectors
        /\ s.registeredSPIds = call.saved.s.registeredSPIds
        /\ \A a \in Allocated(call.saved.s) :
              Final(call.saved.s.allocationInfos[a], s.allocationInfos[a])

\* What one step of a running call changes in the diamond's storage: nothing
\* but an allocation that was free, or one that is activated now.
LEMMA ContinuesKeeps ==
    ASSUME IInv, Continues
    PROVE  /\ s'.spConfigs = s.spConfigs
           /\ s'.paused = s.paused
           /\ s'.commissionRateBps = s.commissionRateBps
           /\ s'.allocationLockupAmount = s.allocationLockupAmount
           /\ s'.paymentsContract = s.paymentsContract
           /\ s'.blacklistedSectors = s.blacklistedSectors
           /\ s'.registeredSPIds = s.registeredSPIds
           /\ \A a \in Allocated(s) : Final(s.allocationInfos[a], s'.allocationInfos[a])
           /\ \A a \in AllocationIds \ Allocated(s) :
                 LET info == s'.allocationInfos[a]
                 IN  \/ info = s.allocationInfos[a]
                     \/ /\ info.client # ZERO /\ info.railId \in RailIds
                        /\ ~info.activated /\ call.fn = "create"
<1>0. s \in DDOState
  BY SoundParts
<1>1. CASE createAllocation
  <2> DEFINE a == call.newAllocations[call.i]
             new == [client |-> call.client,
                     provider |-> call.pieceInfos[call.i].provider,
                     activated |-> FALSE,
                     pieceCidHash |-> call.pieceInfos[call.i].pieceCid,
                     paymentToken |-> call.pieceInfos[call.i].paymentTokenAddress,
                     pieceSize |-> call.pieceInfos[call.i].size,
                     railId |-> pay[s.paymentsContract].nextRailId,
                     pricePerBytePerEpoch |->
                         SPPrice(call.pieceInfos[call.i].provider,
                                 call.pieceInfos[call.i].paymentTokenAddress),
                     sectorNumber |-> 0]
  <2>1. s'.allocationInfos = [s.allocationInfos EXCEPT ![a] = new]
    BY <1>0, <1>1 DEF createAllocation, DDOState
  <2>2. s.allocationInfos[a].client = ZERO
    BY <1>1 DEF createAllocation, canCreateAllocation
  <2>3. \A b \in Allocated(s) : s'.allocationInfos[b] = s.allocationInfos[b]
    <3> HIDE DEF a, new
    <3> QED BY <1>0, <2>1, <2>2 DEF Allocated, DDOState
  <2>4. /\ s'.spConfigs = s.spConfigs /\ s'.paused = s.paused
        /\ s'.commissionRateBps = s.commissionRateBps
        /\ s'.allocationLockupAmount = s.allocationLockupAmount
        /\ s'.paymentsContract = s.paymentsContract
        /\ s'.blacklistedSectors = s.blacklistedSectors
        /\ s'.registeredSPIds = s.registeredSPIds
    BY <1>0, <1>1 DEF createAllocation, DDOState
  <2>5. /\ new.client # ZERO /\ new.railId \in RailIds
        /\ ~new.activated /\ call.fn = "create"
    BY <1>1, CreateFrameParts, ZeroAssumption
       DEF createAllocation, creating, canCreateAllocation, CanOpenRail,
           CanCreateRail
  <2>6. \A b \in AllocationIds : s'.allocationInfos[b] =
            IF b = a THEN new ELSE s.allocationInfos[b]
    <3> HIDE DEF a, new
    <3> QED BY <1>0, <2>1 DEF DDOState
  <2> HIDE DEF a, new
  <2> QED BY <2>3, <2>4, <2>5, <2>6 DEF Final
<1>2. CASE activatePiece
  <2> DEFINE a == call.pieces[call.i].allocationId
             sector == call.pieces[call.i].sectorNumber
             old == s.allocationInfos[a]
             new == [old EXCEPT !.activated = TRUE, !.sectorNumber = sector]
  <2>1. a \in AllocationIds /\ ~old.activated
    BY <1>2, NotifyFrameParts DEF activatePiece, accepts, NotificationPiece
  <2>2. s'.allocationInfos = [s.allocationInfos EXCEPT ![a] = new]
    <3>1. old \in AllocationInfo
      BY <1>0, <2>1 DEF DDOState
    <3>2. new = [[old EXCEPT !.sectorNumber = sector] EXCEPT !.activated = TRUE]
      <4> HIDE DEF old, sector
      <4> QED BY <3>1 DEF AllocationInfo
    <3>3. s'.allocationInfos = [s.allocationInfos EXCEPT ![a] =
                [[s.allocationInfos[a] EXCEPT !.sectorNumber = sector]
                     EXCEPT !.activated = TRUE]]
      BY <1>0, <1>2, <2>1 DEF activatePiece, DDOState
    <3> QED BY <3>2, <3>3
  <2>3. \A b \in AllocationIds : s'.allocationInfos[b] =
            IF b = a THEN new ELSE s.allocationInfos[b]
    <3> HIDE DEF a, new
    <3> QED BY <1>0, <2>2 DEF DDOState
  <2>4. Final(old, new)
    <3>1. old \in AllocationInfo
      BY <1>0, <2>1 DEF DDOState
    <3> HIDE DEF old, sector
    <3> QED BY <2>1, <3>1 DEF Final, AllocationInfo
  <2>5. \A b \in Allocated(s) : Final(s.allocationInfos[b], s'.allocationInfos[b])
    <3> HIDE DEF a, new
    <3> QED BY <2>3, <2>4 DEF Final, Allocated, old
  <2>6. /\ s'.spConfigs = s.spConfigs /\ s'.paused = s.paused
        /\ s'.commissionRateBps = s.commissionRateBps
        /\ s'.allocationLockupAmount = s.allocationLockupAmount
        /\ s'.paymentsContract = s.paymentsContract
        /\ s'.blacklistedSectors = s.blacklistedSectors
        /\ s'.registeredSPIds = s.registeredSPIds
    BY <1>0, <1>2 DEF activatePiece, DDOState
  <2>7. s.allocationInfos[a].client # ZERO
    BY <1>2 DEF activatePiece, accepts
  <2>8. \A b \in AllocationIds \ Allocated(s) :
            s'.allocationInfos[b] = s.allocationInfos[b]
    <3> HIDE DEF a, new
    <3> QED BY <2>3, <2>7 DEF Allocated
  <2> QED BY <2>5, <2>6, <2>8
<1>3. CASE s' = s
  BY <1>3 DEF Final
<1> QED BY <1>1, <1>2, <1>3 DEF Continues, rejectPiece, settleNext, settleSkip

\* The return of a call writes the reentrancy guard alone.
LEMMA ReturnsKeeps ==
    ASSUME IInv, Returns
    PROVE  /\ s'.allocationInfos = s.allocationInfos
           /\ s'.allocationIdsByClient = s.allocationIdsByClient
           /\ s'.allocationIdsByProvider = s.allocationIdsByProvider
           /\ s'.paymentsContract = s.paymentsContract
           /\ s'.blacklistedSectors = s.blacklistedSectors
           /\ s'.spConfigs = s.spConfigs
           /\ s'.railIdToAllocationId = s.railIdToAllocationId
           /\ s'.registeredSPIds = s.registeredSPIds
BY SoundParts DEF Returns, createReturn, notifyReturn, settleReturn, DDOState

\* The beginning of a call writes the reentrancy guard alone.
LEMMA BeginsKeeps ==
    ASSUME IInv, Begins
    PROVE  /\ s'.allocationInfos = s.allocationInfos
           /\ s'.allocationIdsByClient = s.allocationIdsByClient
           /\ s'.allocationIdsByProvider = s.allocationIdsByProvider
           /\ s'.paymentsContract = s.paymentsContract
           /\ s'.blacklistedSectors = s.blacklistedSectors
           /\ s'.spConfigs = s.spConfigs /\ s'.paused = s.paused
           /\ s'.commissionRateBps = s.commissionRateBps
           /\ s'.railIdToAllocationId = s.railIdToAllocationId
           /\ s'.registeredSPIds = s.registeredSPIds
<1>1. s' = s \/ s' = [s EXCEPT !.reentrancyStatus = ENTERED]
  BY DEF Begins, createAllocationRequests, handleSectorContentChanged,
         settleSpTotalPayment
<1> QED BY <1>1, SoundParts DEF DDOState

\* A transaction without a loop touches no allocation and no list of them.
LEMMA WholeKeepsAllocations ==
    ASSUME IInv, Whole
    PROVE  /\ s'.allocationInfos = s.allocationInfos
           /\ s'.allocationIdsByClient = s.allocationIdsByClient
           /\ s'.allocationIdsByProvider = s.allocationIdsByProvider
           /\ s'.railIdToAllocationId = s.railIdToAllocationId
           /\ s'.paymentsContract = s.paymentsContract
              \/ s'.paymentsContract \in PaymentsContracts
<1>1. CASE AnyAdmin \/ AnySP
  BY <1>1, OwnerChanges
<1>2. CASE AnyClient \/ Tick \/ \E a \in AllocationIds, until \in Nat :
                                     settleSpPayment(a, until)
  BY <1>2 DEF AnyClient, ClientTransaction, AnyDeposit, withdraw,
              setOperatorApproval, terminateRail, settleRail, Tick,
              settleSpPayment
<1> QED BY <1>1, <1>2 DEF Whole

\* Two changes of an allocation, one after the other.
LEMMA FinalTransitive ==
    ASSUME NEW x \in AllocationInfo, NEW y, NEW z, Final(x, y), Final(y, z)
    PROVE  Final(x, z)
BY DEF Final, AllocationInfo

\* Every step keeps what a running call promises.
LEMMA TransactionInvStep ==
    ASSUME IInv, TransactionInv, Steps
    PROVE  TransactionInv'
<1>1. CASE call' = Idle
  BY <1>1 DEF TransactionInv
<1>2. CASE Begins
  <2>1. call'.saved.s = s
    BY <1>2 DEF Begins, Snapshot
  <2> QED BY <1>2, <2>1, BeginsKeeps DEF TransactionInv, Final
<1>3. CASE Continues
  <2>1. call # Idle /\ call'.saved = call.saved
    BY <1>3 DEF Continues
  <2>2. ASSUME NEW a \in Allocated(call.saved.s)
        PROVE  Final(call.saved.s.allocationInfos[a], s'.allocationInfos[a])
    <3>1. Final(call.saved.s.allocationInfos[a], s.allocationInfos[a])
      BY <2>1 DEF TransactionInv
    <3>2. call.saved.s.allocationInfos[a] \in AllocationInfo /\ a \in AllocationIds
      BY <2>1, SoundParts DEF committed, Snapshots, DDOState, Allocated
    <3>3. a \in Allocated(s)
      BY <3>1, <3>2 DEF Final, Allocated, AllocationInfo
    <3>4. Final(s.allocationInfos[a], s'.allocationInfos[a])
      BY <1>3, <3>3, ContinuesKeeps
    <3> QED BY <3>1, <3>2, <3>4, FinalTransitive
  <2> QED BY <1>3, <2>1, <2>2, ContinuesKeeps DEF TransactionInv
<1>4. CASE UNCHANGED vars
  BY <1>4 DEF TransactionInv, vars
<1> QED BY <1>1, <1>2, <1>3, <1>4 DEF Steps, Whole, Reverts, Revert, Returns

\* While a call runs, its provider registry, settings and blacklist are those of
\* its beginning, and the allocations of its beginning are there, unchanged but
\* for their activation.
THEOREM TransactionInvariance == Spec => []TransactionInv
<1>1. Init => TransactionInv
  BY DEF Init, TransactionInv
<1>2. IInv /\ TransactionInv /\ [AnyNext]_vars => TransactionInv'
  BY TransactionInvStep, StepKinds
<1> QED BY <1>1, <1>2, Invariance, SpecIsAny, PTL

LEMMA TransactionFinal ==
    ASSUME IInv, TransactionInv, AnyNext
    PROVE  \A a \in Allocated(committed.s) :
               Final(committed.s.allocationInfos[a], committed'.s.allocationInfos[a])
<1>1. CASE Begins \/ Continues \/ Reverts
  BY <1>1, Commits DEF Final
<1>2. CASE Whole
  BY <1>2, WholeKeepsAllocations, Commits DEF Final
<1>3. CASE Returns
  BY <1>3, Commits, ReturnsKeeps DEF Returns, TransactionInv
<1> QED BY <1>1, <1>2, <1>3, Kinds

\* No transaction takes an allocation away, deactivates it or changes a term of
\* it, for any batches, notifications and settlements, whatever reverts.
THEOREM AllocationFinality == Spec => AllocationsAreFinal
<1> DEFINE Step == \A a \in Allocated(committed.s) :
                      LET old == committed.s.allocationInfos[a]
                          new == committed'.s.allocationInfos[a]
                      IN  new = old \/ /\ ~old.activated
                                       /\ new = [old EXCEPT !.activated = TRUE,
                                                !.sectorNumber = new.sectorNumber]
<1>1. IInv /\ TransactionInv /\ [AnyNext]_vars => [Step]_vars
  BY TransactionFinal DEF Final
<1> QED BY <1>1, Invariance, TransactionInvariance, SpecIsAny, PTL DEF AllocationsAreFinal

----------------------------------------------------------------------------
(* The lists of allocations by client and by provider.                     *)

\* Appending to a list adds one occurrence of what is appended.
LEMMA AppendOccurrences ==
    ASSUME NEW S, NEW list \in Seq(S), NEW a \in S, NEW b
    PROVE  /\ IsFiniteSet(Occurrences(list, b))
           /\ Cardinality(Occurrences(Append(list, a), b)) =
                  Cardinality(Occurrences(list, b)) + IF b = a THEN 1 ELSE 0
           /\ Cardinality(Occurrences(list, b)) \in Nat
<1> DEFINE n == Len(list) + 1
           more == Append(list, a)
<1>1. /\ Len(list) \in Nat /\ DOMAIN list = 1 .. Len(list)
      /\ DOMAIN more = 1 .. n
      /\ \A i \in 1 .. Len(list) : more[i] = list[i]
      /\ more[n] = a
  OBVIOUS
<1>2. IsFiniteSet(Occurrences(list, b))
  <2>1. Occurrences(list, b) \subseteq 1 .. Len(list)
    BY <1>1 DEF Occurrences
  <2>2. IsFiniteSet(1 .. Len(list))
    BY <1>1, FS_Interval
  <2> QED BY <2>1, <2>2, FS_Subset
<1>3. n \notin Occurrences(list, b)
  BY <1>1 DEF Occurrences
<1> HIDE DEF more
<1>4. Cardinality(Occurrences(more, b)) =
          Cardinality(Occurrences(list, b)) + IF b = a THEN 1 ELSE 0
  <2>0. \A i : i \in 1 .. n <=> i \in 1 .. Len(list) \/ i = n
    BY <1>1
  <2> HIDE DEF n
  <2>1. CASE b = a
    <3>1. Occurrences(more, b) = Occurrences(list, b) \cup {n}
      BY <2>0, <2>1, <1>1 DEF Occurrences
    <3> QED BY <3>1, <2>1, <1>2, <1>3, FS_AddElement
  <2>2. CASE b # a
    <3>1. Occurrences(more, b) = Occurrences(list, b)
      BY <2>0, <2>2, <1>1 DEF Occurrences
    <3>2. Cardinality(Occurrences(list, b)) \in Nat
      BY <1>2, FS_CardinalityType
    <3> QED BY <3>1, <3>2, <2>2
  <2> QED BY <2>1, <2>2
<1>5. Cardinality(Occurrences(list, b)) \in Nat
  BY <1>2, FS_CardinalityType
<1> QED BY <1>2, <1>4, <1>5 DEF more

\* An id that is free has no provider either.
FreeIds(st) ==
    \A a \in AllocationIds :
        st.allocationInfos[a].client = ZERO => st.allocationInfos[a].provider = 0

IndexInv ==
    /\ ListsAgree(s) /\ ListsAgree(committed.s)
    /\ FreeIds(s) /\ FreeIds(committed.s)

\* Lists stay exact when neither they nor an allocation's parties change.
LEMMA SameLists ==
    ASSUME NEW st, NEW st2, ListsAgree(st), FreeIds(st),
           st2.allocationIdsByClient = st.allocationIdsByClient,
           st2.allocationIdsByProvider = st.allocationIdsByProvider,
           \A a \in AllocationIds :
               /\ st2.allocationInfos[a].client = st.allocationInfos[a].client
               /\ st2.allocationInfos[a].provider = st.allocationInfos[a].provider
    PROVE  ListsAgree(st2) /\ FreeIds(st2)
BY DEF ListsAgree, FreeIds

\* A new allocation is appended to its client's and its provider's list; it
\* was in none before.
LEMMA CreateIndexes ==
    ASSUME IInv, ListsAgree(s), FreeIds(s), createAllocation
    PROVE  ListsAgree(s') /\ FreeIds(s')
<1> DEFINE a == call.newAllocations[call.i]
           client == call.client
           provider == call.pieceInfos[call.i].provider
<1>1. /\ a \in AllocationIds /\ client \in Clients /\ client # ZERO
      /\ provider \in Providers /\ provider # 0
  BY CreateFrameParts, ZeroAssumption, IdsAssumption DEF createAllocation, PieceInfo
<1>2. s.allocationInfos[a].client = ZERO /\ s.allocationInfos[a].provider = 0
  BY <1>1 DEF createAllocation, canCreateAllocation, FreeIds
<1>3. /\ s'.allocationIdsByClient =
             [s.allocationIdsByClient EXCEPT ![client] = Append(@, a)]
      /\ s'.allocationIdsByProvider =
             [s.allocationIdsByProvider EXCEPT ![provider] = Append(@, a)]
  BY SoundParts DEF createAllocation, DDOState
<1>4. PICK info : /\ s'.allocationInfos = [s.allocationInfos EXCEPT ![a] = info]
                  /\ info.client = client /\ info.provider = provider
  <2> DEFINE new == [client |-> client,
                     provider |-> provider,
                     activated |-> FALSE,
                     pieceCidHash |-> call.pieceInfos[call.i].pieceCid,
                     paymentToken |-> call.pieceInfos[call.i].paymentTokenAddress,
                     pieceSize |-> call.pieceInfos[call.i].size,
                     railId |-> pay[s.paymentsContract].nextRailId,
                     pricePerBytePerEpoch |->
                         SPPrice(provider,
                                 call.pieceInfos[call.i].paymentTokenAddress),
                     sectorNumber |-> 0]
  <2>1. s'.allocationInfos = [s.allocationInfos EXCEPT ![a] = new]
    BY SoundParts DEF createAllocation, DDOState
  <2> QED BY <2>1
<1> HIDE DEF a, client, provider
<1>5. /\ s.allocationIdsByClient \in [Clients -> Seq(AllocationIds)]
      /\ s.allocationIdsByProvider \in [Providers -> Seq(AllocationIds)]
      /\ s.allocationInfos \in [AllocationIds -> AllocationInfo]
  BY SoundParts DEF DDOState
<1>6. \A b \in AllocationIds : s'.allocationInfos[b] =
          IF b = a THEN info ELSE s.allocationInfos[b]
  BY <1>4, <1>5
<1>7. ASSUME NEW b \in AllocationIds, NEW c \in Clients
      PROVE  Cardinality(Occurrences(s'.allocationIdsByClient[c], b)) =
                 IF s'.allocationInfos[b].client = c THEN 1 ELSE 0
  <2> DEFINE list == s.allocationIdsByClient[c]
  <2>1. Cardinality(Occurrences(list, b)) =
            IF s.allocationInfos[b].client = c THEN 1 ELSE 0
    BY DEF ListsAgree
  <2>2. CASE c = client
    <3>1. s'.allocationIdsByClient[c] = Append(list, a)
      BY <1>1, <1>3, <1>5, <2>2
    <3>2. list \in Seq(AllocationIds)
      BY <1>5
    <3> HIDE DEF list
    <3>3. Cardinality(Occurrences(Append(list, a), b)) =
              Cardinality(Occurrences(list, b)) + IF b = a THEN 1 ELSE 0
      BY <1>1, <3>2, AppendOccurrences
    <3>4. s.allocationInfos[a].client # c
      BY <1>1, <1>2, <2>2
    <3> QED BY <1>4, <1>6, <2>1, <2>2, <3>1, <3>3, <3>4
  <2>3. CASE c # client
    <3>1. s'.allocationIdsByClient[c] = list
      BY <1>3, <1>5, <2>3
    <3>2. s.allocationInfos[a].client # c
      BY <1>1, <1>2, ZeroAssumption
    <3> QED BY <1>4, <1>6, <2>1, <2>3, <3>1, <3>2
  <2> QED BY <2>2, <2>3
<1>8. ASSUME NEW b \in AllocationIds, NEW p \in Providers
      PROVE  Cardinality(Occurrences(s'.allocationIdsByProvider[p], b)) =
                 IF s'.allocationInfos[b].provider = p THEN 1 ELSE 0
  <2> DEFINE list == s.allocationIdsByProvider[p]
  <2>1. Cardinality(Occurrences(list, b)) =
            IF s.allocationInfos[b].provider = p THEN 1 ELSE 0
    BY DEF ListsAgree
  <2>2. CASE p = provider
    <3>1. s'.allocationIdsByProvider[p] = Append(list, a)
      BY <1>1, <1>3, <1>5, <2>2
    <3>2. list \in Seq(AllocationIds)
      BY <1>5
    <3> HIDE DEF list
    <3>3. Cardinality(Occurrences(Append(list, a), b)) =
              Cardinality(Occurrences(list, b)) + IF b = a THEN 1 ELSE 0
      BY <1>1, <3>2, AppendOccurrences
    <3>4. s.allocationInfos[a].provider # p
      BY <1>1, <1>2, <2>2
    <3> QED BY <1>4, <1>6, <2>1, <2>2, <3>1, <3>3, <3>4
  <2>3. CASE p # provider
    <3>1. s'.allocationIdsByProvider[p] = list
      BY <1>3, <1>5, <2>3
    <3>2. s.allocationInfos[a].provider # p
      BY <1>2, IdsAssumption
    <3> QED BY <1>4, <1>6, <2>1, <2>3, <3>1, <3>2
  <2> QED BY <2>2, <2>3
<1>9. FreeIds(s')
  BY <1>1, <1>4, <1>6 DEF FreeIds
<1> QED BY <1>7, <1>8, <1>9 DEF ListsAgree

\* Activation changes neither party of an allocation, and no list.
LEMMA ActivateIndexes ==
    ASSUME IInv, activatePiece
    PROVE  /\ s'.allocationIdsByClient = s.allocationIdsByClient
           /\ s'.allocationIdsByProvider = s.allocationIdsByProvider
           /\ \A a \in AllocationIds :
                 /\ s'.allocationInfos[a].client = s.allocationInfos[a].client
                 /\ s'.allocationInfos[a].provider = s.allocationInfos[a].provider
<1> DEFINE a == call.pieces[call.i].allocationId
           old == s.allocationInfos[a]
           new == [[old EXCEPT !.sectorNumber = call.pieces[call.i].sectorNumber]
                      EXCEPT !.activated = TRUE]
<1>1. /\ a \in AllocationIds /\ old \in AllocationInfo
  BY NotifyFrameParts, SoundParts DEF activatePiece, NotificationPiece, DDOState
<1>2. /\ s'.allocationIdsByClient = s.allocationIdsByClient
      /\ s'.allocationIdsByProvider = s.allocationIdsByProvider
      /\ s'.allocationInfos = [s.allocationInfos EXCEPT ![a] = new]
  BY <1>1, SoundParts DEF activatePiece, DDOState
<1>3. new.client = old.client /\ new.provider = old.provider
  <2> HIDE DEF old, a
  <2> QED BY <1>1 DEF AllocationInfo
<1> HIDE DEF new, a
<1>4. \A b \in AllocationIds : s'.allocationInfos[b] =
          IF b = a THEN new ELSE s.allocationInfos[b]
  BY <1>2, SoundParts DEF DDOState
<1> QED BY <1>2, <1>3, <1>4 DEF old

\* Every step keeps the lists exact.
LEMMA IndexInvStep ==
    ASSUME IInv, IndexInv, [AnyNext]_vars
    PROVE  IndexInv'
<1>0. ListsAgree(s) /\ FreeIds(s) /\ ListsAgree(committed.s) /\ FreeIds(committed.s)
  BY DEF IndexInv
<1>1. ASSUME ListsAgree(s') /\ FreeIds(s'),
             call' = Idle \/ committed'.s = committed.s
      PROVE  IndexInv'
  BY <1>0, <1>1 DEF IndexInv, committed, Snapshot
<1>2. CASE Whole
  BY <1>0, <1>1, <1>2, WholeKeepsAllocations, SameLists DEF Whole
<1>3. CASE Begins
  BY <1>0, <1>1, <1>3, BeginsKeeps, Commits, SameLists
<1>4. CASE Returns
  BY <1>0, <1>1, <1>4, ReturnsKeeps, SameLists DEF Returns
<1>5. CASE Reverts
  BY <1>0, <1>1, <1>5 DEF Reverts, Revert, committed
<1>6. CASE Continues
  <2>1. CASE createAllocation
    BY <1>0, <1>1, <1>6, <2>1, Commits, CreateIndexes
  <2>2. CASE activatePiece
    BY <1>0, <1>1, <1>6, <2>2, Commits, ActivateIndexes, SameLists
  <2>3. CASE rejectPiece \/ settleNext \/ settleSkip
    <3>1. s' = s
      BY <2>3 DEF rejectPiece, settleNext, settleSkip
    <3> QED BY <1>0, <1>1, <1>6, <3>1, Commits
  <2> QED BY <1>6, <2>1, <2>2, <2>3 DEF Continues
<1>7. CASE UNCHANGED vars
  BY <1>0, <1>7 DEF vars, IndexInv, committed, Snapshot
<1> QED BY <1>2, <1>3, <1>4, <1>5, <1>6, <1>7, Kinds

\* The lists are exact for any number of clients, providers and allocations, in
\* the middle of a batch and in what a revert puts back.
THEOREM ExactIndexes == Spec => []IndexesAgree
<1>1. Init => IndexInv
  <2> SUFFICES ASSUME Init PROVE ListsAgree(s) /\ FreeIds(s) /\ call = Idle
    BY DEF IndexInv, committed, Snapshot
  <2>1. /\ \A a \in AllocationIds : s.allocationInfos[a] = NoAllocation
        /\ \A c \in Clients : s.allocationIdsByClient[c] = <<>>
        /\ \A p \in Providers : s.allocationIdsByProvider[p] = <<>>
    BY DEF Init, Initialized
  <2>2. \A a : Cardinality(Occurrences(<<>>, a)) = 0
    <3>1. \A a : Occurrences(<<>>, a) = {}
      BY DEF Occurrences
    <3> QED BY <3>1, FS_EmptySet
  <2>3. \A c \in Clients : NoAllocation.client # c
    BY ZeroAssumption DEF NoAllocation
  <2>4. \A p \in Providers : NoAllocation.provider # p
    BY IdsAssumption DEF NoAllocation
  <2> QED BY <2>1, <2>2, <2>3, <2>4 DEF ListsAgree, FreeIds, NoAllocation, Init
<1>2. IInv /\ IndexInv /\ [AnyNext]_vars => IndexInv'
  BY IndexInvStep
<1>3. IndexInv => IndexesAgree
  BY DEF IndexInv, IndexesAgree
<1> QED BY <1>1, <1>2, <1>3, Invariance, SpecIsAny, PTL

----------------------------------------------------------------------------
(* createAllocationRequests.                                               *)

\* The allocation is what its provider offers in the storage st: terms, price,
\* payee and commission.
AsOffered(st, info, p) ==
    LET offer == st.spConfigs[info.provider]
        rail == p.rails[info.railId]
    IN  /\ info.railId \in RailIds /\ info.railId < p.nextRailId
        /\ offer.isActive
        /\ info.pieceSize \in offer.minPieceSize .. offer.maxPieceSize
        /\ [token |-> info.paymentToken, isActive |-> TRUE,
            pricePerBytePerEpoch |-> info.pricePerBytePerEpoch]
               \in TokenEntries(st, info.provider)
        /\ rail.to = offer.paymentAddress
        /\ rail.commissionRateBps = st.commissionRateBps

\* The pieces are ones their providers take.
PiecesFit(st, pieces) ==
    \A k \in DOMAIN pieces :
        LET config == st.spConfigs[pieces[k].provider]
        IN  /\ config.isActive
            /\ pieces[k].size >= config.minPieceSize
            /\ pieces[k].size <= config.maxPieceSize

\* A running creation has made one allocation for each piece it has passed,
\* each as offered, and the pieces ahead are valid for their providers.
CreateInv ==
    call.fn = "create" =>
        LET made == Allocated(s) \ Allocated(call.saved.s)
        IN  /\ ~s.paused
            /\ s.paymentsContract # ZERO
            /\ PiecesFit(s, call.pieceInfos)
            /\ call.i <= Len(call.newAllocations) + 1
            /\ IsFiniteSet(made) /\ Cardinality(made) = call.i - 1
            /\ \A a \in made :
                  AsOffered(s, s.allocationInfos[a], pay[s.paymentsContract])

\* The first active entry of a provider's list for a token is an entry of the
\* list, with the price a new allocation gets.
LEMMA PriceIsListed ==
    ASSUME IInv, NEW p \in Providers, NEW token, supportsToken(p, token)
    PROVE  [token |-> token, isActive |-> TRUE,
            pricePerBytePerEpoch |-> SPPrice(p, token)] \in TokenEntries(s, p)
<1> DEFINE entries == ActivePrices(p, token)
           first == CHOOSE i \in entries : \A j \in entries : i <= j
           tokens == s.spConfigs[p].supportedTokens
<1>1. tokens \in Seq(TokenConfig)
  BY SoundParts DEF DDOState, SPConfig
<1>2. entries \subseteq DOMAIN tokens /\ entries # {}
  BY DEF ActivePrices, supportsToken
<1>3. entries \in SUBSET Nat
  <2>1. DOMAIN tokens = 1 .. Len(tokens) /\ Len(tokens) \in Nat
    BY <1>1
  <2>2. 1 .. Len(tokens) \subseteq Nat
    BY <2>1
  <2> QED BY <1>2, <2>1, <2>2
<1>4. first \in entries
  <2> HIDE DEF entries
  <2>1. \E i \in entries : \A j \in entries : i <= j
    BY <1>2, <1>3, MinExists
  <2> QED BY <2>1
<1> HIDE DEF first
<1>5. /\ first \in DOMAIN tokens
      /\ tokens[first].token = token /\ tokens[first].isActive
  BY <1>4 DEF ActivePrices
<1>6. SPPrice(p, token) = tokens[first].pricePerBytePerEpoch
  BY DEF SPPrice, first
<1> HIDE DEF tokens, entries
<1>7. tokens[first] \in TokenConfig
  BY <1>1, <1>5
<1>8. tokens[first] = [token |-> token, isActive |-> TRUE,
                       pricePerBytePerEpoch |-> SPPrice(p, token)]
  BY <1>5, <1>6, <1>7 DEF TokenConfig
<1> QED BY <1>5, <1>8 DEF TokenEntries, tokens

\* One iteration makes one allocation, as offered, and leaves those that were
\* made before as they are.
LEMMA CreateMakes ==
    ASSUME IInv, TransactionInv, CreateInv, createAllocation
    PROVE  LET a == call.newAllocations[call.i]
           IN  /\ Allocated(s') = Allocated(s) \cup {a}
               /\ a \notin Allocated(s) /\ a \notin Allocated(call.saved.s)
               /\ \A b \in Allocated(s') \ Allocated(call.saved.s) :
                     AsOffered(s', s'.allocationInfos[b], pay'[s.paymentsContract])
<1> DEFINE a == call.newAllocations[call.i]
           piece == call.pieceInfos[call.i]
           c == s.paymentsContract
           p == pay[c]
           n == p.nextRailId
           info == [client |-> call.client,
                    provider |-> piece.provider,
                    activated |-> FALSE,
                    pieceCidHash |-> piece.pieceCid,
                    paymentToken |-> piece.paymentTokenAddress,
                    pieceSize |-> piece.size,
                    railId |-> n,
                    pricePerBytePerEpoch |->
                        SPPrice(piece.provider, piece.paymentTokenAddress),
                    sectorNumber |-> 0]
<1>0. call.fn = "create" /\ call # Idle
  BY DEF createAllocation, creating, Idle
<1>1. /\ call.client \in Clients /\ call.client # ZERO
      /\ a \in AllocationIds /\ piece \in PieceInfo /\ piece.provider \in Providers
  BY CreateFrameParts, ZeroAssumption DEF createAllocation, PieceInfo
<1>2. s \in DDOState /\ c \in PaymentsContracts /\ PaySound(p, epoch)
  BY <1>0, SoundParts DEF DDOState, CreateInv
<1>3. CanOpenRail(p, piece, call.client) /\ s.allocationInfos[a].client = ZERO
  BY DEF createAllocation, canCreateAllocation
<1>4. PICK q : q = OpenedRail(p, piece, call.client)
  OBVIOUS
<1>5. /\ n \in RailIds /\ n \in Nat
      /\ q.nextRailId = n + 1
      /\ \A i \in RailIds \ {n} : q.rails[i] = p.rails[i]
      /\ q.rails[n].to = s.spConfigs[piece.provider].paymentAddress
      /\ q.rails[n].commissionRateBps = s.commissionRateBps
  <2> HIDE DEF p, piece
  <2>1. n \in RailIds
    BY <1>1, <1>2, <1>3, OpenedRailSound
  <2>2. n \in Nat
    BY <2>1, MaxRailsAssumption DEF RailIds
  <2> QED BY <2>1, <2>2, <1>1, <1>2, <1>3, <1>4, OpenedRailServes
<1>6. pay'[c] = q
  BY <1>2, <1>4, SoundParts DEF createAllocation
<1>7. /\ s'.allocationInfos = [s.allocationInfos EXCEPT ![a] = info]
      /\ s'.spConfigs = s.spConfigs
      /\ s'.commissionRateBps = s.commissionRateBps
  BY <1>2 DEF createAllocation, DDOState
<1>8. LET config == s.spConfigs[piece.provider]
      IN  /\ config.isActive
          /\ piece.size >= config.minPieceSize /\ piece.size <= config.maxPieceSize
  <2>1. call.i \in DOMAIN call.pieceInfos
    <3>1. /\ call \in CreateFrame /\ call.i <= Len(call.newAllocations)
      BY CreateFrameParts DEF createAllocation, creating
    <3>2. /\ call.pieceInfos \in Seq(PieceInfo)
          /\ call.newAllocations \in Seq(AllocationIds)
          /\ Len(call.newAllocations) \in {0, Len(call.pieceInfos)}
          /\ call.i \in Nat \ {0}
      BY <3>1, InputsAssumption DEF CreateFrame
    <3>3. Len(call.newAllocations) = Len(call.pieceInfos)
      BY <3>1, <3>2
    <3> QED BY <3>1, <3>2, <3>3
  <2> QED BY <1>0, <2>1 DEF CreateInv, PiecesFit
<1>9. /\ info.client = call.client /\ info.provider = piece.provider
      /\ info.railId = n /\ info.pieceSize = piece.size
      /\ info.paymentToken = piece.paymentTokenAddress
      /\ info.pricePerBytePerEpoch =
             SPPrice(piece.provider, piece.paymentTokenAddress)
  OBVIOUS
<1> HIDE DEF info
<1>10. AsOffered(s', info, q)
  <2> DEFINE offer == s.spConfigs[piece.provider]
  <2>1. offer.isActive /\ piece.size \in offer.minPieceSize .. offer.maxPieceSize
    <3>1. offer \in SPConfig
      BY <1>1, <1>2 DEF DDOState
    <3>2. /\ offer.isActive /\ piece.size \in Nat
          /\ piece.size >= offer.minPieceSize /\ piece.size <= offer.maxPieceSize
      BY <1>1, <1>8 DEF PieceInfo
    <3> HIDE DEF offer, piece
    <3> QED BY <3>1, <3>2 DEF SPConfig
  <2>2. [token |-> piece.paymentTokenAddress, isActive |-> TRUE,
         pricePerBytePerEpoch |-> SPPrice(piece.provider, piece.paymentTokenAddress)]
            \in TokenEntries(s, piece.provider)
    BY <1>1, <1>3, PriceIsListed DEF CanOpenRail
  <2> HIDE DEF piece, n, p
  <2>3. TokenEntries(s', piece.provider) = TokenEntries(s, piece.provider)
    BY <1>7 DEF TokenEntries
  <2> QED BY <1>5, <1>7, <1>9, <2>1, <2>2, <2>3 DEF AsOffered
<1> HIDE DEF p, n, piece, a
<1>11. /\ s'.allocationInfos[a] = info
       /\ \A b \in AllocationIds \ {a} : s'.allocationInfos[b] = s.allocationInfos[b]
  BY <1>1, <1>2, <1>7 DEF DDOState
<1>12. Allocated(s') = Allocated(s) \cup {a} /\ a \notin Allocated(s)
  BY <1>1, <1>3, <1>9, <1>11 DEF Allocated
<1>13. a \notin Allocated(call.saved.s)
  <2>1. SUFFICES ASSUME a \in Allocated(call.saved.s) PROVE FALSE
    OBVIOUS
  <2>2. call.saved.s.allocationInfos[a] \in AllocationInfo
    BY <1>0, <1>1, SoundParts DEF committed, Snapshots, DDOState
  <2>3. Final(call.saved.s.allocationInfos[a], s.allocationInfos[a])
    BY <1>0, <2>1 DEF TransactionInv
  <2> QED BY <1>3, <2>1, <2>2, <2>3 DEF Final, Allocated, AllocationInfo
<1>14. ASSUME NEW b \in Allocated(s') \ Allocated(call.saved.s)
       PROVE  AsOffered(s', s'.allocationInfos[b], pay'[c])
  <2>1. CASE b = a
    BY <1>6, <1>10, <1>11, <2>1
  <2>2. CASE b # a
    <3>1. /\ b \in Allocated(s) \ Allocated(call.saved.s)
          /\ s'.allocationInfos[b] = s.allocationInfos[b]
      BY <1>11, <1>12, <2>2 DEF Allocated
    <3>2. AsOffered(s, s.allocationInfos[b], p)
      BY <1>0, <3>1 DEF CreateInv, p
    <3>3. s.allocationInfos[b].railId \in RailIds \ {n}
          /\ s.allocationInfos[b].railId < q.nextRailId
      <4>1. s.allocationInfos[b].railId \in Nat
        BY <3>2, MaxRailsAssumption DEF AsOffered, RailIds
      <4> QED BY <3>2, <4>1, <1>5 DEF AsOffered, n
    <3>4. TokenEntries(s', s.allocationInfos[b].provider)
              = TokenEntries(s, s.allocationInfos[b].provider)
      BY <1>7 DEF TokenEntries
    <3> QED BY <3>1, <3>2, <3>3, <3>4, <1>5, <1>6, <1>7 DEF AsOffered
  <2> QED BY <2>1, <2>2
<1> QED BY <1>12, <1>13, <1>14 DEF a

\* No other call makes an allocation.
OnlyCreationMakes ==
    call # Idle /\ call.fn # "create" => Allocated(s) = Allocated(call.saved.s)

\* The running creation's frame.
LEMMA CreateFrameType ==
    ASSUME IInv, call.fn = "create"
    PROVE  /\ call \in CreateFrame /\ call # Idle
           /\ call.newAllocations \in Seq(AllocationIds)
           /\ call.pieceInfos \in Seq(PieceInfo)
           /\ Len(call.newAllocations) \in {0, Len(call.pieceInfos)}
           /\ call.i \in Nat \ {0}
<1>1. call \in CreateFrame
  BY SoundParts DEF Frames, Idle, NotifyFrame, SettleFrame
<1> QED BY <1>1, InputsAssumption DEF CreateFrame, Idle

\* A creation has made nothing when it begins.
LEMMA CreateInvBegins ==
    ASSUME IInv, Begins
    PROVE  CreateInv' /\ OnlyCreationMakes'
<1>1. call'.saved.s = s /\ Allocated(s') = Allocated(s)
  BY BeginsKeeps DEF Begins, Snapshot, Allocated
<1>2. OnlyCreationMakes'
  BY <1>1 DEF OnlyCreationMakes
<1>3. ASSUME call'.fn = "create"
      PROVE  CreateInv'
  <2>1. PICK client \in Clients, pieces \in Seq(PieceInfo), ids \in Seq(AllocationIds) :
            createAllocationRequests(client, pieces, ids)
    BY <1>3 DEF Begins, handleSectorContentChanged, settleSpTotalPayment
  <2>2. /\ call' = [fn |-> "create", client |-> client, pieceInfos |-> pieces,
                    newAllocations |-> ids, i |-> 1, saved |-> Snapshot]
        /\ ~s.paused /\ s.paymentsContract # ZERO
        /\ \A k \in DOMAIN pieces : validPieceForSP(pieces[k])
    BY <2>1 DEF createAllocationRequests, notPaused
  <2>3. /\ call'.i = 1 /\ call'.pieceInfos = pieces /\ call'.newAllocations = ids
    BY <2>2
  <2>4. Len(ids) \in Nat
    BY InputsAssumption
  <2>5. Allocated(s') \ Allocated(call'.saved.s) = {}
    BY <1>1
  <2>6. /\ IsFiniteSet(Allocated(s') \ Allocated(call'.saved.s))
        /\ Cardinality(Allocated(s') \ Allocated(call'.saved.s)) = 0
    BY <2>5, FS_EmptySet
  <2>7. PiecesFit(s', call'.pieceInfos)
    BY <2>2, <2>3, BeginsKeeps DEF PiecesFit, validPieceForSP
  <2>8. /\ ~s'.paused /\ s'.paymentsContract # ZERO
        /\ call'.i <= Len(call'.newAllocations) + 1
        /\ Cardinality(Allocated(s') \ Allocated(call'.saved.s)) = call'.i - 1
    BY <2>2, <2>3, <2>4, <2>6, BeginsKeeps
  <2> QED BY <2>5, <2>6, <2>7, <2>8 DEF CreateInv
<1> QED BY <1>2, <1>3 DEF CreateInv

\* Every iteration makes one allocation more.
LEMMA CreateInvContinues ==
    ASSUME IInv, TransactionInv, CreateInv, createAllocation, Continues
    PROVE  CreateInv'
<1> DEFINE made == Allocated(s) \ Allocated(call.saved.s)
           a == call.newAllocations[call.i]
<1>1. call.fn = "create" /\ call.i <= Len(call.newAllocations)
  BY DEF createAllocation, creating
<1>2. /\ call'.saved = call.saved /\ call'.i = call.i + 1
      /\ call'.pieceInfos = call.pieceInfos
      /\ call'.newAllocations = call.newAllocations
  BY <1>1, CreateFrameType DEF createAllocation, Continue, CreateFrame
<1>3. /\ ~s.paused /\ s.paymentsContract # ZERO
      /\ PiecesFit(s, call.pieceInfos)
      /\ IsFiniteSet(made) /\ Cardinality(made) = call.i - 1
  BY <1>1 DEF CreateInv
<1>4. /\ Allocated(s') \ Allocated(call'.saved.s) = made \cup {a}
      /\ a \notin made
      /\ \A b \in Allocated(s') \ Allocated(call'.saved.s) :
            AsOffered(s', s'.allocationInfos[b], pay'[s.paymentsContract])
  BY <1>2, CreateMakes
<1> HIDE DEF made, a
<1>5. /\ IsFiniteSet(made \cup {a})
      /\ Cardinality(made \cup {a}) = Cardinality(made) + 1
  BY <1>3, <1>4, FS_AddElement
<1>6. Cardinality(made \cup {a}) = call'.i - 1
      /\ call'.i <= Len(call'.newAllocations) + 1
  <2>1. call.i \in Nat /\ Len(call.newAllocations) \in Nat
    BY <1>1, CreateFrameType
  <2> QED BY <1>1, <1>2, <1>3, <1>5, <2>1
<1>7. PiecesFit(s', call'.pieceInfos)
  BY <1>2, <1>3, ContinuesKeeps DEF PiecesFit
<1> QED BY <1>3, <1>4, <1>5, <1>6, <1>7, ContinuesKeeps DEF CreateInv

\* Every step keeps what a running creation promises.
LEMMA CreateInvStep ==
    ASSUME IInv, TransactionInv, CreateInv, OnlyCreationMakes, Steps
    PROVE  CreateInv' /\ OnlyCreationMakes'
<1>1. CASE call' = Idle
  BY <1>1 DEF CreateInv, OnlyCreationMakes, Idle
<1>2. CASE Begins
  BY <1>2, CreateInvBegins
<1>3. CASE Continues
  <2>1. call'.fn = call.fn /\ call # Idle /\ call'.saved = call.saved
    BY <1>3 DEF Continues
  <2>2. CASE createAllocation
    <3>1. call.fn = "create"
      BY <2>2 DEF createAllocation, creating
    <3> QED BY <1>3, <2>1, <2>2, <3>1, CreateInvContinues DEF OnlyCreationMakes
  <2>3. CASE ~createAllocation
    <3>1. call.fn # "create"
      BY <1>3, <2>3
         DEF Continues, activatePiece, rejectPiece, notifying, settleNext,
             settleSkip, settling
    <3>2. Allocated(s') = Allocated(s)
      <4>1. CASE activatePiece
        BY <4>1, ActivateIndexes DEF Allocated
      <4>2. CASE s' = s
        BY <4>2
      <4> QED BY <1>3, <2>3, <4>1, <4>2
              DEF Continues, rejectPiece, settleNext, settleSkip
    <3> QED BY <2>1, <3>1, <3>2 DEF CreateInv, OnlyCreationMakes
  <2> QED BY <2>2, <2>3
<1>4. CASE UNCHANGED vars
  BY <1>4 DEF CreateInv, OnlyCreationMakes, vars
<1> QED BY <1>1, <1>2, <1>3, <1>4 DEF Steps, Whole, Reverts, Revert, Returns

\* A running creation, whatever the batch, has done exactly the pieces it has
\* passed, each at the terms of its provider.
THEOREM CreationInvariance == Spec => [](CreateInv /\ OnlyCreationMakes)
<1>1. Init => CreateInv /\ OnlyCreationMakes
  BY DEF Init, CreateInv, OnlyCreationMakes, Idle
<1>2. IInv /\ TransactionInv /\ CreateInv /\ OnlyCreationMakes /\ [AnyNext]_vars
          => CreateInv' /\ OnlyCreationMakes'
  BY CreateInvStep, StepKinds
<1> QED BY <1>1, <1>2, Invariance, TransactionInvariance, SpecIsAny, PTL

\* A batch of createAllocationRequests commits an allocation for every piece or
\* for none, for any batch and any answer of the verified registry.
THEOREM AtomicBatches == Spec => BatchesAreAtomic
<1> DEFINE made == Allocated(committed'.s) \ Allocated(committed.s)
           Step == call.fn = "create" /\ call' = Idle =>
                      LET new == Allocated(committed'.s) \ Allocated(committed.s)
                      IN  Cardinality(new) \in {0, Len(call.pieceInfos)}
<1>1. IInv /\ CreateInv /\ [AnyNext]_vars => [Step]_vars
  <2> SUFFICES ASSUME IInv, CreateInv, AnyNext, call.fn = "create", call' = Idle
               PROVE  Cardinality(made) \in {0, Len(call.pieceInfos)}
    OBVIOUS
  <2>1. CASE Reverts
    <3>1. made = {}
      BY <2>1, Commits
    <3> QED BY <3>1, FS_EmptySet
  <2>2. CASE Returns
    <3>1. made = Allocated(s) \ Allocated(call.saved.s)
      BY <2>2, Commits, ReturnsKeeps DEF Allocated
    <3>2. ~creating
      BY <2>2 DEF Returns, createReturn, notifyReturn, settleReturn
    <3>3. Cardinality(made) = call.i - 1 /\ call.i <= Len(call.newAllocations) + 1
      BY <3>1 DEF CreateInv
    <3> HIDE DEF made
    <3>4. Cardinality(made) = Len(call.newAllocations)
      <4>1. call.i \in Nat /\ Len(call.newAllocations) \in Nat
        BY CreateFrameType
      <4> QED BY <3>2, <3>3, <4>1 DEF creating
    <3> QED BY <3>4, CreateFrameType
  <2> QED BY <2>1, <2>2, Kinds DEF Whole, Begins, Continues, Idle
<1>2. Spec => [][Step]_vars
  BY <1>1, Invariance, CreationInvariance, SpecIsAny, PTL
<1> QED BY <1>2 DEF BatchesAreAtomic

\* An allocation is committed only as its provider offered it when the call
\* began, never while the diamond is paused, whatever the owner did before.
THEOREM OfferedCreations == Spec => CreatedAsOffered
<1> DEFINE Step == \A a \in Allocated(committed'.s) \ Allocated(committed.s) :
          LET info == committed'.s.allocationInfos[a]
              offer == committed.s.spConfigs[info.provider]
              rail == committed'.pay[committed.s.paymentsContract].rails[info.railId]
          IN  /\ ~committed.s.paused
              /\ offer.isActive
              /\ info.pieceSize \in offer.minPieceSize .. offer.maxPieceSize
              /\ [token |-> info.paymentToken, isActive |-> TRUE,
                  pricePerBytePerEpoch |-> info.pricePerBytePerEpoch]
                     \in TokenEntries(committed.s, info.provider)
              /\ rail.to = offer.paymentAddress
              /\ rail.commissionRateBps = committed.s.commissionRateBps
<1>1. IInv /\ TransactionInv /\ CreateInv /\ OnlyCreationMakes /\ [AnyNext]_vars
          => [Step]_vars
  <2> SUFFICES ASSUME IInv, TransactionInv, CreateInv, OnlyCreationMakes, AnyNext,
                      NEW a \in Allocated(committed'.s) \ Allocated(committed.s)
               PROVE  /\ ~committed.s.paused
                      /\ AsOffered(committed.s, committed'.s.allocationInfos[a],
                                   committed'.pay[committed.s.paymentsContract])
    BY DEF AsOffered
  <2>1. ~(Begins \/ Continues \/ Reverts)
    BY Commits
  <2>2. ~Whole
    BY Commits, WholeKeepsAllocations DEF Allocated
  <2>3. /\ call # Idle /\ committed = call.saved
        /\ committed'.s = s' /\ committed'.pay = pay /\ Returns
    BY <2>1, <2>2, Kinds, Commits DEF Returns
  <2>4. /\ s'.allocationInfos = s.allocationInfos
        /\ a \in Allocated(s) \ Allocated(call.saved.s)
    BY <2>3, ReturnsKeeps DEF Allocated
  <2>5. call.fn = "create"
    BY <2>3, <2>4 DEF OnlyCreationMakes
  <2>6. /\ ~s.paused
        /\ AsOffered(s, s.allocationInfos[a], pay[s.paymentsContract])
    BY <2>4, <2>5 DEF CreateInv
  <2>7. /\ s.spConfigs = call.saved.s.spConfigs /\ s.paused = call.saved.s.paused
        /\ s.commissionRateBps = call.saved.s.commissionRateBps
        /\ s.paymentsContract = call.saved.s.paymentsContract
    BY <2>3 DEF TransactionInv
  <2>8. \A p : TokenEntries(call.saved.s, p) = TokenEntries(s, p)
    BY <2>7 DEF TokenEntries
  <2> QED BY <2>3, <2>4, <2>6, <2>7, <2>8 DEF AsOffered
<1>2. Spec => [][Step]_vars
  BY <1>1, Invariance, TransactionInvariance, CreationInvariance, SpecIsAny, PTL
<1> QED BY <1>2 DEF CreatedAsOffered

----------------------------------------------------------------------------
(* Sector notifications.                                                   *)

\* Every allocation has a rail's number, there is a payments contract when there
\* is an allocation, and only allocations are activated.
InfosSound(st) ==
    \A a \in AllocationIds :
        LET info == st.allocationInfos[a]
        IN  /\ info.client # ZERO =>
                  info.railId \in RailIds /\ st.paymentsContract # ZERO
            /\ info.activated => info.client # ZERO

InfoInv == InfosSound(s) /\ InfosSound(committed.s)

\* Every step keeps the numbers.
LEMMA InfoInvStep ==
    ASSUME IInv, CreateInv, InfoInv, Steps
    PROVE  InfoInv'
<1>1. ASSUME InfosSound(s'), call' = Idle \/ committed'.s = committed.s
      PROVE  InfoInv'
  BY <1>1 DEF InfoInv, committed, Snapshot
<1>2. CASE /\ s'.allocationInfos = s.allocationInfos
           /\ \/ s'.paymentsContract = s.paymentsContract
              \/ s'.paymentsContract \in PaymentsContracts
  <2>1. InfosSound(s')
    BY <1>2, ZeroAssumption DEF InfoInv, InfosSound
  <2> QED BY <1>1, <2>1, Commits
          DEF Steps, Whole, Returns, Reverts, Revert, InfoInv, vars
<1>3. CASE Continues
  <2>1. InfosSound(s')
    <3> SUFFICES ASSUME NEW a \in AllocationIds
                 PROVE  LET info == s'.allocationInfos[a]
                        IN  /\ info.client # ZERO => /\ info.railId \in RailIds
                                                     /\ s'.paymentsContract # ZERO
                            /\ info.activated => info.client # ZERO
      BY DEF InfosSound
    <3>1. s.allocationInfos[a] \in AllocationInfo
      BY SoundParts DEF DDOState
    <3>2. CASE a \in Allocated(s)
      <4>1. Final(s.allocationInfos[a], s'.allocationInfos[a])
        BY <1>3, <3>2, ContinuesKeeps
      <4> QED BY <1>3, <3>1, <3>2, <4>1, ContinuesKeeps
              DEF Final, AllocationInfo, Allocated, InfoInv, InfosSound
    <3>3. CASE a \notin Allocated(s)
      BY <1>3, <3>3, ContinuesKeeps DEF InfoInv, InfosSound, CreateInv
    <3> QED BY <3>2, <3>3
  <2> QED BY <1>1, <1>3, <2>1, Commits
<1>4. CASE Reverts
  <2>1. s' = committed.s /\ call' = Idle
    BY <1>4 DEF Reverts, Revert, committed
  <2> QED BY <1>1, <2>1 DEF InfoInv
<1> QED BY <1>2, <1>3, <1>4, WholeKeepsAllocations, BeginsKeeps, ReturnsKeeps
        DEF Steps, vars

\* Every allocation has a rail's number and there is then a payments contract,
\* and only allocations are activated, in the running storage and in what a
\* revert puts back.
THEOREM InfoInvariance == Spec => []InfoInv
<1>1. Init => InfoInv
  BY DEF Init, Initialized, InfoInv, InfosSound, committed, Snapshot, NoAllocation
<1>2. IInv /\ CreateInv /\ InfoInv /\ [AnyNext]_vars => InfoInv'
  BY InfoInvStep, StepKinds
<1> QED BY <1>1, <1>2, Invariance, CreationInvariance, SpecIsAny, PTL

\* The two halves of AnswersAreTrue, of a running notification.
TrueIsActivated ==
    \A k \in DOMAIN call.accepted :
        LET piece == call.pieces[k]
            before == call.saved.s.allocationInfos[piece.allocationId]
            info == s.allocationInfos[piece.allocationId]
        IN  call.accepted[k] =>
              /\ ~before.activated /\ info.activated
              /\ info.provider = call.miner
              /\ info.sectorNumber = piece.sectorNumber
              /\ \A j \in DOMAIN call.accepted :
                    j # k /\ call.pieces[j].allocationId = piece.allocationId
                        => ~call.accepted[j]

ActivatedIsTrue ==
    \A a \in AllocationIds :
        s.allocationInfos[a].activated /\ ~call.saved.s.allocationInfos[a].activated =>
            \E k \in DOMAIN call.accepted :
                call.accepted[k] /\ call.pieces[k].allocationId = a

\* A running notification has answered the pieces it has passed, and truly.
NotifyInv ==
    call.fn = "notify" => Len(call.accepted) = call.i - 1 /\ TrueIsActivated /\ ActivatedIsTrue

\* One more answer, with the answers before it unchanged.
LEMMA NextAnswer ==
    ASSUME IInv, NotifyInv, notifying, NEW b \in BOOLEAN,
           call' = [call EXCEPT !.i = @ + 1, !.accepted = Append(@, b)]
    PROVE  /\ call.i \in DOMAIN call.pieces
           /\ DOMAIN call.accepted = 1 .. call.i - 1
           /\ DOMAIN call'.accepted = 1 .. call.i
           /\ Len(call'.accepted) = call'.i - 1
           /\ call'.accepted[call.i] = b
           /\ \A k \in DOMAIN call.accepted :
                 /\ call'.accepted[k] = call.accepted[k]
                 /\ k \in DOMAIN call.pieces /\ k # call.i
           /\ call'.miner = call.miner /\ call'.pieces = call.pieces
           /\ call'.saved = call.saved
<1>1. call \in NotifyFrame /\ call.i <= Len(call.pieces)
  BY NotifyFrameParts DEF notifying
<1>2. /\ call.accepted \in Seq(BOOLEAN) /\ call.i \in Nat \ {0}
      /\ call.pieces \in Seq(NotificationPiece)
  BY <1>1, InputsAssumption DEF NotifyFrame
<1>3. /\ call'.i = call.i + 1 /\ call'.accepted = Append(call.accepted, b)
      /\ call'.miner = call.miner /\ call'.pieces = call.pieces
      /\ call'.saved = call.saved
  BY <1>1 DEF NotifyFrame
<1>4. Len(call.accepted) = call.i - 1
  BY DEF NotifyInv, notifying
<1>5. Len(call.pieces) \in Nat /\ DOMAIN call.pieces = 1 .. Len(call.pieces)
  BY <1>2
<1> QED BY <1>1, <1>2, <1>3, <1>4, <1>5

\* A piece that is refused leaves the answers true.
LEMMA RejectAnswers ==
    ASSUME IInv, NotifyInv, rejectPiece
    PROVE  NotifyInv'
<1>1. /\ notifying /\ s' = s
      /\ call' = [call EXCEPT !.i = @ + 1, !.accepted = Append(@, FALSE)]
  BY DEF rejectPiece
<1>2. call.fn = "notify" /\ TrueIsActivated /\ ActivatedIsTrue
  BY <1>1 DEF notifying, NotifyInv
<1>3. /\ call.i \in Nat
      /\ DOMAIN call.accepted = 1 .. call.i - 1
      /\ DOMAIN call'.accepted = 1 .. call.i
  BY <1>1, NextAnswer, NotifyFrameParts DEF NotifyFrame
<1>4. \A k \in DOMAIN call'.accepted : k = call.i \/ k \in DOMAIN call.accepted
  BY <1>3
<1>5. /\ Len(call'.accepted) = call'.i - 1
      /\ ~call'.accepted[call.i]
      /\ \A k \in DOMAIN call.accepted : call'.accepted[k] = call.accepted[k]
      /\ call'.miner = call.miner /\ call'.pieces = call.pieces
      /\ call'.saved = call.saved
  BY <1>1, NextAnswer
<1>6. TrueIsActivated'
  <2> SUFFICES ASSUME NEW k \in DOMAIN call'.accepted, call'.accepted[k]
               PROVE  LET p == call.pieces[k]
                          was == call.saved.s.allocationInfos[p.allocationId]
                          is == s.allocationInfos[p.allocationId]
                      IN  /\ ~was.activated /\ is.activated
                          /\ is.provider = call.miner
                          /\ is.sectorNumber = p.sectorNumber
                          /\ \A j \in DOMAIN call'.accepted :
                                j # k /\ call.pieces[j].allocationId = p.allocationId
                                    => ~call'.accepted[j]
    BY <1>1, <1>5 DEF TrueIsActivated
  <2>1. k \in DOMAIN call.accepted /\ call.accepted[k]
    BY <1>4, <1>5
  <2> QED BY <1>2, <1>4, <1>5, <2>1 DEF TrueIsActivated
<1>7. ActivatedIsTrue'
  BY <1>1, <1>2, <1>3, <1>5 DEF ActivatedIsTrue
<1> QED BY <1>5, <1>6, <1>7 DEF NotifyInv

\* A piece that is accepted was pending, also for the pieces before it.
LEMMA ActivateAnswers ==
    ASSUME IInv, TransactionInv, InfoInv, NotifyInv, activatePiece
    PROVE  NotifyInv'
<1> DEFINE piece == call.pieces[call.i]
           a == piece.allocationId
           info == s.allocationInfos[a]
           before == call.saved.s.allocationInfos[a]
<1>1. /\ notifying
      /\ call' = [call EXCEPT !.i = @ + 1, !.accepted = Append(@, TRUE)]
  BY DEF activatePiece
<1>2. call.fn = "notify" /\ TrueIsActivated /\ ActivatedIsTrue /\ call # Idle
  BY <1>1 DEF notifying, NotifyInv, Idle
<1>3. /\ call.i \in Nat
      /\ DOMAIN call.accepted = 1 .. call.i - 1
      /\ DOMAIN call'.accepted = 1 .. call.i
      /\ piece \in NotificationPiece /\ a \in AllocationIds
      /\ \A k \in DOMAIN call.pieces : call.pieces[k].allocationId \in AllocationIds
  <2>1. call \in NotifyFrame /\ piece \in NotificationPiece
    BY <1>1, NotifyFrameParts
  <2>2. call.i \in Nat /\ call.pieces \in Seq(NotificationPiece)
    BY <2>1, InputsAssumption DEF NotifyFrame
  <2>3. DOMAIN call.accepted = 1 .. call.i - 1 /\ DOMAIN call'.accepted = 1 .. call.i
    BY <1>1, NextAnswer
  <2>4. \A k \in DOMAIN call.pieces : call.pieces[k] \in NotificationPiece
    BY <2>2
  <2> QED BY <2>1, <2>2, <2>3, <2>4 DEF NotificationPiece
<1>4. \A k \in DOMAIN call'.accepted : k = call.i \/ k \in DOMAIN call.accepted
  BY <1>3
<1>5. ~info.activated /\ info.provider = call.miner /\ info.client # ZERO
  BY DEF activatePiece, accepts
<1>6. ~before.activated
  <2>1. CASE a \in Allocated(call.saved.s)
    <3>1. Final(before, info)
      BY <1>2, <2>1 DEF TransactionInv
    <3> QED BY <1>5, <3>1 DEF Final
  <2>2. CASE a \notin Allocated(call.saved.s)
    BY <1>2, <1>3, <2>2 DEF InfoInv, InfosSound, Allocated, committed
  <2> QED BY <2>1, <2>2
<1>7. /\ s'.allocationInfos[a].activated
      /\ s'.allocationInfos[a].sectorNumber = piece.sectorNumber
      /\ s'.allocationInfos[a].provider = info.provider
      /\ \A b \in AllocationIds \ {a} : s'.allocationInfos[b] = s.allocationInfos[b]
  <2>1. s'.allocationInfos = [s.allocationInfos EXCEPT ![a] =
              [[info EXCEPT !.sectorNumber = piece.sectorNumber]
                   EXCEPT !.activated = TRUE]]
    BY <1>3, SoundParts DEF activatePiece, DDOState
  <2>2. info \in AllocationInfo
    BY <1>3, SoundParts DEF DDOState
  <2> HIDE DEF info, piece, a
  <2> QED BY <1>3, <2>1, <2>2, SoundParts DEF DDOState, AllocationInfo
<1>8. \A k \in DOMAIN call.accepted :
          call.accepted[k] => call.pieces[k].allocationId # a
  BY <1>2, <1>5 DEF TrueIsActivated
<1>9. TrueIsActivated'
  <2> SUFFICES ASSUME NEW k \in DOMAIN call'.accepted, call'.accepted[k]
               PROVE  LET p == call.pieces[k]
                          was == call.saved.s.allocationInfos[p.allocationId]
                          is == s'.allocationInfos[p.allocationId]
                      IN  /\ ~was.activated /\ is.activated
                          /\ is.provider = call.miner
                          /\ is.sectorNumber = p.sectorNumber
                          /\ \A j \in DOMAIN call'.accepted :
                                j # k /\ call.pieces[j].allocationId = p.allocationId
                                    => ~call'.accepted[j]
    <3>1. /\ call'.miner = call.miner /\ call'.pieces = call.pieces
          /\ call'.saved = call.saved
      BY <1>1, NextAnswer
    <3> QED BY <3>1 DEF TrueIsActivated
  <2>1. CASE k = call.i
    <3>1. \A j \in DOMAIN call'.accepted :
              j # k /\ call.pieces[j].allocationId = a => ~call'.accepted[j]
      BY <1>1, <1>4, <1>8, <2>1, NextAnswer
    <3> QED BY <1>5, <1>6, <1>7, <2>1, <3>1
  <2>2. CASE k # call.i
    <3>1. k \in DOMAIN call.accepted /\ call.accepted[k] /\ k \in DOMAIN call.pieces
      BY <1>1, <1>4, <2>2, NextAnswer
    <3>2. call.pieces[k].allocationId \in AllocationIds \ {a}
      BY <1>3, <1>8, <3>1
    <3>3. \A j \in DOMAIN call'.accepted :
              j # k /\ call.pieces[j].allocationId = call.pieces[k].allocationId
                  => ~call'.accepted[j]
      <4> SUFFICES ASSUME NEW j \in DOMAIN call'.accepted, j # k,
                          call.pieces[j].allocationId = call.pieces[k].allocationId
                   PROVE  ~call'.accepted[j]
        OBVIOUS
      <4>1. j # call.i
        BY <3>2
      <4>2. j \in DOMAIN call.accepted /\ call'.accepted[j] = call.accepted[j]
        BY <1>1, <1>4, <4>1, NextAnswer
      <4> QED BY <1>2, <3>1, <4>2 DEF TrueIsActivated
    <3> QED BY <1>2, <1>7, <3>1, <3>2, <3>3 DEF TrueIsActivated
  <2> QED BY <2>1, <2>2
<1>10. ActivatedIsTrue'
  <2> SUFFICES ASSUME NEW b \in AllocationIds, s'.allocationInfos[b].activated,
                      ~call.saved.s.allocationInfos[b].activated
               PROVE  \E k \in DOMAIN call'.accepted :
                          call'.accepted[k] /\ call.pieces[k].allocationId = b
    <3>1. call'.pieces = call.pieces /\ call'.saved = call.saved
      BY <1>1, NextAnswer
    <3> QED BY <3>1 DEF ActivatedIsTrue
  <2>1. CASE b = a
    <3>1. call'.accepted[call.i]
      BY <1>1, NextAnswer
    <3>2. call.i \in Nat \ {0}
      BY <1>1, NotifyFrameParts DEF NotifyFrame
    <3>3. call.i \in DOMAIN call'.accepted
      BY <1>3, <3>2
    <3> QED BY <2>1, <3>1, <3>3
  <2>2. CASE b # a
    <3>1. PICK k \in DOMAIN call.accepted :
              call.accepted[k] /\ call.pieces[k].allocationId = b
      BY <1>2, <1>7, <2>2 DEF ActivatedIsTrue
    <3>2. k \in DOMAIN call'.accepted
      BY <1>3
    <3>3. call'.accepted[k]
      BY <1>1, <3>1, NextAnswer
    <3> QED BY <3>1, <3>2, <3>3
  <2> QED BY <2>1, <2>2
<1> QED BY <1>1, <1>9, <1>10, NextAnswer DEF NotifyInv

\* Every step keeps the answers true.
LEMMA NotifyInvStep ==
    ASSUME IInv, TransactionInv, InfoInv, NotifyInv, [AnyNext]_vars
    PROVE  NotifyInv'
<1>1. CASE call'.fn # "notify"
  BY <1>1 DEF NotifyInv
<1>2. CASE Begins /\ call'.fn = "notify"
  <2>1. call'.accepted = <<>> /\ call'.i = 1
    BY <1>2 DEF Begins, createAllocationRequests, handleSectorContentChanged,
                settleSpTotalPayment
  <2>2. s'.allocationInfos = s.allocationInfos /\ call'.saved = Snapshot
    BY <1>2, BeginsKeeps DEF Begins
  <2> QED BY <2>1, <2>2 DEF NotifyInv, TrueIsActivated, ActivatedIsTrue, Snapshot
<1>3. CASE Continues /\ call'.fn = "notify"
  <2>1. activatePiece \/ rejectPiece
    BY <1>3 DEF Continues, createAllocation, creating, settleNext, settleSkip, settling
  <2> QED BY <2>1, RejectAnswers, ActivateAnswers
<1>4. CASE UNCHANGED vars
  BY <1>4 DEF vars, NotifyInv, TrueIsActivated, ActivatedIsTrue
<1> QED BY <1>1, <1>2, <1>3, <1>4, Kinds
        DEF Whole, Reverts, Revert, Returns, Idle

\* What a miner is told is what became of its pieces, for any notification, also
\* one that names an allocation several times: what is answered with true it
\* has activated, and what it has activated is answered with true.
THEOREM TrueAnswers == Spec => []AnswersAreTrue
<1>1. Init => NotifyInv
  BY DEF Init, NotifyInv, Idle
<1>2. IInv /\ TransactionInv /\ InfoInv /\ NotifyInv /\ [AnyNext]_vars => NotifyInv'
  BY NotifyInvStep
<1>3. NotifyInv => AnswersAreTrue
  BY DEF NotifyInv, TrueIsActivated, ActivatedIsTrue, AnswersAreTrue
<1> QED BY <1>1, <1>2, <1>3, Invariance, TransactionInvariance, InfoInvariance,
           SpecIsAny, PTL

----------------------------------------------------------------------------
(* settleSpTotalPayment.                                                   *)

\* Settlements take the payments contract from p to q: rails stay as they are
\* but for how far they are settled, or are gone, and no account is settled less
\* far than before.
Forward(p, q, now) ==
    /\ \A r \in RailIds :
          LET old == p.rails[r]
              new == q.rails[r]
          IN  new.from # ZERO =>
                /\ new.from = old.from /\ new.token = old.token
                /\ new.endEpoch = old.endEpoch
                /\ old.settledUpTo <= new.settledUpTo
    /\ \A k \in Clients \X Tokens :
          SettledAccount(p.accounts[k], now).lockupLastSettledAt
              <= SettledAccount(q.accounts[k], now).lockupLastSettledAt

\* The rail is settled as far as it could be in p0, or was paid to its end.
SettledFar(p0, p, id, until, now) ==
    \/ p.rails[id].from = ZERO
    \/ p.rails[id].settledUpTo >= SettleTo(p0, id, until, now)

\* The numbers of a sound state.
LEMMA SoundNumbers ==
    ASSUME NEW now \in Nat, NEW p, PaySound(p, now)
    PROVE  /\ \A r \in RailIds : p.rails[r].settledUpTo \in Nat
                                 /\ p.rails[r].endEpoch \in Nat
           /\ \A k \in Clients \X Tokens :
                 SettledAccount(p.accounts[k], now).lockupLastSettledAt \in Nat
<1>1. \A r \in Rail : r.settledUpTo \in Nat /\ r.endEpoch \in Nat
  BY DEF Rail, LiveRail, NoRail
<1> QED BY <1>1, PayParts, SettledAccountForward

\* Going forward twice.
LEMMA ForwardTransitive ==
    ASSUME NEW now \in Nat, NEW p, NEW q, NEW t,
           PaySound(p, now), PaySound(q, now), PaySound(t, now),
           Forward(p, q, now), Forward(q, t, now)
    PROVE  Forward(p, t, now)
<1>1. ASSUME NEW r \in RailIds, t.rails[r].from # ZERO
      PROVE  /\ t.rails[r].from = p.rails[r].from
             /\ t.rails[r].token = p.rails[r].token
             /\ t.rails[r].endEpoch = p.rails[r].endEpoch
             /\ p.rails[r].settledUpTo <= t.rails[r].settledUpTo
  <2>1. /\ p.rails[r].settledUpTo \in Nat /\ q.rails[r].settledUpTo \in Nat
        /\ t.rails[r].settledUpTo \in Nat
    BY SoundNumbers
  <2> QED BY <1>1, <2>1 DEF Forward
<1>2. ASSUME NEW k \in Clients \X Tokens
      PROVE  SettledAccount(p.accounts[k], now).lockupLastSettledAt
                 <= SettledAccount(t.accounts[k], now).lockupLastSettledAt
  <2>1. /\ SettledAccount(p.accounts[k], now).lockupLastSettledAt \in Nat
        /\ SettledAccount(q.accounts[k], now).lockupLastSettledAt \in Nat
        /\ SettledAccount(t.accounts[k], now).lockupLastSettledAt \in Nat
    BY SoundNumbers
  <2>2. /\ SettledAccount(p.accounts[k], now).lockupLastSettledAt
              <= SettledAccount(q.accounts[k], now).lockupLastSettledAt
        /\ SettledAccount(q.accounts[k], now).lockupLastSettledAt
              <= SettledAccount(t.accounts[k], now).lockupLastSettledAt
    BY DEF Forward
  <2> QED BY <2>1, <2>2
<1> QED BY <1>1, <1>2 DEF Forward

\* One settlement goes forward.
LEMMA SettleForward ==
    ASSUME NEW now \in Nat, NEW p, PaySound(p, now),
           NEW id, NEW until \in Nat, NEW result,
           CanSettleRail(p, id, until, now, result),
           NEW q, q = SettleRail(p, id, until, now, result)
    PROVE  Forward(p, q, now) /\ PaySound(q, now)
<1>1. PICK settlement : settlement = Settlement(p, id, until, now, result)
  OBVIOUS
<1>2. PaySound(q, now)
  BY SettleRailSound
<1>3. /\ id \in RailIds /\ p.rails[id] \in LiveRail
      /\ settlement.to \in Nat /\ p.rails[id].settledUpTo <= settlement.to
  BY <1>1, LiveRails, SettlementForward DEF CanSettleRail
<1>4. /\ \A i \in RailIds \ {id} : q.rails[i] = p.rails[i]
      /\ \/ q.rails[id] = NoRail
         \/ q.rails[id] = [p.rails[id] EXCEPT !.settledUpTo = settlement.to]
      /\ \A k \in Clients \X Tokens :
            \/ q.accounts[k] = p.accounts[k]
            \/ q.accounts[k].lockupLastSettledAt
                   = SettledAccount(p.accounts[k], now).lockupLastSettledAt
  <2>1. /\ \A i \in RailIds \ {id} : q.rails[i] = p.rails[i]
        /\ q.rails[id] = IF FullyPaid(p, id, settlement.to) THEN NoRail
                         ELSE [p.rails[id] EXCEPT !.settledUpTo = settlement.to]
    <3>1. RailSettled(p, q, id, settlement.to)
      BY <1>1, SettleRailEffect
    <3> QED BY <3>1 DEF RailSettled
  <2>2. \A k \in Clients \X Tokens :
            \/ q.accounts[k] = p.accounts[k]
            \/ q.accounts[k].lockupLastSettledAt
                   = SettledAccount(p.accounts[k], now).lockupLastSettledAt
    <3>1. AccountsSettled(p, q, now)
      BY <1>1, SettleRailEffect
    <3> QED BY <3>1 DEF AccountsSettled
  <2> QED BY <2>1, <2>2
<1>5. ASSUME NEW r \in RailIds, q.rails[r].from # ZERO
      PROVE  /\ q.rails[r].from = p.rails[r].from
             /\ q.rails[r].token = p.rails[r].token
             /\ q.rails[r].endEpoch = p.rails[r].endEpoch
             /\ p.rails[r].settledUpTo <= q.rails[r].settledUpTo
  <2>1. p.rails[r].settledUpTo \in Nat
    BY SoundNumbers
  <2> QED BY <1>3, <1>4, <1>5, <2>1 DEF LiveRail, NoRail
<1>6. ASSUME NEW k \in Clients \X Tokens
      PROVE  SettledAccount(p.accounts[k], now).lockupLastSettledAt
                 <= SettledAccount(q.accounts[k], now).lockupLastSettledAt
  <2>1. /\ AccountSound(p.accounts[k], now) /\ AccountSound(q.accounts[k], now)
    BY <1>2, PayParts
  <2>2. /\ SettledAccount(p.accounts[k], now).lockupLastSettledAt \in Nat
        /\ q.accounts[k].lockupLastSettledAt
              <= SettledAccount(q.accounts[k], now).lockupLastSettledAt
    BY <2>1, SettledAccountForward
  <2> QED BY <1>4, <2>2
<1> QED BY <1>2, <1>5, <1>6 DEF Forward

\* What could be settled before going forward can be settled after.
LEMMA SettleToForward ==
    ASSUME NEW now \in Nat, NEW p, NEW q, PaySound(p, now), PaySound(q, now),
           Forward(p, q, now), NEW id \in RailIds, q.rails[id].from # ZERO,
           NEW until \in Nat
    PROVE  /\ SettleTo(p, id, until, now) \in Nat
           /\ SettleTo(q, id, until, now) \in Nat
           /\ SettleTo(p, id, until, now) <= SettleTo(q, id, until, now)
<1>1. /\ p.rails[id].endEpoch = q.rails[id].endEpoch
      /\ Key(p, id) = Key(q, id)
      /\ p.rails[id].endEpoch \in Nat
  BY SoundNumbers DEF Forward, Key
<1>2. Key(q, id) \in Clients \X Tokens
  BY LiveRails DEF RailExists
<1>3. /\ SettledAccount(p.accounts[Key(q, id)], now).lockupLastSettledAt \in Nat
      /\ SettledAccount(q.accounts[Key(q, id)], now).lockupLastSettledAt \in Nat
      /\ SettledAccount(p.accounts[Key(q, id)], now).lockupLastSettledAt
             <= SettledAccount(q.accounts[Key(q, id)], now).lockupLastSettledAt
  BY <1>2, SoundNumbers DEF Forward
<1> QED BY <1>1, <1>3 DEF SettleTo, Min2, Terminated

\* The validator accepts the epochs of every settlement, so that one settles a
\* rail as far as the contract proposes, also when the sector is blacklisted.
LEMMA SettleReaches ==
    ASSUME IInv, NEW c \in PaymentsContracts, NEW id, NEW until \in Nat,
           CanSettle(c, id, until),
           NEW q, q = SettleRail(pay[c], id, until, epoch, Validated(c, id, until))
    PROVE  /\ id \in RailIds
           /\ Forward(pay[c], q, epoch) /\ PaySound(q, epoch)
           /\ SettledFar(pay[c], q, id, until, epoch)
<1>1. PICK p : p = pay[c]
  OBVIOUS
<1>2. PICK result : result = Validated(c, id, until)
  OBVIOUS
<1>3. PICK settlement : settlement = Settlement(p, id, until, epoch, result)
  OBVIOUS
<1>4. /\ PaySound(p, epoch) /\ epoch \in Nat
      /\ CanSettleRail(p, id, until, epoch, result)
      /\ q = SettleRail(p, id, until, epoch, result)
  BY <1>1, <1>2, SoundParts DEF CanSettle
<1>5. settlement.to = Max2(p.rails[id].settledUpTo, SettleTo(p, id, until, epoch))
  <2>1. result.settleUpto = Proposal(p, id, until, epoch).to
    BY <1>1, <1>2 DEF Validated, validatePayment
  <2>2. settlement.to = Proposal(p, id, until, epoch).to
    BY <1>3, <2>1 DEF Settlement
  <2> QED BY <2>2 DEF Proposal
<1>6. SettleTo(p, id, until, epoch) \in Nat /\ p.rails[id].settledUpTo \in Nat
  BY <1>3, <1>4, SettlementForward
<1>7. settlement.to >= SettleTo(p, id, until, epoch)
  BY <1>5, <1>6 DEF Max2
<1>8. /\ id \in RailIds /\ p.rails[id] \in LiveRail
      /\ \/ q.rails[id] = NoRail
         \/ q.rails[id] = [p.rails[id] EXCEPT !.settledUpTo = settlement.to]
  <2>1. RailSettled(p, q, id, settlement.to)
    BY <1>3, <1>4, SettleRailEffect
  <2> QED BY <1>4, <2>1, LiveRails DEF CanSettleRail, RailSettled
<1>9. SettledFar(p, q, id, until, epoch)
  BY <1>7, <1>8 DEF SettledFar, LiveRail, NoRail
<1> QED BY <1>1, <1>4, <1>8, <1>9, SettleForward

\* A running settlement goes forward, and has settled every activated allocation
\* it has passed as far as it could be settled when the call began.
SettleInv ==
    call.fn = "settle" =>
        LET c == s.paymentsContract
            p0 == call.saved.pay[c]
        IN  /\ s = call.saved.s
            /\ call.end <= Len(call.ids)
            /\ c # ZERO => Forward(p0, pay[c], epoch)
            /\ \A k \in call.start .. call.i - 1 :
                  LET info == s.allocationInfos[call.ids[k]]
                  IN  info.activated =>
                        SettledFar(p0, pay[c], info.railId, call.untilEpoch, epoch)

\* The running settlement's frame.
LEMMA SettleFrameType ==
    ASSUME IInv, call.fn = "settle"
    PROVE  /\ call \in SettleFrame /\ call # Idle
           /\ call.ids \in Seq(AllocationIds)
           /\ call.untilEpoch \in Nat /\ call.end \in Nat
           /\ call.start \in Nat \ {0} /\ call.i \in Nat \ {0}
<1>1. call \in SettleFrame
  BY SoundParts DEF Frames, Idle, NotifyFrame, CreateFrame
<1> QED BY <1>1 DEF SettleFrame, Idle

\* A settlement has passed nothing when it begins.
LEMMA SettleInvBegins ==
    ASSUME IInv, Begins
    PROVE  SettleInv'
<1> SUFFICES ASSUME call'.fn = "settle"
             PROVE  SettleInv'
  BY DEF SettleInv
<1>1. PICK p \in Providers, until, start, size \in Nat :
          settleSpTotalPayment(p, until, start, size)
  BY DEF Begins, createAllocationRequests, handleSectorContentChanged
<1> DEFINE ids == s.allocationIdsByProvider[p]
<1>2. /\ call' = [fn |-> "settle", ids |-> ids, untilEpoch |-> until,
                  start |-> FirstPosition(start), i |-> FirstPosition(start),
                  end |-> LastPosition(start, size, Len(ids)), saved |-> Snapshot]
      /\ s' = s /\ pay' = pay /\ epoch' = epoch
  BY <1>1 DEF settleSpTotalPayment
<1>3. ids \in Seq(AllocationIds)
  BY SoundParts DEF DDOState
<1> HIDE DEF ids
<1>4. /\ call'.saved.s = s /\ call'.saved.pay = pay /\ call'.ids = ids
      /\ call'.start = start + 1 /\ call'.i = start + 1
      /\ call'.end = LastPosition(start, size, Len(ids))
  BY <1>2 DEF Snapshot, FirstPosition
<1>5. call'.end <= Len(ids)
  <2>1. Len(ids) \in Nat
    BY <1>3
  <2> QED BY <1>4, <2>1 DEF LastPosition, Min2
<1>6. call'.start .. call'.i - 1 = {}
  BY <1>4
<1>7. s'.paymentsContract # ZERO =>
          Forward(pay[s.paymentsContract], pay[s.paymentsContract], epoch)
  <2> SUFFICES ASSUME s'.paymentsContract # ZERO
               PROVE  Forward(pay[s.paymentsContract], pay[s.paymentsContract], epoch)
    OBVIOUS
  <2>1. /\ s.paymentsContract \in PaymentsContracts /\ epoch \in Nat
        /\ PaySound(pay[s.paymentsContract], epoch)
    BY <1>2, SoundParts DEF DDOState
  <2> QED BY <2>1, SoundNumbers DEF Forward
<1> QED BY <1>2, <1>4, <1>5, <1>6, <1>7 DEF SettleInv

\* A settled rail: what was settled before stays so, and this one joins them.
LEMMA SettleInvNext ==
    ASSUME IInv, InfoInv, SettleInv, settleNext
    PROVE  SettleInv'
<1> DEFINE c == s.paymentsContract
           info == s.allocationInfos[call.ids[call.i]]
<1>1. /\ call.fn = "settle" /\ call.i <= call.end
      /\ info.activated /\ s' = s /\ epoch' = epoch
      /\ CanSettle(c, info.railId, call.untilEpoch)
      /\ Settle(c, info.railId, call.untilEpoch)
  BY DEF settleNext, settling, payable
<1>2. /\ call \in SettleFrame /\ call.ids \in Seq(AllocationIds)
      /\ call.untilEpoch \in Nat /\ call.end \in Nat
      /\ call.start \in Nat /\ call.i \in Nat
      /\ \A k \in call.start .. call.i : k >= 1
  BY <1>1, SettleFrameType
<1>3. /\ call'.saved = call.saved /\ call'.i = call.i + 1 /\ call'.ids = call.ids
      /\ call'.start = call.start /\ call'.end = call.end
      /\ call'.untilEpoch = call.untilEpoch /\ call'.fn = "settle"
  BY <1>1, <1>2 DEF settleNext, Continue, SettleFrame
<1>4. call.end <= Len(call.ids) /\ s = call.saved.s /\ call.i >= 1
  BY <1>1, SettleFrameType DEF SettleInv
<1>5. \A k \in call.start .. call.i : call.ids[k] \in AllocationIds
  <2> SUFFICES ASSUME NEW k \in call.start .. call.i
               PROVE  call.ids[k] \in AllocationIds
    OBVIOUS
  <2> HIDE DEF c, info
  <2>1. k \in Nat /\ k >= 1 /\ k <= Len(call.ids) /\ Len(call.ids) \in Nat
    BY <1>1, <1>2, <1>4
  <2> QED BY <1>2, <2>1
<1>6. call.ids[call.i] \in AllocationIds
  <2> HIDE DEF c, info
  <2>1. call.i <= Len(call.ids) /\ Len(call.ids) \in Nat
    BY <1>1, <1>2, <1>4
  <2> QED BY <1>2, <1>4, <2>1
<1>7. c # ZERO /\ c \in PaymentsContracts
  BY <1>1, <1>6, SoundParts DEF InfoInv, InfosSound, DDOState
<1>8. PICK p0 : p0 = call.saved.pay[c]
  OBVIOUS
<1>9. PICK p : p = pay[c]
  OBVIOUS
<1>10. PICK q : q = SettleRail(pay[c], info.railId, call.untilEpoch, epoch,
                               Validated(c, info.railId, call.untilEpoch))
  OBVIOUS
<1>11. pay'[c] = q
  BY <1>1, <1>7, <1>10, SoundParts DEF Settle
<1> HIDE DEF info, c
<1>12. /\ Forward(p0, p, epoch) /\ PaySound(p0, epoch) /\ PaySound(p, epoch)
       /\ epoch \in Nat
  BY <1>1, <1>7, <1>8, <1>9, SettleFrameType, SoundParts DEF SettleInv, c, committed
<1>13. /\ info.railId \in RailIds
       /\ Forward(p, q, epoch) /\ PaySound(q, epoch)
       /\ SettledFar(p, q, info.railId, call.untilEpoch, epoch)
  BY <1>1, <1>2, <1>7, <1>9, <1>10, SettleReaches
<1>14. Forward(p0, q, epoch)
  BY <1>12, <1>13, ForwardTransitive
<1>15. SettledFar(p0, q, info.railId, call.untilEpoch, epoch)
  <2> SUFFICES ASSUME q.rails[info.railId].from # ZERO
               PROVE  q.rails[info.railId].settledUpTo
                          >= SettleTo(p0, info.railId, call.untilEpoch, epoch)
    BY DEF SettledFar
  <2>1. p.rails[info.railId].from # ZERO
    BY <1>13 DEF Forward
  <2>2. /\ SettleTo(p0, info.railId, call.untilEpoch, epoch) \in Nat
        /\ SettleTo(p, info.railId, call.untilEpoch, epoch) \in Nat
        /\ SettleTo(p0, info.railId, call.untilEpoch, epoch)
              <= SettleTo(p, info.railId, call.untilEpoch, epoch)
    BY <1>2, <1>12, <1>13, <2>1, SettleToForward
  <2>3. q.rails[info.railId].settledUpTo
            >= SettleTo(p, info.railId, call.untilEpoch, epoch)
    BY <1>13 DEF SettledFar
  <2>4. q.rails[info.railId].settledUpTo \in Nat
    BY <1>12, <1>13, SoundNumbers
  <2> QED BY <2>2, <2>3, <2>4
<1>16. ASSUME NEW k \in call.start .. call.i,
              s.allocationInfos[call.ids[k]].activated
       PROVE  SettledFar(p0, q, s.allocationInfos[call.ids[k]].railId,
                         call.untilEpoch, epoch)
  <2> DEFINE id == s.allocationInfos[call.ids[k]].railId
  <2>1. CASE k = call.i
    BY <1>15, <2>1 DEF info
  <2>2. CASE k # call.i
    <3>1. k \in call.start .. call.i - 1
      BY <1>2, <2>2
    <3>2. SettledFar(p0, p, id, call.untilEpoch, epoch)
      BY <1>1, <1>8, <1>9, <1>16, <3>1 DEF SettleInv, c
    <3>3. id \in RailIds
      BY <1>5, <1>16 DEF InfoInv, InfosSound
    <3> HIDE DEF id
    <3> SUFFICES ASSUME q.rails[id].from # ZERO
                 PROVE  SettledFar(p0, q, id, call.untilEpoch, epoch)
      BY DEF SettledFar, id
    <3>4. p.rails[id].from # ZERO /\ p.rails[id].settledUpTo <= q.rails[id].settledUpTo
      BY <1>13, <3>3 DEF Forward
    <3>5. /\ SettleTo(p0, id, call.untilEpoch, epoch) \in Nat
          /\ p.rails[id].settledUpTo \in Nat /\ q.rails[id].settledUpTo \in Nat
      BY <1>2, <1>12, <1>13, <3>3, <3>4, SettleToForward, SoundNumbers
    <3> QED BY <3>2, <3>4, <3>5 DEF SettledFar
  <2> QED BY <2>1, <2>2
<1>17. call'.i - 1 = call.i
  BY <1>2, <1>3
<1> QED BY <1>1, <1>3, <1>4, <1>7, <1>8, <1>11, <1>14, <1>16, <1>17 DEF SettleInv, c

\* A piece that cannot be settled is passed over only if it is not activated.
LEMMA SettleInvSkip ==
    ASSUME IInv, InfoInv, SettleInv, settleSkip
    PROVE  SettleInv'
<1>1. /\ call.fn = "settle" /\ call.i <= call.end
      /\ s' = s /\ epoch' = epoch /\ pay' = pay
      /\ ~payable(s.allocationInfos[call.ids[call.i]])
  BY DEF settleSkip, settling
<1>2. /\ call \in SettleFrame /\ call.ids \in Seq(AllocationIds)
      /\ call.end \in Nat /\ call.start \in Nat \ {0} /\ call.i \in Nat \ {0}
      /\ call.end <= Len(call.ids)
  BY <1>1, SettleFrameType DEF SettleInv
<1>3. /\ call'.saved = call.saved /\ call'.i = call.i + 1 /\ call'.ids = call.ids
      /\ call'.start = call.start /\ call'.end = call.end
      /\ call'.untilEpoch = call.untilEpoch /\ call'.fn = "settle"
  BY <1>1, <1>2 DEF settleSkip, Continue, SettleFrame
<1>4. ~s.allocationInfos[call.ids[call.i]].activated
  <2>1. call.ids[call.i] \in AllocationIds
    BY <1>1, <1>2
  <2>2. s.allocationInfos[call.ids[call.i]].activated =>
            s.allocationInfos[call.ids[call.i]].railId \in RailIds
    BY <2>1 DEF InfoInv, InfosSound
  <2> QED BY <1>1, <2>2, MaxRailsAssumption DEF payable, RailIds
<1>5. /\ call'.i - 1 = call.i
      /\ \A k \in call.start .. call.i : k = call.i \/ k \in call.start .. call.i - 1
  BY <1>2, <1>3
<1> QED BY <1>1, <1>3, <1>4, <1>5 DEF SettleInv

\* Every step keeps what a running settlement promises.
LEMMA SettleInvStep ==
    ASSUME IInv, InfoInv, SettleInv, Steps
    PROVE  SettleInv'
<1>1. CASE call' = Idle
  BY <1>1 DEF SettleInv, Idle
<1>2. CASE Begins
  BY <1>2, SettleInvBegins
<1>3. CASE Continues /\ call'.fn = "settle"
  <2>1. settleNext \/ settleSkip
    BY <1>3 DEF Continues, createAllocation, creating, activatePiece, rejectPiece,
                notifying
  <2> QED BY <2>1, SettleInvNext, SettleInvSkip
<1>4. CASE UNCHANGED vars
  BY <1>4 DEF vars, SettleInv
<1>5. CASE call'.fn # "settle"
  BY <1>5 DEF SettleInv
<1> QED BY <1>1, <1>2, <1>3, <1>4, <1>5 DEF Steps, Whole, Reverts, Revert, Returns

\* A settlement of a provider that gets to its end has settled every activated
\* allocation of its range as far as it could be, for any lists, batches and
\* accounts, also where several rails draw on one account.
THEOREM SettlesWholeBatch == Spec => []BatchSettlesAll
<1>1. Init => SettleInv
  BY DEF Init, SettleInv, Idle
<1>2. IInv /\ InfoInv /\ SettleInv /\ [AnyNext]_vars => SettleInv'
  BY SettleInvStep, StepKinds
<1>3. IInv /\ SettleInv => BatchSettlesAll
  <2> SUFFICES ASSUME IInv, SettleInv, call.fn = "settle", ~settling,
                      NEW k \in call.start .. call.end
               PROVE  LET info == s.allocationInfos[call.ids[k]]
                      IN  info.activated =>
                            SettledFar(call.saved.pay[s.paymentsContract],
                                       pay[s.paymentsContract], info.railId,
                                       call.untilEpoch, epoch)
    BY DEF BatchSettlesAll, SettledFar
  <2>1. k \in call.start .. call.i - 1
    BY SettleFrameType DEF settling
  <2> QED BY <2>1 DEF SettleInv
<1> QED BY <1>1, <1>2, <1>3, Invariance, InfoInvariance, SpecIsAny, PTL

----------------------------------------------------------------------------
(* The provider registry.  Its token lists are arrays that are searched    *)
(* from the front, appended to and swapped out of: first what these do to  *)
(* a list with one entry for each token, then that every operation of the  *)
(* owner leaves such lists, and one place in registeredSPIds for each      *)
(* registered provider.                                                    *)

OneEntryEach(tokens) ==
    \A i, j \in DOMAIN tokens : tokens[i].token = tokens[j].token => i = j

\* A list with one entry for each token has at most one position for it.
LEMMA OnePosition ==
    ASSUME NEW tokens, OneEntryEach(tokens), NEW token
    PROVE  Cardinality(Positions(tokens, token)) <= 1
<1>1. CASE Positions(tokens, token) = {}
  BY <1>1, FS_EmptySet
<1>2. CASE Positions(tokens, token) # {}
  <2>1. PICK i : i \in Positions(tokens, token)
    BY <1>2
  <2>2. Positions(tokens, token) = {i}
    BY <2>1 DEF Positions, OneEntryEach
  <2>3. Cardinality({i}) = 1
    BY FS_Singleton
  <2> QED BY <2>2, <2>3
<1> QED BY <1>1, <1>2

\* The first of some positions is one of them.
LEMMA FirstIsOne ==
    ASSUME NEW tokens \in Seq(TokenConfig), NEW token,
           Positions(tokens, token) # {}
    PROVE  /\ First(Positions(tokens, token)) \in DOMAIN tokens
           /\ tokens[First(Positions(tokens, token))].token = token
<1> DEFINE positions == Positions(tokens, token)
<1>1. positions \in SUBSET Nat
  <2>1. DOMAIN tokens = 1 .. Len(tokens) /\ Len(tokens) \in Nat
    OBVIOUS
  <2>2. 1 .. Len(tokens) \subseteq Nat
    BY <2>1
  <2> QED BY <2>1, <2>2 DEF Positions
<1>2. First(positions) \in positions
  <2> HIDE DEF positions
  <2>1. positions # {}
    BY DEF positions
  <2>2. \E i \in positions : \A j \in positions : i <= j
    BY <1>1, <2>1, MinExists
  <2> QED BY <2>2 DEF First
<1> QED BY <1>2 DEF Positions

\* An entry for a new token at the end.
LEMMA AppendEntry ==
    ASSUME NEW tokens \in Seq(TokenConfig), OneEntryEach(tokens),
           NEW entry \in TokenConfig, Positions(tokens, entry.token) = {}
    PROVE  OneEntryEach(Append(tokens, entry))
<1> DEFINE more == Append(tokens, entry)
<1>1. /\ Len(tokens) \in Nat /\ DOMAIN tokens = 1 .. Len(tokens)
      /\ DOMAIN more = 1 .. Len(tokens) + 1
      /\ \A i \in 1 .. Len(tokens) : more[i] = tokens[i]
      /\ more[Len(tokens) + 1] = entry
  OBVIOUS
<1> HIDE DEF more
<1>2. \A i \in DOMAIN more : i \in DOMAIN tokens \/ i = Len(tokens) + 1
  BY <1>1
<1>3. \A i \in DOMAIN tokens : tokens[i].token # entry.token
  BY DEF Positions
<1>4. OneEntryEach(more)
  BY <1>1, <1>2, <1>3 DEF OneEntryEach
<1> QED BY <1>4 DEF more

\* Another entry for the same token in its place.
LEMMA UpdateEntry ==
    ASSUME NEW tokens \in Seq(TokenConfig), OneEntryEach(tokens),
           NEW i \in DOMAIN tokens, NEW entry, entry.token = tokens[i].token
    PROVE  OneEntryEach([tokens EXCEPT ![i] = entry])
<1> DEFINE changed == [tokens EXCEPT ![i] = entry]
<1>1. /\ DOMAIN changed = DOMAIN tokens
      /\ \A j \in DOMAIN tokens : changed[j].token = tokens[j].token
  OBVIOUS
<1> HIDE DEF changed
<1>2. OneEntryEach(changed)
  BY <1>1 DEF OneEntryEach
<1> QED BY <1>2 DEF changed

EntriesOf(tokens) == {tokens[i] : i \in DOMAIN tokens}

\* Swap-and-pop takes out the entry and no other.
LEMMA SwapRemoveEntry ==
    ASSUME NEW tokens \in Seq(TokenConfig), OneEntryEach(tokens),
           NEW i \in DOMAIN tokens
    PROVE  /\ OneEntryEach(SwapRemove(tokens, i))
           /\ EntriesOf(SwapRemove(tokens, i))
                  = {t \in EntriesOf(tokens) : t.token # tokens[i].token}
<1> DEFINE n == Len(tokens)
           rest == SwapRemove(tokens, i)
           from(j) == IF j = i THEN n ELSE j
<1>1. /\ n \in Nat /\ DOMAIN tokens = 1 .. n /\ i \in 1 .. n
      /\ DOMAIN rest = 1 .. n - 1
      /\ \A j \in 1 .. n - 1 : rest[j] = tokens[from(j)]
  BY DEF SwapRemove
<1>2. /\ \A j \in 1 .. n - 1 : from(j) \in 1 .. n /\ from(j) # i
      /\ \A j, k \in 1 .. n - 1 : from(j) = from(k) => j = k
      /\ \A j \in 1 .. n : j # i => \E k \in 1 .. n - 1 : from(k) = j
  <2>1. ASSUME NEW j \in 1 .. n, j # i
        PROVE  \E k \in 1 .. n - 1 : from(k) = j
    <3>1. CASE j = n
      <4>1. i \in 1 .. n - 1 /\ from(i) = j
        BY <1>1, <2>1, <3>1
      <4> QED BY <4>1
    <3>2. CASE j # n
      <4>1. j \in 1 .. n - 1 /\ from(j) = j
        BY <1>1, <2>1, <3>2
      <4> QED BY <4>1
    <3> QED BY <3>1, <3>2
  <2>2. \A j \in 1 .. n - 1 : from(j) \in 1 .. n /\ from(j) # i
    BY <1>1
  <2>3. \A j, k \in 1 .. n - 1 : from(j) = from(k) => j = k
    BY <1>1
  <2> QED BY <2>1, <2>2, <2>3
<1> HIDE DEF n, rest, from
<1>3. OneEntryEach(rest)
  <2> SUFFICES ASSUME NEW j \in DOMAIN rest, NEW k \in DOMAIN rest,
                      rest[j].token = rest[k].token
               PROVE  j = k
    BY DEF OneEntryEach
  <2>1. from(j) \in DOMAIN tokens /\ from(k) \in DOMAIN tokens
    BY <1>1, <1>2
  <2>2. tokens[from(j)].token = tokens[from(k)].token
    BY <1>1
  <2>3. from(j) = from(k)
    BY <2>1, <2>2 DEF OneEntryEach
  <2> QED BY <1>1, <1>2, <2>3
<1>4. EntriesOf(rest) = {t \in EntriesOf(tokens) : t.token # tokens[i].token}
  <2>1. ASSUME NEW j \in DOMAIN rest
        PROVE  rest[j] \in {t \in EntriesOf(tokens) : t.token # tokens[i].token}
    <3>1. from(j) \in DOMAIN tokens /\ from(j) # i /\ rest[j] = tokens[from(j)]
      BY <1>1, <1>2
    <3>2. tokens[from(j)].token # tokens[i].token
      BY <3>1 DEF OneEntryEach
    <3> QED BY <3>1, <3>2 DEF EntriesOf
  <2>2. ASSUME NEW j \in DOMAIN tokens, tokens[j].token # tokens[i].token
        PROVE  tokens[j] \in EntriesOf(rest)
    <3>1. PICK k \in 1 .. n - 1 : from(k) = j
      BY <1>1, <1>2, <2>2
    <3> QED BY <1>1, <3>1 DEF EntriesOf
  <2> QED BY <2>1, <2>2 DEF EntriesOf
<1> QED BY <1>3, <1>4 DEF rest

----------------------------------------------------------------------------
(* The registry.                                                           *)

Registered(st, p) == st.spConfigs[p].paymentAddress # ZERO

\* A provider that is not registered has no tokens yet: registration appends to
\* what is there.
RegistryInv ==
    \A p \in Providers :
        /\ Cardinality(Occurrences(s.registeredSPIds, p)) =
               IF Registered(s, p) THEN 1 ELSE 0
        /\ OneEntryEach(s.spConfigs[p].supportedTokens)
        /\ ~Registered(s, p) => s.spConfigs[p].supportedTokens = <<>>

\* A change of one provider's configuration that keeps the registry.
Changes(p, config) ==
    /\ p \in Providers
    /\ s'.spConfigs = [s.spConfigs EXCEPT ![p] = config]
    /\ s'.registeredSPIds = IF Registered(s, p) THEN s.registeredSPIds
                            ELSE Append(s.registeredSPIds, p)
    /\ config.paymentAddress # ZERO
    /\ OneEntryEach(config.supportedTokens)
    /\ Registered(s, p) /\ config.isActive => s.spConfigs[p].isActive

\* Every operation of the registry is such a change.
LEMMA RegistryChange ==
    ASSUME IInv, RegistryInv, AnySP
    PROVE  \E p, config : Changes(p, config)
<1>0. s \in DDOState
  BY SoundParts
<1>a. ASSUME NEW p \in Providers
      PROVE  /\ s.spConfigs[p] \in SPConfig
             /\ s.spConfigs[p].supportedTokens \in Seq(TokenConfig)
             /\ OneEntryEach(s.spConfigs[p].supportedTokens)
             /\ Registered(s, p) <=> isRegisteredSP(p)
  BY <1>0 DEF DDOState, SPConfig, RegistryInv, Registered, isRegisteredSP
\* An operation that changes the token list alone.
<1>b. ASSUME NEW p \in Providers, NEW tokens, isRegisteredSP(p), OneEntryEach(tokens),
             s' = [s EXCEPT !.spConfigs[p].supportedTokens = tokens]
      PROVE  \E config : Changes(p, config)
  <2> DEFINE config == [s.spConfigs[p] EXCEPT !.supportedTokens = tokens]
  <2>1. /\ config.paymentAddress # ZERO /\ config.supportedTokens = tokens
        /\ config.isActive = s.spConfigs[p].isActive
    BY <1>a, <1>b DEF SPConfig, isRegisteredSP
  <2>2. /\ s'.spConfigs = [s.spConfigs EXCEPT ![p] = config]
        /\ s'.registeredSPIds = s.registeredSPIds
    BY <1>0, <1>b DEF DDOState
  <2> HIDE DEF config
  <2>3. Changes(p, config)
    BY <1>a, <1>b, <2>1, <2>2 DEF Changes
  <2> QED BY <2>3
<1>1. ASSUME NEW p \in Providers, NEW terms \in Terms, NEW tokens \in Seq(TokenConfig),
             registerSP(p, terms, tokens)
      PROVE  \E config : Changes(p, config)
  <2> DEFINE old == s.spConfigs[p]
             config == [WithTerms(old, terms) EXCEPT
                           !.isActive = TRUE, !.supportedTokens = @ \o tokens]
  <2>1. /\ s' = [s EXCEPT !.spConfigs[p] = config, !.registeredSPIds = Append(@, p)]
        /\ ~Registered(s, p) /\ terms.paymentAddress # ZERO
    BY <1>1, <1>a DEF registerSP, validateSPConfig
  <2>2. OneEntryEach(tokens)
    <3>1. DOMAIN tokens = 1 .. Len(tokens) /\ Len(tokens) \in Nat
      BY InputsAssumption
    <3>2. \A i, j \in DOMAIN tokens : i < j => tokens[i].token # tokens[j].token
      BY <1>1 DEF registerSP, validateTokenConfigs
    <3>3. \A i, j \in DOMAIN tokens : i = j \/ i < j \/ j < i
      BY <3>1
    <3> QED BY <3>2, <3>3 DEF OneEntryEach
  <2>3. /\ config.paymentAddress = terms.paymentAddress
        /\ config.supportedTokens = tokens
    <3>1. old \in SPConfig /\ old.supportedTokens = <<>>
      BY <1>a, <2>1 DEF RegistryInv
    <3>2. PICK before : before = old
      OBVIOUS
    <3>3. PICK w : w = WithTerms(before, terms)
      OBVIOUS
    <3>4. /\ w = [before EXCEPT !.paymentAddress = terms.paymentAddress,
                               !.minPieceSize = terms.minPieceSize,
                               !.maxPieceSize = terms.maxPieceSize,
                               !.minTermLength = terms.minTermLength,
                               !.maxTermLength = terms.maxTermLength]
          /\ before \in SPConfig /\ before.supportedTokens = <<>>
          /\ config = [w EXCEPT !.isActive = TRUE, !.supportedTokens = @ \o tokens]
      BY <3>1, <3>2, <3>3 DEF WithTerms
    <3> HIDE DEF old, config
    <3>5. /\ w \in [paymentAddress : {terms.paymentAddress}, minPieceSize : {terms.minPieceSize},
                    maxPieceSize : {terms.maxPieceSize}, minTermLength : {terms.minTermLength},
                    maxTermLength : {terms.maxTermLength}, isActive : BOOLEAN,
                    supportedTokens : {<<>>}]
      BY <3>4 DEF SPConfig
    <3>6. /\ config.paymentAddress = terms.paymentAddress
          /\ config.supportedTokens = <<>> \o tokens
      BY <3>4, <3>5
    <3>7. <<>> \o tokens = tokens
      BY InputsAssumption
    <3> QED BY <3>6, <3>7
  <2> HIDE DEF config
  <2>4. /\ s'.spConfigs = [s.spConfigs EXCEPT ![p] = config]
        /\ s'.registeredSPIds = Append(s.registeredSPIds, p)
    BY <1>0, <2>1 DEF DDOState
  <2>5. Changes(p, config)
    BY <2>1, <2>2, <2>3, <2>4 DEF Changes
  <2> QED BY <2>5
<1>2. ASSUME NEW p \in Providers, NEW terms \in Terms, updateSPConfig(p, terms)
      PROVE  \E config : Changes(p, config)
  <2> DEFINE old == s.spConfigs[p]
             config == WithTerms(old, terms)
  <2>1. /\ s'.spConfigs = [s.spConfigs EXCEPT ![p] = config]
        /\ s'.registeredSPIds = s.registeredSPIds
        /\ terms.paymentAddress # ZERO /\ isRegisteredSP(p)
    BY <1>0, <1>2 DEF updateSPConfig, validateSPConfig, DDOState
  <2>2. /\ config.paymentAddress = terms.paymentAddress
        /\ config.supportedTokens = old.supportedTokens
        /\ config.isActive = old.isActive
    BY <1>a DEF WithTerms, SPConfig
  <2> HIDE DEF config
  <2>3. Changes(p, config)
    BY <1>a, <2>1, <2>2 DEF Changes
  <2> QED BY <2>3
<1>3. ASSUME NEW p \in Providers, NEW token \in Tokens, NEW price \in Nat,
             addSPToken(p, token, price)
      PROVE  \E config : Changes(p, config)
  <2> DEFINE entry == [token |-> token, pricePerBytePerEpoch |-> price, isActive |-> TRUE]
             old == s.spConfigs[p].supportedTokens
  <2>1. entry \in TokenConfig /\ entry.token = token
    BY InputsAssumption DEF TokenConfig
  <2>2. /\ s' = [s EXCEPT !.spConfigs[p].supportedTokens = Append(old, entry)]
        /\ isRegisteredSP(p) /\ Positions(old, token) = {}
    BY <1>3 DEF addSPToken
  <2>3. OneEntryEach(Append(old, entry))
    <3> HIDE DEF entry, old
    <3>1. old \in Seq(TokenConfig) /\ OneEntryEach(old)
      BY <1>a DEF old
    <3> QED BY <2>1, <2>2, <3>1, AppendEntry
  <2> HIDE DEF entry, old
  <2> QED BY <1>b, <2>2, <2>3
<1>4. ASSUME NEW p \in Providers, NEW token \in Tokens, NEW price \in Nat,
             NEW active \in BOOLEAN, updateSPToken(p, token, price, active)
      PROVE  \E config : Changes(p, config)
  <2> DEFINE entry == [token |-> token, pricePerBytePerEpoch |-> price,
                       isActive |-> active]
             old == s.spConfigs[p].supportedTokens
             i == First(Positions(old, token))
  <2>1. old \in Seq(TokenConfig) /\ OneEntryEach(old)
    BY <1>a
  <2>2. /\ s' = [s EXCEPT !.spConfigs[p].supportedTokens = [old EXCEPT ![i] = entry]]
        /\ isRegisteredSP(p) /\ Positions(old, token) # {}
    BY <1>0, <1>4, <1>a DEF updateSPToken, DDOState, SPConfig
  <2>3. i \in DOMAIN old /\ entry.token = old[i].token
    <3> HIDE DEF old
    <3>1. i \in DOMAIN old /\ old[i].token = token
      BY <2>1, <2>2, FirstIsOne
    <3> QED BY <3>1
  <2> HIDE DEF entry, old, i
  <2>4. OneEntryEach([old EXCEPT ![i] = entry])
    BY <2>1, <2>3, UpdateEntry
  <2> QED BY <1>b, <2>2, <2>4
<1>5. ASSUME NEW p \in Providers, NEW token \in Tokens, removeSPToken(p, token)
      PROVE  \E config : Changes(p, config)
  <2> DEFINE old == s.spConfigs[p].supportedTokens
             i == First(Positions(old, token))
  <2>1. old \in Seq(TokenConfig) /\ OneEntryEach(old)
    BY <1>a
  <2>2. /\ s' = [s EXCEPT !.spConfigs[p].supportedTokens = SwapRemove(old, i)]
        /\ isRegisteredSP(p) /\ Positions(old, token) # {}
    BY <1>5 DEF removeSPToken
  <2> HIDE DEF old
  <2>3. i \in DOMAIN old
    BY <2>1, <2>2, FirstIsOne
  <2> HIDE DEF i
  <2>4. OneEntryEach(SwapRemove(old, i))
    BY <2>1, <2>3, SwapRemoveEntry
  <2> QED BY <1>b, <2>2, <2>4
<1>6. ASSUME NEW p \in Providers, deactivateSP(p)
      PROVE  \E config : Changes(p, config)
  <2> DEFINE old == s.spConfigs[p]
             config == [old EXCEPT !.isActive = FALSE]
  <2>1. /\ s'.spConfigs = [s.spConfigs EXCEPT ![p] = config]
        /\ s'.registeredSPIds = s.registeredSPIds /\ isRegisteredSP(p)
    BY <1>0, <1>6 DEF deactivateSP, DDOState
  <2>2. /\ config.paymentAddress = old.paymentAddress
        /\ config.supportedTokens = old.supportedTokens
        /\ ~config.isActive
    BY <1>a DEF SPConfig
  <2> HIDE DEF config
  <2>3. Changes(p, config)
    BY <1>a, <2>1, <2>2 DEF Changes, Registered
  <2> QED BY <2>3
<1> QED BY <1>1, <1>2, <1>3, <1>4, <1>5, <1>6 DEF AnySP

\* Every other step leaves the registry alone, a revert as well.
LEMMA RegistryAlone ==
    ASSUME IInv, TransactionInv, [AnyNext]_vars
    PROVE  \/ AnySP
           \/ s'.spConfigs = s.spConfigs /\ s'.registeredSPIds = s.registeredSPIds
<1>1. CASE Whole
  <2>1. CASE AnyAdmin
    BY <2>1, SoundParts
       DEF AnyAdmin, setPaymentsContract, setCommissionRate,
           setAllocationLockupAmount, pause, unpause, blacklistSector, DDOState
  <2>2. CASE AnyClient \/ Tick \/ \E a \in AllocationIds, until \in Nat :
                                       settleSpPayment(a, until)
    BY <2>2 DEF AnyClient, ClientTransaction, AnyDeposit, withdraw,
                setOperatorApproval, terminateRail, settleRail, Tick,
                settleSpPayment
  <2> QED BY <1>1, <2>1, <2>2 DEF Whole
<1>2. CASE Reverts
  BY <1>2 DEF Reverts, Revert, TransactionInv
<1> QED BY <1>1, <1>2, Kinds, BeginsKeeps, ContinuesKeeps, ReturnsKeeps DEF vars

\* Every step keeps the registry.
LEMMA RegistryInvStep ==
    ASSUME IInv, TransactionInv, RegistryInv, [AnyNext]_vars
    PROVE  RegistryInv'
<1>1. CASE s'.spConfigs = s.spConfigs /\ s'.registeredSPIds = s.registeredSPIds
  BY <1>1 DEF RegistryInv, Registered
<1>2. CASE AnySP
  <2>1. PICK p, config : Changes(p, config)
    BY <1>2, RegistryChange
  <2>2. /\ s.spConfigs \in [Providers -> SPConfig]
        /\ s.registeredSPIds \in Seq(Providers)
    BY SoundParts DEF DDOState
  <2>3. \A q \in Providers : s'.spConfigs[q] = IF q = p THEN config ELSE s.spConfigs[q]
    BY <2>1, <2>2 DEF Changes
  <2>4. \A q \in Providers : Cardinality(Occurrences(s'.registeredSPIds, q)) =
            Cardinality(Occurrences(s.registeredSPIds, q))
                + IF q = p /\ ~Registered(s, p) THEN 1 ELSE 0
    <3> SUFFICES ASSUME NEW q \in Providers
                 PROVE  Cardinality(Occurrences(s'.registeredSPIds, q)) =
                            Cardinality(Occurrences(s.registeredSPIds, q))
                                + IF q = p /\ ~Registered(s, p) THEN 1 ELSE 0
      OBVIOUS
    <3>1. /\ Cardinality(Occurrences(s.registeredSPIds, q)) \in Nat
          /\ Cardinality(Occurrences(Append(s.registeredSPIds, p), q)) =
                 Cardinality(Occurrences(s.registeredSPIds, q))
                     + IF q = p THEN 1 ELSE 0
      <4>1. p \in Providers
        BY <2>1 DEF Changes
      <4> QED BY <2>2, <4>1, AppendOccurrences
    <3> QED BY <2>1, <3>1 DEF Changes
  <2>5. config.paymentAddress # ZERO /\ OneEntryEach(config.supportedTokens)
    BY <2>1 DEF Changes
  <2> SUFFICES ASSUME NEW q \in Providers
               PROVE  /\ Cardinality(Occurrences(s'.registeredSPIds, q)) =
                             IF Registered(s', q) THEN 1 ELSE 0
                      /\ OneEntryEach(s'.spConfigs[q].supportedTokens)
                      /\ ~Registered(s', q) => s'.spConfigs[q].supportedTokens = <<>>
    BY DEF RegistryInv
  <2>6. /\ Cardinality(Occurrences(s.registeredSPIds, q)) =
               IF Registered(s, q) THEN 1 ELSE 0
        /\ OneEntryEach(s.spConfigs[q].supportedTokens)
        /\ ~Registered(s, q) => s.spConfigs[q].supportedTokens = <<>>
    BY DEF RegistryInv
  <2>7. Registered(s', q) <=> q = p \/ Registered(s, q)
    BY <2>3, <2>5 DEF Registered
  <2> QED BY <2>3, <2>4, <2>5, <2>6, <2>7
<1> QED BY <1>1, <1>2, RegistryAlone

\* A new diamond has no provider.
LEMMA RegistryInit ==
    ASSUME Init
    PROVE  RegistryInv
<1> SUFFICES ASSUME NEW p \in Providers
             PROVE  /\ Cardinality(Occurrences(s.registeredSPIds, p)) =
                           IF Registered(s, p) THEN 1 ELSE 0
                    /\ OneEntryEach(s.spConfigs[p].supportedTokens)
                    /\ s.spConfigs[p].supportedTokens = <<>>
  BY DEF RegistryInv
<1>1. s.registeredSPIds = <<>> /\ s.spConfigs[p] = NoSPConfig
  BY DEF Init, Initialized
<1>2. Occurrences(<<>>, p) = {}
  BY DEF Occurrences
<1>3. Cardinality(Occurrences(s.registeredSPIds, p)) = 0
  BY <1>1, <1>2, FS_EmptySet
<1>4. s.spConfigs[p].paymentAddress = ZERO /\ s.spConfigs[p].supportedTokens = <<>>
  BY <1>1 DEF NoSPConfig
<1>5. OneEntryEach(<<>>)
  BY DEF OneEntryEach
<1> QED BY <1>3, <1>4, <1>5 DEF Registered

\* registeredSPIds lists every registered provider once and no other, and every
\* token list has one entry for a token, whatever the owner registers, adds,
\* updates and removes.
THEOREM RegistryInvariance == Spec => []RegistryInv
<1>1. Init => RegistryInv
  BY RegistryInit
<1>2. IInv /\ TransactionInv /\ RegistryInv /\ [AnyNext]_vars => RegistryInv'
  BY RegistryInvStep
<1> QED BY <1>1, <1>2, Invariance, TransactionInvariance, SpecIsAny, PTL

\* The registry is consistent in every state, for any providers, tokens and
\* sequence of the owner's calls.
THEOREM ConsistentRegistry == Spec => []RegistryConsistent
<1>1. RegistryInv => RegistryConsistent
  BY OnePosition DEF RegistryInv, RegistryConsistent, Registered, isRegisteredSP
<1> QED BY <1>1, RegistryInvariance, PTL

\* removeSPToken takes out the token it is asked to and no other, wherever in the
\* list it is.
THEOREM RemovalIsExact == Spec => RemovalKeepsOthers
<1> DEFINE Step == \A p \in Providers, token \in Tokens :
                      removeSPToken(p, token) =>
                          TokenEntries(s, p)' =
                              {t \in TokenEntries(s, p) : t.token # token}
<1>1. IInv /\ RegistryInv /\ [AnyNext]_vars => [Step]_vars
  <2> SUFFICES ASSUME IInv, RegistryInv, NEW p \in Providers, NEW token \in Tokens,
                      removeSPToken(p, token)
               PROVE  TokenEntries(s', p) = {t \in TokenEntries(s, p) : t.token # token}
    BY DEF TokenEntries
  <2> DEFINE tokens == s.spConfigs[p].supportedTokens
             i == First(Positions(tokens, token))
  <2>1. /\ tokens \in Seq(TokenConfig) /\ OneEntryEach(tokens)
        /\ Positions(tokens, token) # {}
    BY SoundParts DEF DDOState, SPConfig, RegistryInv, removeSPToken
  <2>2. s'.spConfigs[p].supportedTokens = SwapRemove(tokens, i)
    BY SoundParts DEF removeSPToken, DDOState, SPConfig
  <2> HIDE DEF tokens
  <2>3. i \in DOMAIN tokens /\ tokens[i].token = token
    BY <2>1, FirstIsOne
  <2> HIDE DEF i
  <2>4. EntriesOf(SwapRemove(tokens, i)) = {t \in EntriesOf(tokens) : t.token # token}
    BY <2>1, <2>3, SwapRemoveEntry
  <2> QED BY <2>2, <2>4 DEF EntriesOf, TokenEntries, tokens
<1>2. Spec => [][Step]_vars
  BY <1>1, Invariance, RegistryInvariance, SpecIsAny, PTL
<1> QED BY <1>2 DEF RemovalKeepsOthers

\* A provider that was deactivated stays registered and deactivated: no terms,
\* tokens or registration bring it back.
THEOREM FinalDeactivation == Spec => DeactivationIsFinal
<1> DEFINE Step == \A p \in Providers :
                      isRegisteredSP(p) /\ ~s.spConfigs[p].isActive
                          => isRegisteredSP(p)' /\ ~s.spConfigs[p].isActive'
<1>1. IInv /\ TransactionInv /\ RegistryInv /\ [AnyNext]_vars => [Step]_vars
  <2> SUFFICES ASSUME IInv, TransactionInv, RegistryInv, [AnyNext]_vars,
                      NEW q \in Providers, Registered(s, q), ~s.spConfigs[q].isActive
               PROVE  Registered(s', q) /\ ~s'.spConfigs[q].isActive
    BY DEF Registered, isRegisteredSP
  <2>1. CASE AnySP
    <3>1. PICK p, config : Changes(p, config)
      BY <2>1, RegistryChange
    <3>2. s'.spConfigs[q] = IF q = p THEN config ELSE s.spConfigs[q]
      BY <3>1, SoundParts DEF Changes, DDOState
    <3> QED BY <3>1, <3>2 DEF Changes, Registered
  <2>2. CASE s'.spConfigs = s.spConfigs
    BY <2>2 DEF Registered
  <2> QED BY <2>1, <2>2, RegistryAlone
<1>2. Spec => [][Step]_vars
  BY <1>1, Invariance, TransactionInvariance, RegistryInvariance, SpecIsAny, PTL
<1> QED BY <1>2 DEF DeactivationIsFinal
============================================================================
