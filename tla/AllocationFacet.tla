-------------------------- MODULE AllocationFacet --------------------------
(***************************************************************************)
(* Allocations and their payment rails: creation, activation by the miner  *)
(* actor's sector notification, and settlement                             *)
(* (facets/AllocationFacet.sol, facets/ValidatorFacet.sol).                *)
(***************************************************************************)
EXTENDS LibDDOStorage

CONSTANT Miners     \* the actor ids that are miner actors
ASSUME MinersAssumption == Miners \subseteq Providers

----------------------------------------------------------------------------
(* ValidatorFacet: what the diamond answers to a payments contract about a *)
(* settlement it proposes.  The answer looks at the rail's number alone.   *)

\* Wrong on purpose: the sector is not the allocation's.
validatePaymentSectorZero(railId, proposal) ==
    LET allocationId == s.railIdToAllocationId[railId]
        info == s.allocationInfos[allocationId]
    IN  IF /\ allocationId # 0
           /\ info.activated
           /\ <<info.provider, 0>> \in s.blacklistedSectors
        THEN [modifiedAmount |-> 0, settleUpto |-> proposal.to]
        ELSE [modifiedAmount |-> proposal.amount, settleUpto |-> proposal.to]

validatePayment(railId, proposal) ==
    LET allocationId == s.railIdToAllocationId[railId]
        info == s.allocationInfos[allocationId]
    IN  IF /\ allocationId # 0
           /\ info.activated
           /\ <<info.provider, info.sectorNumber>> \in s.blacklistedSectors
        THEN [modifiedAmount |-> 0, settleUpto |-> proposal.to]
        ELSE [modifiedAmount |-> proposal.amount, settleUpto |-> proposal.to]

\* A settlement of a rail of the payments contract c, with the validator's
\* answer.
Validated(c, railId, until) ==
    validatePayment(railId, Proposal(pay[c], railId, until, epoch))

CanSettle(c, railId, until) ==
    CanSettleRail(pay[c], railId, until, epoch, Validated(c, railId, until))

Settle(c, railId, until) ==
    pay' = [pay EXCEPT ![c] =
                SettleRail(@, railId, until, epoch, Validated(c, railId, until))]

----------------------------------------------------------------------------
(* createAllocationRequests.                                               *)

\* Wrong on purpose: an inactive entry counts.
ActivePricesAny(provider, token) ==
    LET tokens == s.spConfigs[provider].supportedTokens
    IN  {i \in DOMAIN tokens : tokens[i].token = token}

\* The provider's active entries for the token; the first one has the price.
ActivePrices(provider, token) ==
    LET tokens == s.spConfigs[provider].supportedTokens
    IN  {i \in DOMAIN tokens : tokens[i].token = token /\ tokens[i].isActive}

supportsToken(provider, token) ==
    isRegisteredSP(provider) /\ ActivePrices(provider, token) # {}

SPPrice(provider, token) ==
    LET entries == ActivePrices(provider, token)
        first == CHOOSE i \in entries : \A j \in entries : i <= j
    IN  s.spConfigs[provider].supportedTokens[first].pricePerBytePerEpoch

validPieceForSP(piece) ==
    LET config == s.spConfigs[piece.provider]
    IN  /\ isRegisteredSP(piece.provider)
        /\ config.isActive
        /\ piece.size >= config.minPieceSize /\ piece.size <= config.maxPieceSize
        /\ piece.termMin >= config.minTermLength
        /\ piece.termMax <= config.maxTermLength
        /\ supportsToken(piece.provider, piece.paymentTokenAddress)

\* The call up to the answer of the verified registry, newAllocations.  An
\* answer of another length reverts; an empty one ends the call without an
\* error and without an allocation.
createAllocationRequests(client, pieceInfos, newAllocations) ==
    /\ call = Idle
    /\ notPaused /\ nonReentrant
    /\ \A i \in DOMAIN pieceInfos : validPieceForSP(pieceInfos[i])
    /\ pieceInfos # <<>>
    /\ s.paymentsContract # ZERO
    /\ \A i \in DOMAIN pieceInfos : pieceInfos[i].size # 0
    /\ Len(newAllocations) \in {0, Len(pieceInfos)}
    /\ s' = [s EXCEPT !.reentrancyStatus = ENTERED]
    /\ call' = [fn |-> "create", client |-> client, pieceInfos |-> pieceInfos,
                newAllocations |-> newAllocations, i |-> 1, saved |-> Snapshot]
    /\ UNCHANGED <<pay, epoch>>

creating == call.fn = "create" /\ call.i <= Len(call.newAllocations)

\* The payments contract after the two calls that open a rail.
OpenedRail(p, piece, client) ==
    ModifyRailLockup(
        CreateRail(p, piece.paymentTokenAddress, client,
                   s.spConfigs[piece.provider].paymentAddress,
                   s.commissionRateBps, epoch),
        p.nextRailId, 0, s.allocationLockupAmount, epoch)

CanOpenRail(p, piece, client) ==
    /\ s.spConfigs[piece.provider].paymentAddress # ZERO
    /\ CanCreateRail(p, piece.paymentTokenAddress, client)
    /\ CanModifyRailLockup(
           CreateRail(p, piece.paymentTokenAddress, client,
                      s.spConfigs[piece.provider].paymentAddress,
                      s.commissionRateBps, epoch),
           p.nextRailId, 0, s.allocationLockupAmount, epoch)
    /\ supportsToken(piece.provider, piece.paymentTokenAddress)

\* Wrong on purpose: an id in use is taken again.
canCreateAllocationTwice(a, piece) ==
    CanOpenRail(pay[s.paymentsContract], piece, call.client)

canCreateAllocation(a, piece) ==
    /\ s.allocationInfos[a].client = ZERO
    /\ CanOpenRail(pay[s.paymentsContract], piece, call.client)

\* One iteration of the loop over the new allocations.
createAllocation ==
    LET a == call.newAllocations[call.i]
        piece == call.pieceInfos[call.i]
        p == pay[s.paymentsContract]
    IN  /\ creating
        /\ canCreateAllocation(a, piece)
        /\ pay' = [pay EXCEPT ![s.paymentsContract] =
                      OpenedRail(p, piece, call.client)]
        /\ s' = [s EXCEPT
               !.allocationIdsByClient[call.client] = Append(@, a),
               !.allocationIdsByProvider[piece.provider] = Append(@, a),
               !.railIdToAllocationId[p.nextRailId] = a,
               !.allocationInfos[a] =
                   [client |-> call.client,
                    provider |-> piece.provider,
                    activated |-> FALSE,
                    pieceCidHash |-> piece.pieceCid,
                    paymentToken |-> piece.paymentTokenAddress,
                    pieceSize |-> piece.size,
                    railId |-> p.nextRailId,
                    pricePerBytePerEpoch |->
                        SPPrice(piece.provider, piece.paymentTokenAddress),
                    sectorNumber |-> 0]]
        /\ Continue
        /\ UNCHANGED epoch

\* Wrong on purpose: the batch goes on without the piece.
createSkip ==
    /\ creating
    /\ ~canCreateAllocation(call.newAllocations[call.i], call.pieceInfos[call.i])
    /\ Continue
    /\ UNCHANGED <<s, pay, epoch>>

createRevert ==
    /\ creating
    /\ ~canCreateAllocation(call.newAllocations[call.i], call.pieceInfos[call.i])
    /\ Revert

\* Wrong on purpose: the reentrancy guard stays set.
createReturnLocked ==
    /\ call.fn = "create"
    /\ ~creating
    /\ call' = Idle
    /\ UNCHANGED <<s, pay, epoch>>

createReturn ==
    /\ call.fn = "create"
    /\ ~creating
    /\ s' = [s EXCEPT !.reentrancyStatus = NOT_ENTERED]
    /\ call' = Idle
    /\ UNCHANGED <<pay, epoch>>

----------------------------------------------------------------------------
(* handle_filecoin_method with SECTOR_CONTENT_CHANGED: a miner reports the *)
(* pieces of the sectors it has sealed.  A notification is the sequence of *)
(* the (sector, piece) pairs in the order the two loops visit them.        *)

\* Tag 42 of CBOR puts a zero byte before a CID.
stripPrefix(cid) == IF cid # <<>> /\ cid[1] = 0 THEN Tail(cid) ELSE cid

handleSectorContentChanged(miner, pieces) ==
    /\ call = Idle
    /\ notPaused
    /\ miner \in Miners
    /\ call' = [fn |-> "notify", miner |-> miner, pieces |-> pieces,
                accepted |-> <<>>, i |-> 1, saved |-> Snapshot]
    /\ UNCHANGED <<s, pay, epoch>>

notifying == call.fn = "notify" /\ call.i <= Len(call.pieces)

\* Wrong on purpose: an activated allocation is accepted again.
acceptsAgain(piece) ==
    LET info == s.allocationInfos[piece.allocationId]
    IN  /\ info.client # ZERO
        /\ info.provider = call.miner
        /\ info.pieceCidHash = stripPrefix(piece.dataCid)
        /\ info.pieceSize = piece.pieceSize

accepts(piece) ==
    LET info == s.allocationInfos[piece.allocationId]
    IN  /\ info.client # ZERO
        /\ ~info.activated
        /\ info.provider = call.miner
        /\ info.pieceCidHash = stripPrefix(piece.dataCid)
        /\ info.pieceSize = piece.pieceSize

pricePerEpoch(info) == info.pricePerBytePerEpoch * info.pieceSize

\* Wrong on purpose: the refusal of the payments contract is not noticed.
canActivateRailUnnoticed(p, info) == RailExists(p, info.railId)

canActivateRail(p, info) ==
    /\ CanModifyRailPayment(p, info.railId, pricePerEpoch(info), epoch)
    /\ CanModifyRailLockup(
           ModifyRailPayment(p, info.railId, pricePerEpoch(info), epoch),
           info.railId, EPOCHS_PER_MONTH, 0, epoch)

\* Wrong on purpose: the pending rail's lockup is kept as it is.
ActivatedRailUnlocked(p, info) ==
    ModifyRailPayment(p, info.railId, pricePerEpoch(info), epoch)

ActivatedRail(p, info) ==
    ModifyRailLockup(
        ModifyRailPayment(p, info.railId, pricePerEpoch(info), epoch),
        info.railId, EPOCHS_PER_MONTH, 0, epoch)

\* Wrong on purpose: the answer of an activated piece is forgotten.
activatePieceUnanswered ==
    LET piece == call.pieces[call.i]
        info == s.allocationInfos[piece.allocationId]
    IN  /\ notifying
        /\ accepts(piece)
        /\ canActivateRail(pay[s.paymentsContract], info)
        /\ s' = [s EXCEPT
                 !.allocationInfos[piece.allocationId].sectorNumber =
                     piece.sectorNumber,
                 !.allocationInfos[piece.allocationId].activated = TRUE]
        /\ pay' = [pay EXCEPT ![s.paymentsContract] = ActivatedRail(@, info)]
        /\ call' = [call EXCEPT !.i = @ + 1, !.accepted = Append(@, FALSE)]
        /\ UNCHANGED epoch

\* A piece that matches a pending allocation starts its payments.
activatePiece ==
    LET piece == call.pieces[call.i]
        info == s.allocationInfos[piece.allocationId]
    IN  /\ notifying
        /\ accepts(piece)
        /\ canActivateRail(pay[s.paymentsContract], info)
        /\ s' = [s EXCEPT
                 !.allocationInfos[piece.allocationId].sectorNumber =
                     piece.sectorNumber,
                 !.allocationInfos[piece.allocationId].activated = TRUE]
        /\ pay' = [pay EXCEPT ![s.paymentsContract] = ActivatedRail(@, info)]
        /\ call' = [call EXCEPT !.i = @ + 1, !.accepted = Append(@, TRUE)]
        /\ UNCHANGED epoch

\* Any other piece is answered with false and the call goes on.
rejectPiece ==
    /\ notifying
    /\ ~accepts(call.pieces[call.i])
    /\ call' = [call EXCEPT !.i = @ + 1, !.accepted = Append(@, FALSE)]
    /\ UNCHANGED <<s, pay, epoch>>

\* A rail that cannot be activated reverts the whole notification.
notifyRevert ==
    LET piece == call.pieces[call.i]
    IN  /\ notifying
        /\ accepts(piece)
        /\ ~canActivateRail(pay[s.paymentsContract],
                            s.allocationInfos[piece.allocationId])
        /\ Revert

notifyReturn ==
    /\ call.fn = "notify"
    /\ ~notifying
    /\ call' = Idle
    /\ UNCHANGED <<s, pay, epoch>>

----------------------------------------------------------------------------
(* Settlement.  Anyone may call it.                                        *)

settleSpPayment(a, untilEpoch) ==
    LET info == s.allocationInfos[a]
    IN  /\ call = Idle
        /\ info.activated
        /\ info.railId # 0
        /\ CanSettle(s.paymentsContract, info.railId, untilEpoch)
        /\ Settle(s.paymentsContract, info.railId, untilEpoch)
        /\ UNCHANGED <<s, epoch, call>>

\* Wrong on purpose: the code's index is taken for a position.
FirstPositionZero(startIndex) == startIndex

\* The loop runs over the provider's allocations from startIndex, counted
\* from 0 in the code, to the end of the batch; batch size 0 means all.
FirstPosition(startIndex) == startIndex + 1

LastPosition(startIndex, batchSize, length) ==
    IF batchSize = 0 THEN length ELSE Min2(startIndex + batchSize, length)

settleSpTotalPayment(provider, untilEpoch, startIndex, batchSize) ==
    LET ids == s.allocationIdsByProvider[provider]
    IN  /\ call = Idle
        /\ ids # <<>>
        /\ call' = [fn |-> "settle", ids |-> ids, untilEpoch |-> untilEpoch,
                    start |-> FirstPosition(startIndex),
                    i |-> FirstPosition(startIndex),
                    end |-> LastPosition(startIndex, batchSize, Len(ids)),
                    saved |-> Snapshot]
        /\ UNCHANGED <<s, pay, epoch>>

settling == call.fn = "settle" /\ call.i <= call.end

\* Wrong on purpose: rails are numbered from 1.
payableAfterFirst(info) == info.activated /\ info.railId > 1

payable(info) == info.activated /\ info.railId > 0

settleNext ==
    LET info == s.allocationInfos[call.ids[call.i]]
    IN  /\ settling
        /\ payable(info)
        /\ CanSettle(s.paymentsContract, info.railId, call.untilEpoch)
        /\ Settle(s.paymentsContract, info.railId, call.untilEpoch)
        /\ Continue
        /\ UNCHANGED <<s, epoch>>

settleSkip ==
    /\ settling
    /\ ~payable(s.allocationInfos[call.ids[call.i]])
    /\ Continue
    /\ UNCHANGED <<s, pay, epoch>>

\* One rail that cannot be settled reverts the whole batch.
settleRevert ==
    LET info == s.allocationInfos[call.ids[call.i]]
    IN  /\ settling
        /\ payable(info)
        /\ ~CanSettle(s.paymentsContract, info.railId, call.untilEpoch)
        /\ Revert

settleReturn ==
    /\ call.fn = "settle"
    /\ ~settling
    /\ call' = Idle
    /\ UNCHANGED <<s, pay, epoch>>
============================================================================
