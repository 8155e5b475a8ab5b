--------------------------- MODULE DDOProperties ---------------------------
(***************************************************************************)
(* What the diamond must guarantee.  The invariants that speak of storage  *)
(* take it as arguments, st and p, because they must hold of the running   *)
(* storage and of the storage a revert would put back.                     *)
(***************************************************************************)
EXTENDS DDODiamond, FiniteSetsExt

----------------------------------------------------------------------------
(* Types.                                                                  *)

Snapshots == [s: DDOState, pay: [PaymentsContracts -> PayState]]

CreateFrame ==
    {frame \in [fn: {"create"}, client: Clients, pieceInfos: Seq(PieceInfo),
                newAllocations: Seq(AllocationIds), i: Nat \ {0}, saved: Snapshots] :
        Len(frame.newAllocations) \in {0, Len(frame.pieceInfos)}}

NotifyFrame ==
    [fn: {"notify"}, miner: Providers, pieces: Seq(NotificationPiece),
     accepted: Seq(BOOLEAN), i: Nat \ {0}, saved: Snapshots]

SettleFrame ==
    [fn: {"settle"}, ids: Seq(AllocationIds), untilEpoch: Nat,
     start: Nat \ {0}, i: Nat \ {0}, end: Nat, saved: Snapshots]

\* Every variable, and every argument a running call holds, has its type.
TypeOK ==
    /\ s \in DDOState
    /\ pay \in [PaymentsContracts -> PayState]
    /\ epoch \in Nat
    /\ call \in {Idle} \cup CreateFrame \cup NotifyFrame \cup SettleFrame

----------------------------------------------------------------------------
(* Storage between transactions: what everybody but the running call sees. *)

committed == IF call = Idle THEN Snapshot ELSE call.saved

Allocated(st) == {a \in AllocationIds : st.allocationInfos[a].client # ZERO}

Occurrences(list, a) == {i \in DOMAIN list : list[i] = a}

\* An allocation is in the list of exactly one client and of exactly one
\* provider, its own, and once in each; an id without an allocation is in no
\* list.  settleSpTotalPayment and the views walk these lists.
ListsAgree(st) ==
    \A a \in AllocationIds :
        /\ \A c \in Clients :
              Cardinality(Occurrences(st.allocationIdsByClient[c], a)) =
                  IF st.allocationInfos[a].client = c THEN 1 ELSE 0
        /\ \A p \in Providers :
              Cardinality(Occurrences(st.allocationIdsByProvider[p], a)) =
                  IF st.allocationInfos[a].provider = p THEN 1 ELSE 0

\* The validator finds a rail's allocation by the rail's number, activation
\* finds the rail by the allocation: the two maps are inverse to each other,
\* so no two allocations share a rail, and every rail they name is one the
\* payments contract has created.
RailMapInverse(st, pays) ==
    /\ \A a \in Allocated(st) :
          LET r == st.allocationInfos[a].railId
          IN  /\ st.paymentsContract # ZERO
              /\ r \in RailIds
              /\ r < pays[st.paymentsContract].nextRailId
              /\ st.railIdToAllocationId[r] = a
    /\ \A r \in RailIds :
          LET a == st.railIdToAllocationId[r]
          IN  a # 0 => a \in Allocated(st) /\ st.allocationInfos[a].railId = r

\* The rail an allocation names is one its client pays in its token, at rate
\* zero without a streaming lockup while the allocation is pending, and at the
\* agreed price for its size with a month of lockup once it is activated.
ServesAllocation(rail, info) ==
    rail.from # ZERO =>
        /\ rail.from = info.client
        /\ rail.token = info.paymentToken
        /\ IF info.activated
           THEN /\ rail.rate = pricePerEpoch(info)
                /\ rail.lockupPeriod = EPOCHS_PER_MONTH
                /\ rail.lockupFixed = 0
           ELSE rail.rate = 0 /\ rail.lockupPeriod = 0

RailsServe(st, pays) ==
    \A a \in Allocated(st) :
        LET info == st.allocationInfos[a]
        IN  ServesAllocation(pays[st.paymentsContract].rails[info.railId], info)

\* The lists of allocations by client and by provider are exact, in the running
\* storage (between the pieces of a batch, too) and in what a revert puts back.
IndexesAgree == ListsAgree(s) /\ ListsAgree(committed.s)

\* Allocations and rails are bound one to one, in the running storage and in
\* what a revert puts back, and a creation runs with a payments contract set.
RailBinding ==
    /\ RailMapInverse(s, pay)
    /\ RailMapInverse(committed.s, committed.pay)
    /\ call.fn = "create" => s.paymentsContract # ZERO

\* Every allocation's rail has the terms its state calls for: activation, the
\* client's own moves and settlements keep rate and lockup as agreed.
RailTerms == RailsServe(s, pay) /\ RailsServe(committed.s, committed.pay)

----------------------------------------------------------------------------
(* The registry of providers.                                              *)

\* registeredSPIds lists each registered provider once and no other, and no
\* provider has two entries for a token, so the first match of every loop
\* over supportedTokens is the only one, whatever was added, updated and
\* swapped out before.
RegistryConsistent ==
    /\ \A p \in Providers :
          Cardinality(Occurrences(s.registeredSPIds, p)) =
              IF isRegisteredSP(p) THEN 1 ELSE 0
    /\ \A p \in Providers, token \in Tokens :
          Cardinality(Positions(s.spConfigs[p].supportedTokens, token)) <= 1

TokenEntries(st, p) == {st.spConfigs[p].supportedTokens[i] :
                            i \in DOMAIN st.spConfigs[p].supportedTokens}

\* removeSPToken's swap-and-pop takes out the token it is asked to and leaves
\* the provider's other entries as they were.
RemovalKeepsOthers ==
    [][\A p \in Providers, token \in Tokens :
          removeSPToken(p, token) =>
              TokenEntries(s, p)' = {t \in TokenEntries(s, p) : t.token # token}]_vars

\* No sequence of registry calls brings back a deactivated provider.
DeactivationIsFinal ==
    [][\A p \in Providers :
          isRegisteredSP(p) /\ ~s.spConfigs[p].isActive
              => isRegisteredSP(p)' /\ ~s.spConfigs[p].isActive']_vars

----------------------------------------------------------------------------
(* Allocations as the transactions, taken whole, change them.              *)

\* No transaction takes an allocation away, deactivates it or changes a term
\* of it: the only change is the one activation with its sector.
AllocationsAreFinal ==
    [][\A a \in Allocated(committed.s) :
          LET old == committed.s.allocationInfos[a]
              new == committed'.s.allocationInfos[a]
          IN  new = old \/ /\ ~old.activated
                           /\ new = [old EXCEPT !.activated = TRUE,
                                                !.sectorNumber = new.sectorNumber]
      ]_vars

\* An allocation is made only with a provider that is active then and never
\* while the diamond is paused; its price is what the provider's list asks
\* for its token then, and its rail pays the provider's address of that
\* moment the commission of that moment.
CreatedAsOffered ==
    [][\A a \in Allocated(committed'.s) \ Allocated(committed.s) :
          LET info == committed'.s.allocationInfos[a]
              offer == committed.s.spConfigs[info.provider]
              rail == committed'.pay[committed.s.paymentsContract].rails[info.railId]
          IN  /\ ~committed.s.paused
              /\ offer.isActive
              /\ info.pieceSize \in offer.minPieceSize .. offer.maxPieceSize
              /\ [token |-> info.paymentToken, isActive |-> TRUE,
                  pricePerBytePerEpoch |-> info.pricePerBytePerEpoch]
                     \in TokenEntries(committed.s, info.provider)
              /\ rail.to = offer.paymentAddress
              /\ rail.commissionRateBps = committed.s.commissionRateBps
      ]_vars

\* createAllocationRequests is all or nothing: it commits an allocation for
\* every piece of the batch, or none.
BatchesAreAtomic ==
    [][call.fn = "create" /\ call' = Idle =>
          LET made == Allocated(committed'.s) \ Allocated(committed.s)
          IN  Cardinality(made) \in {0, Len(call.pieceInfos)}]_vars

\* What a miner is told about its pieces is what became of them: a piece is
\* answered with true only if this notification activated its allocation, with
\* the sector the piece is in and no other piece answered so, also when one
\* notification names an allocation twice; and every allocation that it has
\* activated has its piece answered with true.
AnswersAreTrue ==
    call.fn = "notify" =>
        LET before == call.saved.s.allocationInfos
            infos == s.allocationInfos
        IN  /\ \A k \in DOMAIN call.accepted :
                  LET piece == call.pieces[k]
                      a == piece.allocationId
                  IN  call.accepted[k] =>
                        /\ ~before[a].activated /\ infos[a].activated
                        /\ infos[a].provider = call.miner
                        /\ infos[a].sectorNumber = piece.sectorNumber
                        /\ \A j \in DOMAIN call.accepted :
                              j # k /\ call.pieces[j].allocationId = a
                                  => ~call.accepted[j]
            /\ \A a \in AllocationIds :
                  infos[a].activated /\ ~before[a].activated =>
                      \E k \in DOMAIN call.accepted :
                          call.accepted[k] /\ call.pieces[k].allocationId = a

\* The reentrancy guard is set exactly while createAllocationRequests runs,
\* and never in the storage the call leaves behind, whether it returns or
\* reverts: the next createAllocationRequests is not locked out.
GuardReleased ==
    /\ s.reentrancyStatus = IF call.fn = "create" THEN ENTERED ELSE NOT_ENTERED
    /\ committed.s.reentrancyStatus = NOT_ENTERED

----------------------------------------------------------------------------
(* Money.                                                                  *)

\* The epoch to which a rail is settled; a rail that was deleted is settled
\* to its end.
SettledUpTo(before, after, r) ==
    IF after.rails[r].from = ZERO THEN before.rails[r].endEpoch
    ELSE after.rails[r].settledUpTo

\* A transaction that settles a rail pays, for the epochs it settles, the
\* agreed price for the piece, or nothing if the sector is blacklisted; and
\* nothing is ever paid on another rail than that of an activated allocation.
PaidAsAgreed ==
    [][\A c \in PaymentsContracts, r \in RailIds :
          LET old == committed.pay[c]
              new == committed'.pay[c]
              a == committed.s.railIdToAllocationId[r]
              info == committed.s.allocationInfos[a]
              earning == /\ a # 0
                         /\ info.activated
                         /\ <<info.provider, info.sectorNumber>>
                               \notin committed.s.blacklistedSectors
              epochs == SettledUpTo(old, new, r) - old.rails[r].settledUpTo
          IN  IF earning
              THEN new.paid[r] - old.paid[r] = pricePerEpoch(info) * epochs
              ELSE new.paid[r] = old.paid[r]
      ]_vars

\* A settlement of a provider that returns has settled every activated
\* allocation of its range as far as it could be when the call began, or the
\* rail was paid to its end and is gone: none is passed over.
BatchSettlesAll ==
    call.fn = "settle" /\ ~settling =>
        \A k \in call.start .. call.end :
            LET info == s.allocationInfos[call.ids[k]]
                rail == pay[s.paymentsContract].rails[info.railId]
            IN  info.activated =>
                  \/ rail.from = ZERO
                  \/ rail.settledUpTo >=
                        SettleTo(call.saved.pay[s.paymentsContract], info.railId,
                                 call.untilEpoch, epoch)

\* In the payments contracts, and in the state a revert would put back,
\* nobody's account locks more than it holds: what is locked can be paid.
Solvent ==
    \A c \in PaymentsContracts :
        PaySound(pay[c], epoch) /\ PaySound(committed.pay[c], epoch)

\* What the diamond's agreements ask a client to have in its account: for an
\* activated allocation all that has accrued and a month more, or what is
\* left up to the end of a rail the client has ended.
Committed(c, a) ==
    LET info == s.allocationInfos[a]
        rail == pay[c].rails[info.railId]
        account == pay[c].accounts[<<info.client, info.paymentToken>>]
    IN  pricePerEpoch(info) *
            (IF rail.endEpoch # 0 THEN rail.endEpoch - rail.settledUpTo
             ELSE EPOCHS_PER_MONTH + account.lockupLastSettledAt - rail.settledUpTo)

LivingAllocations(c, k) ==
    {a \in Allocated(s) :
        LET info == s.allocationInfos[a]
        IN  /\ info.activated
            /\ k = <<info.client, info.paymentToken>>
            /\ pay[c].rails[info.railId].from # ZERO}

\* Whatever a client withdraws, ends or fails to fund, its account holds what
\* all its activated allocations together have earned and the month of
\* notice of each.
MonthIsLocked ==
    LET c == s.paymentsContract
    IN  c # ZERO => \A k \in Clients \X Tokens :
            MapThenSumSet(LAMBDA a : Committed(c, a), LivingAllocations(c, k))
                <= pay[c].accounts[k].funds

----------------------------------------------------------------------------
(* What the repository says and the code does not do.                      *)

\* README: a blacklisted sector's settlement is blocked, and the settlement
\* test expects the payments contract to find that it makes no progress.
BlacklistBlocksSettlement ==
    [][\A c \in PaymentsContracts, r \in RailIds :
          LET a == committed.s.railIdToAllocationId[r]
              info == committed.s.allocationInfos[a]
          IN  /\ a # 0
              /\ info.activated
              /\ <<info.provider, info.sectorNumber>> \in committed.s.blacklistedSectors
              => SettledUpTo(committed.pay[c], committed'.pay[c], r)
                    = committed.pay[c].rails[r].settledUpTo
      ]_vars

\* The running settlement has met a rail it cannot settle.
settleRevertNow ==
    /\ settling
    /\ call.untilEpoch = epoch
    /\ LET info == s.allocationInfos[call.ids[call.i]]
       IN  payable(info) /\ ~CanSettle(s.paymentsContract, info.railId, epoch)

\* README: sp settle settles all active rails of a provider.  So a call that
\* settles up to now must not fail while one of them has something to settle.
SettleAllSettlesActiveRails ==
    settleRevertNow =>
        \A k \in DOMAIN call.ids :
            LET info == s.allocationInfos[call.ids[k]]
                p == call.saved.pay[s.paymentsContract]
            IN  info.activated /\ RailExists(p, info.railId)
                    => ~NeedsValidation(p, info.railId, epoch, epoch)
============================================================================
