----------------------------- MODULE MCPayments -----------------------------
(***************************************************************************)
(* One client, one provider, two allocations that may fail, be terminated, *)
(* be blacklisted or run out of funds.                                     *)
(***************************************************************************)
EXTENDS DDORefinement

CONSTANTS c1, t1, sp

MCTerms == {[paymentAddress |-> sp, minPieceSize |-> 1, maxPieceSize |-> 1,
             minTermLength |-> 1, maxTermLength |-> 1]}

MCTokenLists == {<<[token |-> t1, pricePerBytePerEpoch |-> 1, isActive |-> TRUE]>>}

MCCids == {<<1>>}

Piece == [pieceCid |-> <<1>>, size |-> 1, provider |-> 1, termMin |-> 1,
          termMax |-> 1, paymentTokenAddress |-> t1]

MCPieceBatches == {<<Piece>>}

MCAnswers == {<<1>>, <<2>>}

Sealed(a, sector) == [sectorNumber |-> sector, dataCid |-> <<0, 1>>,
                      pieceSize |-> 1, allocationId |-> a]

MCNotifications == {<<Sealed(1, 1)>>, <<Sealed(2, 2)>>,
                    <<Sealed(1, 1), Sealed(2, 2)>>, <<Sealed(1, 1), Sealed(1, 2)>>}

MCBlacklistEntries == {<<1, 1>>}

MCBatches == {<<0, 0>>}

MCLimits == {[isApproved |-> TRUE, rateAllowance |-> 2, lockupAllowance |-> 3,
              maxLockupPeriod |-> 2]}
\* The owner registers the provider and blacklists a sector.
OwnerNext ==
    \/ \E terms \in SPTerms, tokens \in TokenLists : registerSP(1, terms, tokens)
    \/ \E c \in PaymentsContracts : setPaymentsContract(c)
    \/ \E entry \in BlacklistEntries, blacklisted \in BOOLEAN :
          blacklistSector(entry[1], entry[2], blacklisted)

MCNext == OwnerNext \/ AllocationNext \/ ClientNext \/ Tick

MCSpec == Init /\ [][MCNext]_vars
=============================================================================
