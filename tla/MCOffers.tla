------------------------------ MODULE MCOffers ------------------------------
(***************************************************************************)
(* Without a payments contract, the registry alone: two providers, two     *)
(* tokens, every order of the owner's operations on them.  With one, a     *)
(* provider's offer and the diamond's settings change between and around   *)
(* the allocations that are made under them; batches of two pieces fail in *)
(* the middle, and the verified registry may answer with an id twice.      *)
(***************************************************************************)
EXTENDS DDOProperties, TLC

CONSTANTS c1, c2, t1, t2, sp1, sp2

Offer(payee, size) ==
    [paymentAddress |-> payee, minPieceSize |-> size, maxPieceSize |-> 2,
     minTermLength |-> 1, maxTermLength |-> 2]

MCTerms == {Offer(sp1, 1), Offer(sp2, 2), Offer(ZERO, 1)}

Entry(token, price) == [token |-> token, pricePerBytePerEpoch |-> price,
                        isActive |-> TRUE]

MCTokenLists == {<<Entry(t1, 1)>>, <<Entry(t1, 1), Entry(t2, 2)>>,
                 <<Entry(t1, 1), Entry(t1, 2)>>, <<>>}

\* The clients may do the same things.
MCSymmetry == Permutations({c1, c2})

MCCids == {<<1>>}

Piece(size) == [pieceCid |-> <<1>>, size |-> size, provider |-> 1, termMin |-> 1,
                termMax |-> 2, paymentTokenAddress |-> t1]

MCPieceBatches == {<<Piece(1)>>, <<Piece(2), Piece(2)>>}

MCAnswers == {<<>>, <<1>>, <<2>>, <<1, 2>>, <<2, 2>>}

MCLimits == {[isApproved |-> TRUE, rateAllowance |-> 2, lockupAllowance |-> 1,
              maxLockupPeriod |-> 2]}

\* Every order of the operations on provider 1, with some on provider 2.
Registry ==
    /\ s.paymentsContract = ZERO
    /\ s.commissionRateBps = 0 /\ s.allocationLockupAmount = 0
    /\ SPNext
    /\ s'.spConfigs[2].supportedTokens \in {<<>>, <<Entry(t1, 1)>>}

\* Provider 1 with token t1.
Offers ==
    /\ s.paymentsContract # ZERO
    /\ \/ \E terms \in SPTerms :
             registerSP(1, terms, <<Entry(t1, 1)>>) \/ updateSPConfig(1, terms)
       \/ \E price \in Prices, active \in BOOLEAN :
             addSPToken(1, t1, price) \/ updateSPToken(1, t1, price, active)
       \/ removeSPToken(1, t1)
       \/ deactivateSP(1)

Clients1 ==
    \E c \in PaymentsContracts, k \in Clients \X {t1} :
        \/ \E amount \in Deposits : deposit(c, k, amount)
        \/ \E limits \in Limits : setOperatorApproval(c, k, limits)

MCNext ==
    \/ Registry
    \/ Offers
    \/ (s.paymentsContract = ZERO => s.registeredSPIds = <<>>) /\ AdminNext
    \/ AllocationNext
    \/ s.paymentsContract # ZERO /\ Clients1

MCSpec == Init /\ [][MCNext]_vars
=============================================================================
