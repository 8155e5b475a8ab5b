------------------------------ MODULE SPFacet ------------------------------
(***************************************************************************)
(* The registry of storage providers (facets/SPFacet.sol).  Every          *)
(* operation that writes is the owner's.                                   *)
(***************************************************************************)
EXTENDS LibDDOStorage

\* A token list of a provider, as supportedTokens holds it: an array whose
\* loops stop at the first match.
Positions(tokens, token) == {i \in DOMAIN tokens : tokens[i].token = token}

First(positions) == CHOOSE i \in positions : \A j \in positions : i <= j

\* Wrong on purpose: the removed entry stays and the last one goes.
SwapRemoveLast(tokens, i) == [j \in 1 .. Len(tokens) - 1 |-> tokens[j]]

\* The last element takes the place of the removed one.
SwapRemove(tokens, i) ==
    [j \in 1 .. Len(tokens) - 1 |-> IF j = i THEN tokens[Len(tokens)] ELSE tokens[j]]

\* Wrong on purpose: a provider may have no payment address.
validateSPConfigNowhere(actorId, terms) ==
    /\ actorId # 0
    /\ terms.minPieceSize # 0 /\ terms.maxPieceSize >= terms.minPieceSize
    /\ terms.minTermLength > 0 /\ terms.maxTermLength >= terms.minTermLength

\* terms: paymentAddress, min/maxPieceSize and min/maxTermLength.
validateSPConfig(actorId, terms) ==
    /\ actorId # 0
    /\ terms.paymentAddress # ZERO
    /\ terms.minPieceSize # 0 /\ terms.maxPieceSize >= terms.minPieceSize
    /\ terms.minTermLength > 0 /\ terms.maxTermLength >= terms.minTermLength

\* Wrong on purpose: neighbours are not compared.
validateTokenConfigsApart(tokens) ==
    /\ tokens # <<>>
    /\ \A i \in DOMAIN tokens :
          /\ tokens[i].token # ZERO
          /\ tokens[i].isActive
          /\ \A j \in DOMAIN tokens : i + 1 < j => tokens[i].token # tokens[j].token

validateTokenConfigs(tokens) ==
    /\ tokens # <<>>
    /\ \A i \in DOMAIN tokens :
          /\ tokens[i].token # ZERO
          /\ tokens[i].isActive
          /\ \A j \in DOMAIN tokens : i < j => tokens[i].token # tokens[j].token

\* Wrong on purpose: new terms bring a provider back.
WithTermsActive(config, terms) ==
    [config EXCEPT !.paymentAddress = terms.paymentAddress,
                   !.minPieceSize = terms.minPieceSize,
                   !.maxPieceSize = terms.maxPieceSize,
                   !.minTermLength = terms.minTermLength,
                   !.maxTermLength = terms.maxTermLength,
                   !.isActive = TRUE]

WithTerms(config, terms) ==
    [config EXCEPT !.paymentAddress = terms.paymentAddress,
                   !.minPieceSize = terms.minPieceSize,
                   !.maxPieceSize = terms.maxPieceSize,
                   !.minTermLength = terms.minTermLength,
                   !.maxTermLength = terms.maxTermLength]

----------------------------------------------------------------------------
registerSP(actorId, terms, tokens) ==
    /\ OwnerTransaction
    /\ validateSPConfig(actorId, terms)
    /\ validateTokenConfigs(tokens)
    /\ ~isRegisteredSP(actorId)
    /\ s' = [s EXCEPT
             !.spConfigs[actorId] =
                 [WithTerms(s.spConfigs[actorId], terms) EXCEPT
                     !.isActive = TRUE, !.supportedTokens = @ \o tokens],
             !.registeredSPIds = Append(@, actorId)]

\* isActive stays what it is: the update of a deactivated provider does not
\* bring it back.
updateSPConfig(actorId, terms) ==
    /\ OwnerTransaction
    /\ isRegisteredSP(actorId)
    /\ validateSPConfig(actorId, terms)
    /\ s' = [s EXCEPT !.spConfigs[actorId] = WithTerms(@, terms)]

addSPToken(actorId, token, price) ==
    /\ OwnerTransaction
    /\ token # ZERO
    /\ isRegisteredSP(actorId)
    /\ Positions(s.spConfigs[actorId].supportedTokens, token) = {}
    /\ s' = [s EXCEPT !.spConfigs[actorId].supportedTokens =
                Append(@, [token |-> token, pricePerBytePerEpoch |-> price,
                           isActive |-> TRUE])]

updateSPToken(actorId, token, price, isActive) ==
    LET positions == Positions(s.spConfigs[actorId].supportedTokens, token)
    IN  /\ OwnerTransaction
        /\ isRegisteredSP(actorId)
        /\ positions # {}
        /\ s' = [s EXCEPT !.spConfigs[actorId].supportedTokens[First(positions)] =
                    [token |-> token, pricePerBytePerEpoch |-> price,
                     isActive |-> isActive]]

removeSPToken(actorId, token) ==
    LET tokens == s.spConfigs[actorId].supportedTokens
        positions == Positions(tokens, token)
    IN  /\ OwnerTransaction
        /\ isRegisteredSP(actorId)
        /\ positions # {}
        /\ s' = [s EXCEPT !.spConfigs[actorId].supportedTokens =
                    SwapRemove(tokens, First(positions))]

deactivateSP(actorId) ==
    /\ OwnerTransaction
    /\ isRegisteredSP(actorId)
    /\ s' = [s EXCEPT !.spConfigs[actorId].isActive = FALSE]
============================================================================
