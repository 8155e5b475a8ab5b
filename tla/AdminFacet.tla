----------------------------- MODULE AdminFacet -----------------------------
(***************************************************************************)
(* The owner's controls (facets/AdminFacet.sol).  Moving the diamond's FIL *)
(* balance (rescueFIL) touches no state of the diamond and is left out.    *)
(***************************************************************************)
EXTENDS LibDDOStorage

setPaymentsContract(contract) ==
    /\ OwnerTransaction
    /\ contract # ZERO
    /\ s' = [s EXCEPT !.paymentsContract = contract]

setCommissionRate(rate) ==
    /\ OwnerTransaction
    /\ rate <= MAX_COMMISSION_RATE_BPS
    /\ s' = [s EXCEPT !.commissionRateBps = rate]

setAllocationLockupAmount(amount) ==
    /\ OwnerTransaction
    /\ s' = [s EXCEPT !.allocationLockupAmount = amount]

pause ==
    /\ OwnerTransaction
    /\ ~s.paused
    /\ s' = [s EXCEPT !.paused = TRUE]

unpause ==
    /\ OwnerTransaction
    /\ s.paused
    /\ s' = [s EXCEPT !.paused = FALSE]

blacklistSector(provider, sector, blacklisted) ==
    /\ OwnerTransaction
    /\ s' = [s EXCEPT !.blacklistedSectors =
                IF blacklisted THEN @ \cup {<<provider, sector>>}
                               ELSE @ \ {<<provider, sector>>}]
=============================================================================
