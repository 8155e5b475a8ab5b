-------------------------- MODULE LifecycleProofs ---------------------------
(***************************************************************************)
(* The diamond implements AllocationLifecycle, with one payments contract. *)
(* First the operations of the payments contract, rail by rail; then the   *)
(* invariant RailsInv about rails without an allocation and about epochs;  *)
(* then what each step of the diamond does to the agreements, and what a   *)
(* running call has done to them; then the refinement, step by step, and   *)
(* what it says of payments.                                               *)
(***************************************************************************)
EXTENDS TransactionProofs, DDORefinement

----------------------------------------------------------------------------
(* The invariants.                                                         *)

\* A rail is settled to no epoch that has not passed, and to none after its end.
Timely(p, now) ==
    \A r \in RailIds :
        /\ p.rails[r].settledUpTo <= now
        /\ p.rails[r].endEpoch # 0 => p.rails[r].settledUpTo <= p.rails[r].endEpoch

\* A number that is bound to no allocation has no rail, and nothing is paid on it.
UnboundUnpaid(st, pays) ==
    \A c \in PaymentsContracts, r \in RailIds :
        st.railIdToAllocationId[r] = 0 =>
            pays[c].rails[r].from = ZERO /\ pays[c].paid[r] = 0

PaidRails(st, pays, now) ==
    /\ UnboundUnpaid(st, pays)
    /\ \A c \in PaymentsContracts : Timely(pays[c], now)

RailsInv ==
    /\ AllocationInv
    /\ PaidRails(s, pay, epoch)
    /\ PaidRails(committed.s, committed.pay, epoch)

\* What becomes of one agreement, with the moment and the blacklist as
\* arguments.
MadeAt(old, new, now) ==
    /\ old = Lifecycle!None
    /\ new.client # ZERO
    /\ ~new.activated /\ new.open
    /\ new.end = 0 /\ new.paid = 0 /\ new.settledTo = now

ActivatedAt(old, new, now) ==
    /\ old.open /\ ~old.activated /\ old.end = 0
    /\ new = [old EXCEPT !.activated = TRUE, !.sector = new.sector,
                         !.settledTo = IF old.price = 0 THEN @ ELSE now]

EndedAt(old, new, now) ==
    /\ old.open /\ old.end = 0
    /\ new = [old EXCEPT !.end = now + IF old.activated THEN EPOCHS_PER_MONTH ELSE 0]

DueAt(old, to, blacklist) ==
    IF old.activated /\ <<old.provider, old.sector>> \notin blacklist
    THEN old.price * (to - old.settledTo) ELSE 0

SettledAt(old, new, now, blacklist) ==
    /\ old.open
    /\ \E to \in old.settledTo .. now :
          IF old.end # 0 /\ to = old.end
          THEN new = [old EXCEPT !.open = FALSE, !.settledTo = 0, !.end = 0,
                                 !.paid = old.paid + DueAt(old, to, blacklist)]
          ELSE /\ old.end # 0 => to < old.end
               /\ new = [old EXCEPT !.settledTo = to,
                                    !.paid = old.paid + DueAt(old, to, blacklist)]

----------------------------------------------------------------------------
(* The payments contract, rail by rail.                                    *)

\* An operation that opens no rail, and pays on none that is not there.
OnlyLive(p, q) ==
    \A r \in RailIds :
        p.rails[r].from = ZERO => q.rails[r].from = ZERO /\ q.paid[r] = p.paid[r]

\* q is p but for the rail id, which is r now.
OneRail(p, q, id, r) ==
    /\ \A i \in RailIds \ {id} : q.rails[i] = p.rails[i]
    /\ q.rails[id] = r
    /\ q.paid = p.paid

\* What a client does with its account and approval touches no rail.
LEMMA ClientEffect ==
    ASSUME NEW now, NEW p, PaySound(p, now), NEW k, NEW amount, NEW limits
    PROVE  /\ Deposit(p, k, amount, now).rails = p.rails
           /\ Deposit(p, k, amount, now).paid = p.paid
           /\ Withdraw(p, k, amount, now).rails = p.rails
           /\ Withdraw(p, k, amount, now).paid = p.paid
           /\ SetOperatorApproval(p, k, limits).rails = p.rails
           /\ SetOperatorApproval(p, k, limits).paid = p.paid
<1>1. p \in PayState
  BY DEF PaySound
<1>2. \A a : LET q == [p EXCEPT !.accounts[k] = a] IN q.rails = p.rails /\ q.paid = p.paid
  BY <1>1 DEF PayState
<1>3. Deposit(p, k, amount, now).rails = p.rails /\ Deposit(p, k, amount, now).paid = p.paid
  BY <1>2 DEF Deposit
<1>4. Withdraw(p, k, amount, now).rails = p.rails /\ Withdraw(p, k, amount, now).paid = p.paid
  BY <1>2 DEF Withdraw
<1>5. /\ SetOperatorApproval(p, k, limits).rails = p.rails
      /\ SetOperatorApproval(p, k, limits).paid = p.paid
  BY <1>1 DEF SetOperatorApproval, PayState
<1> QED BY <1>3, <1>4, <1>5

\* terminateRail sets the end of a rail that has none.
LEMMA TerminateRailEffect ==
    ASSUME NEW now \in Nat, NEW p, PaySound(p, now), NEW id,
           CanTerminateRail(p, id, now),
           NEW q, q = TerminateRail(p, id, now),
           NEW old, old = p.rails[id]
    PROVE  /\ id \in RailIds /\ old \in LiveRail /\ old.from # ZERO /\ old.endEpoch = 0
           /\ OneRail(p, q, id, [old EXCEPT !.endEpoch = now + old.lockupPeriod])
<1>1. id \in RailIds /\ old \in LiveRail
  BY LiveRails DEF CanTerminateRail
<1>2. old.from # ZERO /\ old.endEpoch = 0
  BY DEF CanTerminateRail, RailExists, Terminated
<1>3. p \in PayState /\ p.rails \in [RailIds -> Rail]
  BY PayParts DEF PaySound
<1>4. /\ q.rails = [p.rails EXCEPT ![id] =
                       [old EXCEPT !.endEpoch = now + old.lockupPeriod]]
      /\ q.paid = p.paid
  BY <1>1, <1>3 DEF TerminateRail, PayState
<1> QED BY <1>1, <1>2, <1>3, <1>4 DEF OneRail

\* modifyRailLockup writes the lockup of one rail.
Locked(r, period, fixed) == [r EXCEPT !.lockupPeriod = period, !.lockupFixed = fixed]

LEMMA ModifyRailLockupEffect ==
    ASSUME NEW p \in PayState, NEW id \in RailIds, NEW period, NEW fixed, NEW now
    PROVE  OneRail(p, ModifyRailLockup(p, id, period, fixed, now), id,
                   Locked(p.rails[id], period, fixed))
<1>1. PICK q : q = ModifyRailLockup(p, id, period, fixed, now)
  OBVIOUS
<1>2. q.rails = [p.rails EXCEPT ![id] =
          [p.rails[id] EXCEPT !.lockupPeriod = period, !.lockupFixed = fixed]]
  BY <1>1 DEF ModifyRailLockup, PayState
<1>3. q.paid = p.paid
  BY <1>1 DEF ModifyRailLockup, PayState
<1>4. p.rails \in [RailIds -> Rail]
  BY DEF PayState
<1> QED BY <1>1, <1>2, <1>3, <1>4 DEF OneRail, Locked

\* Activation gives a pending rail its rate and lockup; a rail whose agreed
\* price is not zero is paid from now on.  It refuses a rail that has an end:
\* the month of lockup could not be set any more.
LEMMA ActivatedRailEffect ==
    ASSUME IInv, NEW p, PaySound(p, epoch), NEW info \in AllocationInfo,
           canActivateRail(p, info),
           NEW id, id = info.railId,
           NEW old, old = p.rails[id],
           old.rate = 0, old.lockupPeriod = 0,
           NEW q, q = ActivatedRail(p, info)
    PROVE  /\ id \in RailIds /\ old \in LiveRail /\ old.from # ZERO /\ old.endEpoch = 0
           /\ OneRail(p, q, id,
                  [old EXCEPT !.rate = pricePerEpoch(info),
                              !.settledUpTo = IF pricePerEpoch(info) = 0 THEN @
                                              ELSE epoch,
                              !.lockupPeriod = EPOCHS_PER_MONTH, !.lockupFixed = 0])
<1> DEFINE price == pricePerEpoch(info)
<1>0. PICK p1 : p1 = ModifyRailPayment(p, id, price, epoch)
  OBVIOUS
<1>1. epoch \in Nat /\ price \in Nat /\ EPOCHS_PER_MONTH \in Nat \ {0}
  BY SoundParts, EpochsAssumption, Products DEF AllocationInfo, pricePerEpoch
<1>2. CanModifyRailPayment(p, id, price, epoch)
  BY DEF canActivateRail
<1>3. CanModifyRailLockup(p1, id, EPOCHS_PER_MONTH, 0, epoch)
  BY <1>0 DEF canActivateRail
<1>4. q = ModifyRailLockup(p1, id, EPOCHS_PER_MONTH, 0, epoch)
  BY <1>0 DEF ActivatedRail
<1> HIDE DEF price
<1>5. PaySound(p1, epoch)
  BY <1>0, <1>1, <1>2, ModifyRailPaymentSound
<1>6. id \in RailIds /\ old \in LiveRail /\ old.from # ZERO
  BY <1>2, LiveRails DEF CanModifyRailPayment, RailExists
<1>7. p1 \in PayState
  BY <1>5 DEF PaySound
<1>p. p \in PayState /\ p.rails \in [RailIds -> Rail]
  BY PayParts DEF PaySound
<1>8. /\ p1.rails = [p.rails EXCEPT ![id] =
                        [old EXCEPT !.rate = price,
                                    !.settledUpTo = IF price = 0 THEN @ ELSE epoch]]
      /\ p1.paid = p.paid
  <2>1. old.rate = 0 /\ price - old.rate # 0 <=> price # 0
    BY <1>1
  <2>2. /\ p1.rails = [p.rails EXCEPT ![id] =
              [p.rails[id] EXCEPT !.rate = price,
                  !.settledUpTo = IF p.rails[id].rate = 0 /\ price - p.rails[id].rate # 0
                                  THEN epoch ELSE @]]
        /\ p1.paid = p.paid
    BY <1>0, <1>p DEF ModifyRailPayment, PayState
  <2> QED BY <2>1, <2>2
<1>9. PICK r1 : r1 = [old EXCEPT !.rate = price,
                                 !.settledUpTo = IF price = 0 THEN @ ELSE epoch]
  OBVIOUS
<1>10. p1.rails[id] = r1
  BY <1>6, <1>p, <1>8, <1>9
<1>11. OneRail(p1, q, id, Locked(p1.rails[id], EPOCHS_PER_MONTH, 0))
  BY <1>4, <1>6, <1>7, ModifyRailLockupEffect
<1>12. r1.lockupPeriod = 0 /\ r1.endEpoch = old.endEpoch
  BY <1>6, <1>9 DEF LiveRail
<1>13. old.endEpoch = 0
  BY <1>1, <1>3, <1>10, <1>12 DEF CanModifyRailLockup, Terminated
<1>14. [r1 EXCEPT !.lockupPeriod = EPOCHS_PER_MONTH, !.lockupFixed = 0] =
           [old EXCEPT !.rate = price,
                       !.settledUpTo = IF price = 0 THEN @ ELSE epoch,
                       !.lockupPeriod = EPOCHS_PER_MONTH, !.lockupFixed = 0]
  BY <1>6, <1>9 DEF LiveRail
<1>15. /\ \A i \in RailIds \ {id} : q.rails[i] = p.rails[i]
       /\ q.rails[id] = [r1 EXCEPT !.lockupPeriod = EPOCHS_PER_MONTH, !.lockupFixed = 0]
       /\ q.paid = p.paid
  BY <1>6, <1>p, <1>8, <1>10, <1>11 DEF OneRail, Locked
<1> QED BY <1>6, <1>13, <1>14, <1>15 DEF OneRail, price

\* A settlement reaches no epoch that has not passed, and none after the end.
LEMMA SettlementTimely ==
    ASSUME NEW now \in Nat, NEW p, PaySound(p, now), Timely(p, now),
           NEW id, NEW until \in Nat, NEW result,
           CanSettleRail(p, id, until, now, result),
           NEW to, to = Settlement(p, id, until, now, result).to,
           NEW rail, rail = p.rails[id]
    PROVE  /\ to \in Nat /\ rail.settledUpTo \in Nat /\ rail.endEpoch \in Nat
           /\ rail.settledUpTo <= to /\ to <= now
           /\ rail.endEpoch # 0 => to <= rail.endEpoch
<1> DEFINE reach == SettleTo(p, id, until, now)
<1>1. until <= now /\ id \in RailIds /\ rail \in LiveRail
  BY LiveRails DEF CanSettleRail
<1>2. rail.settledUpTo \in Nat /\ rail.endEpoch \in Nat
  BY <1>1 DEF LiveRail
<1>3. /\ reach \in Nat /\ to \in Nat /\ rail.settledUpTo <= to
      /\ to <= Max2(rail.settledUpTo, reach)
  BY SettlementForward
<1>4. reach <= until /\ (rail.endEpoch # 0 => reach <= rail.endEpoch)
  <2>1. PICK far : /\ reach = Min2(until, far)
                   /\ rail.endEpoch # 0 => far = rail.endEpoch
    BY DEF SettleTo, Terminated
  <2>2. CASE until <= far
    <3>1. reach = until
      BY <2>1, <2>2 DEF Min2
    <3> QED BY <2>1, <2>2, <3>1
  <2>3. CASE ~(until <= far)
    <3>1. reach = far
      BY <2>1, <2>3 DEF Min2
    <3>2. far \in Nat
      BY <1>3, <3>1
    <3> QED BY <2>1, <2>3, <3>1, <3>2, <1>2
  <2> QED BY <2>2, <2>3
<1>5. /\ rail.settledUpTo <= now
      /\ rail.endEpoch # 0 => rail.settledUpTo <= rail.endEpoch
  BY <1>1 DEF Timely
<1> HIDE DEF reach
<1>6. CASE rail.settledUpTo >= reach
  <2>1. Max2(rail.settledUpTo, reach) = rail.settledUpTo
    BY <1>6 DEF Max2
  <2> QED BY <2>1, <1>2, <1>3, <1>5
<1>7. CASE ~(rail.settledUpTo >= reach)
  <2>1. Max2(rail.settledUpTo, reach) = reach
    BY <1>7 DEF Max2
  <2> QED BY <2>1, <1>1, <1>2, <1>3, <1>4
<1> QED BY <1>6, <1>7

\* The allocation of the rail is activated in a blacklisted sector.
Blacklisted(st, id) ==
    LET a == st.railIdToAllocationId[id]
        info == st.allocationInfos[a]
    IN  /\ a # 0
        /\ info.activated
        /\ <<info.provider, info.sectorNumber>> \in st.blacklistedSectors

\* What a settlement charges, with the diamond's answer: the rail's rate for
\* each epoch it settles, or nothing if the sector is blacklisted.
LEMMA Charged ==
    ASSUME IInv, NEW c \in PaymentsContracts, NEW id, NEW until \in Nat,
           CanSettle(c, id, until),
           NEW settlement,
           settlement = Settlement(pay[c], id, until, epoch, Validated(c, id, until)),
           NEW rail, rail = pay[c].rails[id]
    PROVE  settlement.amount = IF Blacklisted(s, id) THEN 0
                               ELSE rail.rate * (settlement.to - rail.settledUpTo)
<1> DEFINE p == pay[c]
           proposal == Proposal(p, id, until, epoch)
           result == Validated(c, id, until)
           asked == NeedsValidation(p, id, until, epoch)
<1>1. PaySound(p, epoch) /\ epoch \in Nat
  BY SoundParts
<1>2. rail \in LiveRail
  BY <1>1, LiveRails DEF CanSettle, CanSettleRail
<1>3. rail.rate \in Nat /\ rail.settledUpTo \in Nat
  BY <1>2 DEF LiveRail
<1>4. settlement.to \in Nat /\ rail.settledUpTo <= settlement.to
  <2>1. CanSettleRail(p, id, until, epoch, result)
    BY DEF CanSettle
  <2> HIDE DEF p, result
  <2> QED BY <1>1, <2>1, SettlementForward DEF p, result
<1>5. /\ result.settleUpto = proposal.to
      /\ result.modifiedAmount = IF Blacklisted(s, id) THEN 0 ELSE proposal.amount
  BY DEF Validated, validatePayment, Blacklisted
<1>6. /\ settlement.to = proposal.to
      /\ settlement.amount = IF asked THEN result.modifiedAmount ELSE 0
  <2>0. settlement = Settlement(p, id, until, epoch, result)
    OBVIOUS
  <2> HIDE DEF result
  <2>1. settlement.to = (IF asked THEN result.settleUpto ELSE proposal.to)
    BY <2>0 DEF Settlement
  <2>2. settlement.amount = IF asked THEN result.modifiedAmount ELSE 0
    BY <2>0 DEF Settlement
  <2> QED BY <2>1, <2>2, <1>5
<1>7. proposal.amount = rail.rate * (proposal.to - rail.settledUpTo)
  BY DEF Proposal
<1>8. ~asked => proposal.to = rail.settledUpTo \/ rail.rate = 0
  <2>1. asked <=> proposal.to > rail.settledUpTo /\ rail.rate > 0
    BY DEF NeedsValidation, Proposal
  <2> QED BY <2>1, <1>3, <1>4, <1>6
<1> HIDE DEF proposal, asked, result
<1>9. CASE asked
  BY <1>9, <1>5, <1>6, <1>7
<1>10. CASE ~asked
  <2>1. CASE rail.rate = 0
    BY <2>1, <1>10, <1>3, <1>4, <1>6
  <2>2. CASE proposal.to = rail.settledUpTo
    BY <2>2, <1>10, <1>3, <1>4, <1>6
  <2> QED BY <2>1, <2>2, <1>8, <1>10
<1> QED BY <1>9, <1>10

----------------------------------------------------------------------------
(* What the steps of the diamond do to rails and allocations.              *)

\* A settlement, with the diamond's answer.
LEMMA SettleEffect ==
    ASSUME IInv, NEW c \in PaymentsContracts, Timely(pay[c], epoch),
           NEW id, NEW until \in Nat,
           CanSettle(c, id, until), Settle(c, id, until),
           NEW rail, rail = pay[c].rails[id]
    PROVE  /\ id \in RailIds /\ rail \in LiveRail /\ rail.from # ZERO
           /\ \E to \in Nat :
                 /\ rail.settledUpTo <= to /\ to <= epoch
                 /\ rail.endEpoch # 0 => to <= rail.endEpoch
                 /\ RailSettled(pay[c], pay'[c], id, to)
                 /\ pay'[c].paid[id] = pay[c].paid[id]
                        + IF Blacklisted(s, id) THEN 0
                          ELSE rail.rate * (to - rail.settledUpTo)
<1>1. PICK p : p = pay[c]
  OBVIOUS
<1>2. PICK result : result = Validated(c, id, until)
  OBVIOUS
<1>3. CanSettleRail(p, id, until, epoch, result) /\ PaySound(p, epoch) /\ epoch \in Nat
  BY <1>1, <1>2, SoundParts DEF CanSettle
<1>4. PICK q : q = SettleRail(p, id, until, epoch, result)
  OBVIOUS
<1>5. pay'[c] = q
  BY <1>1, <1>2, <1>4, SoundParts DEF Settle
<1>6. PICK settlement : settlement = Settlement(p, id, until, epoch, result)
  OBVIOUS
<1>7. id \in RailIds /\ rail \in LiveRail /\ rail.from # ZERO
  BY <1>1, <1>3, LiveRails DEF CanSettleRail, RailExists
<1>8. RailSettled(p, q, id, settlement.to) /\ q.paid[id] = p.paid[id] + settlement.amount
  <2>1. RailSettled(p, q, id, settlement.to)
    BY <1>3, <1>4, <1>6, SettleRailEffect
  <2>2. RailPaid(p, q, id, settlement.amount)
    BY <1>3, <1>4, <1>6, SettleRailEffect
  <2> QED BY <2>1, <2>2 DEF RailPaid
<1>9. settlement.amount = IF Blacklisted(s, id) THEN 0
                          ELSE rail.rate * (settlement.to - rail.settledUpTo)
  BY <1>1, <1>2, <1>6, Charged
<1>10. /\ settlement.to \in Nat
       /\ rail.settledUpTo <= settlement.to /\ settlement.to <= epoch
       /\ rail.endEpoch # 0 => settlement.to <= rail.endEpoch
  BY <1>1, <1>3, <1>6, SettlementTimely
<1> QED BY <1>1, <1>5, <1>7, <1>8, <1>9, <1>10

\* A settled rail is in time, and no other is opened or paid on.
LEMMA SettledRails ==
    ASSUME NEW now \in Nat, NEW p, NEW q, PaySound(p, now), Timely(p, now),
           NEW id \in RailIds, NEW rail, rail = p.rails[id], rail \in LiveRail,
           rail.from # ZERO,
           NEW to \in Nat, to <= now, rail.endEpoch # 0 => to <= rail.endEpoch,
           RailSettled(p, q, id, to)
    PROVE  Timely(q, now) /\ OnlyLive(p, q)
<1>1. \/ q.rails[id] = NoRail
      \/ /\ q.rails[id].settledUpTo = to
         /\ q.rails[id].endEpoch = rail.endEpoch
  BY DEF RailSettled, LiveRail
<1>2. /\ q.rails[id].settledUpTo <= now
      /\ q.rails[id].endEpoch # 0 => q.rails[id].settledUpTo <= q.rails[id].endEpoch
  BY <1>1 DEF NoRail
<1>3. Timely(q, now)
  BY <1>2 DEF RailSettled, Timely
<1>4. OnlyLive(p, q)
  BY DEF RailSettled, OnlyLive
<1> QED BY <1>3, <1>4

\* The storage with a new allocation a, with the payments contract c in state q.
Created(a, n, info, c, q) ==
    /\ a \in AllocationIds /\ n \in RailIds /\ info \in AllocationInfo
    /\ s.allocationInfos[a].client = ZERO
    /\ s'.allocationInfos = [s.allocationInfos EXCEPT ![a] = info]
    /\ s'.railIdToAllocationId = [s.railIdToAllocationId EXCEPT ![n] = a]
    /\ info.client = call.client /\ info.client # ZERO
    /\ info.railId = n /\ info.activated = FALSE
    /\ n = pay[c].nextRailId /\ pay' = [pay EXCEPT ![c] = q]
    /\ \A i \in RailIds \ {n} : q.rails[i] = pay[c].rails[i]
    /\ q.paid = pay[c].paid
    /\ q.rails[n].from # ZERO
    /\ q.rails[n].settledUpTo = epoch /\ q.rails[n].endEpoch = 0

\* A new allocation: a free id, a new rail that is settled up to now, and the
\* two of them bound.
LEMMA CreateEffect ==
    ASSUME IInv, s.paymentsContract # ZERO, createAllocation,
           NEW c, c = s.paymentsContract
    PROVE  /\ c \in PaymentsContracts /\ s'.paymentsContract = c
           /\ \E a, n, info, q : Created(a, n, info, c, q)
<1> DEFINE a == call.newAllocations[call.i]
           piece == call.pieceInfos[call.i]
           p == pay[c]
           n == p.nextRailId
           info == [client |-> call.client,
                    provider |-> piece.provider,
                    activated |-> FALSE,
                    pieceCidHash |-> piece.pieceCid,
                    paymentToken |-> piece.paymentTokenAddress,
                    pieceSize |-> piece.size,
                    railId |-> n,
                    pricePerBytePerEpoch |->
                        SPPrice(piece.provider, piece.paymentTokenAddress),
                    sectorNumber |-> 0]
<1>1. /\ call.client \in Clients /\ call.client # ZERO
      /\ a \in AllocationIds /\ piece \in PieceInfo
  BY CreateFrameParts, ZeroAssumption DEF createAllocation
<1>2. s \in DDOState /\ c \in PaymentsContracts /\ PaySound(p, epoch)
  BY SoundParts DEF DDOState
<1>3. CanOpenRail(p, piece, call.client) /\ s.allocationInfos[a].client = ZERO
  BY DEF createAllocation, canCreateAllocation
<1>4. PICK q : q = OpenedRail(p, piece, call.client)
  OBVIOUS
<1>5. pay' = [pay EXCEPT ![c] = q]
  BY <1>4 DEF createAllocation
<1>6. /\ s'.allocationInfos = [s.allocationInfos EXCEPT ![a] = info]
      /\ s'.railIdToAllocationId = [s.railIdToAllocationId EXCEPT ![n] = a]
      /\ s'.paymentsContract = c
  BY <1>2 DEF createAllocation, DDOState
<1>7. SPPrice(piece.provider, piece.paymentTokenAddress) \in Nat
  <2>1. supportsToken(piece.provider, piece.paymentTokenAddress)
    BY <1>3 DEF CanOpenRail
  <2> HIDE DEF piece
  <2> QED BY <2>1, <1>1, SPPriceType DEF PieceInfo
<1>8. n \in RailIds /\ n \in Nat
  <2> HIDE DEF p, piece
  <2>1. n \in RailIds
    BY <1>1, <1>2, <1>3, OpenedRailSound
  <2> QED BY <2>1, MaxRailsAssumption DEF RailIds
<1>9. info \in AllocationInfo
  <2> HIDE DEF n, piece
  <2> QED BY <1>1, <1>7, <1>8 DEF AllocationInfo, PieceInfo
<1>10. /\ \A i \in RailIds \ {n} : q.rails[i] = p.rails[i]
       /\ q.paid = p.paid
       /\ q.rails[n].from = call.client
       /\ q.rails[n].settledUpTo = epoch /\ q.rails[n].endEpoch = 0
  <2> HIDE DEF p, piece
  <2> QED BY <1>1, <1>2, <1>3, <1>4, OpenedRailServes
<1>11. /\ info.client = call.client /\ info.railId = n /\ info.activated = FALSE
  OBVIOUS
<1> HIDE DEF info, a, piece
<1>12. /\ s.allocationInfos[a].client = ZERO
       /\ info.client # ZERO /\ q.rails[n].from # ZERO
       /\ n = pay[c].nextRailId
  BY <1>1, <1>3, <1>10, <1>11
<1>13. a \in AllocationIds
  BY <1>1
<1> HIDE DEF n
<1>14. Created(a, n, info, c, q)
  BY <1>5, <1>6, <1>8, <1>9, <1>10, <1>11, <1>12, <1>13 DEF Created
<1> QED BY <1>2, <1>6, <1>14

\* The rail of an activated allocation.
Activating(rail, price, now) ==
    [rail EXCEPT !.rate = price,
                 !.settledUpTo = IF price = 0 THEN @ ELSE now,
                 !.lockupPeriod = EPOCHS_PER_MONTH, !.lockupFixed = 0]

\* The storage with allocation a activated, with the payments contract c in
\* state q.
Started(a, sector, info, c, q, rail) ==
    /\ a \in Allocated(s)
    /\ info = s.allocationInfos[a] /\ info \in AllocationInfo
    /\ info.activated = FALSE /\ info.provider = call.miner
    /\ info.railId \in RailIds
    /\ s'.allocationInfos = [s.allocationInfos EXCEPT ![a] =
           [info EXCEPT !.activated = TRUE, !.sectorNumber = sector]]
    /\ pay' = [pay EXCEPT ![c] = q]
    /\ rail = pay[c].rails[info.railId] /\ rail \in LiveRail
    /\ rail.from # ZERO /\ rail.endEpoch = 0
    /\ OneRail(pay[c], q, info.railId, Activating(rail, pricePerEpoch(info), epoch))

\* An allocation that is activated: it was pending, its rail had no end, and the
\* rail starts.
LEMMA ActivateEffect ==
    ASSUME IInv, RailInv(s, pay), activatePiece, NEW c, c = s.paymentsContract
    PROVE  /\ c \in PaymentsContracts /\ s'.paymentsContract = c
           /\ s'.railIdToAllocationId = s.railIdToAllocationId
           /\ \E a, sector, info, q, rail : Started(a, sector, info, c, q, rail)
<1> DEFINE piece == call.pieces[call.i]
           a == piece.allocationId
           sector == piece.sectorNumber
           info == s.allocationInfos[a]
           p == pay[c]
<1>1. a \in AllocationIds /\ info \in AllocationInfo /\ a \in Allocated(s)
  <2>1. a \in AllocationIds
    BY NotifyFrameParts DEF activatePiece, NotificationPiece
  <2>2. info.client # ZERO
    BY DEF activatePiece, accepts
  <2> QED BY <2>1, <2>2, SoundParts DEF DDOState, Allocated
<1>2. /\ s \in DDOState /\ c \in PaymentsContracts /\ PaySound(p, epoch)
      /\ info.railId \in RailIds
  <2> HIDE DEF a
  <2> QED BY <1>1, SoundParts, AllocatedContract
<1>3. /\ canActivateRail(p, info) /\ ~info.activated /\ info.provider = call.miner
  BY DEF activatePiece, accepts
<1>4. PICK rail : rail = p.rails[info.railId]
  OBVIOUS
<1>5. rail.from # ZERO => rail.rate = 0 /\ rail.lockupPeriod = 0
  <2>1. ServesAllocation(rail, info)
    <3> HIDE DEF a
    <3> QED BY <1>1, <1>4 DEF RailInv, RailsServe
  <2> QED BY <2>1, <1>3 DEF ServesAllocation
<1>6. PICK q : q = ActivatedRail(p, info)
  OBVIOUS
<1>7. rail \in LiveRail /\ rail.from # ZERO
  <2> HIDE DEF info, p
  <2> QED BY <1>2, <1>3, <1>4, LiveRails
          DEF canActivateRail, CanModifyRailPayment, RailExists
<1>8. /\ rail.endEpoch = 0
      /\ OneRail(p, q, info.railId, Activating(rail, pricePerEpoch(info), epoch))
  <2> HIDE DEF info, p
  <2> QED BY <1>1, <1>2, <1>3, <1>4, <1>5, <1>6, <1>7, ActivatedRailEffect DEF Activating
<1>9. pay' = [pay EXCEPT ![c] = q]
  BY <1>6 DEF activatePiece
<1>10. /\ s'.allocationInfos = [s.allocationInfos EXCEPT ![a] =
              [info EXCEPT !.activated = TRUE, !.sectorNumber = sector]]
       /\ s'.railIdToAllocationId = s.railIdToAllocationId
       /\ s'.paymentsContract = c
  <2>1. [info EXCEPT !.activated = TRUE, !.sectorNumber = sector] =
            [info EXCEPT !.sectorNumber = sector, !.activated = TRUE]
    <3> HIDE DEF info, sector
    <3> QED BY <1>1 DEF AllocationInfo
  <2>2. s'.allocationInfos = [s.allocationInfos EXCEPT ![a] =
              [info EXCEPT !.sectorNumber = sector, !.activated = TRUE]]
    BY <1>1, <1>2 DEF activatePiece, DDOState
  <2>3. s'.railIdToAllocationId = s.railIdToAllocationId /\ s'.paymentsContract = c
    BY <1>2 DEF activatePiece, DDOState
  <2> QED BY <2>1, <2>2, <2>3
<1>11. info = s.allocationInfos[a] /\ info.activated = FALSE
  BY <1>1, <1>3 DEF AllocationInfo
<1> HIDE DEF info, sector, a
<1>12. Started(a, sector, info, c, q, rail)
  BY <1>1, <1>2, <1>3, <1>4, <1>7, <1>8, <1>9, <1>10, <1>11 DEF Started
<1> QED BY <1>1, <1>2, <1>10, <1>12

----------------------------------------------------------------------------
(* RailsInv is an invariant.                                               *)

\* A step that opens no rail, pays on none that is not there, and keeps every
\* rail in time.
Settling(pays, pays2, now) ==
    \A c \in PaymentsContracts : OnlyLive(pays[c], pays2[c]) /\ Timely(pays2[c], now)

LEMMA PaidRailsKept ==
    ASSUME NEW st, NEW st2, NEW pays, NEW pays2, NEW now,
           PaidRails(st, pays, now), Settling(pays, pays2, now),
           st2.railIdToAllocationId = st.railIdToAllocationId
    PROVE  PaidRails(st2, pays2, now)
BY DEF PaidRails, UnboundUnpaid, Settling, OnlyLive

\* A step that changes one payments contract, and there neither opens a rail nor
\* settles one out of time.
LEMMA OneSettling ==
    ASSUME IInv, PaidRails(s, pay, epoch), NEW c, NEW q, pay' = [pay EXCEPT ![c] = q],
           c \in PaymentsContracts => OnlyLive(pay[c], q) /\ Timely(q, epoch)
    PROVE  Settling(pay, pay', epoch)
<1>1. \A d \in PaymentsContracts : pay'[d] = IF d = c THEN q ELSE pay[d]
  BY SoundParts
<1>2. \A d \in PaymentsContracts : OnlyLive(pay[d], pay[d]) /\ Timely(pay[d], epoch)
  BY DEF OnlyLive, PaidRails
<1> QED BY <1>1, <1>2 DEF Settling

LEMMA SettleSettling ==
    ASSUME IInv, PaidRails(s, pay, epoch), NEW c, NEW id, NEW until \in Nat,
           CanSettle(c, id, until), Settle(c, id, until)
    PROVE  Settling(pay, pay', epoch)
<1>1. PICK q : q = SettleRail(pay[c], id, until, epoch, Validated(c, id, until))
  OBVIOUS
<1>2. pay' = [pay EXCEPT ![c] = q]
  BY <1>1 DEF Settle
<1>3. ASSUME c \in PaymentsContracts
      PROVE  OnlyLive(pay[c], q) /\ Timely(q, epoch)
  <2>1. pay'[c] = q
    BY <1>2, <1>3, SoundParts
  <2>2. PaySound(pay[c], epoch) /\ Timely(pay[c], epoch) /\ epoch \in Nat
    BY <1>3, SoundParts DEF PaidRails
  <2>3. PICK rail : rail = pay[c].rails[id]
    OBVIOUS
  <2>4. /\ id \in RailIds /\ rail \in LiveRail /\ rail.from # ZERO
        /\ \E to \in Nat :
              /\ to <= epoch /\ (rail.endEpoch # 0 => to <= rail.endEpoch)
              /\ RailSettled(pay[c], q, id, to)
    BY <1>3, <2>1, <2>2, <2>3, SettleEffect
  <2> QED BY <2>2, <2>3, <2>4, SettledRails
<1> QED BY <1>2, <1>3, OneSettling

\* A rail that is ended is in time: its end is not before now.
LEMMA TerminateSettling ==
    ASSUME IInv, PaidRails(s, pay, epoch), NEW c \in PaymentsContracts, NEW id,
           terminateRail(c, id)
    PROVE  Settling(pay, pay', epoch)
<1>1. PICK q : q = TerminateRail(pay[c], id, epoch)
  OBVIOUS
<1>2. pay' = [pay EXCEPT ![c] = q]
  BY <1>1 DEF terminateRail
<1>3. /\ PaySound(pay[c], epoch) /\ Timely(pay[c], epoch) /\ epoch \in Nat
      /\ CanTerminateRail(pay[c], id, epoch)
  BY SoundParts DEF PaidRails, terminateRail
<1>4. PICK old : old = pay[c].rails[id]
  OBVIOUS
<1>5. /\ id \in RailIds /\ old \in LiveRail /\ old.from # ZERO
      /\ OneRail(pay[c], q, id, [old EXCEPT !.endEpoch = epoch + old.lockupPeriod])
  <2>1. PICK p : p = pay[c]
    OBVIOUS
  <2> QED BY <2>1, <1>1, <1>3, <1>4, TerminateRailEffect
<1>6. /\ q.rails[id].settledUpTo = old.settledUpTo
      /\ q.rails[id].endEpoch = epoch + old.lockupPeriod
      /\ q.rails[id].from = old.from
  BY <1>5 DEF OneRail, LiveRail
<1>7. old.settledUpTo <= epoch /\ old.settledUpTo \in Nat /\ old.lockupPeriod \in Nat
  BY <1>3, <1>4, <1>5 DEF Timely, LiveRail
<1>8. Timely(q, epoch)
  <2>1. \A i \in RailIds \ {id} : q.rails[i] = pay[c].rails[i]
    BY <1>5 DEF OneRail
  <2> QED BY <2>1, <1>3, <1>6, <1>7 DEF Timely
<1>9. OnlyLive(pay[c], q)
  BY <1>4, <1>5 DEF OnlyLive, OneRail
<1> QED BY <1>2, <1>8, <1>9, OneSettling

\* The transactions of the clients.
LEMMA ClientSettling ==
    ASSUME IInv, PaidRails(s, pay, epoch), AnyClient
    PROVE  Settling(pay, pay', epoch)
<1>1. ASSUME NEW c \in PaymentsContracts, NEW q, pay' = [pay EXCEPT ![c] = q],
             q.rails = pay[c].rails, q.paid = pay[c].paid
      PROVE  Settling(pay, pay', epoch)
  <2>1. OnlyLive(pay[c], q) /\ Timely(q, epoch)
    BY <1>1 DEF OnlyLive, PaidRails, Timely
  <2> QED BY <1>1, <2>1, OneSettling
<1>2. ASSUME NEW c \in PaymentsContracts, NEW k \in Clients \X Tokens,
             NEW amount \in Nat, AnyDeposit(c, k, amount) \/ withdraw(c, k, amount)
      PROVE  Settling(pay, pay', epoch)
  <2>1. PICK q : q = Deposit(pay[c], k, amount, epoch)
    OBVIOUS
  <2>2. PICK w : w = Withdraw(pay[c], k, amount, epoch)
    OBVIOUS
  <2>3. /\ q.rails = pay[c].rails /\ q.paid = pay[c].paid
        /\ w.rails = pay[c].rails /\ w.paid = pay[c].paid
    BY <2>1, <2>2, SoundParts, ClientEffect
  <2>4. pay' = [pay EXCEPT ![c] = q] \/ pay' = [pay EXCEPT ![c] = w]
    BY <1>2, <2>1, <2>2 DEF AnyDeposit, withdraw
  <2> QED BY <1>1, <2>3, <2>4
<1>3. ASSUME NEW c \in PaymentsContracts, NEW k \in Clients \X Tokens,
             NEW limits \in ApprovalLimits, setOperatorApproval(c, k, limits)
      PROVE  Settling(pay, pay', epoch)
  <2>1. PICK q : q = SetOperatorApproval(pay[c], k, limits)
    OBVIOUS
  <2>2. q.rails = pay[c].rails /\ q.paid = pay[c].paid
    BY <2>1, SoundParts, ClientEffect
  <2>3. pay' = [pay EXCEPT ![c] = q]
    BY <1>3, <2>1 DEF setOperatorApproval
  <2> QED BY <1>1, <2>2, <2>3
<1>4. ASSUME NEW c \in PaymentsContracts, NEW r \in RailIds, terminateRail(c, r)
      PROVE  Settling(pay, pay', epoch)
  BY <1>4, TerminateSettling
<1>5. ASSUME NEW c \in PaymentsContracts, NEW r \in RailIds, settleRail(c, r)
      PROVE  Settling(pay, pay', epoch)
  BY <1>5, SoundParts, SettleSettling DEF settleRail
<1> QED BY <1>2, <1>3, <1>4, <1>5 DEF AnyClient

\* A rail that starts is settled up to now, or stays where it was.
LEMMA ActivateSettling ==
    ASSUME IInv, RailInv(s, pay), PaidRails(s, pay, epoch), activatePiece
    PROVE  /\ Settling(pay, pay', epoch)
           /\ s'.railIdToAllocationId = s.railIdToAllocationId
<1>1. PICK c : c = s.paymentsContract
  OBVIOUS
<1>2. /\ c \in PaymentsContracts
      /\ s'.railIdToAllocationId = s.railIdToAllocationId
  BY <1>1, ActivateEffect
<1>0. PICK a, sector, info, q, rail : Started(a, sector, info, c, q, rail)
  BY <1>1, ActivateEffect
<1>3. /\ info \in AllocationInfo /\ info.railId \in RailIds
      /\ pay' = [pay EXCEPT ![c] = q]
      /\ rail = pay[c].rails[info.railId] /\ rail \in LiveRail
      /\ rail.from # ZERO /\ rail.endEpoch = 0
      /\ OneRail(pay[c], q, info.railId,
                 Activating(rail, pricePerEpoch(info), epoch))
  BY <1>0 DEF Started
<1>4. PICK id : id = info.railId
  OBVIOUS
<1>5. /\ q.rails[id].settledUpTo = (IF pricePerEpoch(info) = 0 THEN rail.settledUpTo
                                    ELSE epoch)
      /\ q.rails[id].endEpoch = 0
  BY <1>3, <1>4 DEF OneRail, Activating, LiveRail
<1>6. Timely(pay[c], epoch) /\ epoch \in Nat /\ rail.settledUpTo <= epoch
  BY <1>2, <1>3, SoundParts DEF PaidRails, Timely
<1>7. Timely(q, epoch)
  <2>1. \A i \in RailIds \ {id} : q.rails[i] = pay[c].rails[i]
    BY <1>3, <1>4 DEF OneRail
  <2> QED BY <2>1, <1>5, <1>6 DEF Timely
<1>8. OnlyLive(pay[c], q)
  BY <1>3, <1>4 DEF OnlyLive, OneRail
<1> QED BY <1>2, <1>3, <1>7, <1>8, OneSettling

\* A new rail is bound, and settled up to now.
LEMMA CreatePaidRails ==
    ASSUME SingleContract, IInv, RailInv(s, pay), PaidRails(s, pay, epoch),
           s.paymentsContract # ZERO, createAllocation
    PROVE  PaidRails(s', pay', epoch)
<1>1. PICK c : c = s.paymentsContract
  OBVIOUS
<1>2. c \in PaymentsContracts
  BY <1>1, CreateEffect
<1>0. PICK a, n, info, q : Created(a, n, info, c, q)
  BY <1>1, CreateEffect
<1>3. /\ a \in AllocationIds /\ n \in RailIds
      /\ s'.railIdToAllocationId = [s.railIdToAllocationId EXCEPT ![n] = a]
      /\ pay' = [pay EXCEPT ![c] = q]
      /\ \A i \in RailIds \ {n} : q.rails[i] = pay[c].rails[i]
      /\ q.paid = pay[c].paid
      /\ q.rails[n].settledUpTo = epoch /\ q.rails[n].endEpoch = 0
  BY <1>0 DEF Created
<1>4. /\ s.railIdToAllocationId \in [RailIds -> AllocationIds \cup {0}]
      /\ Timely(pay[c], epoch) /\ epoch \in Nat /\ a # 0
  BY <1>2, <1>3, SoundParts, IdsAssumption DEF PaidRails, DDOState
<1>5. \A d \in PaymentsContracts : d = c /\ pay'[d] = q
  BY <1>2, <1>3, SoundParts DEF SingleContract
<1>6. Timely(q, epoch)
  BY <1>3, <1>4 DEF Timely
<1>7. ASSUME NEW r \in RailIds, s'.railIdToAllocationId[r] = 0
      PROVE  q.rails[r].from = ZERO /\ q.paid[r] = 0
  <2>1. r # n /\ s.railIdToAllocationId[r] = 0
    BY <1>3, <1>4, <1>7
  <2> QED BY <2>1, <1>2, <1>3 DEF PaidRails, UnboundUnpaid
<1> QED BY <1>5, <1>6, <1>7 DEF PaidRails, UnboundUnpaid

\* Every step keeps the rails that are not bound unpaid, and all rails in time.
LEMMA RailsInvStep ==
    ASSUME SingleContract, RailsInv, Steps, AllocationInv'
    PROVE  RailsInv'
<1>0. /\ IInv /\ RailInv(s, pay) /\ s \in DDOState /\ epoch \in Nat
      /\ PaidRails(s, pay, epoch) /\ PaidRails(committed.s, committed.pay, epoch)
      /\ call.fn = "create" => s.paymentsContract # ZERO
  BY SoundParts DEF RailsInv, AllocationInv
<1>1. ASSUME PaidRails(s', pay', epoch'),
             PaidRails(committed'.s, committed'.pay, epoch')
      PROVE  RailsInv'
  BY <1>1 DEF RailsInv
<1>2. CASE Whole
  <2>1. CASE AnyAdmin \/ AnySP
    <3>1. /\ s'.railIdToAllocationId = s.railIdToAllocationId
          /\ pay' = pay
      BY <1>0, <2>1, OwnerChanges
    <3>2. epoch' = epoch
      BY <2>1 DEF AnyAdmin, AnySP, OwnerTransaction,
                  setPaymentsContract, setCommissionRate, setAllocationLockupAmount,
                  pause, unpause, blacklistSector, registerSP, updateSPConfig,
                  addSPToken, updateSPToken, removeSPToken, deactivateSP
    <3>3. PaidRails(s', pay', epoch')
      BY <1>0, <3>1, <3>2 DEF PaidRails, UnboundUnpaid
    <3> QED BY <1>0, <1>1, <1>2, <3>3, Commits
  <2>2. CASE AnyClient
    <3>1. s' = s /\ epoch' = epoch
      BY <2>2 DEF AnyClient, ClientTransaction, AnyDeposit, withdraw,
                  setOperatorApproval, terminateRail, settleRail
    <3>2. PaidRails(s', pay', epoch')
      BY <1>0, <2>2, <3>1, ClientSettling, PaidRailsKept
    <3> QED BY <1>0, <1>1, <1>2, <3>2, Commits
  <2>3. CASE Tick
    <3>1. s' = s /\ pay' = pay /\ epoch' = epoch + 1
      BY <2>3 DEF Tick
    <3>2. \A c \in PaymentsContracts : Timely(pay[c], epoch + 1)
      <4>1. \A c \in PaymentsContracts, r \in RailIds : pay[c].rails[r].settledUpTo \in Nat
        BY <1>0, SoundParts, SoundNumbers
      <4>2. \A c \in PaymentsContracts, r \in RailIds :
                pay[c].rails[r].settledUpTo <= epoch + 1
        BY <1>0, <4>1 DEF PaidRails, Timely
      <4> QED BY <1>0, <4>2 DEF PaidRails, Timely
    <3>3. PaidRails(s', pay', epoch')
      BY <1>0, <3>1, <3>2 DEF PaidRails
    <3> QED BY <1>0, <1>1, <1>2, <3>3, Commits
  <2>4. ASSUME NEW a, NEW until \in Nat, settleSpPayment(a, until)
        PROVE  RailsInv'
    <3>1. s' = s /\ epoch' = epoch
      BY <2>4 DEF settleSpPayment
    <3>2. PICK id : /\ CanSettle(s.paymentsContract, id, until)
                    /\ Settle(s.paymentsContract, id, until)
      BY <2>4 DEF settleSpPayment
    <3>3. PaidRails(s', pay', epoch')
      BY <1>0, <3>1, <3>2, SettleSettling, PaidRailsKept
    <3> QED BY <1>0, <1>1, <1>2, <3>3, Commits
  <2> QED BY <1>2, <2>1, <2>2, <2>3, <2>4 DEF Whole
<1>3. CASE Begins
  <2>1. PaidRails(s', pay', epoch')
    BY <1>0, <1>3, BeginsKeeps DEF Begins, PaidRails, UnboundUnpaid
  <2> QED BY <1>0, <1>1, <1>3, <2>1, Commits
<1>4. CASE Continues
  <2>1. epoch' = epoch
    BY <1>4 DEF Continues
  <2>2. PaidRails(s', pay', epoch)
    <3>1. CASE createAllocation
      <4>1. s.paymentsContract # ZERO
        BY <1>0, <3>1 DEF createAllocation, creating
      <4> QED BY <1>0, <3>1, <4>1, CreatePaidRails
    <3>2. CASE activatePiece
      BY <1>0, <3>2, ActivateSettling, PaidRailsKept
    <3>3. CASE rejectPiece \/ settleSkip
      BY <1>0, <3>3 DEF rejectPiece, settleSkip
    <3>4. CASE settleNext
      <4>1. call.untilEpoch \in Nat
        BY <1>0, <3>4, SettleFrameType DEF settleNext, settling
      <4>2. /\ s' = s
            /\ \E id : /\ CanSettle(s.paymentsContract, id, call.untilEpoch)
                       /\ Settle(s.paymentsContract, id, call.untilEpoch)
        BY <3>4 DEF settleNext
      <4> QED BY <1>0, <4>1, <4>2, SettleSettling, PaidRailsKept
    <3> QED BY <1>4, <3>1, <3>2, <3>3, <3>4 DEF Continues
  <2> QED BY <1>0, <1>1, <1>4, <2>1, <2>2, Commits
<1>5. CASE Reverts
  <2>1. s' = committed.s /\ pay' = committed.pay /\ epoch' = epoch
    BY <1>5 DEF Reverts, Revert, committed
  <2> QED BY <1>0, <1>1, <1>5, <2>1, Commits
<1>6. CASE Returns
  <2>1. PaidRails(s', pay', epoch')
    BY <1>0, <1>6, ReturnsKeeps DEF Returns, PaidRails, UnboundUnpaid
  <2> QED BY <1>0, <1>1, <1>6, <2>1, Commits DEF Returns
<1>7. CASE UNCHANGED vars
  BY <1>0, <1>1, <1>7, Commits DEF vars
<1> QED BY <1>2, <1>3, <1>4, <1>5, <1>6, <1>7 DEF Steps

LEMMA RailsInvInit ==
    ASSUME Init
    PROVE  RailsInv
<1>1. AllocationInv
  BY AllocationInvInit
<1>2. /\ \A c \in PaymentsContracts : pay[c] = PayInit
      /\ epoch = 0 /\ call = Idle
  BY DEF Init
<1>3. PaidRails(s, pay, epoch)
  BY <1>2 DEF PaidRails, UnboundUnpaid, Timely, PayInit, NoRail
<1> QED BY <1>1, <1>2, <1>3 DEF RailsInv, committed, Snapshot

\* With one payments contract, no rail is settled beyond the present or its end,
\* and rails without an allocation do not exist and are not paid on, in the
\* running state and in what a revert would put back.
THEOREM RailsInvariance ==
    ASSUME SingleContract
    PROVE  Spec => []RailsInv
<1>1. Init => RailsInv
  BY RailsInvInit
<1>2. SingleContract /\ RailsInv /\ [AnyNext]_vars /\ AllocationInv' => RailsInv'
  BY RailsInvStep, StepKinds DEF RailsInv, AllocationInv
<1> QED BY <1>1, <1>2, AllocationInvariance, SpecIsAny, PTL

----------------------------------------------------------------------------
(* Agreements.                                                             *)

\* The agreement of an allocation with its rail and what was paid on it.
AgreementOf(info, rail, paid) ==
    [client |-> info.client, provider |-> info.provider,
     token |-> info.paymentToken, price |-> pricePerEpoch(info),
     activated |-> info.activated, sector |-> info.sectorNumber,
     open |-> rail.from # ZERO, settledTo |-> rail.settledUpTo,
     end |-> rail.endEpoch, paid |-> paid]

AgreementType ==
    [client: Clients \cup {ZERO}, provider: Providers \cup {0},
     token: Tokens \cup {ZERO}, price: Nat, activated: BOOLEAN,
     sector: Sectors \cup {0}, open: BOOLEAN, settledTo: Nat, end: Nat, paid: Nat]

LEMMA AgreementParts ==
    ASSUME NEW st, NEW pays, NEW a, NEW info, info = st.allocationInfos[a],
           NEW p, p = pays[st.paymentsContract]
    PROVE  Agreement(st, pays, a) =
               IF info.client = ZERO THEN Lifecycle!None
               ELSE AgreementOf(info, p.rails[info.railId], p.paid[info.railId])
BY DEF Agreement, AgreementOf, Lifecycle!None

\* An agreement stays the same if its allocation and its rail do.
LEMMA SameAgreement ==
    ASSUME NEW st, NEW pays, NEW st2, NEW pays2, NEW a,
           NEW info, info = st.allocationInfos[a], st2.allocationInfos[a] = info,
           NEW c, c = st.paymentsContract,
           info.client # ZERO =>
               /\ st2.paymentsContract = c
               /\ pays2[c].rails[info.railId] = pays[c].rails[info.railId]
               /\ pays2[c].paid[info.railId] = pays[c].paid[info.railId]
    PROVE  Agreement(st2, pays2, a) = Agreement(st, pays, a)
BY DEF Agreement

\* An agreement with the fields of an allocation and its rail.
Tells(agreement, info, rail, paid) ==
    /\ agreement \in AgreementType
    /\ agreement.client = info.client /\ agreement.provider = info.provider
    /\ agreement.token = info.paymentToken
    /\ agreement.price = pricePerEpoch(info)
    /\ agreement.activated = info.activated
    /\ agreement.sector = info.sectorNumber
    /\ agreement.open <=> rail.from # ZERO
    /\ agreement.settledTo = rail.settledUpTo
    /\ agreement.end = rail.endEpoch /\ agreement.paid = paid

LEMMA AgreementFields ==
    ASSUME NEW info \in AllocationInfo, NEW rail \in Rail, NEW paid \in Nat
    PROVE  Tells(AgreementOf(info, rail, paid), info, rail, paid)
<1>1. pricePerEpoch(info) \in Nat
  BY Products DEF pricePerEpoch, AllocationInfo
<1>2. rail.settledUpTo \in Nat /\ rail.endEpoch \in Nat
  BY DEF Rail, LiveRail, NoRail
<1> QED BY <1>1, <1>2 DEF AgreementOf, AgreementType, AllocationInfo, Tells

\* Who is paid, by whom and how much.
SameTerms(old, new) ==
    /\ new.client = old.client /\ new.provider = old.provider
    /\ new.token = old.token /\ new.price = old.price

\* What becomes of one agreement, field by field.
LEMMA ActivatedFields ==
    ASSUME NEW now \in Nat, NEW old \in AgreementType, NEW new \in AgreementType,
           old.open, ~old.activated, old.end = 0, SameTerms(old, new),
           new.activated, new.open, new.end = 0, new.paid = old.paid,
           new.settledTo = IF old.price = 0 THEN old.settledTo ELSE now
    PROVE  ActivatedAt(old, new, now)
<1>1. new = [old EXCEPT !.activated = TRUE, !.sector = new.sector,
                        !.settledTo = IF old.price = 0 THEN @ ELSE now]
  BY DEF AgreementType, SameTerms
<1> QED BY <1>1 DEF ActivatedAt

LEMMA EndedFields ==
    ASSUME NEW now \in Nat, NEW old \in AgreementType, NEW new \in AgreementType,
           old.open, old.end = 0, SameTerms(old, new),
           new.activated = old.activated, new.sector = old.sector, new.open,
           new.settledTo = old.settledTo, new.paid = old.paid,
           new.end = now + IF old.activated THEN EPOCHS_PER_MONTH ELSE 0
    PROVE  EndedAt(old, new, now)
<1>1. new = [old EXCEPT !.end = now + IF old.activated THEN EPOCHS_PER_MONTH ELSE 0]
  BY EpochsAssumption DEF AgreementType, SameTerms
<1> QED BY <1>1 DEF EndedAt

\* The agreement is settled to an epoch.
RailSettledTo(old, new, to, blacklist) ==
    /\ old.open
    /\ SameTerms(old, new)
    /\ new.activated = old.activated /\ new.sector = old.sector
    /\ new.paid = old.paid + DueAt(old, to, blacklist)
    /\ old.end # 0 => to <= old.end
    /\ IF old.end # 0 /\ to = old.end
       THEN ~new.open /\ new.settledTo = 0 /\ new.end = 0
       ELSE new.open /\ new.settledTo = to /\ new.end = old.end

LEMMA DueType ==
    ASSUME NEW old \in AgreementType, NEW to \in Nat, old.settledTo <= to, NEW blacklist
    PROVE  DueAt(old, to, blacklist) \in Nat
<1>1. old.price \in Nat /\ to - old.settledTo \in Nat
  BY DEF AgreementType
<1>2. old.price * (to - old.settledTo) \in Nat
  BY <1>1, Products
<1> QED BY <1>2 DEF DueAt

LEMMA SettledFields ==
    ASSUME NEW now \in Nat, NEW old \in AgreementType, NEW new \in AgreementType,
           NEW blacklist, NEW to \in Nat, old.settledTo <= to, to <= now
    PROVE  RailSettledTo(old, new, to, blacklist) => SettledAt(old, new, now, blacklist)
<1> SUFFICES ASSUME RailSettledTo(old, new, to, blacklist)
             PROVE  SettledAt(old, new, now, blacklist)
  OBVIOUS
<1>1. PICK due : due = DueAt(old, to, blacklist)
  OBVIOUS
<1>2. due \in Nat
  BY <1>1, DueType
<1>3. /\ old.open /\ SameTerms(old, new)
      /\ new.activated = old.activated /\ new.sector = old.sector
      /\ new.paid = old.paid + due
  BY <1>1 DEF RailSettledTo
<1>4. to \in old.settledTo .. now
  BY DEF AgreementType
<1>5. CASE old.end # 0 /\ to = old.end
  <2>1. new.open = FALSE /\ new.settledTo = 0 /\ new.end = 0
    BY <1>5 DEF RailSettledTo, AgreementType
  <2>2. new = [old EXCEPT !.open = FALSE, !.settledTo = 0, !.end = 0,
                          !.paid = old.paid + due]
    BY <1>2, <1>3, <2>1 DEF AgreementType, SameTerms
  <2> QED BY <1>1, <1>3, <1>4, <1>5, <2>2 DEF SettledAt
<1>6. CASE ~(old.end # 0 /\ to = old.end)
  <2>1. new.open = old.open /\ new.settledTo = to /\ new.end = old.end
    BY <1>3, <1>6 DEF RailSettledTo, AgreementType
  <2>2. new = [old EXCEPT !.settledTo = to, !.paid = old.paid + due]
    BY <1>2, <1>3, <2>1 DEF AgreementType, SameTerms
  <2>3. old.end # 0 => to < old.end
    BY <1>6 DEF RailSettledTo, AgreementType
  <2> QED BY <1>1, <1>3, <1>4, <1>6, <2>2, <2>3 DEF SettledAt
<1> QED BY <1>5, <1>6

LEMMA SettledEpoch ==
    ASSUME NEW now \in Nat, NEW old \in AgreementType, NEW new, NEW blacklist,
           SettledAt(old, new, now, blacklist)
    PROVE  /\ new \in AgreementType
           /\ \E to \in Nat : /\ old.settledTo <= to /\ to <= now
                              /\ RailSettledTo(old, new, to, blacklist)
<1>1. PICK to \in old.settledTo .. now :
          IF old.end # 0 /\ to = old.end
          THEN new = [old EXCEPT !.open = FALSE, !.settledTo = 0, !.end = 0,
                                 !.paid = old.paid + DueAt(old, to, blacklist)]
          ELSE /\ old.end # 0 => to < old.end
               /\ new = [old EXCEPT !.settledTo = to,
                                    !.paid = old.paid + DueAt(old, to, blacklist)]
  BY DEF SettledAt
<1>2. PICK due : due = DueAt(old, to, blacklist)
  OBVIOUS
<1>3. to \in Nat /\ old.settledTo <= to /\ to <= now
  BY DEF AgreementType
<1>4. due \in Nat
  BY <1>2, <1>3, DueType
<1>5. old.open /\ old \in AgreementType
  BY DEF SettledAt
<1>6. CASE old.end # 0 /\ to = old.end
  <2>1. new = [old EXCEPT !.open = FALSE, !.settledTo = 0, !.end = 0,
                          !.paid = old.paid + due]
    BY <1>1, <1>2, <1>6
  <2>2. /\ new \in AgreementType /\ SameTerms(old, new)
        /\ new.activated = old.activated /\ new.sector = old.sector
        /\ new.paid = old.paid + due
        /\ ~new.open /\ new.settledTo = 0 /\ new.end = 0
    <3>1. new \in AgreementType
      <4>1. PICK paid : paid = old.paid + due
        OBVIOUS
      <4>2. paid \in Nat
        BY <1>4, <1>5, <4>1 DEF AgreementType
      <4>3. new = [old EXCEPT !.open = FALSE, !.settledTo = 0, !.end = 0, !.paid = paid]
        BY <2>1, <4>1
      <4> QED BY <1>5, <4>2, <4>3 DEF AgreementType
    <3>2. /\ new.client = old.client /\ new.provider = old.provider
          /\ new.token = old.token /\ new.price = old.price
      BY <1>4, <1>5, <2>1 DEF AgreementType
    <3>3. /\ new.activated = old.activated /\ new.sector = old.sector
          /\ new.paid = old.paid + due
      BY <1>4, <1>5, <2>1 DEF AgreementType
    <3>4. new.open = FALSE /\ new.settledTo = 0 /\ new.end = 0
      BY <1>4, <1>5, <2>1 DEF AgreementType
    <3> QED BY <3>1, <3>2, <3>3, <3>4 DEF SameTerms
  <2> QED BY <1>2, <1>3, <1>5, <1>6, <2>2 DEF RailSettledTo
<1>7. CASE ~(old.end # 0 /\ to = old.end)
  <2>1. /\ old.end # 0 => to < old.end
        /\ new = [old EXCEPT !.settledTo = to, !.paid = old.paid + due]
    BY <1>1, <1>2, <1>7
  <2>2. /\ new \in AgreementType /\ SameTerms(old, new)
        /\ new.activated = old.activated /\ new.sector = old.sector
        /\ new.paid = old.paid + due
        /\ new.open /\ new.settledTo = to /\ new.end = old.end
    <3>1. new \in AgreementType
      <4>1. PICK paid : paid = old.paid + due
        OBVIOUS
      <4>2. paid \in Nat
        BY <1>4, <1>5, <4>1 DEF AgreementType
      <4>3. new = [old EXCEPT !.settledTo = to, !.paid = paid]
        BY <2>1, <4>1
      <4> QED BY <1>3, <1>5, <4>2, <4>3 DEF AgreementType
    <3>2. /\ new.client = old.client /\ new.provider = old.provider
          /\ new.token = old.token /\ new.price = old.price
      BY <1>3, <1>4, <1>5, <2>1 DEF AgreementType
    <3>3. /\ new.activated = old.activated /\ new.sector = old.sector
          /\ new.paid = old.paid + due
      BY <1>3, <1>4, <1>5, <2>1 DEF AgreementType
    <3>4. new.open = old.open /\ new.settledTo = to /\ new.end = old.end
      BY <1>3, <1>4, <1>5, <2>1 DEF AgreementType
    <3> QED BY <1>5, <3>1, <3>2, <3>3, <3>4 DEF SameTerms
  <2>3. old.end # 0 => to <= old.end
    BY <1>3, <2>1 DEF AgreementType
  <2> QED BY <1>2, <1>3, <1>5, <1>7, <2>2, <2>3 DEF RailSettledTo
<1> QED BY <1>6, <1>7

\* Two settlements at one moment are one.
LEMMA SettledTwice ==
    ASSUME NEW now \in Nat, NEW old \in AgreementType, NEW mid, NEW new, NEW blacklist,
           SettledAt(old, mid, now, blacklist), SettledAt(mid, new, now, blacklist)
    PROVE  SettledAt(old, new, now, blacklist)
<1>1. mid \in AgreementType
  BY SettledEpoch
<1>2. PICK to1 \in Nat : /\ old.settledTo <= to1 /\ to1 <= now
                         /\ RailSettledTo(old, mid, to1, blacklist)
  BY SettledEpoch
<1>3. new \in AgreementType
  BY <1>1, SettledEpoch
<1>4. PICK to2 \in Nat : /\ mid.settledTo <= to2 /\ to2 <= now
                         /\ RailSettledTo(mid, new, to2, blacklist)
  BY <1>1, SettledEpoch
<1>5. mid.open /\ mid.settledTo = to1 /\ mid.end = old.end
  BY <1>2, <1>4 DEF RailSettledTo
<1>6. DueAt(old, to1, blacklist) + DueAt(mid, to2, blacklist) = DueAt(old, to2, blacklist)
  <2>1. /\ mid.activated = old.activated /\ mid.provider = old.provider
        /\ mid.sector = old.sector /\ mid.price = old.price
    BY <1>2 DEF RailSettledTo, SameTerms
  <2>2. old.price \in Int /\ old.settledTo \in Int /\ to1 \in Int /\ to2 \in Int
    BY <1>2, <1>4 DEF AgreementType
  <2>3. \A p, x, y, z \in Int : p * (y - x) + p * (z - y) = p * (z - x)
    OBVIOUS
  <2>4. old.price * (to1 - old.settledTo) + old.price * (to2 - to1) =
            old.price * (to2 - old.settledTo)
    BY <2>2, <2>3
  <2>5. CASE old.activated /\ <<old.provider, old.sector>> \notin blacklist
    BY <1>5, <2>1, <2>4, <2>5 DEF DueAt
  <2>6. CASE ~(old.activated /\ <<old.provider, old.sector>> \notin blacklist)
    BY <2>1, <2>6 DEF DueAt
  <2> QED BY <2>5, <2>6
<1>7. /\ DueAt(old, to1, blacklist) \in Nat /\ DueAt(mid, to2, blacklist) \in Nat
      /\ old.paid \in Nat
  BY <1>1, <1>2, <1>4, DueType DEF AgreementType
<1>8. mid.paid = old.paid + DueAt(old, to1, blacklist)
  BY <1>2 DEF RailSettledTo
<1>9. new.paid = mid.paid + DueAt(mid, to2, blacklist)
  BY <1>4 DEF RailSettledTo
<1>10. new.paid = old.paid + DueAt(old, to2, blacklist)
  BY <1>6, <1>7, <1>8, <1>9
<1>11. SameTerms(old, new) /\ new.activated = old.activated /\ new.sector = old.sector
  BY <1>2, <1>4 DEF RailSettledTo, SameTerms
<1>12. RailSettledTo(old, new, to2, blacklist)
  BY <1>2, <1>4, <1>5, <1>10, <1>11 DEF RailSettledTo
<1>13. old.settledTo <= to2
  BY <1>2, <1>4, <1>5 DEF AgreementType
<1> QED BY <1>3, <1>4, <1>12, <1>13, SettledFields

\* An allocation whose sector is proven and blacklisted.
Barred(info, blacklist) ==
    info.activated /\ <<info.provider, info.sectorNumber>> \in blacklist

\* A settlement of its rail settles the agreement.
LEMMA SettledAgreement ==
    ASSUME NEW now \in Nat, NEW info \in AllocationInfo,
           NEW rail \in LiveRail, rail.from # ZERO, ServesAllocation(rail, info),
           NEW blacklist, NEW to \in Nat, rail.settledUpTo <= to, to <= now,
           rail.endEpoch # 0 => to <= rail.endEpoch,
           NEW rail2, rail2 = IF rail.endEpoch # 0 /\ to = rail.endEpoch THEN NoRail
                              ELSE [rail EXCEPT !.settledUpTo = to],
           NEW paid \in Nat, NEW paid2 \in Nat,
           paid2 = paid + IF Barred(info, blacklist) THEN 0
                          ELSE rail.rate * (to - rail.settledUpTo)
    PROVE  SettledAt(AgreementOf(info, rail, paid), AgreementOf(info, rail2, paid2),
                     now, blacklist)
<1>1. PICK old : old = AgreementOf(info, rail, paid)
  OBVIOUS
<1>2. PICK new : new = AgreementOf(info, rail2, paid2)
  OBVIOUS
<1>3. rail \in Rail /\ rail2 \in Rail
  BY DEF Rail, LiveRail
<1>t. Tells(old, info, rail, paid) /\ Tells(new, info, rail2, paid2)
  BY <1>1, <1>2, <1>3, AgreementFields
<1>4. /\ old \in AgreementType
      /\ old.client = info.client /\ old.provider = info.provider
      /\ old.token = info.paymentToken /\ old.price = pricePerEpoch(info)
      /\ old.activated = info.activated /\ old.sector = info.sectorNumber
      /\ old.open /\ old.settledTo = rail.settledUpTo
      /\ old.end = rail.endEpoch /\ old.paid = paid
  BY <1>t DEF Tells
<1>5. /\ new \in AgreementType
      /\ new.client = info.client /\ new.provider = info.provider
      /\ new.token = info.paymentToken /\ new.price = pricePerEpoch(info)
      /\ new.activated = info.activated /\ new.sector = info.sectorNumber
      /\ new.open <=> rail2.from # ZERO
      /\ new.settledTo = rail2.settledUpTo
      /\ new.end = rail2.endEpoch /\ new.paid = paid2
  BY <1>t DEF Tells
<1>6. paid2 = paid + DueAt(old, to, blacklist)
  <2>1. DueAt(old, to, blacklist) =
            IF info.activated /\ <<info.provider, info.sectorNumber>> \notin blacklist
            THEN pricePerEpoch(info) * (to - rail.settledUpTo) ELSE 0
    BY <1>4 DEF DueAt
  <2>2. info.activated => rail.rate = pricePerEpoch(info)
    BY DEF ServesAllocation
  <2>3. ~info.activated => rail.rate = 0
    BY DEF ServesAllocation
  <2>4. rail.rate = 0 => rail.rate * (to - rail.settledUpTo) = 0
    BY DEF LiveRail
  <2>5. CASE ~info.activated
    BY <2>1, <2>3, <2>4, <2>5 DEF Barred
  <2>6. CASE info.activated
    BY <2>1, <2>2, <2>6 DEF Barred
  <2> QED BY <2>5, <2>6
<1>7. IF old.end # 0 /\ to = old.end
      THEN ~new.open /\ new.settledTo = 0 /\ new.end = 0
      ELSE new.open /\ new.settledTo = to /\ new.end = old.end
  <2>1. CASE rail.endEpoch # 0 /\ to = rail.endEpoch
    <3>1. rail2.from = ZERO /\ rail2.settledUpTo = 0 /\ rail2.endEpoch = 0
      BY <2>1 DEF NoRail
    <3> QED BY <1>4, <1>5, <2>1, <3>1
  <2>2. CASE ~(rail.endEpoch # 0 /\ to = rail.endEpoch)
    <3>1. /\ rail2.from = rail.from /\ rail2.settledUpTo = to
          /\ rail2.endEpoch = rail.endEpoch
      BY <2>2 DEF LiveRail
    <3> QED BY <1>4, <1>5, <2>2, <3>1
  <2> QED BY <2>1, <2>2
<1>8. SameTerms(old, new)
  BY <1>4, <1>5 DEF SameTerms
<1>9. RailSettledTo(old, new, to, blacklist)
  <2>1. new.activated = old.activated /\ new.sector = old.sector
    BY <1>4, <1>5
  <2>2. new.paid = old.paid + DueAt(old, to, blacklist)
    BY <1>4, <1>5, <1>6
  <2> QED BY <1>4, <1>7, <1>8, <2>1, <2>2 DEF RailSettledTo
<1>10. SettledAt(old, new, now, blacklist)
  BY <1>4, <1>5, <1>9, SettledFields
<1> QED BY <1>1, <1>2, <1>10

\* A new allocation makes its agreement.
LEMMA MadeAgreement ==
    ASSUME NEW now, NEW info \in AllocationInfo, info.client # ZERO, info.activated = FALSE,
           NEW rail \in Rail, rail.from # ZERO, rail.endEpoch = 0, rail.settledUpTo = now
    PROVE  /\ MadeAt(Lifecycle!None, AgreementOf(info, rail, 0), now)
           /\ AgreementOf(info, rail, 0).client = info.client
<1>1. PICK new : new = AgreementOf(info, rail, 0)
  OBVIOUS
<1>2. Tells(new, info, rail, 0)
  BY <1>1, AgreementFields
<1>3. MadeAt(Lifecycle!None, new, now) /\ new.client = info.client
  BY <1>2 DEF Tells, MadeAt
<1> QED BY <1>1, <1>3

\* An allocation that is activated with its sector.
Proven(info, sector) == [info EXCEPT !.activated = TRUE, !.sectorNumber = sector]

\* An activated allocation, whose rail starts, activates its agreement.
LEMMA ActivatedAgreement ==
    ASSUME NEW now \in Nat, NEW info \in AllocationInfo, info.activated = FALSE,
           NEW rail \in LiveRail, rail.from # ZERO, rail.endEpoch = 0,
           NEW paid \in Nat,
           NEW info2 \in AllocationInfo, NEW sector,
           info2 = Proven(info, sector),
           NEW rail2 \in Rail, rail2 = Activating(rail, pricePerEpoch(info), now)
    PROVE  ActivatedAt(AgreementOf(info, rail, paid), AgreementOf(info2, rail2, paid), now)
<1> DEFINE price == pricePerEpoch(info)
<1>1. /\ info2.client = info.client /\ info2.provider = info.provider
      /\ info2.paymentToken = info.paymentToken /\ info2.activated = TRUE
      /\ pricePerEpoch(info2) = price
  BY DEF AllocationInfo, pricePerEpoch, Proven
<1> HIDE DEF price
<1>2. /\ rail2.from = rail.from /\ rail2.endEpoch = 0
      /\ rail2.settledUpTo = IF price = 0 THEN rail.settledUpTo ELSE now
  BY DEF Activating, LiveRail, price
<1>3. PICK old : old = AgreementOf(info, rail, paid)
  OBVIOUS
<1>4. PICK new : new = AgreementOf(info2, rail2, paid)
  OBVIOUS
<1>5. Tells(old, info, rail, paid) /\ Tells(new, info2, rail2, paid)
  BY <1>3, <1>4, AgreementFields DEF Rail
<1>6. /\ old \in AgreementType /\ old.open /\ ~old.activated /\ old.end = 0
      /\ old.price = price
  BY <1>5 DEF Tells, price
<1>7. SameTerms(old, new)
  BY <1>1, <1>5, <1>6 DEF Tells, SameTerms
<1>8. /\ new \in AgreementType /\ new.activated /\ new.open /\ new.end = 0
      /\ new.paid = old.paid
      /\ new.settledTo = IF old.price = 0 THEN old.settledTo ELSE now
  BY <1>1, <1>2, <1>5, <1>6 DEF Tells
<1>9. ActivatedAt(old, new, now)
  BY <1>6, <1>7, <1>8, ActivatedFields
<1> QED BY <1>3, <1>4, <1>9

\* The end of its rail, with the lockup period of notice, ends the agreement.
LEMMA EndedAgreement ==
    ASSUME NEW now \in Nat, NEW info \in AllocationInfo,
           NEW rail \in LiveRail, rail.from # ZERO, rail.endEpoch = 0,
           ServesAllocation(rail, info), NEW paid \in Nat,
           NEW rail2 \in Rail, rail2 = [rail EXCEPT !.endEpoch = now + rail.lockupPeriod]
    PROVE  EndedAt(AgreementOf(info, rail, paid), AgreementOf(info, rail2, paid), now)
<1>1. rail.lockupPeriod = IF info.activated THEN EPOCHS_PER_MONTH ELSE 0
  BY DEF ServesAllocation
<1>2. /\ rail2.from = rail.from /\ rail2.settledUpTo = rail.settledUpTo
      /\ rail2.endEpoch = now + IF info.activated THEN EPOCHS_PER_MONTH ELSE 0
  BY <1>1 DEF LiveRail
<1>3. PICK old : old = AgreementOf(info, rail, paid)
  OBVIOUS
<1>4. PICK new : new = AgreementOf(info, rail2, paid)
  OBVIOUS
<1>5. Tells(old, info, rail, paid) /\ Tells(new, info, rail2, paid)
  BY <1>3, <1>4, AgreementFields DEF Rail
<1>6. /\ old \in AgreementType /\ old.open /\ old.end = 0
      /\ old.activated = info.activated
  BY <1>5 DEF Tells
<1>7. SameTerms(old, new)
  BY <1>5 DEF Tells, SameTerms
<1>8. /\ new \in AgreementType /\ new.activated = old.activated
      /\ new.sector = old.sector /\ new.open
      /\ new.settledTo = old.settledTo /\ new.paid = old.paid
  BY <1>2, <1>5 DEF Tells
<1>9. new.end = now + IF old.activated THEN EPOCHS_PER_MONTH ELSE 0
  BY <1>2, <1>5, <1>6 DEF Tells
<1>10. EndedAt(old, new, now)
  BY <1>6, <1>7, <1>8, <1>9, EndedFields
<1> QED BY <1>3, <1>4, <1>10

----------------------------------------------------------------------------
(* What the steps of the diamond do to agreements.                         *)

\* The agreement of an allocation, and the rail that is its own.
LEMMA RailAgreement ==
    ASSUME NEW st \in DDOState, NEW pays \in [PaymentsContracts -> PayState],
           RailInv(st, pays), NEW a \in Allocated(st),
           NEW info, info = st.allocationInfos[a],
           NEW p, p = pays[st.paymentsContract]
    PROVE  /\ st.paymentsContract \in PaymentsContracts
           /\ info \in AllocationInfo /\ info.client # ZERO
           /\ info.railId \in RailIds
           /\ a # 0 /\ st.railIdToAllocationId[info.railId] = a
           /\ p.rails[info.railId] \in Rail /\ p.paid[info.railId] \in Nat
           /\ ServesAllocation(p.rails[info.railId], info)
           /\ Agreement(st, pays, a) =
                  AgreementOf(info, p.rails[info.railId], p.paid[info.railId])
<1>1. /\ st.paymentsContract \in PaymentsContracts
      /\ info \in AllocationInfo /\ info.railId \in RailIds
  BY AllocatedContract
<1>2. info.client # ZERO /\ a # 0
  BY IdsAssumption DEF Allocated
<1>3. st.railIdToAllocationId[info.railId] = a
  BY DEF RailInv, RailMapInverse
<1>4. p.rails[info.railId] \in Rail /\ p.paid[info.railId] \in Nat
  <2>1. p \in PayState
    BY <1>1
  <2> QED BY <1>1, <2>1 DEF PayState
<1>5. ServesAllocation(p.rails[info.railId], info)
  BY DEF RailInv, RailsServe
<1>6. Agreement(st, pays, a) =
          AgreementOf(info, p.rails[info.railId], p.paid[info.railId])
  BY <1>2, AgreementParts
<1> QED BY <1>1, <1>2, <1>3, <1>4, <1>5, <1>6

LEMMA NoAgreement ==
    ASSUME NEW st, NEW pays, NEW a \in AllocationIds \ Allocated(st)
    PROVE  Agreement(st, pays, a) = Lifecycle!None
BY AgreementParts DEF Allocated

\* A settlement settles the agreement of its rail, and changes no other.
AllSettled(st, pays, st2, pays2, now) ==
    \A a \in AllocationIds :
        \/ Agreement(st2, pays2, a) = Agreement(st, pays, a)
        \/ SettledAt(Agreement(st, pays, a), Agreement(st2, pays2, a), now,
                     st.blacklistedSectors)

LEMMA SettleMoves ==
    ASSUME IInv, RailInv(s, pay), PaidRails(s, pay, epoch),
           NEW c \in PaymentsContracts, NEW id, NEW until \in Nat,
           CanSettle(c, id, until), Settle(c, id, until),
           s'.allocationInfos = s.allocationInfos,
           s'.paymentsContract = s.paymentsContract
    PROVE  AllSettled(s, pay, s', pay', epoch)
<1>0. PICK contract : contract = s.paymentsContract
  OBVIOUS
<1>1. PICK rail : rail = pay[c].rails[id]
  OBVIOUS
<1>2. /\ s \in DDOState /\ pay \in [PaymentsContracts -> PayState]
      /\ epoch \in Nat /\ Timely(pay[c], epoch)
  BY SoundParts DEF PaidRails
<1>3. /\ id \in RailIds /\ rail \in LiveRail /\ rail.from # ZERO
      /\ \E to \in Nat :
            /\ rail.settledUpTo <= to /\ to <= epoch
            /\ rail.endEpoch # 0 => to <= rail.endEpoch
            /\ RailSettled(pay[c], pay'[c], id, to)
            /\ pay'[c].paid[id] = pay[c].paid[id]
                   + IF Blacklisted(s, id) THEN 0
                     ELSE rail.rate * (to - rail.settledUpTo)
  BY <1>1, <1>2, SettleEffect
<1>4. PICK to \in Nat :
            /\ rail.settledUpTo <= to /\ to <= epoch
            /\ rail.endEpoch # 0 => to <= rail.endEpoch
            /\ RailSettled(pay[c], pay'[c], id, to)
            /\ pay'[c].paid[id] = pay[c].paid[id]
                   + IF Blacklisted(s, id) THEN 0
                     ELSE rail.rate * (to - rail.settledUpTo)
  BY <1>3
<1>5. \A d \in PaymentsContracts \ {c} : pay'[d] = pay[d]
  BY <1>2 DEF Settle
<1> SUFFICES ASSUME NEW a \in AllocationIds
             PROVE  \/ Agreement(s', pay', a) = Agreement(s, pay, a)
                    \/ SettledAt(Agreement(s, pay, a), Agreement(s', pay', a), epoch,
                                 s.blacklistedSectors)
  BY DEF AllSettled
<1>6. PICK info : info = s.allocationInfos[a]
  OBVIOUS
<1>7. CASE a \notin Allocated(s)
  BY <1>6, <1>7, SameAgreement DEF Allocated
<1>8. CASE a \in Allocated(s)
  <2>1. PICK p : p = pay[contract]
    OBVIOUS
  <2>2. /\ contract \in PaymentsContracts
        /\ info \in AllocationInfo /\ info.client # ZERO
        /\ info.railId \in RailIds
        /\ a # 0 /\ s.railIdToAllocationId[info.railId] = a
        /\ p.rails[info.railId] \in Rail /\ p.paid[info.railId] \in Nat
        /\ ServesAllocation(p.rails[info.railId], info)
        /\ Agreement(s, pay, a) =
               AgreementOf(info, p.rails[info.railId], p.paid[info.railId])
    BY <1>0, <1>2, <1>6, <1>8, <2>1, RailAgreement
  <2>3. CASE c # contract \/ info.railId # id
    <3>1. /\ pay'[contract].rails[info.railId] = pay[contract].rails[info.railId]
          /\ pay'[contract].paid[info.railId] = pay[contract].paid[info.railId]
      BY <1>4, <1>5, <2>2, <2>3 DEF RailSettled
    <3> QED BY <1>0, <1>6, <3>1, SameAgreement
  <2>4. CASE c = contract /\ info.railId = id
    <3>1. PICK q : q = pay'[contract]
      OBVIOUS
    <3>2. PICK rail2 : rail2 = q.rails[id]
      OBVIOUS
    <3>3. PICK paid2 : paid2 = q.paid[id]
      OBVIOUS
    <3>4. PICK paid : paid = p.paid[id]
      OBVIOUS
    <3>5. rail2 = IF rail.endEpoch # 0 /\ to = rail.endEpoch THEN NoRail
                  ELSE [rail EXCEPT !.settledUpTo = to]
      <4>1. FullyPaid(pay[c], id, to) <=> rail.endEpoch # 0 /\ to = rail.endEpoch
        <5>1. rail.endEpoch \in Nat
          BY <1>3 DEF LiveRail
        <5> QED BY <1>1, <1>4, <5>1 DEF FullyPaid, Terminated
      <4> QED BY <1>1, <1>4, <2>4, <3>1, <3>2, <4>1 DEF RailSettled
    <3>6. Blacklisted(s, id) <=> Barred(info, s.blacklistedSectors)
      BY <1>6, <2>2, <2>4 DEF Blacklisted, Barred
    <3>7. paid2 = paid + IF Barred(info, s.blacklistedSectors) THEN 0
                         ELSE rail.rate * (to - rail.settledUpTo)
      BY <1>4, <2>1, <2>4, <3>1, <3>3, <3>4, <3>6
    <3>8. paid \in Nat /\ paid2 \in Nat
      <4>1. rail.rate \in Nat /\ to - rail.settledUpTo \in Nat
        BY <1>3, <1>4 DEF LiveRail
      <4>2. rail.rate * (to - rail.settledUpTo) \in Nat
        BY <4>1, Products
      <4> QED BY <2>2, <2>4, <3>4, <3>7, <4>2
    <3>9. ServesAllocation(rail, info)
      BY <1>1, <2>1, <2>2, <2>4
    <3>10. SettledAt(AgreementOf(info, rail, paid), AgreementOf(info, rail2, paid2),
                     epoch, s.blacklistedSectors)
      BY <1>2, <1>3, <1>4, <2>2, <3>5, <3>7, <3>8, <3>9, SettledAgreement
    <3>11. Agreement(s, pay, a) = AgreementOf(info, rail, paid)
      BY <1>1, <2>1, <2>2, <2>4, <3>4
    <3>12. Agreement(s', pay', a) = AgreementOf(info, rail2, paid2)
      <4>1. info = s'.allocationInfos[a] /\ q = pay'[s'.paymentsContract]
        BY <1>0, <1>6, <3>1
      <4> QED BY <2>2, <2>4, <3>2, <3>3, <4>1, AgreementParts
    <3> QED BY <3>10, <3>11, <3>12
  <2> QED BY <2>3, <2>4
<1> QED BY <1>7, <1>8

\* The end of a rail ends its agreement, and changes no other.
OneEnded(st, pays, st2, pays2, id, now) ==
    \A a \in AllocationIds :
        \/ Agreement(st2, pays2, a) = Agreement(st, pays, a)
        \/ /\ EndedAt(Agreement(st, pays, a), Agreement(st2, pays2, a), now)
           /\ a = st.railIdToAllocationId[id]

LEMMA TerminateMoves ==
    ASSUME IInv, RailInv(s, pay), IInv', NEW c \in PaymentsContracts, NEW id,
           terminateRail(c, id)
    PROVE  OneEnded(s, pay, s', pay', id, epoch)
<1>0. PICK contract : contract = s.paymentsContract
  OBVIOUS
<1>1. PICK rail : rail = pay[c].rails[id]
  OBVIOUS
<1>2. /\ s \in DDOState /\ pay \in [PaymentsContracts -> PayState]
      /\ pay' \in [PaymentsContracts -> PayState]
      /\ epoch \in Nat /\ PaySound(pay[c], epoch) /\ s' = s
  BY SoundParts DEF terminateRail, ClientTransaction, IInv, TypeOK
<1>3. PICK q : q = TerminateRail(pay[c], id, epoch)
  OBVIOUS
<1>4. pay' = [pay EXCEPT ![c] = q] /\ CanTerminateRail(pay[c], id, epoch)
  BY <1>3 DEF terminateRail
<1>5. /\ id \in RailIds /\ rail \in LiveRail /\ rail.from # ZERO /\ rail.endEpoch = 0
      /\ OneRail(pay[c], q, id, [rail EXCEPT !.endEpoch = epoch + rail.lockupPeriod])
  <2>1. PICK p : p = pay[c]
    OBVIOUS
  <2> QED BY <2>1, <1>1, <1>2, <1>3, <1>4, TerminateRailEffect
<1>6. pay'[c] = q /\ \A d \in PaymentsContracts \ {c} : pay'[d] = pay[d]
  BY <1>2, <1>4
<1> SUFFICES ASSUME NEW a \in AllocationIds
             PROVE  \/ Agreement(s', pay', a) = Agreement(s, pay, a)
                    \/ /\ EndedAt(Agreement(s, pay, a), Agreement(s', pay', a), epoch)
                       /\ a = s.railIdToAllocationId[id]
  BY DEF OneEnded
<1>7. PICK info : info = s.allocationInfos[a]
  OBVIOUS
<1>8. CASE a \notin Allocated(s)
  BY <1>2, <1>7, <1>8, SameAgreement DEF Allocated
<1>9. CASE a \in Allocated(s)
  <2>1. PICK p : p = pay[contract]
    OBVIOUS
  <2>2. /\ contract \in PaymentsContracts
        /\ info \in AllocationInfo /\ info.client # ZERO
        /\ info.railId \in RailIds
        /\ s.railIdToAllocationId[info.railId] = a
        /\ p.paid[info.railId] \in Nat
        /\ ServesAllocation(p.rails[info.railId], info)
        /\ Agreement(s, pay, a) =
               AgreementOf(info, p.rails[info.railId], p.paid[info.railId])
    BY <1>0, <1>2, <1>7, <1>9, <2>1, RailAgreement
  <2>3. CASE c # contract \/ info.railId # id
    <3>1. /\ pay'[contract].rails[info.railId] = pay[contract].rails[info.railId]
          /\ pay'[contract].paid[info.railId] = pay[contract].paid[info.railId]
      BY <1>5, <1>6, <2>2, <2>3 DEF OneRail
    <3> QED BY <1>0, <1>2, <1>7, <3>1, SameAgreement
  <2>4. CASE c = contract /\ info.railId = id
    <3>1. PICK rail2 : rail2 = q.rails[id]
      OBVIOUS
    <3>2. PICK paid : paid = p.paid[id]
      OBVIOUS
    <3>3. rail2 = [rail EXCEPT !.endEpoch = epoch + rail.lockupPeriod]
      BY <1>5, <3>1 DEF OneRail
    <3>4. q.paid[id] = paid
      BY <1>5, <2>1, <2>4, <3>2 DEF OneRail
    <3>5. rail2 \in Rail
      <4>1. q \in PayState
        BY <1>2, <1>6
      <4> QED BY <1>5, <3>1, <4>1 DEF PayState
    <3>6. ServesAllocation(rail, info)
      BY <1>1, <2>1, <2>2, <2>4
    <3>7. EndedAt(AgreementOf(info, rail, paid), AgreementOf(info, rail2, paid), epoch)
      BY <1>2, <1>5, <2>2, <2>4, <3>2, <3>3, <3>5, <3>6, EndedAgreement
    <3>8. Agreement(s, pay, a) = AgreementOf(info, rail, paid)
      BY <1>1, <2>1, <2>2, <2>4, <3>2
    <3>9. Agreement(s', pay', a) = AgreementOf(info, rail2, paid)
      <4>1. info = s'.allocationInfos[a] /\ q = pay'[s'.paymentsContract]
        BY <1>0, <1>2, <1>6, <1>7, <2>4
      <4> QED BY <2>2, <2>4, <3>1, <3>4, <4>1, AgreementParts
    <3> QED BY <2>2, <2>4, <3>7, <3>8, <3>9
  <2> QED BY <2>3, <2>4
<1> QED BY <1>8, <1>9

\* A piece that is accepted activates the agreement of its allocation, with the
\* miner, and changes no other.
AllActivated(st, pays, st2, pays2, miner, now) ==
    \A a \in AllocationIds :
        \/ Agreement(st2, pays2, a) = Agreement(st, pays, a)
        \/ /\ ActivatedAt(Agreement(st, pays, a), Agreement(st2, pays2, a), now)
           /\ Agreement(st, pays, a).provider = miner

LEMMA ActivateMoves ==
    ASSUME IInv, RailInv(s, pay), IInv', activatePiece
    PROVE  AllActivated(s, pay, s', pay', call.miner, epoch)
<1>0. PICK c : c = s.paymentsContract
  OBVIOUS
<1>1. /\ s \in DDOState /\ pay \in [PaymentsContracts -> PayState]
      /\ s' \in DDOState /\ pay' \in [PaymentsContracts -> PayState]
      /\ epoch \in Nat
  BY SoundParts DEF IInv, TypeOK
<1>2. c \in PaymentsContracts /\ s'.paymentsContract = c
  BY <1>0, ActivateEffect
<1>b. PICK b, sector, info, q, rail : Started(b, sector, info, c, q, rail)
  BY <1>0, ActivateEffect
<1>3. /\ b \in Allocated(s)
      /\ info = s.allocationInfos[b] /\ info \in AllocationInfo
      /\ info.activated = FALSE /\ info.provider = call.miner
      /\ info.railId \in RailIds
      /\ s'.allocationInfos = [s.allocationInfos EXCEPT ![b] =
             [info EXCEPT !.activated = TRUE, !.sectorNumber = sector]]
      /\ pay' = [pay EXCEPT ![c] = q]
      /\ rail = pay[c].rails[info.railId] /\ rail \in LiveRail
      /\ rail.from # ZERO /\ rail.endEpoch = 0
      /\ OneRail(pay[c], q, info.railId,
                 Activating(rail, pricePerEpoch(info), epoch))
  BY <1>b DEF Started
<1>4. pay'[c] = q
  BY <1>1, <1>2, <1>3
<1>5. PICK p : p = pay[c]
  OBVIOUS
<1>6. b \in AllocationIds /\ s.allocationInfos \in [AllocationIds -> AllocationInfo]
  BY <1>1, <1>3 DEF Allocated, DDOState
<1>7. PICK info2 : info2 = s'.allocationInfos[b]
  OBVIOUS
<1>8. /\ info2 = [info EXCEPT !.activated = TRUE, !.sectorNumber = sector]
      /\ \A a \in AllocationIds \ {b} : s'.allocationInfos[a] = s.allocationInfos[a]
  BY <1>3, <1>6, <1>7
<1>9. /\ s.railIdToAllocationId[info.railId] = b
      /\ p.paid[info.railId] \in Nat /\ info.client # ZERO
      /\ Agreement(s, pay, b) = AgreementOf(info, rail, p.paid[info.railId])
  <2>1. /\ b \in Allocated(s) /\ info = s.allocationInfos[b]
        /\ rail = p.rails[info.railId]
    BY <1>3, <1>5
  <2> QED BY <1>0, <1>1, <1>5, <2>1, RailAgreement
<1> SUFFICES ASSUME NEW a \in AllocationIds
             PROVE  \/ Agreement(s', pay', a) = Agreement(s, pay, a)
                    \/ /\ ActivatedAt(Agreement(s, pay, a), Agreement(s', pay', a), epoch)
                       /\ Agreement(s, pay, a).provider = call.miner
  BY DEF AllActivated
<1>10. CASE a # b
  <2>1. PICK other : other = s.allocationInfos[a]
    OBVIOUS
  <2>2. s'.allocationInfos[a] = other
    BY <1>8, <1>10, <2>1
  <2>3. CASE other.client = ZERO
    BY <1>0, <2>1, <2>2, <2>3, SameAgreement
  <2>4. CASE other.client # ZERO
    <3>1. /\ other.railId \in RailIds
          /\ s.railIdToAllocationId[other.railId] = a
      BY <1>1, <2>1, <2>4, RailAgreement DEF Allocated
    <3>2. other.railId # info.railId
      BY <1>9, <1>10, <3>1
    <3>3. /\ pay'[c].rails[other.railId] = pay[c].rails[other.railId]
          /\ pay'[c].paid[other.railId] = pay[c].paid[other.railId]
      BY <1>3, <1>4, <3>1, <3>2 DEF OneRail
    <3> QED BY <1>0, <1>2, <2>1, <2>2, <3>3, SameAgreement
  <2> QED BY <2>3, <2>4
<1>11. CASE a = b
  <2>1. PICK rail2 : rail2 = q.rails[info.railId]
    OBVIOUS
  <2>2. PICK paid : paid = p.paid[info.railId]
    OBVIOUS
  <2>3. rail2 = Activating(rail, pricePerEpoch(info), epoch) /\ q.paid = p.paid
    BY <1>3, <1>5, <2>1 DEF OneRail
  <2>4. rail2 \in Rail
    <3>1. q \in PayState
      BY <1>1, <1>2, <1>4
    <3> QED BY <1>3, <2>1, <3>1 DEF PayState
  <2>5. info2 \in AllocationInfo
    BY <1>1, <1>6, <1>7 DEF DDOState
  <2>6. /\ ActivatedAt(AgreementOf(info, rail, paid), AgreementOf(info2, rail2, paid),
                       epoch)
        /\ AgreementOf(info, rail, paid).provider = info.provider
    <3>1. /\ info \in AllocationInfo /\ info.activated = FALSE
          /\ rail \in LiveRail /\ rail.from # ZERO /\ rail.endEpoch = 0
      BY <1>3
    <3>2. info2 = Proven(info, sector)
      BY <1>8 DEF Proven
    <3>3. paid \in Nat /\ rail2 = Activating(rail, pricePerEpoch(info), epoch)
      BY <1>9, <2>2, <2>3
    <3>4. epoch \in Nat
      BY <1>1
    <3>5. ActivatedAt(AgreementOf(info, rail, paid), AgreementOf(info2, rail2, paid), epoch)
      BY <2>4, <2>5, <3>1, <3>2, <3>3, <3>4, ActivatedAgreement
    <3>6. AgreementOf(info, rail, paid).provider = info.provider
      BY <3>1, <3>3, AgreementFields DEF Tells, Rail
    <3> QED BY <3>5, <3>6
  <2>7. info2.client = info.client /\ info2.railId = info.railId
    BY <1>3, <1>8 DEF AllocationInfo
  <2>8. Agreement(s', pay', b) = AgreementOf(info2, rail2, paid)
    <3>1. info2 = s'.allocationInfos[b] /\ q = pay'[s'.paymentsContract]
      BY <1>2, <1>4, <1>7
    <3>2. /\ info2.client # ZERO
          /\ rail2 = q.rails[info2.railId] /\ paid = q.paid[info2.railId]
      BY <1>9, <2>1, <2>2, <2>3, <2>7
    <3> QED BY <3>1, <3>2, AgreementParts
  <2> QED BY <1>3, <1>9, <1>11, <2>2, <2>6, <2>8
<1> QED BY <1>10, <1>11

\* A creation makes the agreement of its allocation, with the client, and changes
\* no other.
AllMade(st, pays, st2, pays2, client, now) ==
    \A a \in AllocationIds :
        \/ Agreement(st2, pays2, a) = Agreement(st, pays, a)
        \/ /\ MadeAt(Agreement(st, pays, a), Agreement(st2, pays2, a), now)
           /\ Agreement(st2, pays2, a).client = client

LEMMA CreateMoves ==
    ASSUME IInv, RailInv(s, pay), PaidRails(s, pay, epoch), IInv',
           s.paymentsContract # ZERO, createAllocation
    PROVE  AllMade(s, pay, s', pay', call.client, epoch)
<1>0. PICK c : c = s.paymentsContract
  OBVIOUS
<1>1. /\ s \in DDOState /\ pay \in [PaymentsContracts -> PayState]
      /\ s' \in DDOState /\ pay' \in [PaymentsContracts -> PayState]
      /\ epoch \in Nat
  BY SoundParts DEF IInv, TypeOK
<1>2. c \in PaymentsContracts /\ s'.paymentsContract = c
  BY <1>0, CreateEffect
<1>3. PICK b, n, info, q : Created(b, n, info, c, q)
  BY <1>0, CreateEffect
<1>4. /\ b \in AllocationIds /\ n \in RailIds /\ info \in AllocationInfo
      /\ s.allocationInfos[b].client = ZERO
      /\ s'.allocationInfos = [s.allocationInfos EXCEPT ![b] = info]
      /\ info.client = call.client /\ info.client # ZERO
      /\ info.railId = n /\ info.activated = FALSE
      /\ n = pay[c].nextRailId /\ pay' = [pay EXCEPT ![c] = q]
      /\ \A i \in RailIds \ {n} : q.rails[i] = pay[c].rails[i]
      /\ q.paid = pay[c].paid
      /\ q.rails[n].from # ZERO
      /\ q.rails[n].settledUpTo = epoch /\ q.rails[n].endEpoch = 0
  BY <1>3 DEF Created
<1>5. pay'[c] = q /\ q \in PayState
  BY <1>1, <1>2, <1>4
<1>6. s.allocationInfos \in [AllocationIds -> AllocationInfo]
  BY <1>1 DEF DDOState
<1>7. /\ s'.allocationInfos[b] = info
      /\ \A a \in AllocationIds \ {b} : s'.allocationInfos[a] = s.allocationInfos[a]
  BY <1>4, <1>6
<1>8. \A a \in Allocated(s) :
          s.allocationInfos[a].railId \in RailIds \ {n}
  <2>1. \A a \in Allocated(s) :
            /\ s.allocationInfos[a].railId \in RailIds
            /\ s.allocationInfos[a].railId < pay[c].nextRailId
    BY <1>0 DEF RailInv, RailMapInverse
  <2> QED BY <1>4, <2>1, MaxRailsAssumption DEF RailIds
<1>9. s.railIdToAllocationId[n] = 0
  <2>1. CASE s.railIdToAllocationId[n] # 0
    <3>1. PICK a \in Allocated(s) : s.allocationInfos[a].railId = n
      BY <1>4, <2>1 DEF RailInv, RailMapInverse
    <3> QED BY <1>8, <3>1
  <2> QED BY <2>1
<1>10. q.paid[n] = 0
  BY <1>2, <1>4, <1>9 DEF PaidRails, UnboundUnpaid
<1> SUFFICES ASSUME NEW a \in AllocationIds
             PROVE  \/ Agreement(s', pay', a) = Agreement(s, pay, a)
                    \/ /\ MadeAt(Agreement(s, pay, a), Agreement(s', pay', a), epoch)
                       /\ Agreement(s', pay', a).client = call.client
  BY DEF AllMade
<1>11. CASE a # b
  <2>1. PICK other : other = s.allocationInfos[a]
    OBVIOUS
  <2>2. s'.allocationInfos[a] = other
    BY <1>7, <1>11, <2>1
  <2>3. CASE other.client = ZERO
    BY <1>0, <2>1, <2>2, <2>3, SameAgreement
  <2>4. CASE other.client # ZERO
    <3>1. other.railId \in RailIds \ {n}
      BY <1>8, <2>1, <2>4 DEF Allocated
    <3>2. /\ pay'[c].rails[other.railId] = pay[c].rails[other.railId]
          /\ pay'[c].paid[other.railId] = pay[c].paid[other.railId]
      BY <1>4, <1>5, <3>1
    <3> QED BY <1>0, <1>2, <2>1, <2>2, <3>2, SameAgreement
  <2> QED BY <2>3, <2>4
<1>12. CASE a = b
  <2>1. PICK rail : rail = q.rails[n]
    OBVIOUS
  <2>2. rail \in Rail
    BY <1>4, <1>5, <2>1 DEF PayState
  <2>3. /\ MadeAt(Lifecycle!None, AgreementOf(info, rail, 0), epoch)
        /\ AgreementOf(info, rail, 0).client = info.client
    <3>1. /\ info \in AllocationInfo /\ info.client # ZERO /\ info.activated = FALSE
          /\ rail.from # ZERO /\ rail.endEpoch = 0 /\ rail.settledUpTo = epoch
      BY <1>3, <1>4, <2>1
    <3> QED BY <2>2, <3>1, MadeAgreement
  <2>4. Agreement(s, pay, b) = Lifecycle!None
    BY <1>4, NoAgreement DEF Allocated
  <2>5. Agreement(s', pay', b) = AgreementOf(info, rail, 0)
    <3>1. info = s'.allocationInfos[b] /\ q = pay'[s'.paymentsContract]
      BY <1>2, <1>5, <1>7
    <3>2. /\ info.client # ZERO
          /\ rail = q.rails[info.railId] /\ q.paid[info.railId] = 0
      BY <1>4, <1>10, <2>1
    <3> QED BY <3>1, <3>2, AgreementParts
  <2> QED BY <1>4, <1>12, <2>3, <2>4, <2>5
<1> QED BY <1>11, <1>12

----------------------------------------------------------------------------
(* What a running call has done to agreements since it began.              *)

Progress ==
    /\ call.fn = "create" =>
          AllMade(call.saved.s, call.saved.pay, s, pay, call.client, epoch)
    /\ call.fn = "notify" =>
          AllActivated(call.saved.s, call.saved.pay, s, pay, call.miner, epoch)
    /\ call.fn = "settle" =>
          AllSettled(call.saved.s, call.saved.pay, s, pay, epoch)

LEMMA AgreementTyped ==
    ASSUME NEW st \in DDOState, NEW pays \in [PaymentsContracts -> PayState],
           RailInv(st, pays), NEW a \in AllocationIds
    PROVE  Agreement(st, pays, a) \in AgreementType
<1>1. CASE a \in Allocated(st)
  <2>1. PICK info : info = st.allocationInfos[a]
    OBVIOUS
  <2>2. PICK p : p = pays[st.paymentsContract]
    OBVIOUS
  <2>3. /\ info \in AllocationInfo
        /\ p.rails[info.railId] \in Rail /\ p.paid[info.railId] \in Nat
        /\ Agreement(st, pays, a) =
               AgreementOf(info, p.rails[info.railId], p.paid[info.railId])
    BY <1>1, <2>1, <2>2, RailAgreement
  <2> QED BY <2>3, AgreementFields DEF Tells
<1>2. CASE a \notin Allocated(st)
  <2>1. Lifecycle!None \in AgreementType
    BY DEF Lifecycle!None, AgreementType
  <2> QED BY <1>2, <2>1, NoAgreement
<1> QED BY <1>1, <1>2

\* Two steps of one call: no agreement is made or activated in both of them, and
\* what is settled in both is settled once.
LEMMA MadeTwice ==
    ASSUME NEW st, NEW pays, NEW st1, NEW pays1, NEW st2, NEW pays2,
           NEW client, NEW now,
           AllMade(st, pays, st1, pays1, client, now),
           AllMade(st1, pays1, st2, pays2, client, now)
    PROVE  AllMade(st, pays, st2, pays2, client, now)
<1> SUFFICES ASSUME NEW a \in AllocationIds,
                    NEW old, old = Agreement(st, pays, a),
                    NEW mid, mid = Agreement(st1, pays1, a),
                    NEW new, new = Agreement(st2, pays2, a)
             PROVE  new = old \/ (MadeAt(old, new, now) /\ new.client = client)
  BY DEF AllMade
<1>1. mid = old \/ (MadeAt(old, mid, now) /\ mid.client = client)
  BY DEF AllMade
<1>2. new = mid \/ (MadeAt(mid, new, now) /\ new.client = client)
  BY DEF AllMade
<1>3. ~(MadeAt(old, mid, now) /\ MadeAt(mid, new, now))
  BY DEF MadeAt, Lifecycle!None
<1> QED BY <1>1, <1>2, <1>3

LEMMA ActivatedTwice ==
    ASSUME NEW st \in DDOState, NEW pays \in [PaymentsContracts -> PayState],
           RailInv(st, pays), NEW st1, NEW pays1, NEW st2, NEW pays2,
           NEW miner, NEW now,
           AllActivated(st, pays, st1, pays1, miner, now),
           AllActivated(st1, pays1, st2, pays2, miner, now)
    PROVE  AllActivated(st, pays, st2, pays2, miner, now)
<1> SUFFICES ASSUME NEW a \in AllocationIds,
                    NEW old, old = Agreement(st, pays, a),
                    NEW mid, mid = Agreement(st1, pays1, a),
                    NEW new, new = Agreement(st2, pays2, a)
             PROVE  new = old \/ (ActivatedAt(old, new, now) /\ old.provider = miner)
  BY DEF AllActivated
<1>1. mid = old \/ (ActivatedAt(old, mid, now) /\ old.provider = miner)
  BY DEF AllActivated
<1>2. new = mid \/ (ActivatedAt(mid, new, now) /\ mid.provider = miner)
  BY DEF AllActivated
<1>3. old \in AgreementType
  BY AgreementTyped
<1>4. ASSUME ActivatedAt(old, mid, now)
      PROVE  mid.activated = TRUE
  <2>1. mid = [old EXCEPT !.activated = TRUE, !.sector = mid.sector,
                          !.settledTo = IF old.price = 0 THEN @ ELSE now]
    BY <1>4 DEF ActivatedAt
  <2> QED BY <1>3, <2>1 DEF AgreementType
<1>5. ~(ActivatedAt(old, mid, now) /\ ActivatedAt(mid, new, now))
  BY <1>4 DEF ActivatedAt
<1> QED BY <1>1, <1>2, <1>5

LEMMA AllSettledTwice ==
    ASSUME NEW st \in DDOState, NEW pays \in [PaymentsContracts -> PayState],
           RailInv(st, pays), NEW st1, NEW pays1, NEW st2, NEW pays2,
           st1.blacklistedSectors = st.blacklistedSectors, NEW now \in Nat,
           AllSettled(st, pays, st1, pays1, now),
           AllSettled(st1, pays1, st2, pays2, now)
    PROVE  AllSettled(st, pays, st2, pays2, now)
<1> SUFFICES ASSUME NEW a \in AllocationIds,
                    NEW old, old = Agreement(st, pays, a),
                    NEW mid, mid = Agreement(st1, pays1, a),
                    NEW new, new = Agreement(st2, pays2, a),
                    NEW blacklist, blacklist = st.blacklistedSectors
             PROVE  new = old \/ SettledAt(old, new, now, blacklist)
  BY DEF AllSettled
<1>1. mid = old \/ SettledAt(old, mid, now, blacklist)
  BY DEF AllSettled
<1>2. new = mid \/ SettledAt(mid, new, now, blacklist)
  BY DEF AllSettled
<1>3. old \in AgreementType
  BY AgreementTyped
<1> QED BY <1>1, <1>2, <1>3, SettledTwice

\* A settlement that leaves the rest of the storage alone settles agreements,
\* whichever contract it names.
LEMMA SettledAgreements ==
    ASSUME IInv, RailInv(s, pay), PaidRails(s, pay, epoch),
           NEW c, NEW id, NEW until \in Nat, CanSettle(c, id, until), Settle(c, id, until),
           s' = s
    PROVE  AllSettled(s, pay, s', pay', epoch)
<1>1. CASE c \in PaymentsContracts
  BY <1>1, SettleMoves
<1>2. CASE c \notin PaymentsContracts
  <2>1. pay' = pay
    BY <1>2, SoundParts DEF Settle
  <2> QED BY <2>1 DEF AllSettled
<1> QED BY <1>1, <1>2

\* A step that leaves allocations and rails alone leaves agreements alone.
LEMMA AgreementsAlone ==
    ASSUME NEW st, NEW pays, NEW st2, NEW pays2,
           st2.allocationInfos = st.allocationInfos,
           st2.paymentsContract = st.paymentsContract,
           pays2[st.paymentsContract].rails = pays[st.paymentsContract].rails,
           pays2[st.paymentsContract].paid = pays[st.paymentsContract].paid
    PROVE  Agreements(st2, pays2) = Agreements(st, pays)
<1>1. \A a \in AllocationIds : Agreement(st2, pays2, a) = Agreement(st, pays, a)
  BY SameAgreement
<1> QED BY <1>1 DEF Agreements

\* What each running call does, one iteration after the other.
LEMMA ProgressStep ==
    ASSUME RailsInv, TransactionInv, Progress, [AnyNext]_vars, IInv'
    PROVE  Progress'
<1>0. /\ IInv /\ RailInv(s, pay) /\ PaidRails(s, pay, epoch)
      /\ s \in DDOState /\ epoch \in Nat
      /\ call.fn = "create" => s.paymentsContract # ZERO
  BY SoundParts DEF RailsInv, AllocationInv
<1>1. CASE call' = Idle
  BY <1>1 DEF Progress, Idle
<1>2. CASE Begins
  <2>1. call'.saved.s = s /\ call'.saved.pay = pay /\ pay' = pay
    BY <1>2 DEF Begins, Snapshot
  <2>2. Agreements(s', pay') = Agreements(s, pay)
    BY <1>0, <1>2, <2>1, BeginsKeeps, AgreementsAlone
  <2>3. \A a \in AllocationIds :
            Agreement(s', pay', a) = Agreement(call'.saved.s, call'.saved.pay, a)
    BY <2>1, <2>2 DEF Agreements
  <2> QED BY <2>3 DEF Progress, AllMade, AllActivated, AllSettled
<1>3. CASE Continues
  <2>0. /\ call # Idle /\ call'.saved = call.saved /\ call'.fn = call.fn
        /\ epoch' = epoch
    BY <1>3 DEF Continues
  <2>1. PICK saved : saved = call.saved
    OBVIOUS
  <2>2. /\ saved.s \in DDOState /\ saved.pay \in [PaymentsContracts -> PayState]
        /\ RailInv(saved.s, saved.pay)
        /\ s.blacklistedSectors = saved.s.blacklistedSectors
    BY <1>0, <2>0, <2>1, SoundParts
       DEF committed, Snapshots, RailsInv, AllocationInv, TransactionInv
  <2>3. CASE createAllocation
    <3>1. call.fn = "create" /\ call'.client = call.client
      BY <1>0, <2>3, CreateFrameParts DEF createAllocation, creating, Continue, CreateFrame
    <3>2. AllMade(s, pay, s', pay', call.client, epoch)
      BY <1>0, <2>3, <3>1, CreateMoves
    <3>3. AllMade(saved.s, saved.pay, s, pay, call.client, epoch)
      BY <2>1, <3>1 DEF Progress
    <3>4. AllMade(saved.s, saved.pay, s', pay', call.client, epoch)
      BY <3>2, <3>3, MadeTwice
    <3> QED BY <2>0, <2>1, <3>1, <3>4 DEF Progress
  <2>4. CASE activatePiece
    <3>1. call.fn = "notify" /\ call'.miner = call.miner
      BY <1>0, <2>4, NotifyFrameParts DEF activatePiece, notifying, NotifyFrame
    <3>2. AllActivated(s, pay, s', pay', call.miner, epoch)
      BY <1>0, <2>4, ActivateMoves
    <3>3. AllActivated(saved.s, saved.pay, s, pay, call.miner, epoch)
      BY <2>1, <3>1 DEF Progress
    <3>4. AllActivated(saved.s, saved.pay, s', pay', call.miner, epoch)
      BY <2>2, <3>2, <3>3, ActivatedTwice
    <3> QED BY <2>0, <2>1, <3>1, <3>4 DEF Progress
  <2>5. CASE settleNext
    <3>1. call.fn = "settle" /\ call.untilEpoch \in Nat
      BY <1>0, <2>5, SettleFrameType DEF settleNext, settling
    <3>2. PICK id : /\ CanSettle(s.paymentsContract, id, call.untilEpoch)
                    /\ Settle(s.paymentsContract, id, call.untilEpoch)
      BY <2>5 DEF settleNext
    <3>3. s' = s
      BY <2>5 DEF settleNext
    <3>4. AllSettled(s, pay, s', pay', epoch)
      BY <1>0, <3>1, <3>2, <3>3, SettledAgreements
    <3>5. AllSettled(saved.s, saved.pay, s, pay, epoch)
      BY <2>1, <3>1 DEF Progress
    <3>6. AllSettled(saved.s, saved.pay, s', pay', epoch)
      BY <1>0, <2>2, <3>4, <3>5, AllSettledTwice
    <3> QED BY <2>0, <2>1, <3>1, <3>6 DEF Progress
  <2>6. CASE settleSkip
    <3>1. s' = s /\ pay' = pay /\ call.fn = "settle"
      BY <2>6 DEF settleSkip, settling
    <3> QED BY <2>0, <3>1 DEF Progress
  <2>7. CASE rejectPiece
    <3>1. s' = s /\ pay' = pay /\ call.fn = "notify" /\ call'.miner = call.miner
      BY <1>0, <2>7, NotifyFrameParts DEF rejectPiece, notifying, NotifyFrame
    <3> QED BY <2>0, <3>1 DEF Progress
  <2> QED BY <1>3, <2>3, <2>4, <2>5, <2>6, <2>7 DEF Continues
<1>4. CASE UNCHANGED vars
  BY <1>4 DEF Progress, vars
<1> QED BY <1>0, <1>1, <1>2, <1>3, <1>4, Kinds DEF Whole, Reverts, Revert, Returns

----------------------------------------------------------------------------
(* The refinement.                                                         *)

Before(a) == Agreement(committed.s, committed.pay, a)
After(a) == Agreement(committed'.s, committed'.pay, a)

\* A step that takes no time and leaves the blacklist alone.
Timeless ==
    epoch' = epoch /\ committed'.s.blacklistedSectors = committed.s.blacklistedSectors

LEMMA ChangedAgreements ==
    ASSUME NEW a
    PROVE  a \in Lifecycle!Changed <=> a \in AllocationIds /\ After(a) # Before(a)
BY DEF Lifecycle!Changed, Agreements, Before, After

LEMMA LifecycleMake ==
    ASSUME NEW client, Timeless,
           AllMade(committed.s, committed.pay, committed'.s, committed'.pay, client, epoch)
    PROVE  Lifecycle!Make
<1>1. \A a \in Lifecycle!Changed :
          /\ a \in AllocationIds
          /\ MadeAt(Before(a), After(a), epoch) /\ After(a).client = client
  BY ChangedAgreements DEF AllMade, Before, After
<1>2. \A a \in Lifecycle!Changed : Lifecycle!Made(Before(a), After(a))
  BY <1>1 DEF Lifecycle!Made, MadeAt
<1>3. \A a \in AllocationIds :
          /\ Agreements(committed.s, committed.pay)[a] = Before(a)
          /\ Agreements(committed.s, committed.pay)'[a] = After(a)
  BY DEF Agreements, Before, After
<1> QED BY <1>1, <1>2, <1>3 DEF Lifecycle!Make, Lifecycle!Transaction, Timeless

LEMMA LifecycleActivate ==
    ASSUME NEW miner, Timeless,
           AllActivated(committed.s, committed.pay, committed'.s, committed'.pay, miner, epoch)
    PROVE  Lifecycle!Activate
<1>1. \A a \in Lifecycle!Changed :
          /\ a \in AllocationIds
          /\ ActivatedAt(Before(a), After(a), epoch) /\ Before(a).provider = miner
  BY ChangedAgreements DEF AllActivated, Before, After
<1>2. \A a \in Lifecycle!Changed : Lifecycle!Activated(Before(a), After(a))
  BY <1>1 DEF Lifecycle!Activated, ActivatedAt
<1>3. \A a \in AllocationIds :
          /\ Agreements(committed.s, committed.pay)[a] = Before(a)
          /\ Agreements(committed.s, committed.pay)'[a] = After(a)
  BY DEF Agreements, Before, After
<1> QED BY <1>1, <1>2, <1>3 DEF Lifecycle!Activate, Lifecycle!Transaction, Timeless

LEMMA LifecycleEnd ==
    ASSUME NEW id, Timeless,
           OneEnded(committed.s, committed.pay, committed'.s, committed'.pay, id, epoch)
    PROVE  Lifecycle!End
<1>1. \A a \in Lifecycle!Changed :
          /\ a \in AllocationIds
          /\ EndedAt(Before(a), After(a), epoch)
          /\ a = committed.s.railIdToAllocationId[id]
  BY ChangedAgreements DEF OneEnded, Before, After
<1>2. \A a \in Lifecycle!Changed : Lifecycle!Ended(Before(a), After(a))
  BY <1>1 DEF Lifecycle!Ended, EndedAt
<1>3. \A a \in AllocationIds :
          /\ Agreements(committed.s, committed.pay)[a] = Before(a)
          /\ Agreements(committed.s, committed.pay)'[a] = After(a)
  BY DEF Agreements, Before, After
<1> QED BY <1>1, <1>2, <1>3 DEF Lifecycle!End, Lifecycle!Transaction, Timeless

LEMMA LifecycleSettle ==
    ASSUME Timeless,
           AllSettled(committed.s, committed.pay, committed'.s, committed'.pay, epoch)
    PROVE  Lifecycle!Settle
<1>1. \A a \in Lifecycle!Changed :
          /\ a \in AllocationIds
          /\ SettledAt(Before(a), After(a), epoch, committed.s.blacklistedSectors)
  BY ChangedAgreements DEF AllSettled, Before, After
<1>2. \A old, to : DueAt(old, to, committed.s.blacklistedSectors) = Lifecycle!Due(old, to)
  BY DEF DueAt, Lifecycle!Due, Lifecycle!Earning
<1>3. \A a \in Lifecycle!Changed : Lifecycle!Settled(Before(a), After(a))
  <2> SUFFICES ASSUME NEW a \in Lifecycle!Changed
               PROVE  Lifecycle!Settled(Before(a), After(a))
    OBVIOUS
  <2>1. PICK old, new : old = Before(a) /\ new = After(a)
    OBVIOUS
  <2>2. SettledAt(old, new, epoch, committed.s.blacklistedSectors)
    BY <1>1, <2>1
  <2> HIDE DEF Agreements
  <2>3. Lifecycle!Settled(old, new)
    BY <1>2, <2>2 DEF Lifecycle!Settled, SettledAt
  <2> QED BY <2>1, <2>3
<1>4. \A a \in AllocationIds :
          /\ Agreements(committed.s, committed.pay)[a] = Before(a)
          /\ Agreements(committed.s, committed.pay)'[a] = After(a)
  BY DEF Agreements, Before, After
<1> QED BY <1>1, <1>3, <1>4 DEF Lifecycle!Settle, Lifecycle!Transaction, Timeless

\* The owner's transactions change no agreement, but perhaps the blacklist.
LEMMA LifecycleSame ==
    ASSUME epoch' = epoch,
           Agreements(committed'.s, committed'.pay) = Agreements(committed.s, committed.pay)
    PROVE  Lifecycle!Blacklist
<1>1. Agreements(committed.s, committed.pay)' = Agreements(committed'.s, committed'.pay)
  BY DEF Agreements
<1> QED BY <1>1 DEF Lifecycle!Blacklist

LEMMA LifecyclePass ==
    ASSUME epoch' = epoch + 1, committed' = committed
    PROVE  Lifecycle!Pass
<1>1. Agreements(committed.s, committed.pay)' = Agreements(committed.s, committed.pay)
  OBVIOUS
<1> QED BY <1>1 DEF Lifecycle!Pass

\* A transaction that is one step, where no time passes.
LEMMA OwnerAgreements ==
    ASSUME SingleContract, IInv, RailInv(s, pay), AnyAdmin \/ AnySP
    PROVE  epoch' = epoch /\ Agreements(s', pay') = Agreements(s, pay)
<1>1. epoch' = epoch
  BY DEF AnyAdmin, AnySP, OwnerTransaction,
         setPaymentsContract, setCommissionRate, setAllocationLockupAmount,
         pause, unpause, blacklistSector, registerSP, updateSPConfig,
         addSPToken, updateSPToken, removeSPToken, deactivateSP
<1>2. /\ s'.allocationInfos = s.allocationInfos /\ pay' = pay
      /\ s'.paymentsContract = s.paymentsContract
         \/ s'.paymentsContract \in PaymentsContracts
  BY OwnerChanges
<1>3. \A a \in AllocationIds : Agreement(s', pay', a) = Agreement(s, pay, a)
  <2> SUFFICES ASSUME NEW a \in AllocationIds
               PROVE  Agreement(s', pay', a) = Agreement(s, pay, a)
    OBVIOUS
  <2>1. PICK info : info = s.allocationInfos[a]
    OBVIOUS
  <2>2. info.client # ZERO => s'.paymentsContract = s.paymentsContract
    BY <1>2, <2>1, SoundParts, AllocatedContract DEF SingleContract, Allocated
  <2>3. s'.allocationInfos[a] = info
    BY <1>2, <2>1
  <2> QED BY <1>2, <2>1, <2>2, <2>3, SameAgreement
<1> QED BY <1>1, <1>3 DEF Agreements

\* Money that comes and goes, and approvals, change no agreement.
LEMMA MoneyAgreements ==
    ASSUME IInv, NEW c \in PaymentsContracts, NEW k,
           \/ \E amount : AnyDeposit(c, k, amount) \/ withdraw(c, k, amount)
           \/ \E limits : setOperatorApproval(c, k, limits)
    PROVE  Agreements(s', pay') = Agreements(s, pay)
<1>1. PICK amount, limits :
          \/ AnyDeposit(c, k, amount) \/ withdraw(c, k, amount)
          \/ setOperatorApproval(c, k, limits)
  OBVIOUS
<1>2. PICK q1 : q1 = Deposit(pay[c], k, amount, epoch)
  OBVIOUS
<1>3. PICK q2 : q2 = Withdraw(pay[c], k, amount, epoch)
  OBVIOUS
<1>4. PICK q3 : q3 = SetOperatorApproval(pay[c], k, limits)
  OBVIOUS
<1>5. /\ q1.rails = pay[c].rails /\ q1.paid = pay[c].paid
      /\ q2.rails = pay[c].rails /\ q2.paid = pay[c].paid
      /\ q3.rails = pay[c].rails /\ q3.paid = pay[c].paid
  BY <1>2, <1>3, <1>4, SoundParts, ClientEffect
<1>6. s' = s
  BY <1>1 DEF AnyDeposit, withdraw, setOperatorApproval, ClientTransaction
<1>7. PICK q : pay' = [pay EXCEPT ![c] = q] /\ q.rails = pay[c].rails
               /\ q.paid = pay[c].paid
  BY <1>1, <1>2, <1>3, <1>4, <1>5 DEF AnyDeposit, withdraw, setOperatorApproval
<1>8. \A d : pay'[d].rails = pay[d].rails /\ pay'[d].paid = pay[d].paid
  BY <1>7, SoundParts
<1> QED BY <1>6, <1>8, AgreementsAlone

\* Each transaction is a step of the abstract specification.
LEMMA WholeLifecycle ==
    ASSUME SingleContract, RailsInv, Whole, IInv'
    PROVE  Lifecycle!Next
<1>0. /\ IInv /\ RailInv(s, pay) /\ PaidRails(s, pay, epoch)
  BY DEF RailsInv, AllocationInv
<1>1. /\ committed.s = s /\ committed'.s = s'
      /\ committed.pay = pay /\ committed'.pay = pay'
  BY <1>0, Commits
<1>2. CASE AnyAdmin \/ AnySP
  <2>1. epoch' = epoch /\ Agreements(s', pay') = Agreements(s, pay)
    BY <1>0, <1>2, OwnerAgreements
  <2>2. Lifecycle!Blacklist
    BY <1>1, <2>1, LifecycleSame
  <2> QED BY <2>2 DEF Lifecycle!Next
<1>3. ASSUME NEW c \in PaymentsContracts, NEW k,
             \/ \E amount : AnyDeposit(c, k, amount) \/ withdraw(c, k, amount)
             \/ \E limits : setOperatorApproval(c, k, limits)
      PROVE  Lifecycle!Next
  <2>1. epoch' = epoch
    BY <1>3 DEF AnyDeposit, withdraw, setOperatorApproval, ClientTransaction
  <2>2. Agreements(s', pay') = Agreements(s, pay)
    BY <1>0, <1>3, MoneyAgreements
  <2>3. Lifecycle!Blacklist
    BY <1>1, <2>1, <2>2, LifecycleSame
  <2> QED BY <2>3 DEF Lifecycle!Next
<1>4. ASSUME NEW c \in PaymentsContracts, NEW id, terminateRail(c, id)
      PROVE  Lifecycle!Next
  <2>1. s' = s /\ epoch' = epoch
    BY <1>4 DEF terminateRail, ClientTransaction
  <2>2. OneEnded(s, pay, s', pay', id, epoch)
    BY <1>0, <1>4, TerminateMoves
  <2>3. Timeless /\ OneEnded(committed.s, committed.pay,
                             committed'.s, committed'.pay, id, epoch)
    BY <1>1, <2>1, <2>2 DEF Timeless
  <2>4. Lifecycle!End
    BY <2>3, LifecycleEnd
  <2> QED BY <2>4 DEF Lifecycle!Next
<1>5. ASSUME NEW c, NEW id, NEW until \in Nat, CanSettle(c, id, until),
             Settle(c, id, until), s' = s, epoch' = epoch
      PROVE  Lifecycle!Next
  <2>1. AllSettled(s, pay, s', pay', epoch)
    BY <1>0, <1>5, SettledAgreements
  <2>2. Timeless /\ AllSettled(committed.s, committed.pay,
                               committed'.s, committed'.pay, epoch)
    BY <1>1, <1>5, <2>1 DEF Timeless
  <2>3. Lifecycle!Settle
    BY <2>2, LifecycleSettle
  <2> QED BY <2>3 DEF Lifecycle!Next
<1>6. CASE Tick
  <2>1. call' = Idle /\ committed' = committed /\ epoch' = epoch + 1
    BY <1>6 DEF Tick, committed, Snapshot
  <2>2. Lifecycle!Pass
    BY <2>1, LifecyclePass
  <2> QED BY <2>2 DEF Lifecycle!Next
<1>7. CASE AnyClient
  <2>1. PICK c \in PaymentsContracts :
            \/ \E k \in Clients \X Tokens :
                  \/ \E amount \in Nat :
                        AnyDeposit(c, k, amount) \/ withdraw(c, k, amount)
                  \/ \E limits \in ApprovalLimits : setOperatorApproval(c, k, limits)
            \/ \E r \in RailIds : terminateRail(c, r) \/ settleRail(c, r)
    BY <1>7 DEF AnyClient
  <2>2. CASE \E k \in Clients \X Tokens :
                  \/ \E amount \in Nat :
                        AnyDeposit(c, k, amount) \/ withdraw(c, k, amount)
                  \/ \E limits \in ApprovalLimits : setOperatorApproval(c, k, limits)
    BY <1>3, <2>2
  <2>3. ASSUME NEW r \in RailIds, terminateRail(c, r) PROVE Lifecycle!Next
    BY <1>4, <2>3
  <2>4. ASSUME NEW r \in RailIds, settleRail(c, r) PROVE Lifecycle!Next
    <3>1. /\ CanSettle(c, r, epoch) /\ Settle(c, r, epoch)
          /\ s' = s /\ epoch' = epoch
      BY <2>4 DEF settleRail, ClientTransaction
    <3>2. epoch \in Nat
      BY <1>0, SoundParts
    <3> QED BY <1>5, <3>1, <3>2
  <2> QED BY <2>1, <2>2, <2>3, <2>4
<1>8. ASSUME NEW a, NEW until \in Nat, settleSpPayment(a, until)
      PROVE  Lifecycle!Next
  <2>1. PICK id : /\ CanSettle(s.paymentsContract, id, until)
                  /\ Settle(s.paymentsContract, id, until)
                  /\ s' = s /\ epoch' = epoch
    BY <1>8 DEF settleSpPayment
  <2> QED BY <1>5, <2>1
<1> QED BY <1>2, <1>6, <1>7, <1>8 DEF Whole

\* A call that returns shows all it did at once.
LEMMA ReturnLifecycle ==
    ASSUME RailsInv, TransactionInv, Progress, Returns
    PROVE  Lifecycle!Next
<1>0. IInv
  BY DEF RailsInv, AllocationInv
<1>1. PICK saved : saved = call.saved
  OBVIOUS
<1>2. /\ committed = saved /\ committed'.s = s' /\ committed'.pay = pay
      /\ epoch' = epoch /\ call # Idle
  BY <1>0, <1>1, Commits DEF Returns
<1>3. /\ s'.allocationInfos = s.allocationInfos
      /\ s'.paymentsContract = s.paymentsContract
      /\ s'.blacklistedSectors = saved.s.blacklistedSectors
  BY <1>0, <1>1, <1>2, ReturnsKeeps DEF TransactionInv
<1>4. Timeless
  BY <1>2, <1>3 DEF Timeless
<1>5. \A a \in AllocationIds : Agreement(s', pay, a) = Agreement(s, pay, a)
  BY <1>3, SameAgreement
<1>6. CASE call.fn = "create"
  <2>1. AllMade(saved.s, saved.pay, s', pay, call.client, epoch)
    BY <1>1, <1>5, <1>6 DEF Progress, AllMade
  <2>2. Lifecycle!Make
    BY <1>2, <1>4, <2>1, LifecycleMake
  <2> QED BY <2>2 DEF Lifecycle!Next
<1>7. CASE call.fn = "notify"
  <2>1. AllActivated(saved.s, saved.pay, s', pay, call.miner, epoch)
    BY <1>1, <1>5, <1>7 DEF Progress, AllActivated
  <2>2. Lifecycle!Activate
    BY <1>2, <1>4, <2>1, LifecycleActivate
  <2> QED BY <2>2 DEF Lifecycle!Next
<1>8. CASE call.fn = "settle"
  <2>1. AllSettled(saved.s, saved.pay, s', pay, epoch)
    BY <1>1, <1>5, <1>8 DEF Progress, AllSettled
  <2>2. Lifecycle!Settle
    BY <1>2, <1>4, <2>1, LifecycleSettle
  <2> QED BY <2>2 DEF Lifecycle!Next
<1> QED BY <1>6, <1>7, <1>8 DEF Returns, createReturn, notifyReturn, settleReturn

\* Steps inside a call, and a revert, are not seen.
LEMMA LifecycleStep ==
    ASSUME SingleContract, RailsInv, TransactionInv, Progress, [AnyNext]_vars, IInv'
    PROVE  [Lifecycle!Next]_Lifecycle!lifecycle
<1>0. IInv
  BY DEF RailsInv, AllocationInv
<1>1. ASSUME committed'.s = committed.s, committed'.pay = committed.pay, epoch' = epoch
      PROVE  UNCHANGED Lifecycle!lifecycle
  <2>1. Agreements(committed.s, committed.pay)' = Agreements(committed'.s, committed'.pay)
    BY DEF Agreements
  <2> QED BY <1>1, <2>1 DEF Lifecycle!lifecycle
<1>2. CASE Begins \/ Continues \/ Reverts
  BY <1>0, <1>1, <1>2, Commits
<1>3. CASE UNCHANGED vars
  BY <1>0, <1>1, <1>3, Commits DEF vars
<1>4. CASE Whole
  BY <1>4, WholeLifecycle
<1>5. CASE Returns
  BY <1>5, ReturnLifecycle
<1> QED BY <1>0, <1>2, <1>3, <1>4, <1>5, Kinds

LEMMA LifecycleInit ==
    ASSUME Init
    PROVE  Lifecycle!Init /\ Progress
<1>1. committed.s = s /\ call = Idle /\ epoch = 0
  BY DEF Init, committed, Snapshot
<1>2. s.allocationInfos = [a \in AllocationIds |-> NoAllocation]
      /\ s.blacklistedSectors = {}
  BY DEF Init, Initialized
<1>3. \A a \in AllocationIds :
          Agreement(committed.s, committed.pay, a) = Lifecycle!None
  BY <1>1, <1>2 DEF Agreement, Lifecycle!None, NoAllocation
<1>4. Agreements(committed.s, committed.pay) = [a \in AllocationIds |-> Lifecycle!None]
  BY <1>3 DEF Agreements
<1>5. Lifecycle!Init
  BY <1>1, <1>2, <1>4 DEF Lifecycle!Init
<1>6. Progress
  BY <1>1 DEF Progress, Idle
<1> QED BY <1>5, <1>6

\* The diamond implements AllocationLifecycle: with one payments contract, what
\* the four facets, the diamond's storage and FilecoinPay do together to an
\* allocation and its rail, calls that stop half-way included, is what an
\* agreement may do: it is made once, with its batch; takes effect once, by its
\* provider; is ended with a month's notice; is paid for each epoch up to its
\* end once, and for none of a blacklisted sector; and over when settled to its
\* end.
THEOREM ImplementsLifecycle ==
    ASSUME SingleContract
    PROVE  Spec => LifecycleSpec
<1>1. Init => Lifecycle!Init /\ Progress
  BY LifecycleInit
<1>2. RailsInv /\ TransactionInv /\ Progress /\ [AnyNext]_vars /\ IInv' => Progress'
  BY ProgressStep
<1>3. RailsInv /\ TransactionInv /\ Progress /\ [AnyNext]_vars /\ IInv'
          => [Lifecycle!Next]_Lifecycle!lifecycle
  BY LifecycleStep
<1>4. Spec => []RailsInv
  BY RailsInvariance
<1>5. Spec => []Progress
  BY <1>1, <1>2, <1>4, Invariance, TransactionInvariance, SpecIsAny, PTL
<1>6. Spec => Lifecycle!Init /\ [][Lifecycle!Next]_Lifecycle!lifecycle
  BY <1>1, <1>3, <1>4, <1>5, Invariance, TransactionInvariance, SpecIsAny, PTL
<1> QED BY <1>6 DEF LifecycleSpec, Lifecycle!Spec

----------------------------------------------------------------------------
(* Payments.                                                               *)

Moved(old, new, now, blacklist) ==
    \/ new = old
    \/ MadeAt(old, new, now)
    \/ ActivatedAt(old, new, now)
    \/ EndedAt(old, new, now)
    \/ SettledAt(old, new, now, blacklist)

AllMoved(st, pays, st2, pays2, now) ==
    \A a \in AllocationIds :
        Moved(Agreement(st, pays, a), Agreement(st2, pays2, a), now,
              st.blacklistedSectors)

\* What an agreement pays between two moments.
LEMMA AgreementPaid ==
    ASSUME NEW now \in Nat, NEW blacklist,
           NEW old \in AgreementType, NEW new \in AgreementType,
           old.client # ZERO, ~old.open => old.settledTo = 0 /\ old.end = 0,
           Moved(old, new, now, blacklist)
    PROVE  new.paid = old.paid
               + DueAt(old, IF new.open THEN new.settledTo ELSE old.end, blacklist)
<1>1. /\ old.settledTo \in Nat /\ old.price \in Nat /\ old.paid \in Nat
      /\ old.end \in Nat /\ old.price * 0 = 0
  BY DEF AgreementType
<1>2. DueAt(old, old.settledTo, blacklist) = 0
  BY <1>1 DEF DueAt
<1>3. CASE new = old
  <2>1. (IF new.open THEN new.settledTo ELSE old.end) = old.settledTo
    BY <1>3
  <2> QED BY <1>1, <1>2, <1>3, <2>1
<1>4. CASE MadeAt(old, new, now)
  BY <1>4 DEF MadeAt, Lifecycle!None
<1>5. CASE ActivatedAt(old, new, now)
  <2>1. ~old.activated /\ new.paid = old.paid
    BY <1>5 DEF ActivatedAt, AgreementType
  <2>2. \A to : DueAt(old, to, blacklist) = 0
    BY <2>1 DEF DueAt
  <2> QED BY <1>1, <2>1, <2>2
<1>6. CASE EndedAt(old, new, now)
  <2>1. new.open /\ new.settledTo = old.settledTo /\ new.paid = old.paid
    BY <1>6 DEF EndedAt, AgreementType
  <2> QED BY <1>1, <1>2, <2>1
<1>7. CASE SettledAt(old, new, now, blacklist)
  <2>1. PICK to \in Nat : RailSettledTo(old, new, to, blacklist)
    BY <1>7, SettledEpoch
  <2> QED BY <2>1 DEF RailSettledTo
<1> QED BY <1>3, <1>4, <1>5, <1>6, <1>7 DEF Moved

\* What is paid on the rail r of the contract c: by its allocation's agreement.
PaidBetween(st, pays, st2, pays2, c, r) ==
    LET a == st.railIdToAllocationId[r]
        info == st.allocationInfos[a]
    IN  IF /\ a # 0
           /\ info.activated
           /\ <<info.provider, info.sectorNumber>> \notin st.blacklistedSectors
        THEN pays2[c].paid[r] - pays[c].paid[r] =
                 pricePerEpoch(info)
                    * (SettledUpTo(pays[c], pays2[c], r) - pays[c].rails[r].settledUpTo)
        ELSE pays2[c].paid[r] = pays[c].paid[r]

LEMMA BoundPaid ==
    ASSUME SingleContract, NEW now \in Nat,
           NEW st \in DDOState, NEW pays \in [PaymentsContracts -> PayState],
           RailInv(st, pays),
           NEW st2 \in DDOState, NEW pays2 \in [PaymentsContracts -> PayState],
           RailInv(st2, pays2),
           NEW a \in Allocated(st),
           Final(st.allocationInfos[a], st2.allocationInfos[a]),
           AllMoved(st, pays, st2, pays2, now),
           NEW c \in PaymentsContracts, NEW r, r = st.allocationInfos[a].railId
    PROVE  PaidBetween(st, pays, st2, pays2, c, r)
<1>1. PICK info : info = st.allocationInfos[a]
  OBVIOUS
<1>2. PICK info2 : info2 = st2.allocationInfos[a]
  OBVIOUS
<1>3. PICK p : p = pays[c]
  OBVIOUS
<1>4. PICK q : q = pays2[c]
  OBVIOUS
<1>5. a \in AllocationIds /\ info \in AllocationInfo /\ info.client # ZERO
  BY <1>1 DEF Allocated, DDOState
<1>6. info2.client = info.client /\ info2.railId = info.railId
  BY <1>1, <1>2, <1>5 DEF Final, AllocationInfo
<1>7. a \in Allocated(st2)
  BY <1>2, <1>5, <1>6 DEF Allocated
<1>8. st.paymentsContract = c /\ st2.paymentsContract = c
  BY <1>7, RailAgreement DEF SingleContract
<1>9. /\ a # 0 /\ st.railIdToAllocationId[r] = a
      /\ p.rails[r] \in Rail /\ p.paid[r] \in Nat
      /\ Agreement(st, pays, a) = AgreementOf(info, p.rails[r], p.paid[r])
  BY <1>1, <1>3, <1>8, RailAgreement
<1>10. /\ info2 \in AllocationInfo
       /\ q.rails[r] \in Rail /\ q.paid[r] \in Nat
       /\ Agreement(st2, pays2, a) = AgreementOf(info2, q.rails[r], q.paid[r])
  BY <1>1, <1>2, <1>4, <1>6, <1>7, <1>8, RailAgreement
<1>11. PICK old : old = Agreement(st, pays, a)
  OBVIOUS
<1>12. PICK new : new = Agreement(st2, pays2, a)
  OBVIOUS
<1>13. Tells(old, info, p.rails[r], p.paid[r]) /\ Tells(new, info2, q.rails[r], q.paid[r])
  BY <1>5, <1>9, <1>10, <1>11, <1>12, AgreementFields
<1>14. old \in AgreementType /\ new \in AgreementType
  BY <1>13 DEF Tells
<1>15. ~old.open => old.settledTo = 0 /\ old.end = 0
  <2>1. \A rail \in Rail : rail.from = ZERO => rail.settledUpTo = 0 /\ rail.endEpoch = 0
    BY ZeroAssumption DEF Rail, LiveRail, NoRail
  <2>2. old.open <=> p.rails[r].from # ZERO
    BY <1>13 DEF Tells
  <2>3. old.settledTo = p.rails[r].settledUpTo /\ old.end = p.rails[r].endEpoch
    BY <1>13 DEF Tells
  <2> QED BY <1>9, <2>1, <2>2, <2>3
<1>16. old.client # ZERO /\ Moved(old, new, now, st.blacklistedSectors)
  BY <1>5, <1>11, <1>12, <1>13 DEF AllMoved, Tells
<1>17. PICK to : to = SettledUpTo(p, q, r)
  OBVIOUS
<1>18. to = IF new.open THEN new.settledTo ELSE old.end
  BY <1>13, <1>17 DEF Tells, SettledUpTo
<1>19. new.paid = old.paid + DueAt(old, to, st.blacklistedSectors)
  BY <1>14, <1>15, <1>16, <1>18, AgreementPaid
<1>20. q.paid[r] = p.paid[r] + DueAt(old, to, st.blacklistedSectors)
  BY <1>13, <1>19 DEF Tells
<1>21. DueAt(old, to, st.blacklistedSectors) =
          IF info.activated
             /\ <<info.provider, info.sectorNumber>> \notin st.blacklistedSectors
          THEN pricePerEpoch(info) * (to - p.rails[r].settledUpTo) ELSE 0
  BY <1>13 DEF DueAt, Tells
<1>22. PICK price : price = pricePerEpoch(info) * (to - p.rails[r].settledUpTo)
  OBVIOUS
<1>23. price \in Int
  <2>1. to \in Nat /\ p.rails[r].settledUpTo \in Nat /\ pricePerEpoch(info) \in Nat
    BY <1>13, <1>14, <1>18 DEF Tells, AgreementType
  <2>2. to - p.rails[r].settledUpTo \in Int
    BY <2>1
  <2> QED BY <1>22, <2>1, <2>2, IntProducts
<1>24. CASE info.activated
            /\ <<info.provider, info.sectorNumber>> \notin st.blacklistedSectors
  <2>1. q.paid[r] = p.paid[r] + price
    BY <1>20, <1>21, <1>22, <1>24
  <2>2. q.paid[r] - p.paid[r] = price
    BY <1>9, <1>23, <2>1
  <2> QED BY <1>1, <1>3, <1>4, <1>9, <1>17, <1>22, <1>24, <2>2 DEF PaidBetween
<1>25. CASE ~(info.activated
              /\ <<info.provider, info.sectorNumber>> \notin st.blacklistedSectors)
  <2>1. q.paid[r] = p.paid[r]
    BY <1>9, <1>20, <1>21, <1>25
  <2> QED BY <1>1, <1>3, <1>4, <1>9, <1>25, <2>1 DEF PaidBetween
<1> QED BY <1>24, <1>25

AllFinal(st, st2) ==
    \A a \in Allocated(st) : Final(st.allocationInfos[a], st2.allocationInfos[a])

\* A rail that is bound to no allocation, or only to a new one, is not paid on.
LEMMA UnboundPaid ==
    ASSUME NEW now, NEW st, NEW pays, UnboundUnpaid(st, pays),
           NEW st2 \in DDOState, NEW pays2 \in [PaymentsContracts -> PayState],
           RailInv(st2, pays2), UnboundUnpaid(st2, pays2), RailInv(st, pays),
           AllFinal(st, st2), st.allocationInfos \in [AllocationIds -> AllocationInfo],
           AllMoved(st, pays, st2, pays2, now), SingleContract,
           NEW c \in PaymentsContracts, NEW r \in RailIds,
           st.railIdToAllocationId[r] = 0
    PROVE  PaidBetween(st, pays, st2, pays2, c, r)
<1> SUFFICES pays2[c].paid[r] = pays[c].paid[r]
  BY DEF PaidBetween
<1>1. pays[c].paid[r] = 0
  BY DEF UnboundUnpaid
<1>2. CASE st2.railIdToAllocationId[r] = 0
  BY <1>1, <1>2 DEF UnboundUnpaid
<1>3. CASE st2.railIdToAllocationId[r] # 0
  <2>1. PICK a : a = st2.railIdToAllocationId[r]
    OBVIOUS
  <2>2. PICK info2 : info2 = st2.allocationInfos[a]
    OBVIOUS
  <2>3. a \in Allocated(st2) /\ a \in AllocationIds /\ info2.railId = r
    BY <1>3, <2>1, <2>2 DEF RailInv, RailMapInverse, Allocated
  <2>4. a \notin Allocated(st)
    <3> SUFFICES ASSUME a \in Allocated(st) PROVE FALSE
      OBVIOUS
    <3>1. PICK info : info = st.allocationInfos[a]
      OBVIOUS
    <3>2. info \in AllocationInfo /\ Final(info, info2)
      BY <2>2, <2>3, <3>1 DEF AllFinal
    <3>3. info.railId = r
      BY <2>3, <3>2 DEF Final, AllocationInfo
    <3>4. st.railIdToAllocationId[r] = a /\ a # 0
      BY <3>1, <3>3, IdsAssumption DEF RailInv, RailMapInverse, Allocated
    <3> QED BY <3>4
  <2>5. Agreement(st, pays, a) = Lifecycle!None
    BY <2>3, <2>4, NoAgreement
  <2>6. PICK new : new = Agreement(st2, pays2, a)
    OBVIOUS
  <2>7. /\ c = st2.paymentsContract /\ info2 \in AllocationInfo /\ info2.client # ZERO
        /\ pays2[c].rails[r] \in Rail /\ pays2[c].paid[r] \in Nat
        /\ new = AgreementOf(info2, pays2[c].rails[r], pays2[c].paid[r])
    BY <2>2, <2>3, <2>6, RailAgreement DEF SingleContract
  <2>8. Tells(new, info2, pays2[c].rails[r], pays2[c].paid[r])
    BY <2>7, AgreementFields
  <2>9. new.client # ZERO /\ new.paid = pays2[c].paid[r]
    BY <2>7, <2>8 DEF Tells
  <2>10. Moved(Lifecycle!None, new, now, st.blacklistedSectors)
    BY <2>3, <2>5, <2>6 DEF AllMoved
  <2>11. new.paid = 0
    BY <2>9, <2>10
       DEF Moved, MadeAt, ActivatedAt, EndedAt, SettledAt, Lifecycle!None
  <2> QED BY <1>1, <2>9, <2>11
<1> QED BY <1>2, <1>3

\* Whatever step of the abstract specification a transaction is, each agreement
\* moves as one of its operations says.
LEMMA LifecycleMoves ==
    ASSUME [Lifecycle!Next]_Lifecycle!lifecycle
    PROVE  AllMoved(committed.s, committed.pay, committed'.s, committed'.pay, epoch)
<1> SUFFICES ASSUME NEW a \in AllocationIds
             PROVE  Moved(Before(a), After(a), epoch, committed.s.blacklistedSectors)
  BY DEF AllMoved, Before, After
<1>1. /\ Agreements(committed.s, committed.pay)[a] = Before(a)
      /\ Agreements(committed.s, committed.pay)'[a] = After(a)
  BY DEF Agreements, Before, After
<1>2. PICK old, new : old = Before(a) /\ new = After(a)
  OBVIOUS
<1>3. CASE new = old
  BY <1>2, <1>3 DEF Moved
<1>4. CASE new # old
  <2>1. a \in Lifecycle!Changed
    BY <1>2, <1>4, ChangedAgreements
  <2>2. ~ UNCHANGED Agreements(committed.s, committed.pay)
    BY <1>1, <1>2, <1>4
  <2>3. \/ Lifecycle!Made(old, new) \/ Lifecycle!Activated(old, new)
        \/ Lifecycle!Ended(old, new) \/ Lifecycle!Settled(old, new)
    <3> HIDE DEF Agreements
    <3> QED BY <1>1, <1>2, <2>1, <2>2
         DEF Lifecycle!Next, Lifecycle!Make, Lifecycle!Activate, Lifecycle!End,
             Lifecycle!Settle, Lifecycle!Blacklist, Lifecycle!Pass, Lifecycle!lifecycle
  <2>4. Lifecycle!Made(old, new) => MadeAt(old, new, epoch)
    BY DEF Lifecycle!Made, MadeAt
  <2>5. Lifecycle!Activated(old, new) => ActivatedAt(old, new, epoch)
    BY DEF Lifecycle!Activated, ActivatedAt
  <2>6. Lifecycle!Ended(old, new) => EndedAt(old, new, epoch)
    BY DEF Lifecycle!Ended, EndedAt
  <2>7. \A to : DueAt(old, to, committed.s.blacklistedSectors) = Lifecycle!Due(old, to)
    BY DEF DueAt, Lifecycle!Due, Lifecycle!Earning
  <2>8. Lifecycle!Settled(old, new) =>
            SettledAt(old, new, epoch, committed.s.blacklistedSectors)
    BY <2>7 DEF Lifecycle!Settled, SettledAt
  <2> QED BY <1>2, <2>3, <2>4, <2>5, <2>6, <2>8 DEF Moved
<1> QED BY <1>3, <1>4

\* With one payments contract, every transaction pays on every rail exactly the
\* agreed price for the epochs it settles, or nothing for a blacklisted sector,
\* and nothing on a rail without an activated allocation, whatever reverts.
THEOREM AgreedPayments ==
    ASSUME SingleContract
    PROVE  Spec => PaidAsAgreed
<1> DEFINE Step == \A c \in PaymentsContracts, r \in RailIds :
          LET old == committed.pay[c]
              new == committed'.pay[c]
              a == committed.s.railIdToAllocationId[r]
              info == committed.s.allocationInfos[a]
              earning == /\ a # 0
                         /\ info.activated
                         /\ <<info.provider, info.sectorNumber>>
                               \notin committed.s.blacklistedSectors
              epochs == SettledUpTo(old, new, r) - old.rails[r].settledUpTo
          IN  IF earning
              THEN new.paid[r] - old.paid[r] = pricePerEpoch(info) * epochs
              ELSE new.paid[r] = old.paid[r]
<1>1. /\ SingleContract /\ RailsInv /\ RailsInv' /\ TransactionInv /\ [AnyNext]_vars
      /\ [Lifecycle!Next]_Lifecycle!lifecycle
      => [Step]_vars
  <2> SUFFICES ASSUME RailsInv, RailsInv', TransactionInv, AnyNext,
                      [Lifecycle!Next]_Lifecycle!lifecycle,
                      NEW c \in PaymentsContracts, NEW r \in RailIds
               PROVE  PaidBetween(committed.s, committed.pay,
                                  committed'.s, committed'.pay, c, r)
    BY DEF PaidBetween
  <2>1. PICK st, pays : st = committed.s /\ pays = committed.pay
    OBVIOUS
  <2>2. PICK st2, pays2 : st2 = committed'.s /\ pays2 = committed'.pay
    OBVIOUS
  <2>3. /\ IInv /\ RailInv(st, pays) /\ UnboundUnpaid(st, pays)
        /\ RailInv(st2, pays2) /\ UnboundUnpaid(st2, pays2)
    BY <2>1, <2>2 DEF RailsInv, AllocationInv, PaidRails
  <2>4. /\ st \in DDOState /\ pays \in [PaymentsContracts -> PayState]
        /\ epoch \in Nat
    BY <2>1, <2>3, SoundParts DEF committed, Snapshots, Snapshot
  <2>5. st2 \in DDOState /\ pays2 \in [PaymentsContracts -> PayState]
    <3>1. IInv'
      BY DEF RailsInv, AllocationInv
    <3>2. committed' \in Snapshots
      BY <3>1 DEF IInv, TypeOK, committed, Snapshot, Snapshots, CreateFrame,
                  NotifyFrame, SettleFrame
    <3> QED BY <2>2, <3>2 DEF Snapshots
  <2>6. AllMoved(st, pays, st2, pays2, epoch)
    BY <2>1, <2>2, LifecycleMoves
  <2>7. AllFinal(st, st2)
    BY <2>1, <2>2, <2>3, TransactionFinal DEF AllFinal
  <2>8. CASE st.railIdToAllocationId[r] = 0
    <3>1. st.allocationInfos \in [AllocationIds -> AllocationInfo]
      BY <2>4 DEF DDOState
    <3>2. PaidBetween(st, pays, st2, pays2, c, r)
      BY <2>3, <2>4, <2>5, <2>6, <2>7, <2>8, <3>1, UnboundPaid
    <3> QED BY <2>1, <2>2, <3>2
  <2>9. CASE st.railIdToAllocationId[r] # 0
    <3>1. PICK a \in Allocated(st) : r = st.allocationInfos[a].railId
      BY <2>3, <2>9 DEF RailInv, RailMapInverse
    <3>2. Final(st.allocationInfos[a], st2.allocationInfos[a])
      BY <2>7 DEF AllFinal
    <3>3. RailInv(st, pays) /\ RailInv(st2, pays2)
      BY <2>3
    <3>4. PaidBetween(st, pays, st2, pays2, c, r)
      BY <2>4, <2>5, <2>6, <3>1, <3>2, <3>3, BoundPaid
    <3> QED BY <2>1, <2>2, <3>4
  <2> QED BY <2>8, <2>9
<1>2. Spec => []RailsInv
  BY RailsInvariance
<1>3. Spec => [][Lifecycle!Next]_Lifecycle!lifecycle
  BY ImplementsLifecycle DEF LifecycleSpec, Lifecycle!Spec
<1>4. Spec => [][Step]_vars
  BY <1>1, <1>2, <1>3, TransactionInvariance, SpecIsAny, PTL
<1> QED BY <1>4 DEF PaidAsAgreed
=============================================================================
