---------------------------- MODULE FilecoinPay ----------------------------
(***************************************************************************)
(* The payment-rail contract the diamond drives (FilecoinPayV1).  Its code *)
(* is a submodule and not part of this repository: this module states what *)
(* the facets, the Go client (pkg/contract/payments) and the Foundry tests *)
(* rely on.  It is a library of pure operators on the state of one         *)
(* deployed contract:                                                      *)
(*                                                                         *)
(*   CanOp(p, ...)   whether the call Op succeeds in state p (a call that  *)
(*                   does not succeed reverts the caller)                  *)
(*   Op(p, ...)      the state after the call                              *)
(*                                                                         *)
(* The operator, and the validator, of every rail is the diamond, so       *)
(* neither is stored.  A rail's rate goes once from 0 to its final value,  *)
(* so the queue of past rates is not needed.  Network fees and the split   *)
(* of a payment between payee and commission are left out: `paid' is what  *)
(* the payer was charged.                                                  *)
(***************************************************************************)
EXTENDS Integers

CONSTANTS
    Clients,      \* addresses that pay
    Tokens,       \* ERC-20 contracts
    Payees,       \* addresses that are paid
    MaxRails,     \* bound: rails a payments contract creates
    ZERO          \* address(0)

ASSUME MaxRailsAssumption == MaxRails \in Nat

RailIds == 1..MaxRails

LiveRail == [token: Tokens, from: Clients, to: Payees \cup {ZERO},
             commissionRateBps: Nat, rate: Nat, lockupFixed: Nat,
             lockupPeriod: Nat, settledUpTo: Nat, endEpoch: Nat]

NoRail == [token |-> ZERO, from |-> ZERO, to |-> ZERO, commissionRateBps |-> 0,
           rate |-> 0, lockupFixed |-> 0, lockupPeriod |-> 0,
           settledUpTo |-> 0, endEpoch |-> 0]

Rail == LiveRail \cup {NoRail}

Account == [funds: Nat, lockupCurrent: Nat, lockupRate: Nat,
            lockupLastSettledAt: Nat]

Approval == [isApproved: BOOLEAN, rateAllowance: Nat, lockupAllowance: Nat,
             maxLockupPeriod: Nat, rateUsage: Nat, lockupUsage: Nat]

PayState == [nextRailId: Nat \ {0},
             rails: [RailIds -> Rail],
             accounts: [Clients \X Tokens -> Account],
             approvals: [Clients \X Tokens -> Approval],
             paid: [RailIds -> Nat]]

PayInit ==
    [nextRailId |-> 1,
     rails |-> [r \in RailIds |-> NoRail],
     accounts |-> [k \in Clients \X Tokens |->
         [funds |-> 0, lockupCurrent |-> 0, lockupRate |-> 0,
          lockupLastSettledAt |-> 0]],
     approvals |-> [k \in Clients \X Tokens |->
         [isApproved |-> FALSE, rateAllowance |-> 0, lockupAllowance |-> 0,
          maxLockupPeriod |-> 0, rateUsage |-> 0, lockupUsage |-> 0]],
     paid |-> [r \in RailIds |-> 0]]

----------------------------------------------------------------------------
(* Rails and accounts.                                                     *)

RailExists(p, id) == id \in RailIds /\ p.rails[id].from # ZERO
Terminated(p, id) == p.rails[id].endEpoch # 0

\* The account a rail draws on.
Key(p, id) == <<p.rails[id].from, p.rails[id].token>>

RailLockup(r) == r.lockupFixed + r.rate * r.lockupPeriod

Min2(a, b) == IF a <= b THEN a ELSE b
Max2(a, b) == IF a >= b THEN a ELSE b

\* An operator's usage never goes below zero.
Usage(used, change) == Max2(0, used + change)

\* Moves the lockup of an account to `now', as far as its funds reach.
SettledAccount(a, now) ==
    LET owed == a.lockupRate * (now - a.lockupLastSettledAt)
        epochs == (a.funds - a.lockupCurrent) \div a.lockupRate
    IN  IF a.lockupRate = 0 \/ a.funds >= a.lockupCurrent + owed
        THEN [a EXCEPT !.lockupCurrent = @ + owed, !.lockupLastSettledAt = now]
        ELSE [a EXCEPT !.lockupCurrent = @ + a.lockupRate * epochs,
                       !.lockupLastSettledAt = @ + epochs]

FullySettled(a, now) == SettledAccount(a, now).lockupLastSettledAt = now

(* What every operation below keeps: an account never locks more than it   *)
(* holds, and is never settled beyond the present.                         *)

AccountSound(a, now) ==
    a \in Account /\ a.lockupCurrent <= a.funds /\ a.lockupLastSettledAt <= now

PaySound(p, now) ==
    /\ p \in PayState
    /\ \A k \in Clients \X Tokens : AccountSound(p.accounts[k], now)

----------------------------------------------------------------------------
(* What a payer does with its account and its operator approval.           *)

Deposit(p, k, amount, now) ==
    LET a == [p.accounts[k] EXCEPT !.funds = @ + amount]
    IN  [p EXCEPT !.accounts[k] = SettledAccount(a, now)]

\* Wrong on purpose: the lockup is compared as it was last settled.
CanWithdrawUnsettled(p, k, amount, now) ==
    amount <= p.accounts[k].funds - p.accounts[k].lockupCurrent

CanWithdraw(p, k, amount, now) ==
    LET a == SettledAccount(p.accounts[k], now)
    IN  FullySettled(p.accounts[k], now) /\ amount <= a.funds - a.lockupCurrent

Withdraw(p, k, amount, now) ==
    [p EXCEPT !.accounts[k] =
        [SettledAccount(p.accounts[k], now) EXCEPT !.funds = @ - amount]]

\* limits has the fields isApproved, rateAllowance, lockupAllowance and
\* maxLockupPeriod; what the operator already uses is kept.
SetOperatorApproval(p, k, limits) ==
    [p EXCEPT !.approvals[k].isApproved = limits.isApproved,
              !.approvals[k].rateAllowance = limits.rateAllowance,
              !.approvals[k].lockupAllowance = limits.lockupAllowance,
              !.approvals[k].maxLockupPeriod = limits.maxLockupPeriod]

----------------------------------------------------------------------------
(* What the operator, the diamond, does with a rail.                       *)

CanCreateRail(p, token, from) ==
    /\ p.nextRailId \in RailIds
    /\ p.approvals[<<from, token>>].isApproved

CreateRail(p, token, from, to, commission, now) ==
    [p EXCEPT !.nextRailId = @ + 1,
              !.rails[p.nextRailId] =
                  [NoRail EXCEPT !.token = token, !.from = from, !.to = to,
                                 !.commissionRateBps = commission,
                                 !.settledUpTo = now]]

CanModifyRailLockup(p, id, period, fixed, now) ==
    /\ RailExists(p, id)
    /\ LET r == p.rails[id]
           a == SettledAccount(p.accounts[Key(p, id)], now)
           approval == p.approvals[Key(p, id)]
           old == RailLockup(r)
           new == fixed + r.rate * period
       IN  /\ (Terminated(p, id) \/ a.lockupLastSettledAt # now)
                 => period = r.lockupPeriod /\ fixed <= r.lockupFixed
           /\ period > r.lockupPeriod => period <= approval.maxLockupPeriod
           /\ new > old =>
                 approval.lockupUsage + (new - old) <= approval.lockupAllowance
           /\ old <= a.lockupCurrent
           /\ a.lockupCurrent - old + new <= a.funds

ModifyRailLockup(p, id, period, fixed, now) ==
    LET r == p.rails[id]
        a == SettledAccount(p.accounts[Key(p, id)], now)
        change == (fixed + r.rate * period) - RailLockup(r)
    IN  [p EXCEPT
            !.rails[id].lockupPeriod = period,
            !.rails[id].lockupFixed = fixed,
            !.accounts[Key(p, id)] = [a EXCEPT !.lockupCurrent = @ + change],
            !.approvals[Key(p, id)].lockupUsage = Usage(@, change)]

CanModifyRailPayment(p, id, rate, now) ==
    /\ RailExists(p, id)
    /\ LET r == p.rails[id]
           a == SettledAccount(p.accounts[Key(p, id)], now)
           approval == p.approvals[Key(p, id)]
           added == (rate - r.rate) * r.lockupPeriod
       IN  /\ Terminated(p, id) => rate <= r.rate
           /\ rate # r.rate /\ ~Terminated(p, id) => a.lockupLastSettledAt = now
           /\ rate > r.rate =>
                 /\ approval.rateUsage + (rate - r.rate) <= approval.rateAllowance
                 /\ approval.lockupUsage + added <= approval.lockupAllowance
           /\ -added <= a.lockupCurrent
           /\ r.rate <= a.lockupRate + rate
           /\ a.lockupCurrent + added <= a.funds

ModifyRailPayment(p, id, rate, now) ==
    LET r == p.rails[id]
        a == SettledAccount(p.accounts[Key(p, id)], now)
        change == rate - r.rate
    IN  [p EXCEPT
            !.rails[id].rate = rate,
            !.rails[id].settledUpTo = IF r.rate = 0 /\ change # 0 THEN now ELSE @,
            !.accounts[Key(p, id)] =
                [a EXCEPT !.lockupCurrent = @ + change * r.lockupPeriod,
                          !.lockupRate = @ + change],
            !.approvals[Key(p, id)].rateUsage = Usage(@, change),
            !.approvals[Key(p, id)].lockupUsage =
                Usage(@, change * r.lockupPeriod)]

----------------------------------------------------------------------------
(* Termination by the payer.  What is locked pays the last lockupPeriod.   *)

CanTerminateRail(p, id, now) ==
    /\ RailExists(p, id)
    /\ ~Terminated(p, id)
    /\ FullySettled(p.accounts[Key(p, id)], now)
    /\ p.rails[id].rate <= p.accounts[Key(p, id)].lockupRate

TerminateRail(p, id, now) ==
    LET r == p.rails[id]
        a == SettledAccount(p.accounts[Key(p, id)], now)
    IN  [p EXCEPT
            !.rails[id].endEpoch = now + r.lockupPeriod,
            !.accounts[Key(p, id)] = [a EXCEPT !.lockupRate = @ - r.rate],
            !.approvals[Key(p, id)].rateUsage = Usage(@, -r.rate)]

----------------------------------------------------------------------------
(* Settlement: the contract proposes an amount for a range of epochs, the  *)
(* rail's validator answers with the amount and the epoch to settle to,    *)
(* and the contract applies the answer.                                    *)

SettleTo(p, id, until, now) ==
    Min2(until, IF Terminated(p, id) THEN p.rails[id].endEpoch
                ELSE SettledAccount(p.accounts[Key(p, id)], now).lockupLastSettledAt)

\* The part of the rail's stream the settlement covers: empty when to = from.
Proposal(p, id, until, now) ==
    LET from == p.rails[id].settledUpTo
        to == Max2(from, SettleTo(p, id, until, now))
    IN  [from |-> from, to |-> to, amount |-> p.rails[id].rate * (to - from)]

\* A rail without a rate is settled without asking the validator.
NeedsValidation(p, id, until, now) ==
    LET proposal == Proposal(p, id, until, now)
    IN  proposal.to > proposal.from /\ p.rails[id].rate > 0

\* What a settlement charges the payer and how far it gets, given what the
\* validator answered.
Settlement(p, id, until, now, result) ==
    LET proposal == Proposal(p, id, until, now)
        asked == NeedsValidation(p, id, until, now)
        to == IF asked THEN result.settleUpto ELSE proposal.to
    IN  [to |-> to,
         amount |-> IF asked THEN result.modifiedAmount ELSE 0,
         released |-> p.rails[id].rate * (to - proposal.from)]

FullyPaid(p, id, to) == Terminated(p, id) /\ to >= p.rails[id].endEpoch

CanSettleRail(p, id, until, now, result) ==
    /\ RailExists(p, id)
    /\ until <= now
    /\ LET proposal == Proposal(p, id, until, now)
           settlement == Settlement(p, id, until, now, result)
           a == SettledAccount(p.accounts[Key(p, id)], now)
           fixed == IF FullyPaid(p, id, settlement.to)
                    THEN p.rails[id].lockupFixed ELSE 0
       IN  /\ NeedsValidation(p, id, until, now) =>
                 /\ result.settleUpto \in (proposal.from + 1) .. proposal.to
                 /\ result.modifiedAmount \in 0 .. settlement.released
           /\ settlement.released + fixed <= a.lockupCurrent

Settled(p, id, until, now, result) ==
    LET settlement == Settlement(p, id, until, now, result)
        a == SettledAccount(p.accounts[Key(p, id)], now)
    IN  [p EXCEPT
            !.rails[id].settledUpTo = settlement.to,
            !.accounts[Key(p, id)] =
                [a EXCEPT !.funds = @ - settlement.amount,
                          !.lockupCurrent = @ - settlement.released],
            !.paid[id] = @ + settlement.amount]

\* The last settlement of a terminated rail returns its fixed lockup and
\* deletes it.
Finalize(p, id) ==
    LET r == p.rails[id]
    IN  IF ~FullyPaid(p, id, r.settledUpTo) THEN p
        ELSE [p EXCEPT
                !.rails[id] = NoRail,
                !.accounts[Key(p, id)].lockupCurrent = @ - r.lockupFixed,
                !.approvals[Key(p, id)].lockupUsage = Usage(@, -RailLockup(r))]

SettleRail(p, id, until, now, result) ==
    Finalize(Settled(p, id, until, now, result), id)
============================================================================
