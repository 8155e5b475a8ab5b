----------------------------- MODULE DDOProofs -----------------------------
(***************************************************************************)
(* The inductive invariant IInv of the diamond: every variable has its     *)
(* type, and the payments contracts are sound both now and in what a revert *)
(* would put back.  The second part is needed for the first: funds and     *)
(* lockups stay natural numbers only because nothing locked is ever spent. *)
(* One lemma per action, then the theorems.  Second, how allocations and   *)
(* rails stay bound to each other: what the operations of the payments     *)
(* contract do to rails, the reentrancy guard, and the invariant           *)
(* AllocationInv, for a diamond with one payments contract, with the       *)
(* binding and the terms of rails that follow from it.                     *)
(***************************************************************************)
EXTENDS DDOProperties, FiniteSetTheorems, SequenceTheorems, TLAPS

----------------------------------------------------------------------------
(* Every operation of FilecoinPay keeps PaySound: from a state in which no *)
(* account locks more than it holds, an operation whose guard CanOp holds  *)
(* leads to another.  One lemma per operation; the arithmetic of settling  *)
(* an account and of what a settlement releases comes first.               *)

\* The product of naturals is a natural.
LEMMA Products ==
    \A a, b \in Nat : a * b \in Nat
BY SMT

\* Integer division of naturals, as settling an account uses it.
LEMMA Quotients ==
    \A a \in Nat, b \in Nat \ {0} : a \div b \in Nat /\ b * (a \div b) <= a
BY SMT

\* Settling an account moves its lockup as far as its funds reach and no
\* further: it never locks more than it holds, nor settles beyond now.
LEMMA SettledAccountSound ==
    ASSUME NEW now \in Nat, NEW a, AccountSound(a, now)
    PROVE  /\ AccountSound(SettledAccount(a, now), now)
           /\ SettledAccount(a, now).funds = a.funds
           /\ SettledAccount(a, now).lockupRate = a.lockupRate
<1> DEFINE owed == a.lockupRate * (now - a.lockupLastSettledAt)
           epochs == (a.funds - a.lockupCurrent) \div a.lockupRate
<1>1. /\ a \in Account
      /\ a.funds - a.lockupCurrent \in Nat
      /\ now - a.lockupLastSettledAt \in Nat
  BY DEF AccountSound, Account
<1>2. owed \in Nat
  BY <1>1, Products DEF Account
<1>3. CASE a.lockupRate = 0 \/ a.funds >= a.lockupCurrent + owed
  <2>1. a.lockupRate = 0 => owed = 0
    BY <1>1 DEF Account
  <2> HIDE DEF owed
  <2>2. SettledAccount(a, now) = [a EXCEPT !.lockupCurrent = @ + owed, !.lockupLastSettledAt = now]
    BY <1>3 DEF SettledAccount, owed
  <2>3. PICK b : b = SettledAccount(a, now)
    OBVIOUS
  <2>4. a.lockupCurrent + owed \in Nat /\ a.lockupCurrent + owed <= a.funds
    BY <1>1, <1>2, <1>3, <2>1 DEF Account
  <2>5. AccountSound(b, now) /\ b.funds = a.funds /\ b.lockupRate = a.lockupRate
    <3>1. b \in Account
      BY <1>1, <2>2, <2>3, <2>4 DEF Account
    <3>2. b.lockupCurrent = a.lockupCurrent + owed /\ b.lockupLastSettledAt = now
          /\ b.funds = a.funds /\ b.lockupRate = a.lockupRate
      BY <1>1, <2>2, <2>3 DEF Account
    <3> QED BY <3>1, <3>2, <2>4 DEF AccountSound
  <2> QED BY <2>3, <2>5
<1>4. CASE ~(a.lockupRate = 0 \/ a.funds >= a.lockupCurrent + owed)
  <2>1. /\ epochs \in Nat
        /\ a.lockupRate * epochs <= a.funds - a.lockupCurrent
        /\ a.lockupRate * epochs \in Nat
    BY <1>1, <1>4, Quotients, Products DEF Account
  <2>2. epochs <= now - a.lockupLastSettledAt
    <3>1. a.lockupRate * epochs < a.lockupRate * (now - a.lockupLastSettledAt)
      <4> HIDE DEF epochs
      <4> QED BY <1>1, <1>4, <2>1, <1>2 DEF Account
    <3> HIDE DEF epochs
    <3> QED BY <1>1, <1>4, <2>1, <3>1, SMTT(30) DEF Account
  <2>3. SettledAccount(a, now) = [a EXCEPT !.lockupCurrent = @ + a.lockupRate * epochs,
                                           !.lockupLastSettledAt = @ + epochs]
    BY <1>4 DEF SettledAccount
  <2> HIDE DEF epochs, owed
  <2>4. PICK b : b = SettledAccount(a, now)
    OBVIOUS
  <2>5. /\ a.lockupCurrent + a.lockupRate * epochs \in Nat
        /\ a.lockupCurrent + a.lockupRate * epochs <= a.funds
        /\ a.lockupLastSettledAt + epochs \in Nat
        /\ a.lockupLastSettledAt + epochs <= now
    BY <1>1, <2>1, <2>2 DEF Account
  <2>6. AccountSound(b, now) /\ b.funds = a.funds /\ b.lockupRate = a.lockupRate
    BY <1>1, <2>3, <2>4, <2>5 DEF AccountSound, Account
  <2> QED BY <2>4, <2>6
<1> QED BY <1>3, <1>4

\* A deposit, with the settlement of the account it makes, keeps a payments
\* contract sound.
LEMMA DepositSound ==
    ASSUME NEW now \in Nat, NEW p, PaySound(p, now),
           NEW k \in Clients \X Tokens, NEW amount \in Nat
    PROVE  PaySound(Deposit(p, k, amount, now), now)
<1>1. p \in PayState /\ AccountSound(p.accounts[k], now)
  BY DEF PaySound
<1>2. PICK a : a = [p.accounts[k] EXCEPT !.funds = @ + amount]
  OBVIOUS
<1>3. AccountSound(a, now)
  <2>1. p.accounts[k] \in Account /\ p.accounts[k].funds + amount \in Nat
    BY <1>1 DEF AccountSound, Account
  <2>2. a \in Account
    BY <2>1, <1>2 DEF Account
  <2>3. a.funds = p.accounts[k].funds + amount /\ a.lockupCurrent = p.accounts[k].lockupCurrent
        /\ a.lockupLastSettledAt = p.accounts[k].lockupLastSettledAt
    BY <2>1, <1>2 DEF Account
  <2> QED BY <2>1, <2>2, <2>3, <1>1 DEF AccountSound, Account
<1>4. AccountSound(SettledAccount(a, now), now)
  BY <1>3, SettledAccountSound
<1>5. PICK q : q = Deposit(p, k, amount, now)
  OBVIOUS
<1>6. q = [p EXCEPT !.accounts[k] = SettledAccount(a, now)]
  BY <1>2, <1>5 DEF Deposit
<1>7. q.accounts = [p.accounts EXCEPT ![k] = SettledAccount(a, now)] /\ q \in PayState
  BY <1>6, <1>1, <1>4 DEF PayState, AccountSound
<1>8. PaySound(q, now)
  BY <1>1, <1>4, <1>7 DEF PaySound, PayState
<1> QED BY <1>5, <1>8

\* The parts of a state, each of its type, make a sound state.
LEMMA PaySoundFromParts ==
    ASSUME NEW now, NEW q,
           q = [nextRailId |-> q.nextRailId, rails |-> q.rails, accounts |-> q.accounts,
                approvals |-> q.approvals, paid |-> q.paid],
           q.nextRailId \in Nat \ {0},
           q.rails \in [RailIds -> Rail],
           q.accounts \in [Clients \X Tokens -> Account],
           \A k \in Clients \X Tokens : AccountSound(q.accounts[k], now),
           q.approvals \in [Clients \X Tokens -> Approval],
           q.paid \in [RailIds -> Nat]
    PROVE  PaySound(q, now)
<1>1. q \in PayState
  BY Zenon DEF PayState
<1> QED BY <1>1 DEF PaySound

\* The parts of a sound state.
LEMMA PayParts ==
    ASSUME NEW now, NEW p, PaySound(p, now)
    PROVE  /\ p.nextRailId \in Nat \ {0}
           /\ p.rails \in [RailIds -> Rail]
           /\ p.accounts \in [Clients \X Tokens -> Account]
           /\ p.approvals \in [Clients \X Tokens -> Approval]
           /\ p.paid \in [RailIds -> Nat]
           /\ \A k \in Clients \X Tokens : AccountSound(p.accounts[k], now)
BY DEF PaySound, PayState

\* An operator's usage is a natural whatever is taken from it.
LEMMA UsageType ==
    \A used \in Nat, change \in Int : Usage(used, change) \in Nat
BY DEF Usage, Max2

\* What an operation does to one rail, to its account and to its approval.
Updated(p, q, id, r, key, a, v) ==
    /\ q = [nextRailId |-> q.nextRailId, rails |-> q.rails, accounts |-> q.accounts,
            approvals |-> q.approvals, paid |-> q.paid]
    /\ q.rails = [p.rails EXCEPT ![id] = r]
    /\ q.accounts = [p.accounts EXCEPT ![key] = a]
    /\ q.approvals = [p.approvals EXCEPT ![key] = v]

\* An operation that gives one rail, one account and one approval sound
\* values keeps the contract sound.
LEMMA PaySoundUpdate ==
    ASSUME NEW now, NEW p, PaySound(p, now),
           NEW q, NEW id, NEW r, NEW key, NEW a, NEW v,
           Updated(p, q, id, r, key, a, v),
           id \in RailIds => r \in Rail,
           key \in Clients \X Tokens => AccountSound(a, now) /\ v \in Approval,
           q.nextRailId \in Nat \ {0},
           q.paid \in [RailIds -> Nat]
    PROVE  PaySound(q, now)
<1>0. /\ p.rails \in [RailIds -> Rail]
      /\ p.accounts \in [Clients \X Tokens -> Account]
      /\ p.approvals \in [Clients \X Tokens -> Approval]
      /\ \A k \in Clients \X Tokens : AccountSound(p.accounts[k], now)
  BY PayParts
<1>1. q.rails \in [RailIds -> Rail]
  BY <1>0 DEF Updated
<1>2. /\ q.accounts \in [Clients \X Tokens -> Account]
      /\ \A k \in Clients \X Tokens : AccountSound(q.accounts[k], now)
  <2>1. q.accounts = [p.accounts EXCEPT ![key] = a]
    BY DEF Updated
  <2>2. key \in Clients \X Tokens => a \in Account
    BY DEF AccountSound
  <2>3. q.accounts \in [Clients \X Tokens -> Account]
    BY <1>0, <2>1, <2>2
  <2>4. \A k \in Clients \X Tokens : q.accounts[k] = IF k = key THEN a ELSE p.accounts[k]
    BY <1>0, <2>1
  <2> QED BY <1>0, <2>3, <2>4
<1>3. q.approvals \in [Clients \X Tokens -> Approval]
  BY <1>0 DEF Updated
<1> QED BY <1>1, <1>2, <1>3, PaySoundFromParts DEF Updated

\* A rail that exists has a payer and a token, so the account and the
\* approval it draws on are there.
LEMMA LiveRails ==
    ASSUME NEW now, NEW p, PaySound(p, now), NEW id, RailExists(p, id)
    PROVE  /\ id \in RailIds
           /\ p.rails[id] \in LiveRail
           /\ Key(p, id) \in Clients \X Tokens
           /\ AccountSound(p.accounts[Key(p, id)], now)
           /\ p.approvals[Key(p, id)] \in Approval
<1>1. id \in RailIds /\ p.rails[id] \in Rail /\ p.rails[id].from # ZERO
  BY PayParts DEF RailExists
<1>2. p.rails[id] \in LiveRail
  BY <1>1 DEF Rail, NoRail
<1>3. Key(p, id) \in Clients \X Tokens
  BY <1>2 DEF LiveRail, Key
<1> QED BY <1>1, <1>2, <1>3, PayParts

\* terminateRail keeps a payments contract sound.
LEMMA TerminateRailSound ==
    ASSUME NEW now \in Nat, NEW p, PaySound(p, now),
           NEW id, CanTerminateRail(p, id, now)
    PROVE  PaySound(TerminateRail(p, id, now), now)
<1> DEFINE r == p.rails[id]
           k == Key(p, id)
           a == SettledAccount(p.accounts[k], now)
           newRail == [r EXCEPT !.endEpoch = now + r.lockupPeriod]
           newAccount == [a EXCEPT !.lockupRate = @ - r.rate]
           newApproval == [p.approvals[k] EXCEPT !.rateUsage = Usage(@, -r.rate)]
<1>0. p \in PayState /\ id \in RailIds /\ r \in LiveRail
  BY LiveRails DEF PaySound, CanTerminateRail
<1>1. PICK q : q = TerminateRail(p, id, now)
  OBVIOUS
<1>2. /\ Updated(p, q, id, newRail, k, newAccount, newApproval)
      /\ q.nextRailId = p.nextRailId
      /\ q.paid = p.paid
  BY <1>0, <1>1 DEF TerminateRail, PayState, Updated
<1>3. newRail \in Rail
  <2>1. newRail \in LiveRail
    BY <1>0 DEF LiveRail
  <2> QED BY <2>1 DEF Rail
<1>4. ASSUME k \in Clients \X Tokens PROVE AccountSound(newAccount, now)
  <2>1. AccountSound(a, now) /\ AccountSound(p.accounts[k], now)
    BY <1>4, PayParts, SettledAccountSound
  <2>2. a.lockupRate - r.rate \in Nat
    <3>1. a.lockupRate = p.accounts[k].lockupRate
      BY <2>1, SettledAccountSound
    <3> QED BY <3>1, <2>1, <1>0 DEF AccountSound, Account, LiveRail, CanTerminateRail
  <2> QED BY <2>1, <2>2 DEF AccountSound, Account
<1>5. ASSUME k \in Clients \X Tokens PROVE newApproval \in Approval
  BY <1>0, <1>5, PayParts, UsageType DEF LiveRail, Approval
<1> HIDE DEF k, newRail, newAccount, newApproval
<1>6. PaySound(q, now)
  BY <1>2, <1>3, <1>4, <1>5, PayParts, PaySoundUpdate
<1> QED BY <1>1, <1>6

\* A withdrawal leaves in the account what is locked in it.
LEMMA WithdrawSound ==
    ASSUME NEW now \in Nat, NEW p, PaySound(p, now),
           NEW k \in Clients \X Tokens, NEW amount \in Nat,
           CanWithdraw(p, k, amount, now)
    PROVE  PaySound(Withdraw(p, k, amount, now), now)
<1>1. p \in PayState /\ AccountSound(p.accounts[k], now)
  BY DEF PaySound
<1> DEFINE a == SettledAccount(p.accounts[k], now)
           b == [a EXCEPT !.funds = @ - amount]
<1>2. AccountSound(a, now)
  BY <1>1, SettledAccountSound
<1>3. amount <= a.funds - a.lockupCurrent
  BY DEF CanWithdraw
<1> HIDE DEF a
<1>4. AccountSound(b, now)
  <2>1. a.funds - amount \in Nat /\ a.lockupCurrent <= a.funds - amount
    BY <1>2, <1>3 DEF AccountSound, Account
  <2> QED BY <1>2, <2>1 DEF AccountSound, Account
<1>5. PICK q : q = Withdraw(p, k, amount, now)
  OBVIOUS
<1>6. q = [p EXCEPT !.accounts[k] = b]
  BY <1>5 DEF Withdraw, a
<1> HIDE DEF b
<1>7. q.accounts = [p.accounts EXCEPT ![k] = b] /\ q \in PayState
  BY <1>6, <1>1, <1>4 DEF PayState, AccountSound
<1>8. PaySound(q, now)
  BY <1>1, <1>4, <1>7 DEF PaySound, PayState
<1> QED BY <1>5, <1>8

\* setOperatorApproval keeps a payments contract sound.
LEMMA SetOperatorApprovalSound ==
    ASSUME NEW now \in Nat, NEW p, PaySound(p, now), NEW k \in Clients \X Tokens,
           NEW limits \in [isApproved: BOOLEAN, rateAllowance: Nat,
                           lockupAllowance: Nat, maxLockupPeriod: Nat]
    PROVE  PaySound(SetOperatorApproval(p, k, limits), now)
<1>1. p \in PayState
  BY DEF PaySound
<1>2. PICK q : q = SetOperatorApproval(p, k, limits)
  OBVIOUS
<1> DEFINE v == [p.approvals[k] EXCEPT !.isApproved = limits.isApproved,
                                       !.rateAllowance = limits.rateAllowance,
                                       !.lockupAllowance = limits.lockupAllowance,
                                       !.maxLockupPeriod = limits.maxLockupPeriod]
<1>3. v \in Approval
  <2>1. p.approvals[k] \in Approval
    BY <1>1 DEF PayState
  <2>2. /\ limits.isApproved \in BOOLEAN
        /\ limits.rateAllowance \in Nat
        /\ limits.lockupAllowance \in Nat
        /\ limits.maxLockupPeriod \in Nat
    OBVIOUS
  <2> QED BY <2>1, <2>2 DEF Approval
<1>4. q.accounts = p.accounts /\ q \in PayState
  <2>1. /\ q.nextRailId = p.nextRailId
        /\ q.rails = p.rails
        /\ q.accounts = p.accounts
        /\ q.paid = p.paid
        /\ q.approvals = [p.approvals EXCEPT ![k] = v]
        /\ q = [nextRailId |-> q.nextRailId, rails |-> q.rails, accounts |-> q.accounts,
                approvals |-> q.approvals, paid |-> q.paid]
    BY <1>1, <1>2 DEF PayState, SetOperatorApproval
  <2> HIDE DEF v
  <2>2. q.approvals \in [Clients \X Tokens -> Approval]
    BY <2>1, <1>1, <1>3 DEF PayState
  <2> QED BY <2>1, <2>2, <1>1 DEF PayState
<1>5. PaySound(q, now)
  BY <1>4 DEF PaySound
<1> QED BY <1>2, <1>5

\* createRail keeps a payments contract sound.
LEMMA CreateRailSound ==
    ASSUME NEW now \in Nat, NEW p, PaySound(p, now),
           NEW token \in Tokens, NEW from \in Clients,
           NEW to \in Payees \cup {ZERO}, NEW commission \in Nat
    PROVE  PaySound(CreateRail(p, token, from, to, commission, now), now)
<1>1. p \in PayState
  BY DEF PaySound
<1>2. PICK q : q = CreateRail(p, token, from, to, commission, now)
  OBVIOUS
<1> DEFINE r == [NoRail EXCEPT !.token = token, !.from = from, !.to = to,
                               !.commissionRateBps = commission, !.settledUpTo = now]
<1>3. r \in Rail
  BY DEF NoRail, LiveRail, Rail
<1>4. q.accounts = p.accounts /\ q \in PayState
  <2>1. /\ q.nextRailId = p.nextRailId + 1
        /\ q.rails = [p.rails EXCEPT ![p.nextRailId] = r]
        /\ q.accounts = p.accounts
        /\ q.paid = p.paid
        /\ q.approvals = p.approvals
        /\ q = [nextRailId |-> q.nextRailId, rails |-> q.rails, accounts |-> q.accounts,
                approvals |-> q.approvals, paid |-> q.paid]
    BY <1>1, <1>2 DEF PayState, CreateRail
  <2> HIDE DEF r
  <2>2. q.rails \in [RailIds -> Rail]
    BY <2>1, <1>1, <1>3 DEF PayState
  <2> QED BY <2>1, <2>2, <1>1 DEF PayState
<1>5. PaySound(q, now)
  BY <1>4 DEF PaySound
<1> QED BY <1>2, <1>5

\* The product of integers is an integer.
LEMMA IntProducts ==
    \A a \in Int, b \in Int : a * b \in Int
BY SMT

\* modifyRailLockup locks only what the account holds.
LEMMA ModifyRailLockupSound ==
    ASSUME NEW now \in Nat, NEW p, PaySound(p, now),
           NEW id, NEW period \in Nat, NEW fixed \in Nat,
           CanModifyRailLockup(p, id, period, fixed, now)
    PROVE  PaySound(ModifyRailLockup(p, id, period, fixed, now), now)
<1> DEFINE r == p.rails[id]
           k == Key(p, id)
           a == SettledAccount(p.accounts[k], now)
           old == RailLockup(r)
           new == fixed + r.rate * period
           change == new - old
           newRail == [r EXCEPT !.lockupPeriod = period, !.lockupFixed = fixed]
           newAccount == [a EXCEPT !.lockupCurrent = @ + change]
           newApproval == [p.approvals[k] EXCEPT !.lockupUsage = Usage(@, change)]
<1>0. /\ p \in PayState /\ id \in RailIds /\ r \in LiveRail
      /\ k \in Clients \X Tokens /\ AccountSound(a, now)
      /\ p.approvals[k] \in Approval
  BY LiveRails, SettledAccountSound DEF PaySound, CanModifyRailLockup
<1>1. PICK q : q = ModifyRailLockup(p, id, period, fixed, now)
  OBVIOUS
<1>2. /\ Updated(p, q, id, newRail, k, newAccount, newApproval)
      /\ q.nextRailId = p.nextRailId
      /\ q.paid = p.paid
  BY <1>0, <1>1 DEF ModifyRailLockup, PayState, Updated
<1>3. newRail \in Rail
  <2>1. newRail \in LiveRail
    BY <1>0 DEF LiveRail
  <2> QED BY <2>1 DEF Rail
<1>4. old \in Nat /\ new \in Nat /\ change \in Int
  <2>1. r.rate * period \in Nat /\ r.rate * r.lockupPeriod \in Nat
    BY <1>0, Products DEF LiveRail
  <2> QED BY <2>1, <1>0 DEF LiveRail, RailLockup
<1>5. AccountSound(newAccount, now)
  <2>1. old <= a.lockupCurrent /\ a.lockupCurrent - old + new <= a.funds
    BY DEF CanModifyRailLockup
  <2> HIDE DEF old, new, a
  <2>2. /\ a.lockupCurrent + change \in Nat
        /\ a.lockupCurrent + change <= a.funds
    BY <2>1, <1>0, <1>4 DEF AccountSound, Account
  <2> QED BY <2>2, <1>0 DEF AccountSound, Account
<1>6. newApproval \in Approval
  <2> HIDE DEF change
  <2>1. Usage(p.approvals[k].lockupUsage, change) \in Nat
    BY <1>0, <1>4, UsageType DEF Approval
  <2> QED BY <1>0, <2>1 DEF Approval
<1> HIDE DEF k, newRail, newAccount, newApproval
<1>7. PaySound(q, now)
  BY <1>2, <1>3, <1>5, <1>6, PayParts, PaySoundUpdate
<1> QED BY <1>1, <1>7

\* modifyRailPayment locks a changed rate's lockup only out of funds.
LEMMA ModifyRailPaymentSound ==
    ASSUME NEW now \in Nat, NEW p, PaySound(p, now),
           NEW id, NEW rate \in Nat,
           CanModifyRailPayment(p, id, rate, now)
    PROVE  PaySound(ModifyRailPayment(p, id, rate, now), now)
<1> DEFINE r == p.rails[id]
           k == Key(p, id)
           a == SettledAccount(p.accounts[k], now)
           v == p.approvals[k]
           change == rate - r.rate
           added == change * r.lockupPeriod
           newRail == [r EXCEPT !.rate = rate,
                       !.settledUpTo = IF r.rate = 0 /\ change # 0 THEN now ELSE @]
           newAccount == [a EXCEPT !.lockupCurrent = @ + added,
                                   !.lockupRate = @ + change]
           newApproval == [v EXCEPT !.rateUsage = Usage(@, change),
                                    !.lockupUsage = Usage(@, added)]
<1>0. /\ p \in PayState /\ id \in RailIds /\ r \in LiveRail
      /\ k \in Clients \X Tokens /\ AccountSound(a, now)
      /\ v \in Approval
  BY LiveRails, SettledAccountSound DEF PaySound, CanModifyRailPayment
<1>1. PICK q : q = ModifyRailPayment(p, id, rate, now)
  OBVIOUS
<1>2. /\ Updated(p, q, id, newRail, k, newAccount, newApproval)
      /\ q.nextRailId = p.nextRailId
      /\ q.paid = p.paid
  BY <1>0, <1>1 DEF ModifyRailPayment, PayState, Updated
<1>3. newRail \in Rail
  <2>1. newRail \in LiveRail
    BY <1>0 DEF LiveRail
  <2> QED BY <2>1 DEF Rail
<1>4. change \in Int /\ added \in Int
  BY <1>0, IntProducts DEF LiveRail
<1>5. AccountSound(newAccount, now)
  <2>1. /\ -added <= a.lockupCurrent
        /\ r.rate <= a.lockupRate + rate
        /\ a.lockupCurrent + added <= a.funds
    BY DEF CanModifyRailPayment
  <2> HIDE DEF added, a
  <2>2. /\ a.lockupCurrent + added \in Nat
        /\ a.lockupRate + change \in Nat
    BY <2>1, <1>0, <1>4 DEF AccountSound, Account, LiveRail
  <2> HIDE DEF change
  <2> QED BY <2>1, <2>2, <1>0 DEF AccountSound, Account
<1>6. newApproval \in Approval
  <2> HIDE DEF change, added, v
  <2>1. Usage(v.rateUsage, change) \in Nat /\ Usage(v.lockupUsage, added) \in Nat
    BY <1>0, <1>4, UsageType DEF Approval
  <2> QED BY <1>0, <2>1 DEF Approval
<1> HIDE DEF k, newRail, newAccount, newApproval
<1>7. PaySound(q, now)
  BY <1>2, <1>3, <1>5, <1>6, PayParts, PaySoundUpdate
<1> QED BY <1>1, <1>7

\* The last settlement of a rail returns its fixed lockup out of what is
\* locked.
LEMMA FinalizeSound ==
    ASSUME NEW now, NEW p, PaySound(p, now),
           NEW id, RailExists(p, id),
           FullyPaid(p, id, p.rails[id].settledUpTo) =>
               p.rails[id].lockupFixed <= p.accounts[Key(p, id)].lockupCurrent
    PROVE  PaySound(Finalize(p, id), now)
<1> DEFINE r == p.rails[id]
           k == Key(p, id)
           a == p.accounts[k]
           v == p.approvals[k]
           newAccount == [a EXCEPT !.lockupCurrent = @ - r.lockupFixed]
           newApproval == [v EXCEPT !.lockupUsage = Usage(@, -RailLockup(r))]
<1>0. /\ p \in PayState /\ id \in RailIds /\ r \in LiveRail
      /\ k \in Clients \X Tokens /\ AccountSound(a, now)
      /\ v \in Approval
  BY LiveRails DEF PaySound
<1>1. CASE ~FullyPaid(p, id, r.settledUpTo)
  BY <1>1 DEF Finalize
<1>2. CASE FullyPaid(p, id, r.settledUpTo)
  <2>1. PICK q : q = Finalize(p, id)
    OBVIOUS
  <2>2. /\ Updated(p, q, id, NoRail, k, newAccount, newApproval)
        /\ q.nextRailId = p.nextRailId
        /\ q.paid = p.paid
    BY <1>0, <1>2, <2>1 DEF Finalize, PayState, Updated
  <2>3. NoRail \in Rail
    BY DEF Rail
  <2>4. AccountSound(newAccount, now)
    <3>1. a.lockupCurrent - r.lockupFixed \in Nat
      BY <1>0, <1>2 DEF AccountSound, Account, LiveRail
    <3> QED BY <3>1, <1>0 DEF AccountSound, Account, LiveRail
  <2>5. newApproval \in Approval
    <3>1. -RailLockup(r) \in Int
      BY <1>0, Products DEF LiveRail, RailLockup
    <3>2. Usage(v.lockupUsage, -RailLockup(r)) \in Nat
      BY <3>1, <1>0, UsageType DEF Approval
    <3> QED BY <3>2, <1>0 DEF Approval
  <2> HIDE DEF k, newAccount, newApproval
  <2>6. PaySound(q, now)
    BY <2>2, <2>3, <2>4, <2>5, PayParts, PaySoundUpdate
  <2> QED BY <2>1, <2>6
<1> QED BY <1>1, <1>2

\* What a settlement charges is at most what it releases from the lockup,
\* whatever the validator answers.
LEMMA SettlementSound ==
    ASSUME NEW now \in Nat, NEW p, PaySound(p, now),
           NEW id, NEW until \in Nat, NEW result,
           CanSettleRail(p, id, until, now, result)
    PROVE  LET settlement == Settlement(p, id, until, now, result)
           IN  /\ settlement.to \in Nat
               /\ settlement.released \in Nat
               /\ settlement.amount \in 0 .. settlement.released
<1> DEFINE r == p.rails[id]
           proposal == Proposal(p, id, until, now)
           settlement == Settlement(p, id, until, now, result)
           asked == NeedsValidation(p, id, until, now)
<1>1. r \in LiveRail /\ AccountSound(SettledAccount(p.accounts[Key(p, id)], now), now)
  BY LiveRails, SettledAccountSound DEF CanSettleRail
<1>2. SettleTo(p, id, until, now) \in Nat
  BY <1>1 DEF SettleTo, Min2, AccountSound, Account, LiveRail
<1>3. /\ proposal.from = r.settledUpTo
      /\ proposal.from \in Nat
      /\ proposal.to \in Nat
      /\ proposal.from <= proposal.to
  BY <1>1, <1>2 DEF Proposal, Max2, LiveRail
<1>4. /\ settlement.to = IF asked THEN result.settleUpto ELSE proposal.to
      /\ settlement.amount = IF asked THEN result.modifiedAmount ELSE 0
      /\ settlement.released = r.rate * (settlement.to - proposal.from)
  BY DEF Settlement
<1>5. asked => /\ result.settleUpto \in (proposal.from + 1) .. proposal.to
               /\ result.modifiedAmount \in 0 .. settlement.released
  BY DEF CanSettleRail
<1> HIDE DEF proposal, settlement, asked
<1>6. settlement.to \in Nat /\ proposal.from <= settlement.to
  BY <1>3, <1>4, <1>5
<1>7. settlement.to - proposal.from \in Nat
  BY <1>3, <1>6
<1>8. settlement.released \in Nat
  BY <1>1, <1>4, <1>7, Products DEF LiveRail
<1>9. settlement.amount \in 0 .. settlement.released
  BY <1>4, <1>5, <1>8
<1> QED BY <1>6, <1>8, <1>9 DEF settlement

\* What a settlement does before it finalizes: the rail is settled further,
\* the account pays out of its lockup, and the contract stays sound.
LEMMA SettledSound ==
    ASSUME NEW now \in Nat, NEW p, PaySound(p, now),
           NEW id, NEW until \in Nat, NEW result,
           CanSettleRail(p, id, until, now, result),
           NEW q, q = Settled(p, id, until, now, result),
           NEW settlement, settlement = Settlement(p, id, until, now, result)
    PROVE  /\ PaySound(q, now)
           /\ q.nextRailId = p.nextRailId
           /\ q.rails = [p.rails EXCEPT ![id] =
                             [p.rails[id] EXCEPT !.settledUpTo = settlement.to]]
           /\ q.accounts[Key(p, id)].lockupCurrent =
                  SettledAccount(p.accounts[Key(p, id)], now).lockupCurrent
                      - settlement.released
<1> DEFINE r == p.rails[id]
           k == Key(p, id)
           a == SettledAccount(p.accounts[k], now)
           newRail == [r EXCEPT !.settledUpTo = settlement.to]
           newAccount == [a EXCEPT !.funds = @ - settlement.amount,
                                   !.lockupCurrent = @ - settlement.released]
<1>0. /\ p \in PayState /\ id \in RailIds /\ r \in LiveRail
      /\ k \in Clients \X Tokens /\ AccountSound(a, now)
      /\ p.approvals[k] \in Approval
  BY LiveRails, SettledAccountSound DEF PaySound, CanSettleRail
<1>1. /\ settlement.to \in Nat
      /\ settlement.released \in Nat
      /\ settlement.amount \in Nat
      /\ settlement.amount <= settlement.released
  BY SettlementSound
<1>2. settlement.released <= a.lockupCurrent
  <2>1. settlement.released + (IF FullyPaid(p, id, settlement.to)
            THEN r.lockupFixed ELSE 0) <= a.lockupCurrent
    BY DEF CanSettleRail
  <2> HIDE DEF a
  <2> QED BY <2>1, <1>0, <1>1 DEF LiveRail, AccountSound, Account
<1>3. q = [p EXCEPT !.rails[id].settledUpTo = settlement.to,
                    !.accounts[Key(p, id)] = newAccount,
                    !.paid[id] = @ + settlement.amount]
  BY DEF Settled
<1>4. /\ Updated(p, q, id, newRail, k, newAccount, p.approvals[k])
      /\ q.nextRailId = p.nextRailId
      /\ q.paid = [p.paid EXCEPT ![id] = @ + settlement.amount]
  BY <1>0, <1>3 DEF PayState, Updated
<1>5. newRail \in LiveRail
  BY <1>0, <1>1 DEF LiveRail
<1>6. /\ AccountSound(newAccount, now)
      /\ newAccount.lockupCurrent = a.lockupCurrent - settlement.released
  <2> HIDE DEF a
  <2>1. /\ a.funds - settlement.amount \in Nat
        /\ a.lockupCurrent - settlement.released \in Nat
        /\ a.lockupCurrent - settlement.released <= a.funds - settlement.amount
    BY <1>0, <1>1, <1>2 DEF AccountSound, Account
  <2> QED BY <2>1, <1>0 DEF AccountSound, Account
<1>7. q.paid \in [RailIds -> Nat]
  BY <1>0, <1>1, <1>4 DEF PayState
<1>8. PaySound(q, now)
  <2> HIDE DEF k, newRail, newAccount
  <2> QED BY <1>0, <1>4, <1>5, <1>6, <1>7, PayParts, PaySoundUpdate DEF Rail
<1>9. q.accounts[k] = newAccount
  BY <1>0, <1>4 DEF Updated, PayState
<1> QED BY <1>4, <1>6, <1>8, <1>9 DEF Updated

\* settleRail keeps a payments contract sound.
LEMMA SettleRailSound ==
    ASSUME NEW now \in Nat, NEW p, PaySound(p, now),
           NEW id, NEW until \in Nat, NEW result,
           CanSettleRail(p, id, until, now, result)
    PROVE  PaySound(SettleRail(p, id, until, now, result), now)
<1>1. PICK settlement : settlement = Settlement(p, id, until, now, result)
  OBVIOUS
<1>2. PICK q : q = Settled(p, id, until, now, result)
  OBVIOUS
<1> DEFINE r == p.rails[id]
           k == Key(p, id)
           a == SettledAccount(p.accounts[k], now)
           newRail == [r EXCEPT !.settledUpTo = settlement.to]
<1>3. /\ p \in PayState /\ id \in RailIds /\ r \in LiveRail
      /\ AccountSound(a, now)
      /\ RailExists(p, id)
  BY LiveRails, SettledAccountSound DEF PaySound, CanSettleRail
<1>4. settlement.to \in Nat /\ settlement.released \in Nat
  BY <1>1, SettlementSound
<1>5. FullyPaid(p, id, settlement.to) =>
          settlement.released + r.lockupFixed <= a.lockupCurrent
  BY <1>1 DEF CanSettleRail
<1>6. /\ PaySound(q, now)
      /\ q.rails = [p.rails EXCEPT ![id] = newRail]
      /\ q.accounts[k].lockupCurrent = a.lockupCurrent - settlement.released
  BY <1>1, <1>2, SettledSound
<1>7. /\ q.rails[id] = newRail
      /\ Key(q, id) = k
  <2>1. q.rails[id] = newRail
    BY <1>3, <1>6 DEF PayState
  <2>2. newRail.from = r.from /\ newRail.token = r.token
    BY <1>3 DEF LiveRail
  <2> QED BY <2>1, <2>2 DEF Key
<1>8. RailExists(q, id)
  BY <1>3, <1>7 DEF RailExists, LiveRail
<1>9. FullyPaid(q, id, q.rails[id].settledUpTo) =>
          q.rails[id].lockupFixed <= q.accounts[Key(q, id)].lockupCurrent
  <2>1. /\ newRail.settledUpTo = settlement.to
        /\ newRail.endEpoch = r.endEpoch
        /\ newRail.lockupFixed = r.lockupFixed
    BY <1>3 DEF LiveRail
  <2>2. FullyPaid(q, id, q.rails[id].settledUpTo) =>
            settlement.released + r.lockupFixed <= a.lockupCurrent
    BY <2>1, <1>5, <1>7 DEF FullyPaid, Terminated
  <2> HIDE DEF a, newRail
  <2> QED BY <2>1, <2>2, <1>3, <1>4, <1>6, <1>7 DEF LiveRail, AccountSound, Account
<1>10. PaySound(Finalize(q, id), now)
  BY <1>6, <1>8, <1>9, FinalizeSound
<1> QED BY <1>2, <1>10 DEF SettleRail

\* How far an account is settled never goes back.
LEMMA SettledAccountForward ==
    ASSUME NEW now \in Nat, NEW a, AccountSound(a, now)
    PROVE  /\ a.lockupLastSettledAt \in Nat
           /\ SettledAccount(a, now).lockupLastSettledAt \in Nat
           /\ a.lockupLastSettledAt <= SettledAccount(a, now).lockupLastSettledAt
<1> DEFINE owed == a.lockupRate * (now - a.lockupLastSettledAt)
           epochs == (a.funds - a.lockupCurrent) \div a.lockupRate
<1>1. /\ a \in Account /\ a.lockupLastSettledAt \in Nat /\ a.lockupLastSettledAt <= now
      /\ a.funds - a.lockupCurrent \in Nat /\ a.lockupRate \in Nat
  BY DEF AccountSound, Account
<1>2. CASE a.lockupRate = 0 \/ a.funds >= a.lockupCurrent + owed
  <2>1. SettledAccount(a, now).lockupLastSettledAt = now
    BY <1>1, <1>2 DEF SettledAccount, Account
  <2> QED BY <1>1, <2>1
<1>3. CASE ~(a.lockupRate = 0 \/ a.funds >= a.lockupCurrent + owed)
  <2>1. SettledAccount(a, now).lockupLastSettledAt = a.lockupLastSettledAt + epochs
    BY <1>1, <1>3 DEF SettledAccount, Account
  <2>2. epochs \in Nat
    BY <1>1, <1>3, Quotients
  <2> HIDE DEF epochs
  <2> QED BY <1>1, <2>1, <2>2
<1> QED BY <1>2, <1>3

\* A settlement goes on from where the rail was settled to, no further than the
\* contract proposes.
LEMMA SettlementForward ==
    ASSUME NEW now \in Nat, NEW p, PaySound(p, now),
           NEW id, NEW until \in Nat, NEW result,
           CanSettleRail(p, id, until, now, result),
           NEW settlement, settlement = Settlement(p, id, until, now, result)
    PROVE  /\ SettleTo(p, id, until, now) \in Nat
           /\ p.rails[id].settledUpTo \in Nat
           /\ settlement.to \in Nat
           /\ p.rails[id].settledUpTo <= settlement.to
           /\ settlement.to <= Max2(p.rails[id].settledUpTo,
                                    SettleTo(p, id, until, now))
<1> DEFINE r == p.rails[id]
           proposal == Proposal(p, id, until, now)
           asked == NeedsValidation(p, id, until, now)
<1>1. r \in LiveRail /\ AccountSound(SettledAccount(p.accounts[Key(p, id)], now), now)
  BY LiveRails, SettledAccountSound DEF CanSettleRail
<1>2. SettleTo(p, id, until, now) \in Nat
  BY <1>1 DEF SettleTo, Min2, AccountSound, Account, LiveRail
<1>3. /\ proposal.from = r.settledUpTo
      /\ proposal.to = Max2(r.settledUpTo, SettleTo(p, id, until, now))
      /\ proposal.from \in Nat
      /\ proposal.to \in Nat
      /\ proposal.from <= proposal.to
  BY <1>1, <1>2 DEF Proposal, Max2, LiveRail
<1>4. settlement.to = IF asked THEN result.settleUpto ELSE proposal.to
  BY DEF Settlement
<1>5. asked => result.settleUpto \in (proposal.from + 1) .. proposal.to
  BY DEF CanSettleRail
<1> HIDE DEF proposal, asked
<1> QED BY <1>2, <1>3, <1>4, <1>5

\* Each account of q is settled as far as that of p can be at the moment, or is
\* that of p.
AccountsSettled(p, q, now) ==
    \A k \in Clients \X Tokens :
        \/ q.accounts[k] = p.accounts[k]
        \/ q.accounts[k].lockupLastSettledAt
               = SettledAccount(p.accounts[k], now).lockupLastSettledAt

\* The rail is settled to the epoch, and deleted if that is its end; no other
\* rail is settled or paid on.
RailSettled(p, q, id, to) ==
    /\ \A i \in RailIds \ {id} : q.rails[i] = p.rails[i] /\ q.paid[i] = p.paid[i]
    /\ q.rails[id] = IF FullyPaid(p, id, to) THEN NoRail
                     ELSE [p.rails[id] EXCEPT !.settledUpTo = to]

RailPaid(p, q, id, amount) == q.paid[id] = p.paid[id] + amount

\* What settleRail does to the rails, to what was paid and to how far accounts
\* are settled.
LEMMA SettleRailEffect ==
    ASSUME NEW now \in Nat, NEW p, PaySound(p, now),
           NEW id, NEW until \in Nat, NEW result,
           CanSettleRail(p, id, until, now, result),
           NEW q, q = SettleRail(p, id, until, now, result),
           NEW settlement, settlement = Settlement(p, id, until, now, result)
    PROVE  /\ id \in RailIds
           /\ q.nextRailId = p.nextRailId
           /\ RailSettled(p, q, id, settlement.to)
           /\ RailPaid(p, q, id, settlement.amount)
           /\ AccountsSettled(p, q, now)
<1> DEFINE r == p.rails[id]
           key == Key(p, id)
           a == SettledAccount(p.accounts[key], now)
           newRail == [r EXCEPT !.settledUpTo = settlement.to]
           newAccount == [a EXCEPT !.funds = @ - settlement.amount,
                                   !.lockupCurrent = @ - settlement.released]
<1>1. PICK m : m = Settled(p, id, until, now, result)
  OBVIOUS
<1>2. /\ p \in PayState /\ id \in RailIds /\ r \in LiveRail
      /\ key \in Clients \X Tokens /\ a \in Account
  BY LiveRails, SettledAccountSound DEF PaySound, CanSettleRail, AccountSound
<1>3. /\ PaySound(m, now) /\ m \in PayState
      /\ m.nextRailId = p.nextRailId
      /\ m.rails = [p.rails EXCEPT ![id] = newRail]
      /\ m.accounts = [p.accounts EXCEPT ![key] = newAccount]
      /\ m.paid = [p.paid EXCEPT ![id] = @ + settlement.amount]
  <2>1. PaySound(m, now)
    BY <1>1, SettledSound
  <2>2. m = [p EXCEPT !.rails[id].settledUpTo = settlement.to,
                      !.accounts[key] = newAccount,
                      !.paid[id] = @ + settlement.amount]
    BY <1>1 DEF Settled
  <2> HIDE DEF newAccount, key
  <2> QED BY <1>2, <2>1, <2>2 DEF PaySound, PayState
<1>4. newAccount.lockupLastSettledAt = a.lockupLastSettledAt
  <2> HIDE DEF a
  <2> QED BY <1>2 DEF Account
<1>5. /\ newRail.endEpoch = r.endEpoch /\ newRail.settledUpTo = settlement.to
      /\ newRail.from = r.from /\ newRail.token = r.token
  BY <1>2 DEF LiveRail
<1> HIDE DEF newAccount, newRail, key, a
<1>6. m.rails[id] = newRail
  BY <1>2, <1>3 DEF PayState
<1>7. \A k \in Clients \X Tokens :
          IF k = key THEN m.accounts[k].lockupLastSettledAt = a.lockupLastSettledAt
          ELSE m.accounts[k] = p.accounts[k]
  BY <1>2, <1>3, <1>4 DEF PayState
<1>8. q = Finalize(m, id)
  BY <1>1 DEF SettleRail
<1>9. CASE FullyPaid(p, id, settlement.to)
  <2>1. FullyPaid(m, id, m.rails[id].settledUpTo)
    BY <1>5, <1>6, <1>9 DEF FullyPaid, Terminated
  <2>2. Key(m, id) = key
    BY <1>5, <1>6 DEF Key, key
  <2>3. /\ q.nextRailId = m.nextRailId /\ q.paid = m.paid
        /\ q.rails = [m.rails EXCEPT ![id] = NoRail]
        /\ q.accounts = [m.accounts EXCEPT ![key].lockupCurrent =
                             @ - m.rails[id].lockupFixed]
    BY <1>3, <1>8, <2>1, <2>2 DEF Finalize, PayState
  <2>4. \A k \in Clients \X Tokens :
            /\ q.accounts[k].lockupLastSettledAt = m.accounts[k].lockupLastSettledAt
            /\ k # key => q.accounts[k] = m.accounts[k]
    <3>1. m.accounts \in [Clients \X Tokens -> Account]
      BY <1>3, PayParts
    <3> QED BY <2>3, <3>1 DEF Account
  <2> QED BY <1>2, <1>3, <1>7, <1>9, <2>3, <2>4
          DEF PayState, key, a, AccountsSettled, RailSettled, RailPaid
<1>10. CASE ~FullyPaid(p, id, settlement.to)
  <2>1. ~FullyPaid(m, id, m.rails[id].settledUpTo)
    BY <1>5, <1>6, <1>10 DEF FullyPaid, Terminated
  <2>2. q = m
    BY <1>8, <2>1 DEF Finalize
  <2> QED BY <1>2, <1>3, <1>6, <1>7, <1>10, <2>2
          DEF PayState, key, a, newRail, AccountsSettled, RailSettled, RailPaid
<1> QED BY <1>9, <1>10

----------------------------------------------------------------------------
(* The diamond.                                                            *)

\* The inductive invariant.
IInv == TypeOK /\ Solvent

----------------------------------------------------------------------------
(* The transactions with whatever arguments of the right type: those of    *)
(* Next are among them, and so are those the client's commands send.  The  *)
(* proofs are about these.                                                 *)

ApprovalLimits == [isApproved: BOOLEAN, rateAllowance: Nat,
                   lockupAllowance: Nat, maxLockupPeriod: Nat]

AnySP ==
    \E p \in Providers :
        \/ \E terms \in Terms :
              \/ \E tokens \in Seq(TokenConfig) : registerSP(p, terms, tokens)
              \/ updateSPConfig(p, terms)
        \/ \E token \in Tokens :
              \/ \E price \in Nat :
                    \/ addSPToken(p, token, price)
                    \/ \E active \in BOOLEAN :
                          updateSPToken(p, token, price, active)
              \/ removeSPToken(p, token)
        \/ deactivateSP(p)

AnyAdmin ==
    \/ \E c \in PaymentsContracts : setPaymentsContract(c)
    \/ \E rate \in Nat : setCommissionRate(rate)
    \/ \E amount \in Nat : setAllocationLockupAmount(amount)
    \/ pause
    \/ unpause
    \/ \E entry \in Providers \X Sectors, blacklisted \in BOOLEAN :
          blacklistSector(entry[1], entry[2], blacklisted)

AnyAllocation ==
    \/ \E client \in Clients, pieces \in Seq(PieceInfo), ids \in Seq(AllocationIds) :
          createAllocationRequests(client, pieces, ids)
    \/ createAllocation \/ createRevert \/ createReturn
    \/ \E miner \in Providers, pieces \in Seq(NotificationPiece) :
          handleSectorContentChanged(miner, pieces)
    \/ activatePiece \/ rejectPiece \/ notifyRevert \/ notifyReturn
    \/ \E until \in Nat :
          \/ \E a \in AllocationIds : settleSpPayment(a, until)
          \/ \E p \in Providers, b \in Nat \X Nat :
                settleSpTotalPayment(p, until, b[1], b[2])
    \/ settleNext \/ settleSkip \/ settleRevert \/ settleReturn

\* deposit without the bound on the funds.
AnyDeposit(c, k, amount) ==
    /\ ClientTransaction
    /\ pay' = [pay EXCEPT ![c] = Deposit(@, k, amount, epoch)]

AnyClient ==
    \E c \in PaymentsContracts :
        \/ \E k \in Clients \X Tokens :
              \/ \E amount \in Nat : AnyDeposit(c, k, amount) \/ withdraw(c, k, amount)
              \/ \E limits \in ApprovalLimits : setOperatorApproval(c, k, limits)
        \/ \E r \in RailIds : terminateRail(c, r) \/ settleRail(c, r)

AnyNext == AnySP \/ AnyAdmin \/ AnyAllocation \/ AnyClient \/ Tick

\* Every step of the specification is such a step.
LEMMA NextIsAny ==
    ASSUME epoch \in Nat, Next
    PROVE  AnyNext
<1>1. CASE SPNext
  BY <1>1, InputsAssumption DEF SPNext, AnySP, AnyNext
<1>2. CASE AdminNext
  BY <1>2, InputsAssumption DEF AdminNext, AnyAdmin, AnyNext
<1>3. CASE AllocationNext
  <2>1. CASE \E until \in 0 .. epoch + 1 :
                \/ \E a \in AllocationIds : settleSpPayment(a, until)
                \/ \E p \in Providers, b \in Batches :
                      settleSpTotalPayment(p, until, b[1], b[2])
    <3>1. 0 .. epoch + 1 \subseteq Nat
      OBVIOUS
    <3> QED BY <2>1, <3>1, InputsAssumption, Zenon DEF AnyAllocation, AnyNext
  <2>2. CASE \/ \E client \in Clients, pieces \in PieceBatches, ids \in Answers :
                   createAllocationRequests(client, pieces, ids)
             \/ \E miner \in Providers, pieces \in Notifications :
                   handleSectorContentChanged(miner, pieces)
    BY <2>2, InputsAssumption, Zenon DEF AnyAllocation, AnyNext
  <2> QED BY <1>3, <2>1, <2>2 DEF AllocationNext, AnyAllocation, AnyNext
<1>4. CASE ClientNext
  <2>1. Deposits \subseteq Nat /\ Limits \subseteq ApprovalLimits
    BY InputsAssumption DEF ApprovalLimits
  <2>2. ASSUME NEW c, NEW k, NEW amount, deposit(c, k, amount)
        PROVE  AnyDeposit(c, k, amount)
    BY <2>2 DEF deposit, AnyDeposit
  <2> QED BY <1>4, <2>1, <2>2, Zenon DEF ClientNext, AnyClient, AnyNext
<1>5. CASE Tick
  BY <1>5 DEF AnyNext
<1> QED BY <1>1, <1>2, <1>3, <1>4, <1>5 DEF Next

----------------------------------------------------------------------------
(* The invariant, action by action.                                        *)

\* A nonempty set of naturals has a least element, the one a loop from the
\* front of an array finds first.
LEMMA MinExists ==
    ASSUME NEW T \in SUBSET Nat, T # {}
    PROVE  \E x \in T : \A y \in T : x <= y
<1> DEFINE Below(n) == 0 .. (n - 1)
           S == {Below(n) : n \in T}
<1>1. S \subseteq FiniteSubsetsOf(Nat)
  <2> SUFFICES ASSUME NEW n \in T PROVE Below(n) \in FiniteSubsetsOf(Nat)
    BY Zenon
  <2>1. IsFiniteSet(Below(n)) BY FS_Interval
  <2>2. Below(n) \subseteq Nat OBVIOUS
  <2> QED BY <2>1, <2>2, Zenon DEF FiniteSubsetsOf
<1>2. S # {} OBVIOUS
<1>3. \E X \in S : \A Y \in S : ~(<<Y, X>> \in StrictSubsetOrdering(Nat))
  <2> HIDE DEF S
  <2> QED BY <1>1, <1>2, WFMin, FS_StrictSubsetOrderingWellFounded, Zenon
<1>4. PICK x \in T : \A y \in T : ~(<<Below(y), Below(x)>> \in StrictSubsetOrdering(Nat))
  BY <1>3, Zenon
<1>5. ASSUME NEW y \in T, y < x PROVE FALSE
  <2>1. Below(y) \subseteq Below(x) /\ Below(y) # Below(x)
    <3>1. y \in Below(x) /\ y \notin Below(y) BY <1>5
    <3>2. Below(y) \subseteq Below(x) BY <1>5
    <3> QED BY <3>1, <3>2, Zenon
  <2>2. Below(y) \in SUBSET Nat /\ Below(x) \in SUBSET Nat OBVIOUS
  <2>3. <<Below(y), Below(x)>> \in StrictSubsetOrdering(Nat)
    BY <2>1, <2>2, Zenon DEF StrictSubsetOrdering
  <2> QED BY <2>3, <1>4
<1> QED BY <1>5

\* A transaction of the owner writes the diamond's storage alone.
LEMMA OwnerStep ==
    ASSUME IInv, OwnerTransaction, s' \in DDOState
    PROVE  IInv'
<1>1. pay' = pay /\ epoch' = epoch /\ call' = call /\ call = Idle
  BY DEF OwnerTransaction
<1>2. TypeOK'
  BY <1>1 DEF IInv, TypeOK
<1>3. Solvent'
  BY <1>1 DEF IInv, Solvent, committed, Snapshot
<1> QED BY <1>2, <1>3 DEF IInv

\* The operations of the admin facet keep the types.
LEMMA AdminStep ==
    ASSUME IInv, AnyAdmin
    PROVE  IInv'
<1>0. s \in DDOState
  BY DEF IInv, TypeOK
<1>1. OwnerTransaction
  BY DEF AnyAdmin, setPaymentsContract, setCommissionRate,
         setAllocationLockupAmount, pause, unpause, blacklistSector
<1>2. s' \in DDOState
  <2>1. ASSUME NEW c \in PaymentsContracts, setPaymentsContract(c)
        PROVE  s' \in DDOState
    BY <1>0, <2>1 DEF setPaymentsContract, DDOState
  <2>2. ASSUME NEW rate \in Nat, setCommissionRate(rate)
        PROVE  s' \in DDOState
    BY <1>0, <2>2, InputsAssumption DEF setCommissionRate, DDOState
  <2>3. ASSUME NEW amount \in Nat, setAllocationLockupAmount(amount)
        PROVE  s' \in DDOState
    BY <1>0, <2>3, InputsAssumption DEF setAllocationLockupAmount, DDOState
  <2>4. CASE pause \/ unpause
    BY <1>0, <2>4 DEF pause, unpause, DDOState
  <2>5. ASSUME NEW entry \in Providers \X Sectors, NEW blacklisted \in BOOLEAN,
               blacklistSector(entry[1], entry[2], blacklisted)
        PROVE  s' \in DDOState
    <3>1. entry \in Providers \X Sectors
      BY InputsAssumption
    <3>2. <<entry[1], entry[2]>> \in Providers \X Sectors
      BY <3>1
    <3>3. PICK b \in SUBSET (Providers \X Sectors) :
              s' = [s EXCEPT !.blacklistedSectors = b]
      <4> DEFINE b == IF blacklisted
                     THEN s.blacklistedSectors \cup {<<entry[1], entry[2]>>}
                     ELSE s.blacklistedSectors \ {<<entry[1], entry[2]>>}
      <4>1. b \in SUBSET (Providers \X Sectors)
        BY <1>0, <3>2 DEF DDOState
      <4>2. s' = [s EXCEPT !.blacklistedSectors = b]
        BY <2>5 DEF blacklistSector
      <4> QED BY <4>1, <4>2
    <3> QED BY <1>0, <3>3 DEF DDOState
  <2> QED BY <2>1, <2>2, <2>3, <2>4, <2>5 DEF AnyAdmin
<1> QED BY <1>1, <1>2, OwnerStep

LEMMA FunctionIsSeq ==
    ASSUME NEW T, NEW n \in Nat, NEW f \in [1 .. n -> T]
    PROVE  f \in Seq(T)
BY SeqDef, Zenon

\* The operations of the provider registry keep the types: every entry of a
\* token list stays a token entry through additions, updates and swaps.
LEMMA SPStep ==
    ASSUME IInv, AnySP
    PROVE  IInv'
<1>0. s \in DDOState
  BY DEF IInv, TypeOK
<1>1. OwnerTransaction
  BY DEF AnySP, registerSP, updateSPConfig, addSPToken, updateSPToken,
         removeSPToken, deactivateSP
<1>a. ASSUME NEW p \in Providers
      PROVE  s.spConfigs[p] \in SPConfig
  BY <1>0 DEF DDOState
<1>b. ASSUME NEW p \in Providers, NEW config \in SPConfig,
             s' = [s EXCEPT !.spConfigs[p] = config]
      PROVE  s' \in DDOState
  BY <1>0, <1>b DEF DDOState
<1>c. ASSUME NEW config \in SPConfig, NEW terms \in Terms
      PROVE  WithTerms(config, terms) \in SPConfig
  BY InputsAssumption DEF WithTerms, SPConfig, Terms
<1>d. ASSUME NEW p \in Providers, NEW tokens \in Seq(TokenConfig),
             s' = [s EXCEPT !.spConfigs[p].supportedTokens = tokens]
      PROVE  s' \in DDOState
  <2> DEFINE config == [s.spConfigs[p] EXCEPT !.supportedTokens = tokens]
  <2>1. config \in SPConfig
    BY <1>a DEF SPConfig
  <2>2. s' = [s EXCEPT !.spConfigs[p] = config]
    BY <1>d, <1>0 DEF DDOState
  <2> QED BY <2>1, <2>2, <1>b
<1>2. ASSUME NEW p \in Providers, NEW terms \in Terms, NEW tokens \in Seq(TokenConfig),
             registerSP(p, terms, tokens)
      PROVE  s' \in DDOState
  <2> DEFINE config == [WithTerms(s.spConfigs[p], terms) EXCEPT
                           !.isActive = TRUE, !.supportedTokens = @ \o tokens]
  <2>1. config \in SPConfig
    <3>1. WithTerms(s.spConfigs[p], terms) \in SPConfig
      BY <1>a, <1>c
    <3>2. tokens \in Seq(TokenConfig)
      BY InputsAssumption
    <3>3. PICK w \in SPConfig : w = WithTerms(s.spConfigs[p], terms)
      BY <3>1
    <3>4. w.supportedTokens \o tokens \in Seq(TokenConfig)
      BY <3>2 DEF SPConfig
    <3>5. [w EXCEPT !.isActive = TRUE, !.supportedTokens = w.supportedTokens \o tokens]
              \in SPConfig
      BY <3>4 DEF SPConfig
    <3> QED BY <3>3, <3>5
  <2>2. s' = [s EXCEPT !.spConfigs[p] = config, !.registeredSPIds = Append(@, p)]
    BY <1>2 DEF registerSP
  <2> HIDE DEF config
  <2>3. Append(s.registeredSPIds, p) \in Seq(Providers)
    BY <1>0 DEF DDOState
  <2> QED BY <1>0, <2>1, <2>2, <2>3 DEF DDOState
<1>3. ASSUME NEW p \in Providers, NEW terms \in Terms, updateSPConfig(p, terms)
      PROVE  s' \in DDOState
  <2>1. s' = [s EXCEPT !.spConfigs[p] = WithTerms(s.spConfigs[p], terms)]
    BY <1>3 DEF updateSPConfig
  <2> QED BY <2>1, <1>a, <1>b, <1>c
<1>4. ASSUME NEW p \in Providers, NEW token \in Tokens, NEW price \in Nat,
             addSPToken(p, token, price)
      PROVE  s' \in DDOState
  <2> DEFINE entry == [token |-> token, pricePerBytePerEpoch |-> price, isActive |-> TRUE]
  <2>1. entry \in TokenConfig
    BY InputsAssumption DEF TokenConfig
  <2>2. s' = [s EXCEPT !.spConfigs[p].supportedTokens =
                  Append(s.spConfigs[p].supportedTokens, entry)]
    BY <1>4 DEF addSPToken
  <2> HIDE DEF entry
  <2>3. Append(s.spConfigs[p].supportedTokens, entry) \in Seq(TokenConfig)
    BY <2>1, <1>a DEF SPConfig
  <2> QED BY <2>2, <2>3, <1>d
<1>5. ASSUME NEW p \in Providers, NEW token \in Tokens, NEW price \in Nat,
             NEW active \in BOOLEAN, updateSPToken(p, token, price, active)
      PROVE  s' \in DDOState
  <2> DEFINE entry == [token |-> token, pricePerBytePerEpoch |-> price, isActive |-> active]
             tokens == s.spConfigs[p].supportedTokens
             i == First(Positions(tokens, token))
  <2>1. entry \in TokenConfig
    BY InputsAssumption DEF TokenConfig
  <2>2. s' = [s EXCEPT !.spConfigs[p].supportedTokens = [tokens EXCEPT ![i] = entry]]
    BY <1>5, <1>0, <1>a DEF updateSPToken, DDOState, SPConfig
  <2> HIDE DEF entry, i
  <2>3. [tokens EXCEPT ![i] = entry] \in Seq(TokenConfig)
    <3>1. tokens \in Seq(TokenConfig)
      BY <1>a DEF SPConfig
    <3> HIDE DEF tokens
    <3>2. Len(tokens) \in Nat /\ tokens \in [1 .. Len(tokens) -> TokenConfig]
      BY <3>1
    <3>3. [tokens EXCEPT ![i] = entry] \in [1 .. Len(tokens) -> TokenConfig]
      BY <2>1, <3>2, Zenon
    <3> QED BY <3>2, <3>3, FunctionIsSeq
  <2> QED BY <2>2, <2>3, <1>d
<1>6. ASSUME NEW p \in Providers, NEW token \in Tokens, removeSPToken(p, token)
      PROVE  s' \in DDOState
  <2> DEFINE tokens == s.spConfigs[p].supportedTokens
             i == First(Positions(tokens, token))
  <2>1. s' = [s EXCEPT !.spConfigs[p].supportedTokens = SwapRemove(tokens, i)]
    BY <1>6 DEF removeSPToken
  <2>2. tokens \in Seq(TokenConfig) /\ tokens # <<>>
    BY <1>a, <1>6 DEF SPConfig, removeSPToken, Positions
  <2> HIDE DEF tokens, i
  <2>3. SwapRemove(tokens, i) \in Seq(TokenConfig)
    <3>1. Len(tokens) - 1 \in Nat
      BY <2>2
    <3>2. \A j \in 1 .. Len(tokens) - 1 : tokens[j] \in TokenConfig
      BY <2>2
    <3>3. tokens[Len(tokens)] \in TokenConfig
      BY <2>2, <3>1
    <3> QED BY <3>1, <3>2, <3>3 DEF SwapRemove
  <2> QED BY <2>1, <2>3, <1>d
<1>7. ASSUME NEW p \in Providers, deactivateSP(p)
      PROVE  s' \in DDOState
  <2> DEFINE config == [s.spConfigs[p] EXCEPT !.isActive = FALSE]
  <2>1. config \in SPConfig
    BY <1>a DEF SPConfig
  <2>2. s' = [s EXCEPT !.spConfigs[p] = config]
    BY <1>7, <1>0 DEF deactivateSP, DDOState
  <2> QED BY <2>1, <2>2, <1>b
<1>8. s' \in DDOState
  BY <1>2, <1>3, <1>4, <1>5, <1>6, <1>7 DEF AnySP
<1> QED BY <1>1, <1>8, OwnerStep

\* The frames `call' ranges over.
Frames == {Idle} \cup CreateFrame \cup NotifyFrame \cup SettleFrame

\* What any step of the diamond has to show: sound payments contracts, and a
\* frame that still saves the storage a revert puts back.
LEMMA StepSound ==
    ASSUME IInv, s' \in DDOState,
           pay' \in [PaymentsContracts -> PayState],
           \A c \in PaymentsContracts : PaySound(pay'[c], epoch),
           epoch' = epoch, call' \in Frames,
           call' = Idle \/ call'.saved = committed
    PROVE  IInv'
<1>1. TypeOK'
  BY DEF IInv, TypeOK, Frames
<1>2. Solvent'
  BY DEF IInv, Solvent, committed, Snapshot
<1> QED BY <1>1, <1>2 DEF IInv

\* What the invariant says, part by part.
LEMMA SoundParts ==
    ASSUME IInv
    PROVE  /\ s \in DDOState
           /\ pay \in [PaymentsContracts -> PayState]
           /\ epoch \in Nat
           /\ call \in Frames
           /\ committed \in Snapshots
           /\ \A c \in PaymentsContracts :
                 PaySound(pay[c], epoch) /\ PaySound(committed.pay[c], epoch)
<1>1. committed \in Snapshots
  BY DEF IInv, TypeOK, committed, Snapshot, Snapshots, CreateFrame,
         NotifyFrame, SettleFrame
<1> QED BY <1>1 DEF IInv, TypeOK, Solvent, Frames

\* A step that puts a sound state in the place of one contract.
LEMMA PayChange ==
    ASSUME IInv, NEW c, NEW q, pay' = [pay EXCEPT ![c] = q],
           c \in PaymentsContracts => PaySound(q, epoch)
    PROVE  /\ pay' \in [PaymentsContracts -> PayState]
           /\ \A d \in PaymentsContracts : PaySound(pay'[d], epoch)
<1>1. c \in PaymentsContracts => q \in PayState
  BY DEF PaySound
<1>2. pay' \in [PaymentsContracts -> PayState]
  BY <1>1, SoundParts
<1>3. \A d \in PaymentsContracts : pay'[d] = IF d = c THEN q ELSE pay[d]
  BY SoundParts
<1> QED BY <1>2, <1>3, SoundParts

\* A settlement the diamond or anyone asks for keeps every contract sound.
LEMMA SettleSound ==
    ASSUME IInv, NEW c, NEW railId, NEW until \in Nat,
           CanSettle(c, railId, until), Settle(c, railId, until)
    PROVE  /\ pay' \in [PaymentsContracts -> PayState]
           /\ \A d \in PaymentsContracts : PaySound(pay'[d], epoch)
<1>1. PICK q : q = SettleRail(pay[c], railId, until, epoch, Validated(c, railId, until))
  OBVIOUS
<1>2. pay' = [pay EXCEPT ![c] = q]
  BY <1>1 DEF Settle
<1>3. c \in PaymentsContracts => PaySound(q, epoch)
  BY <1>1, SoundParts, SettleRailSound DEF CanSettle
<1> QED BY <1>2, <1>3, PayChange

\* The transactions of the clients keep the invariant.
LEMMA ClientStep ==
    ASSUME IInv, AnyClient
    PROVE  IInv'
<1>1. s' = s /\ epoch' = epoch /\ call' = Idle /\ call = Idle
  BY DEF AnyClient, ClientTransaction, AnyDeposit, withdraw, setOperatorApproval,
         terminateRail, settleRail
<1>2. ASSUME NEW c \in PaymentsContracts, NEW q, pay' = [pay EXCEPT ![c] = q],
             PaySound(q, epoch)
      PROVE  IInv'
  BY <1>1, <1>2, PayChange, SoundParts, StepSound DEF Frames
<1>3. ASSUME NEW c \in PaymentsContracts, NEW k \in Clients \X Tokens,
             NEW amount \in Nat, AnyDeposit(c, k, amount)
      PROVE  IInv'
  <2>1. amount \in Nat
    OBVIOUS
  <2>2. PICK q : q = Deposit(pay[c], k, amount, epoch)
    OBVIOUS
  <2>3. PaySound(q, epoch)
    BY <2>1, <2>2, SoundParts, DepositSound
  <2> QED BY <1>2, <1>3, <2>2, <2>3 DEF AnyDeposit
<1>4. ASSUME NEW c \in PaymentsContracts, NEW k \in Clients \X Tokens,
             NEW amount \in Nat, withdraw(c, k, amount)
      PROVE  IInv'
  <2>1. amount \in Nat
    OBVIOUS
  <2>2. PICK q : q = Withdraw(pay[c], k, amount, epoch)
    OBVIOUS
  <2>3. PaySound(q, epoch)
    BY <1>4, <2>1, <2>2, SoundParts, WithdrawSound DEF withdraw
  <2> QED BY <1>2, <1>4, <2>2, <2>3 DEF withdraw
<1>5. ASSUME NEW c \in PaymentsContracts, NEW k \in Clients \X Tokens,
             NEW limits \in ApprovalLimits, setOperatorApproval(c, k, limits)
      PROVE  IInv'
  <2>1. limits \in [isApproved: BOOLEAN, rateAllowance: Nat,
                    lockupAllowance: Nat, maxLockupPeriod: Nat]
    BY DEF ApprovalLimits
  <2>2. PICK q : q = SetOperatorApproval(pay[c], k, limits)
    OBVIOUS
  <2>3. PaySound(q, epoch)
    BY <2>1, <2>2, SoundParts, SetOperatorApprovalSound
  <2> QED BY <1>2, <1>5, <2>2, <2>3 DEF setOperatorApproval
<1>6. ASSUME NEW c \in PaymentsContracts, NEW r \in RailIds, terminateRail(c, r)
      PROVE  IInv'
  <2>1. PICK q : q = TerminateRail(pay[c], r, epoch)
    OBVIOUS
  <2>2. PaySound(q, epoch)
    BY <1>6, <2>1, SoundParts, TerminateRailSound DEF terminateRail
  <2> QED BY <1>2, <1>6, <2>1, <2>2 DEF terminateRail
<1>7. ASSUME NEW c \in PaymentsContracts, NEW r \in RailIds, settleRail(c, r)
      PROVE  IInv'
  <2>1. /\ pay' \in [PaymentsContracts -> PayState]
        /\ \A d \in PaymentsContracts : PaySound(pay'[d], epoch)
    BY <1>7, SettleSound, SoundParts DEF settleRail
  <2> QED BY <1>1, <2>1, SoundParts, StepSound DEF Frames
<1> QED BY <1>3, <1>4, <1>5, <1>6, <1>7 DEF AnyClient

\* A block passes: an account settled by now is settled by then.
LEMMA TickStep ==
    ASSUME IInv, Tick
    PROVE  IInv'
<1>1. s' = s /\ pay' = pay /\ call' = call /\ call = Idle /\ epoch' = epoch + 1
  BY DEF Tick
<1>2. TypeOK'
  BY <1>1 DEF IInv, TypeOK
<1>3. ASSUME NEW p, PaySound(p, epoch)
      PROVE  PaySound(p, epoch + 1)
  BY <1>3, SoundParts DEF PaySound, AccountSound, Account
<1>4. Solvent'
  BY <1>1, <1>3, SoundParts DEF Solvent, committed, Snapshot
<1> QED BY <1>2, <1>4 DEF IInv

----------------------------------------------------------------------------
\* A call with a loop begins: it saves what a revert would put back.
LEMMA FrameStarts ==
    ASSUME IInv, call = Idle, s' \in DDOState, pay' = pay, epoch' = epoch,
           call' \in Frames, call'.saved = Snapshot
    PROVE  IInv'
BY SoundParts, StepSound DEF committed

\* An iteration keeps what the frame has saved.
LEMMA FrameContinues ==
    ASSUME IInv, call # Idle, Continue
    PROVE  call' \in Frames /\ call' # Idle /\ call'.saved = committed
<1>1. call \in CreateFrame \cup NotifyFrame \cup SettleFrame
  BY SoundParts DEF Frames
<1>2. call' = [call EXCEPT !.i = @ + 1]
  BY DEF Continue
<1>3. CASE call \in CreateFrame
  <2>1. call' \in CreateFrame /\ call'.saved = call.saved
    BY <1>2, <1>3 DEF CreateFrame
  <2>2. call' # Idle
    BY <2>1 DEF CreateFrame, Idle
  <2> QED BY <2>1, <2>2 DEF Frames, committed
<1>4. CASE call \in NotifyFrame
  <2>1. call' \in NotifyFrame /\ call'.saved = call.saved
    BY <1>2, <1>4 DEF NotifyFrame
  <2>2. call' # Idle
    BY <2>1 DEF NotifyFrame, Idle
  <2> QED BY <2>1, <2>2 DEF Frames, committed
<1>5. CASE call \in SettleFrame
  <2>1. call' \in SettleFrame /\ call'.saved = call.saved
    BY <1>2, <1>5 DEF SettleFrame
  <2>2. call' # Idle
    BY <2>1 DEF SettleFrame, Idle
  <2> QED BY <2>1, <2>2 DEF Frames, committed
<1> QED BY <1>1, <1>3, <1>4, <1>5

\* A revert keeps the invariant: what was saved was sound.
LEMMA RevertStep ==
    ASSUME IInv, call # Idle, Revert
    PROVE  IInv'
<1>1. committed = call.saved
  BY DEF committed
<1>2. s' = committed.s /\ pay' = committed.pay /\ call' = Idle /\ epoch' = epoch
  BY <1>1 DEF Revert
<1>3. committed.s \in DDOState /\ committed.pay \in [PaymentsContracts -> PayState]
  BY SoundParts DEF Snapshots
<1> QED BY <1>2, <1>3, SoundParts, StepSound DEF Frames

\* A supported token has a price: the first of the provider's active entries.
LEMMA SPPriceType ==
    ASSUME IInv, NEW p \in Providers, NEW token, supportsToken(p, token)
    PROVE  SPPrice(p, token) \in Nat
<1> DEFINE entries == ActivePrices(p, token)
           first == CHOOSE i \in entries : \A j \in entries : i <= j
           tokens == s.spConfigs[p].supportedTokens
<1>1. tokens \in Seq(TokenConfig)
  BY SoundParts DEF DDOState, SPConfig
<1>2. entries \subseteq DOMAIN tokens /\ entries # {}
  BY DEF ActivePrices, supportsToken
<1>3. entries \in SUBSET Nat
  <2>1. DOMAIN tokens = 1 .. Len(tokens) /\ Len(tokens) \in Nat
    BY <1>1
  <2>2. 1 .. Len(tokens) \subseteq Nat
    BY <2>1
  <2> QED BY <1>2, <2>1, <2>2
<1>4. first \in entries
  <2> HIDE DEF entries
  <2>1. \E i \in entries : \A j \in entries : i <= j
    BY <1>2, <1>3, MinExists
  <2> QED BY <2>1
<1> HIDE DEF first, entries
<1>5. tokens[first].pricePerBytePerEpoch \in Nat
  <2> HIDE DEF tokens
  <2>1. tokens[first] \in TokenConfig
    BY <1>1, <1>2, <1>4
  <2> QED BY <2>1 DEF TokenConfig
<1> QED BY <1>5 DEF SPPrice, first, entries, tokens

\* The piece and the id the creation is at are there: the answer of the
\* verified registry is empty or as long as the batch.
LEMMA CreateFrameParts ==
    ASSUME IInv, creating
    PROVE  /\ call \in CreateFrame /\ call # Idle
           /\ call.client \in Clients
           /\ call.newAllocations[call.i] \in AllocationIds
           /\ call.pieceInfos[call.i] \in PieceInfo
<1>1. call \in CreateFrame /\ call # Idle
  BY SoundParts DEF creating, Frames, Idle, NotifyFrame, SettleFrame
<1>2. /\ call.client \in Clients
      /\ call.newAllocations \in Seq(AllocationIds)
      /\ call.pieceInfos \in Seq(PieceInfo)
      /\ Len(call.newAllocations) \in {0, Len(call.pieceInfos)}
      /\ call.i \in Nat \ {0}
  BY <1>1, InputsAssumption DEF CreateFrame
<1>3. call.i \in 1 .. Len(call.newAllocations)
  BY <1>2 DEF creating
<1>4. Len(call.newAllocations) = Len(call.pieceInfos)
  BY <1>2, <1>3
<1> QED BY <1>1, <1>2, <1>3, <1>4

\* Opening a rail, its creation and its lockup together.
LEMMA OpenedRailSound ==
    ASSUME IInv, NEW p, PaySound(p, epoch), NEW piece \in PieceInfo,
           NEW client \in Clients, CanOpenRail(p, piece, client)
    PROVE  PaySound(OpenedRail(p, piece, client), epoch) /\ p.nextRailId \in RailIds
<1>1. /\ piece.paymentTokenAddress \in Tokens
      /\ s.spConfigs[piece.provider].paymentAddress \in Payees \cup {ZERO}
      /\ s.commissionRateBps \in Nat
      /\ s.allocationLockupAmount \in Nat
      /\ epoch \in Nat
  BY SoundParts DEF DDOState, SPConfig, PieceInfo
<1>2. PICK q : q = CreateRail(p, piece.paymentTokenAddress, client,
                        s.spConfigs[piece.provider].paymentAddress,
                        s.commissionRateBps, epoch)
  OBVIOUS
<1>3. PaySound(q, epoch)
  BY <1>1, <1>2, CreateRailSound
<1>4. /\ CanModifyRailLockup(q, p.nextRailId, 0, s.allocationLockupAmount, epoch)
      /\ p.nextRailId \in RailIds
  BY <1>2 DEF CanOpenRail, CanCreateRail
<1>5. PaySound(ModifyRailLockup(q, p.nextRailId, 0, s.allocationLockupAmount, epoch), epoch)
  BY <1>1, <1>3, <1>4, ModifyRailLockupSound
<1> QED BY <1>2, <1>4, <1>5 DEF OpenedRail

\* One iteration of createAllocationRequests.
LEMMA CreateStep ==
    ASSUME IInv, createAllocation
    PROVE  IInv'
<1> DEFINE a == call.newAllocations[call.i]
           piece == call.pieceInfos[call.i]
           c == s.paymentsContract
           p == pay[c]
<1>1. /\ call # Idle /\ call.client \in Clients
      /\ a \in AllocationIds /\ piece \in PieceInfo
  BY CreateFrameParts DEF createAllocation
<1>2. CanOpenRail(p, piece, call.client)
  BY DEF createAllocation, canCreateAllocation
<1>3. p.nextRailId \in Nat
  <2>1. p.nextRailId \in RailIds
    BY <1>2 DEF CanOpenRail, CanCreateRail
  <2> HIDE DEF p
  <2> QED BY <2>1, MaxRailsAssumption DEF RailIds
<1>4. /\ pay' \in [PaymentsContracts -> PayState]
      /\ \A d \in PaymentsContracts : PaySound(pay'[d], epoch)
  <2>1. PICK q : q = OpenedRail(p, piece, call.client)
    OBVIOUS
  <2>2. pay' = [pay EXCEPT ![c] = q]
    BY <2>1 DEF createAllocation
  <2>3. c \in PaymentsContracts => PaySound(q, epoch)
    BY <1>1, <1>2, <2>1, SoundParts, OpenedRailSound
  <2> QED BY <2>2, <2>3, PayChange
<1>5. s' \in DDOState
  <2> DEFINE info == [client |-> call.client,
                      provider |-> piece.provider,
                      activated |-> FALSE,
                      pieceCidHash |-> piece.pieceCid,
                      paymentToken |-> piece.paymentTokenAddress,
                      pieceSize |-> piece.size,
                      railId |-> p.nextRailId,
                      pricePerBytePerEpoch |->
                          SPPrice(piece.provider, piece.paymentTokenAddress),
                      sectorNumber |-> 0]
  <2>1. piece.provider \in Providers
    BY <1>1 DEF PieceInfo
  <2>2. SPPrice(piece.provider, piece.paymentTokenAddress) \in Nat
    BY <1>2, <2>1, SPPriceType DEF CanOpenRail
  <2>3. info \in AllocationInfo
    <3> HIDE DEF p, piece
    <3> QED BY <1>1, <1>3, <2>1, <2>2 DEF AllocationInfo, PieceInfo
  <2>4. s' = [s EXCEPT
               !.allocationIdsByClient[call.client] = Append(@, a),
               !.allocationIdsByProvider[piece.provider] = Append(@, a),
               !.railIdToAllocationId[p.nextRailId] = a,
               !.allocationInfos[a] = info]
    BY DEF createAllocation
  <2> HIDE DEF info, a, piece, p
  <2>5. /\ Append(s.allocationIdsByClient[call.client], a) \in Seq(AllocationIds)
        /\ Append(s.allocationIdsByProvider[piece.provider], a) \in Seq(AllocationIds)
    BY <1>1, <2>1, SoundParts DEF DDOState
  <2> QED BY <1>1, <2>1, <2>3, <2>4, <2>5, SoundParts DEF DDOState
<1>6. Continue /\ epoch' = epoch
  BY DEF createAllocation
<1> QED BY <1>1, <1>4, <1>5, <1>6, FrameContinues, StepSound

\* The beginning of createAllocationRequests.
LEMMA CreateStarts ==
    ASSUME IInv, NEW client \in Clients, NEW pieces \in Seq(PieceInfo),
           NEW ids \in Seq(AllocationIds), createAllocationRequests(client, pieces, ids)
    PROVE  IInv'
<1>1. s' \in DDOState
  BY SoundParts DEF createAllocationRequests, DDOState
<1>2. call' \in CreateFrame /\ call'.saved = Snapshot
  <2>1. Snapshot \in Snapshots
    BY SoundParts DEF Snapshot, Snapshots
  <2>2. call' = [fn |-> "create", client |-> client, pieceInfos |-> pieces,
                 newAllocations |-> ids, i |-> 1, saved |-> Snapshot]
    BY DEF createAllocationRequests
  <2>3. Len(ids) \in {0, Len(pieces)}
    BY DEF createAllocationRequests
  <2> QED BY <2>1, <2>2, <2>3 DEF CreateFrame
<1> QED BY <1>1, <1>2, FrameStarts DEF createAllocationRequests, Frames

\* The end of createAllocationRequests.
LEMMA CreateReturns ==
    ASSUME IInv, createReturn
    PROVE  IInv'
<1>1. s' \in DDOState
  BY SoundParts DEF createReturn, DDOState
<1> QED BY <1>1, SoundParts, StepSound DEF createReturn, Frames

\* The piece the notification is at is there.
LEMMA NotifyFrameParts ==
    ASSUME IInv, notifying
    PROVE  /\ call \in NotifyFrame /\ call # Idle
           /\ call.pieces[call.i] \in NotificationPiece
<1>1. call \in NotifyFrame /\ call # Idle
  BY SoundParts DEF notifying, Frames, Idle, CreateFrame, SettleFrame
<1>2. call.pieces \in Seq(NotificationPiece) /\ call.i \in Nat \ {0}
  BY <1>1, InputsAssumption DEF NotifyFrame
<1>3. call.i \in 1 .. Len(call.pieces)
  BY <1>2 DEF notifying
<1> QED BY <1>1, <1>2, <1>3

\* Activating a rail, its rate and its month of lockup together.
LEMMA ActivatedRailSound ==
    ASSUME IInv, NEW p, PaySound(p, epoch), NEW info \in AllocationInfo,
           canActivateRail(p, info)
    PROVE  PaySound(ActivatedRail(p, info), epoch)
<1>1. pricePerEpoch(info) \in Nat
  BY Products DEF pricePerEpoch, AllocationInfo
<1>2. PICK q : q = ModifyRailPayment(p, info.railId, pricePerEpoch(info), epoch)
  OBVIOUS
<1>3. PaySound(q, epoch)
  BY <1>1, <1>2, SoundParts, ModifyRailPaymentSound DEF canActivateRail
<1>4. CanModifyRailLockup(q, info.railId, EPOCHS_PER_MONTH, 0, epoch)
  BY <1>2 DEF canActivateRail
<1>5. PaySound(ModifyRailLockup(q, info.railId, EPOCHS_PER_MONTH, 0, epoch), epoch)
  BY <1>3, <1>4, SoundParts, EpochsAssumption, ModifyRailLockupSound
<1> QED BY <1>2, <1>5 DEF ActivatedRail

\* An answered piece keeps what the frame has saved.
LEMMA NotifyContinues ==
    ASSUME call \in NotifyFrame, NEW b \in BOOLEAN,
           call' = [call EXCEPT !.i = @ + 1, !.accepted = Append(@, b)]
    PROVE  /\ call' \in Frames /\ call' # Idle /\ call # Idle
           /\ call'.saved = committed /\ call'.saved = call.saved
           /\ call'.fn = call.fn
<1>1. Append(call.accepted, b) \in Seq(BOOLEAN) /\ call.i + 1 \in Nat \ {0}
  <2>1. call.accepted \in Seq(BOOLEAN) /\ call.i \in Nat \ {0}
    BY DEF NotifyFrame
  <2> QED BY <2>1
<1>2. call' \in NotifyFrame /\ call'.saved = call.saved
  BY <1>1 DEF NotifyFrame
<1>3. /\ call # Idle /\ call' # Idle
      /\ call'.fn = "notify" /\ call.fn = "notify"
  BY <1>2 DEF NotifyFrame, Idle
<1> QED BY <1>2, <1>3 DEF Frames, committed

\* A piece that starts its payments.
LEMMA ActivateStep ==
    ASSUME IInv, activatePiece
    PROVE  IInv'
<1> DEFINE piece == call.pieces[call.i]
           info == s.allocationInfos[piece.allocationId]
           c == s.paymentsContract
<1>1. /\ call \in NotifyFrame /\ call # Idle
      /\ piece.allocationId \in AllocationIds
      /\ piece.sectorNumber \in Sectors
  BY NotifyFrameParts DEF activatePiece, NotificationPiece
<1>2. info \in AllocationInfo
  BY <1>1, SoundParts DEF DDOState
<1>3. s' \in DDOState
  <2> DEFINE new == [info EXCEPT !.sectorNumber = piece.sectorNumber, !.activated = TRUE]
  <2>1. new \in AllocationInfo
    <3> HIDE DEF info, piece
    <3> QED BY <1>1, <1>2 DEF AllocationInfo
  <2>2. s' = [s EXCEPT !.allocationInfos[piece.allocationId] = new]
    BY SoundParts, <1>1 DEF activatePiece, DDOState, AllocationInfo
  <2> HIDE DEF new, piece
  <2> QED BY <1>1, <2>1, <2>2, SoundParts DEF DDOState
<1>4. /\ pay' \in [PaymentsContracts -> PayState]
      /\ \A d \in PaymentsContracts : PaySound(pay'[d], epoch)
  <2>1. PICK q : q = ActivatedRail(pay[c], info)
    OBVIOUS
  <2>2. pay' = [pay EXCEPT ![c] = q]
    BY <2>1 DEF activatePiece
  <2>3. canActivateRail(pay[c], info)
    BY DEF activatePiece
  <2> HIDE DEF info
  <2>4. c \in PaymentsContracts => PaySound(q, epoch)
    BY <1>2, <2>1, <2>3, SoundParts, ActivatedRailSound
  <2> QED BY <2>2, <2>4, PayChange
<1>5. call' = [call EXCEPT !.i = @ + 1, !.accepted = Append(@, TRUE)] /\ epoch' = epoch
  BY DEF activatePiece
<1>6. call' \in Frames /\ call' # Idle /\ call'.saved = committed
  BY <1>1, <1>5, NotifyContinues
<1> QED BY <1>3, <1>4, <1>5, <1>6, StepSound

\* A piece that is answered with false.
LEMMA RejectStep ==
    ASSUME IInv, rejectPiece
    PROVE  IInv'
<1>1. call \in NotifyFrame /\ call # Idle
  BY NotifyFrameParts DEF rejectPiece
<1>2. /\ call' = [call EXCEPT !.i = @ + 1, !.accepted = Append(@, FALSE)]
      /\ s' = s /\ pay' = pay /\ epoch' = epoch
  BY DEF rejectPiece
<1>3. call' \in Frames /\ call' # Idle /\ call'.saved = committed
  BY <1>1, <1>2, NotifyContinues
<1> QED BY <1>2, <1>3, SoundParts, StepSound

\* The beginning of a sector notification.
LEMMA NotifyStarts ==
    ASSUME IInv, NEW miner \in Providers, NEW pieces \in Seq(NotificationPiece),
           handleSectorContentChanged(miner, pieces)
    PROVE  IInv'
<1>1. call' \in NotifyFrame /\ call'.saved = Snapshot
  <2>1. Snapshot \in Snapshots
    BY SoundParts DEF Snapshot, Snapshots
  <2>2. call' = [fn |-> "notify", miner |-> miner, pieces |-> pieces,
                 accepted |-> <<>>, i |-> 1, saved |-> Snapshot]
    BY DEF handleSectorContentChanged
  <2> QED BY <2>1, <2>2 DEF NotifyFrame
<1> QED BY <1>1, SoundParts, FrameStarts DEF handleSectorContentChanged, Frames

\* The beginning of a settlement of a provider's rails.
LEMMA SettleStarts ==
    ASSUME IInv, NEW p \in Providers, NEW until \in Nat, NEW start \in Nat,
           NEW size \in Nat, settleSpTotalPayment(p, until, start, size)
    PROVE  IInv'
<1> DEFINE ids == s.allocationIdsByProvider[p]
<1>1. ids \in Seq(AllocationIds)
  BY SoundParts DEF DDOState
<1>2. FirstPosition(start) \in Nat \ {0} /\ LastPosition(start, size, Len(ids)) \in Nat
  BY <1>1 DEF FirstPosition, LastPosition, Min2
<1>3. call' \in SettleFrame /\ call'.saved = Snapshot
  <2>1. Snapshot \in Snapshots
    BY SoundParts DEF Snapshot, Snapshots
  <2>2. call' = [fn |-> "settle", ids |-> ids, untilEpoch |-> until,
                 start |-> FirstPosition(start), i |-> FirstPosition(start),
                 end |-> LastPosition(start, size, Len(ids)), saved |-> Snapshot]
    BY DEF settleSpTotalPayment
  <2> HIDE DEF ids
  <2> QED BY <1>1, <1>2, <2>1, <2>2 DEF SettleFrame
<1> QED BY <1>3, SoundParts, FrameStarts DEF settleSpTotalPayment, Frames

\* One rail of a settlement of a provider's rails.
LEMMA SettleStep ==
    ASSUME IInv, settleNext
    PROVE  IInv'
<1>1. call \in SettleFrame /\ call # Idle
  BY SoundParts DEF settleNext, settling, Frames, Idle, CreateFrame, NotifyFrame
<1>2. call.untilEpoch \in Nat
  BY <1>1 DEF SettleFrame
<1>3. s' = s /\ epoch' = epoch /\ Continue
  BY DEF settleNext
<1>4. PICK railId :
          /\ CanSettle(s.paymentsContract, railId, call.untilEpoch)
          /\ Settle(s.paymentsContract, railId, call.untilEpoch)
  BY DEF settleNext
<1>5. /\ pay' \in [PaymentsContracts -> PayState]
      /\ \A d \in PaymentsContracts : PaySound(pay'[d], epoch)
  BY <1>2, <1>4, SettleSound
<1> QED BY <1>1, <1>3, <1>5, FrameContinues, SoundParts, StepSound

\* The settlement of one allocation.
LEMMA SettleOneStep ==
    ASSUME IInv, NEW a \in AllocationIds, NEW until \in Nat, settleSpPayment(a, until)
    PROVE  IInv'
<1>1. s' = s /\ epoch' = epoch /\ call' = Idle
  BY DEF settleSpPayment
<1>2. PICK railId : /\ CanSettle(s.paymentsContract, railId, until)
                    /\ Settle(s.paymentsContract, railId, until)
  BY DEF settleSpPayment
<1>3. /\ pay' \in [PaymentsContracts -> PayState]
      /\ \A d \in PaymentsContracts : PaySound(pay'[d], epoch)
  BY <1>2, SettleSound
<1> QED BY <1>1, <1>3, SoundParts, StepSound DEF Frames

\* The operations of the allocation facet keep the invariant.
LEMMA AllocationStep ==
    ASSUME IInv, AnyAllocation
    PROVE  IInv'
<1>1. CASE createRevert \/ notifyRevert \/ settleRevert
  <2>1. call # Idle /\ Revert
    BY <1>1 DEF createRevert, creating, notifyRevert, notifying, settleRevert,
                settling, Idle
  <2> QED BY <2>1, RevertStep
<1>2. CASE notifyReturn \/ settleReturn
  <2>1. s' = s /\ pay' = pay /\ epoch' = epoch /\ call' = Idle
    BY <1>2 DEF notifyReturn, settleReturn
  <2> QED BY <2>1, SoundParts, StepSound DEF Frames
<1>3. CASE settleSkip
  <2>1. call # Idle /\ s' = s /\ pay' = pay /\ epoch' = epoch /\ Continue
    BY <1>3 DEF settleSkip, settling, Idle
  <2> QED BY <2>1, FrameContinues, SoundParts, StepSound
<1>4. CASE \E client \in Clients, pieces \in Seq(PieceInfo), ids \in Seq(AllocationIds) :
               createAllocationRequests(client, pieces, ids)
  BY <1>4, CreateStarts
<1>5. CASE createAllocation
  BY <1>5, CreateStep
<1>6. CASE createReturn
  BY <1>6, CreateReturns
<1>7. CASE \E miner \in Providers, pieces \in Seq(NotificationPiece) :
               handleSectorContentChanged(miner, pieces)
  BY <1>7, NotifyStarts
<1>8. CASE activatePiece
  BY <1>8, ActivateStep
<1>9. CASE rejectPiece
  BY <1>9, RejectStep
<1>10. ASSUME NEW until \in Nat, NEW a \in AllocationIds,
              settleSpPayment(a, until)
       PROVE  IInv'
  BY <1>10, SoundParts, SettleOneStep
<1>11. ASSUME NEW until \in Nat, NEW p \in Providers, NEW b \in Nat \X Nat,
              settleSpTotalPayment(p, until, b[1], b[2])
       PROVE  IInv'
  <2>1. until \in Nat /\ b[1] \in Nat /\ b[2] \in Nat
    BY SoundParts, InputsAssumption
  <2> QED BY <1>11, <2>1, SettleStarts
<1>12. CASE settleNext
  BY <1>12, SettleStep
<1> QED
  BY <1>1, <1>2, <1>3, <1>4, <1>5, <1>6, <1>7, <1>8, <1>9, <1>10, <1>11, <1>12
     DEF AnyAllocation

\* A deployment starts with sound contracts and typed storage.
LEMMA InitSound ==
    ASSUME Init
    PROVE  IInv
<1>1. s \in DDOState
  <2>1. PICK contract \in PaymentsContracts \cup {ZERO},
             commission \in Nat, lockup \in Nat :
                 s = Initialized(contract, commission, lockup)
    BY InputsAssumption DEF Init
  <2>2. NoAllocation \in AllocationInfo /\ NoSPConfig \in SPConfig
    BY DEF NoAllocation, AllocationInfo, NoSPConfig, SPConfig
  <2> QED BY <2>1, <2>2 DEF Initialized, DDOState
<1>2. PaySound(PayInit, 0)
  <2>1. NoRail \in Rail
    BY DEF Rail
  <2> QED BY <2>1 DEF PaySound, AccountSound, PayInit, PayState, Account, Approval
<1>3. /\ pay \in [PaymentsContracts -> PayState]
      /\ \A c \in PaymentsContracts : PaySound(pay[c], epoch)
  <2> HIDE DEF PayInit
  <2>1. PayInit \in PayState
    BY <1>2 DEF PaySound
  <2>2. pay = [c \in PaymentsContracts |-> PayInit] /\ epoch = 0
    BY DEF Init
  <2> QED BY <1>2, <2>1, <2>2
<1> QED BY <1>1, <1>3 DEF Init, IInv, TypeOK, Solvent, committed, Snapshot

\* Every step of everybody keeps the invariant.
LEMMA IInvStep ==
    ASSUME IInv, [AnyNext]_vars
    PROVE  IInv'
<1>1. CASE UNCHANGED vars
  BY <1>1 DEF IInv, TypeOK, Solvent, committed, Snapshot, vars
<1> QED BY <1>1, SPStep, AdminStep, AllocationStep, ClientStep, TickStep DEF AnyNext

\* The inductive invariant holds: every variable keeps its type, and no
\* account of a payments contract locks more than it holds, in the running
\* state and in the one a revert would put back.
THEOREM Invariance == Spec => []IInv
<1>1. Init => IInv
  BY InitSound
<1>2. IInv /\ [Next]_vars => IInv'
  BY IInvStep, NextIsAny DEF IInv, TypeOK
<1> QED BY <1>1, <1>2, PTL DEF Spec

\* So the other proofs may take every step with whatever arguments.
LEMMA SpecIsAny == Spec => Init /\ [][AnyNext]_vars
<1>1. IInv /\ [Next]_vars => [AnyNext]_vars
  BY NextIsAny DEF IInv, TypeOK
<1> QED BY <1>1, Invariance, PTL DEF Spec

\* Storage, payments contracts and the frame of the running call keep their
\* types, whatever the providers, tokens, batches, notifications and epochs.
THEOREM TypeCorrect == Spec => []TypeOK
<1>1. IInv => TypeOK
  BY DEF IInv
<1> QED BY <1>1, Invariance, PTL

\* No account locks more than it holds, for any number of clients, tokens,
\* rails and payments contracts: what the diamond has had locked can be paid,
\* also after a revert.
THEOREM Solvency == Spec => []Solvent
<1>1. IInv => Solvent
  BY DEF IInv
<1> QED BY <1>1, Invariance, PTL

----------------------------------------------------------------------------
(* Allocations and their rails: first what the operations of the payments  *)
(* contract do to the rails.                                               *)

\* The rail has the payer, the token and the terms it had, or is gone.
Kept(old, new) ==
    \/ new.from = ZERO
    \/ /\ new.from = old.from /\ new.token = old.token
       /\ new.rate = old.rate /\ new.lockupPeriod = old.lockupPeriod
       /\ new.lockupFixed = old.lockupFixed

RailsKept(p, q) ==
    /\ q.nextRailId = p.nextRailId
    /\ \A r \in RailIds : Kept(p.rails[r], q.rails[r])

\* An operation that does not touch the rails keeps them.
LEMMA SameRailsKept ==
    ASSUME NEW p, NEW q, q.nextRailId = p.nextRailId, q.rails = p.rails
    PROVE  RailsKept(p, q)
BY DEF RailsKept, Kept

\* An operation that changes one rail, and not its terms, keeps the rails.
LEMMA OneRailKept ==
    ASSUME NEW now, NEW p, PaySound(p, now), NEW q, NEW id, NEW r,
           q.nextRailId = p.nextRailId,
           q.rails = [p.rails EXCEPT ![id] = r],
           Kept(p.rails[id], r)
    PROVE  RailsKept(p, q)
<1>1. \A i \in RailIds : q.rails[i] = IF i = id THEN r ELSE p.rails[i]
  BY PayParts
<1> QED BY <1>1 DEF RailsKept, Kept

\* Two operations that keep the rails.
LEMMA RailsKeptTransitive ==
    ASSUME NEW p, NEW q, NEW t, RailsKept(p, q), RailsKept(q, t)
    PROVE  RailsKept(p, t)
BY DEF RailsKept, Kept

\* What a client does with its account and approval keeps the rails.
LEMMA ClientKeepsRails ==
    ASSUME NEW now, NEW p, PaySound(p, now), NEW k, NEW amount, NEW limits
    PROVE  /\ RailsKept(p, Deposit(p, k, amount, now))
           /\ RailsKept(p, Withdraw(p, k, amount, now))
           /\ RailsKept(p, SetOperatorApproval(p, k, limits))
<1>0. p \in PayState
  BY DEF PaySound
<1>1. ASSUME NEW q, q = Deposit(p, k, amount, now)
      PROVE  RailsKept(p, q)
  BY <1>0, <1>1, SameRailsKept DEF Deposit, PayState
<1>2. ASSUME NEW q, q = Withdraw(p, k, amount, now)
      PROVE  RailsKept(p, q)
  BY <1>0, <1>2, SameRailsKept DEF Withdraw, PayState
<1>3. ASSUME NEW q, q = SetOperatorApproval(p, k, limits)
      PROVE  RailsKept(p, q)
  <2>1. q.nextRailId = p.nextRailId /\ q.rails = p.rails
    BY <1>0, <1>3 DEF SetOperatorApproval, PayState
  <2> QED BY <2>1, SameRailsKept
<1> QED BY <1>1, <1>2, <1>3

\* terminateRail ends a rail and keeps its terms.
LEMMA TerminateKeepsRails ==
    ASSUME NEW now \in Nat, NEW p, PaySound(p, now), NEW id,
           CanTerminateRail(p, id, now)
    PROVE  RailsKept(p, TerminateRail(p, id, now))
<1> DEFINE r == [p.rails[id] EXCEPT !.endEpoch = now + p.rails[id].lockupPeriod]
<1>0. p \in PayState /\ id \in RailIds /\ p.rails[id] \in LiveRail
  BY LiveRails DEF PaySound, CanTerminateRail
<1>1. PICK q : q = TerminateRail(p, id, now)
  OBVIOUS
<1>2. q.nextRailId = p.nextRailId /\ q.rails = [p.rails EXCEPT ![id] = r]
  BY <1>0, <1>1 DEF TerminateRail, PayState
<1>3. Kept(p.rails[id], r)
  BY <1>0 DEF Kept, LiveRail
<1> HIDE DEF r
<1>4. RailsKept(p, q)
  BY <1>2, <1>3, OneRailKept
<1> QED BY <1>1, <1>4

\* The last settlement of a rail deletes it and keeps the others.
LEMMA FinalizeKeepsRails ==
    ASSUME NEW now, NEW p, PaySound(p, now), NEW id
    PROVE  RailsKept(p, Finalize(p, id))
<1>0. p \in PayState
  BY DEF PaySound
<1>1. PICK q : q = Finalize(p, id)
  OBVIOUS
<1>2. CASE q = p
  BY <1>1, <1>2, SameRailsKept
<1>3. CASE q # p
  <2>1. q.nextRailId = p.nextRailId /\ q.rails = [p.rails EXCEPT ![id] = NoRail]
    BY <1>0, <1>1, <1>3 DEF Finalize, PayState
  <2>2. Kept(p.rails[id], NoRail)
    BY DEF Kept, NoRail
  <2>3. RailsKept(p, q)
    BY <2>1, <2>2, OneRailKept
  <2> QED BY <1>1, <2>3
<1> QED BY <1>2, <1>3

\* A settlement moves a rail's settled epoch or deletes the rail, and changes
\* no term of any.
LEMMA SettleKeepsRails ==
    ASSUME NEW now \in Nat, NEW p, PaySound(p, now),
           NEW id, NEW until \in Nat, NEW result,
           CanSettleRail(p, id, until, now, result)
    PROVE  RailsKept(p, SettleRail(p, id, until, now, result))
<1>0. PICK settlement : settlement = Settlement(p, id, until, now, result)
  OBVIOUS
<1> DEFINE r == [p.rails[id] EXCEPT !.settledUpTo = settlement.to]
<1>1. PICK q : q = Settled(p, id, until, now, result)
  OBVIOUS
<1>2. /\ PaySound(q, now)
      /\ q.nextRailId = p.nextRailId
      /\ q.rails = [p.rails EXCEPT ![id] = r]
  <2>1. PaySound(q, now)
    BY <1>0, <1>1, SettledSound
  <2>2. q.nextRailId = p.nextRailId
    BY <1>1 DEF Settled, PaySound, PayState
  <2>3. q.rails = [p.rails EXCEPT ![id] =
                      [p.rails[id] EXCEPT !.settledUpTo = settlement.to]]
    BY <1>0, <1>1, SettledSound
  <2> QED BY <2>1, <2>2, <2>3
<1>3. Kept(p.rails[id], r)
  BY LiveRails DEF Kept, CanSettleRail, LiveRail
<1> HIDE DEF r
<1>4. RailsKept(p, q)
  BY <1>2, <1>3, OneRailKept
<1>5. RailsKept(q, Finalize(q, id))
  BY <1>2, FinalizeKeepsRails
<1>6. RailsKept(p, Finalize(q, id))
  BY <1>4, <1>5, RailsKeptTransitive
<1> QED BY <1>1, <1>6 DEF SettleRail

\* A new rail is the client's, in the piece's token, without rate or streaming
\* lockup; it pays the provider's address and the commission of the moment and
\* is settled up to it.  The others, and what was paid, are as they were.
LEMMA OpenedRailServes ==
    ASSUME IInv, NEW p, PaySound(p, epoch), NEW piece \in PieceInfo,
           NEW client \in Clients, CanOpenRail(p, piece, client),
           NEW q, q = OpenedRail(p, piece, client),
           NEW r, r = q.rails[p.nextRailId]
    PROVE  /\ q.nextRailId = p.nextRailId + 1
           /\ \A i \in RailIds \ {p.nextRailId} : q.rails[i] = p.rails[i]
           /\ q.paid = p.paid
           /\ r.from = client /\ r.token = piece.paymentTokenAddress
           /\ r.rate = 0 /\ r.lockupPeriod = 0
           /\ r.to = s.spConfigs[piece.provider].paymentAddress
           /\ r.commissionRateBps = s.commissionRateBps
           /\ r.settledUpTo = epoch /\ r.endEpoch = 0
<1> DEFINE n == p.nextRailId
           to == s.spConfigs[piece.provider].paymentAddress
           new == [NoRail EXCEPT !.token = piece.paymentTokenAddress,
                                 !.from = client, !.to = to,
                                 !.commissionRateBps = s.commissionRateBps,
                                 !.settledUpTo = epoch]
           locked == [new EXCEPT !.lockupPeriod = 0,
                                 !.lockupFixed = s.allocationLockupAmount]
<1>1. p \in PayState /\ n \in RailIds
  BY OpenedRailSound DEF PaySound
<1>2. PICK t : t = CreateRail(p, piece.paymentTokenAddress, client, to,
                              s.commissionRateBps, epoch)
  OBVIOUS
<1>3. /\ t.nextRailId = n + 1 /\ t.paid = p.paid
      /\ t.rails = [p.rails EXCEPT ![n] = new]
  BY <1>1, <1>2 DEF CreateRail, PayState
<1>4. t \in PayState
  BY <1>2, SoundParts, CreateRailSound DEF PaySound, DDOState, SPConfig, PieceInfo
<1>5. PICK u : u = ModifyRailLockup(t, n, 0, s.allocationLockupAmount, epoch)
  OBVIOUS
<1>6. /\ u.nextRailId = t.nextRailId /\ u.paid = t.paid
      /\ u.rails = [t.rails EXCEPT ![n] =
             [t.rails[n] EXCEPT !.lockupPeriod = 0,
                                !.lockupFixed = s.allocationLockupAmount]]
  BY <1>4, <1>5 DEF ModifyRailLockup, PayState
<1>7. u.rails = [p.rails EXCEPT ![n] = locked]
  <2> HIDE DEF new
  <2> QED BY <1>1, <1>3, <1>6 DEF PayState
<1>8. /\ locked.from = client /\ locked.token = piece.paymentTokenAddress
      /\ locked.rate = 0 /\ locked.lockupPeriod = 0
      /\ locked.to = to /\ locked.commissionRateBps = s.commissionRateBps
      /\ locked.settledUpTo = epoch /\ locked.endEpoch = 0
  BY DEF NoRail
<1>9. u = q
  BY <1>2, <1>5 DEF OpenedRail
<1> HIDE DEF locked
<1> QED BY <1>1, <1>3, <1>6, <1>7, <1>8, <1>9 DEF PayState

\* An activated rail has the agreed price and a month of lockup, and the payer
\* and token it had; the others are as they were.
LEMMA ActivatedRailServes ==
    ASSUME IInv, NEW p, PaySound(p, epoch), NEW info \in AllocationInfo,
           canActivateRail(p, info), ServesAllocation(p.rails[info.railId], info),
           NEW q, q = ActivatedRail(p, info),
           NEW r, r = q.rails[info.railId]
    PROVE  /\ q.nextRailId = p.nextRailId
           /\ \A i \in RailIds \ {info.railId} : q.rails[i] = p.rails[i]
           /\ r.from = info.client /\ r.token = info.paymentToken
           /\ r.rate = pricePerEpoch(info)
           /\ r.lockupPeriod = EPOCHS_PER_MONTH /\ r.lockupFixed = 0
<1> DEFINE n == info.railId
           price == pricePerEpoch(info)
<1>1. /\ p \in PayState /\ n \in RailIds /\ p.rails[n] \in LiveRail
      /\ RailExists(p, n)
  BY LiveRails DEF PaySound, canActivateRail, CanModifyRailPayment
<1>2. p.rails[n].from = info.client /\ p.rails[n].token = info.paymentToken
  BY <1>1 DEF ServesAllocation, RailExists
<1>3. PICK t : t = ModifyRailPayment(p, n, price, epoch)
  OBVIOUS
<1>4. t \in PayState
  <2>1. price \in Nat
    BY Products DEF pricePerEpoch, AllocationInfo
  <2>2. CanModifyRailPayment(p, n, price, epoch)
    BY DEF canActivateRail
  <2> HIDE DEF price, n
  <2> QED BY <1>3, <2>1, <2>2, SoundParts, ModifyRailPaymentSound DEF PaySound
<1>5. PICK u : t.rails = [p.rails EXCEPT ![n] =
                             [p.rails[n] EXCEPT !.rate = price, !.settledUpTo = u]]
               /\ t.nextRailId = p.nextRailId
  <2>1. t.rails = [p.rails EXCEPT ![n] = [p.rails[n] EXCEPT !.rate = price,
            !.settledUpTo = IF p.rails[n].rate = 0 /\ price - p.rails[n].rate # 0
                            THEN epoch ELSE @]]
        /\ t.nextRailId = p.nextRailId
    BY <1>1, <1>3 DEF ModifyRailPayment, PayState
  <2> QED BY <2>1
<1>6. PICK w : w = ModifyRailLockup(t, n, EPOCHS_PER_MONTH, 0, epoch)
  OBVIOUS
<1>7. /\ w.nextRailId = t.nextRailId
      /\ w.rails = [t.rails EXCEPT ![n] =
             [t.rails[n] EXCEPT !.lockupPeriod = EPOCHS_PER_MONTH, !.lockupFixed = 0]]
  BY <1>4, <1>6 DEF ModifyRailLockup, PayState
<1>8. /\ t.rails[n].rate = price
      /\ t.rails[n].from = p.rails[n].from /\ t.rails[n].token = p.rails[n].token
      /\ \A i \in RailIds \ {n} : t.rails[i] = p.rails[i]
  BY <1>1, <1>5 DEF PayState, LiveRail
<1>9. t.rails[n] \in Rail
  BY <1>1, <1>4 DEF PayState
<1>10. t.rails[n] \in LiveRail
  BY <1>1, <1>8, <1>9 DEF Rail, NoRail, RailExists
<1>11. w = q
  BY <1>3, <1>6 DEF ActivatedRail
<1> HIDE DEF price, n
<1>12. /\ r.rate = t.rails[n].rate
       /\ r.from = t.rails[n].from /\ r.token = t.rails[n].token
       /\ r.lockupPeriod = EPOCHS_PER_MONTH /\ r.lockupFixed = 0
  <2>1. r = [t.rails[n] EXCEPT !.lockupPeriod = EPOCHS_PER_MONTH, !.lockupFixed = 0]
    BY <1>1, <1>4, <1>7, <1>11 DEF PayState, n
  <2> QED BY <2>1, <1>10 DEF LiveRail
<1>13. \A i \in RailIds \ {n} : q.rails[i] = p.rails[i]
  BY <1>4, <1>7, <1>8, <1>11 DEF PayState
<1> QED BY <1>2, <1>5, <1>7, <1>8, <1>11, <1>12, <1>13 DEF price, n

----------------------------------------------------------------------------
\* What no transaction of the owner touches: the allocations, their lists, the
\* rail map, the reentrancy guard and the payments contracts.
LEMMA OwnerChanges ==
    ASSUME IInv, AnyAdmin \/ AnySP
    PROVE  /\ s'.allocationInfos = s.allocationInfos
           /\ s'.allocationIdsByClient = s.allocationIdsByClient
           /\ s'.allocationIdsByProvider = s.allocationIdsByProvider
           /\ s'.railIdToAllocationId = s.railIdToAllocationId
           /\ s'.reentrancyStatus = s.reentrancyStatus
           /\ pay' = pay /\ call' = call /\ call = Idle
           /\ s'.paymentsContract = s.paymentsContract
              \/ s'.paymentsContract \in PaymentsContracts
<1>0. s \in DDOState
  BY SoundParts
<1>1. CASE AnyAdmin
  BY <1>0, <1>1
     DEF AnyAdmin, setPaymentsContract, setCommissionRate,
         setAllocationLockupAmount, pause, unpause, blacklistSector,
         OwnerTransaction, DDOState
<1>2. CASE AnySP
  <2>1. ASSUME NEW p, NEW config,
               \/ s' = [s EXCEPT !.spConfigs[p] = config]
               \/ s' = [s EXCEPT !.spConfigs[p].supportedTokens = config]
               \/ s' = [s EXCEPT !.spConfigs[p].isActive = config]
               \/ s' = [s EXCEPT !.spConfigs[p] = config,
                                 !.registeredSPIds = Append(@, p)],
               OwnerTransaction
        PROVE  /\ s'.allocationInfos = s.allocationInfos
               /\ s'.allocationIdsByClient = s.allocationIdsByClient
               /\ s'.allocationIdsByProvider = s.allocationIdsByProvider
               /\ s'.railIdToAllocationId = s.railIdToAllocationId
               /\ s'.reentrancyStatus = s.reentrancyStatus
               /\ pay' = pay /\ call' = call /\ call = Idle
               /\ s'.paymentsContract = s.paymentsContract
    BY <1>0, <2>1 DEF OwnerTransaction, DDOState
  <2>2. PICK p \in Providers :
            \/ \E terms \in Terms :
                  \/ \E tokens \in Seq(TokenConfig) : registerSP(p, terms, tokens)
                  \/ updateSPConfig(p, terms)
            \/ \E token \in Tokens :
                  \/ \E price \in Nat :
                        \/ addSPToken(p, token, price)
                        \/ \E active \in BOOLEAN :
                              updateSPToken(p, token, price, active)
                  \/ removeSPToken(p, token)
            \/ deactivateSP(p)
    BY <1>2 DEF AnySP
  <2>3. OwnerTransaction
    BY <2>2 DEF registerSP, updateSPConfig, addSPToken, updateSPToken,
                removeSPToken, deactivateSP
  <2>4. \E config :
               \/ s' = [s EXCEPT !.spConfigs[p] = config]
               \/ s' = [s EXCEPT !.spConfigs[p].supportedTokens = config]
               \/ s' = [s EXCEPT !.spConfigs[p].isActive = config]
               \/ s' = [s EXCEPT !.spConfigs[p] = config,
                                 !.registeredSPIds = Append(@, p)]
    <3>1. ASSUME NEW terms, NEW tokens, registerSP(p, terms, tokens)
          PROVE  \E config : s' = [s EXCEPT !.spConfigs[p] = config,
                                            !.registeredSPIds = Append(@, p)]
      BY <3>1 DEF registerSP
    <3>2. ASSUME NEW terms, updateSPConfig(p, terms)
          PROVE  \E config : s' = [s EXCEPT !.spConfigs[p] = config]
      BY <3>2 DEF updateSPConfig
    <3>3. ASSUME NEW token, NEW price, addSPToken(p, token, price)
          PROVE  \E config : s' = [s EXCEPT !.spConfigs[p].supportedTokens = config]
      BY <3>3 DEF addSPToken
    <3>4. ASSUME NEW token, NEW price, NEW active, updateSPToken(p, token, price, active)
          PROVE  \E config : s' = [s EXCEPT !.spConfigs[p].supportedTokens = config]
      <4> DEFINE i == First(Positions(s.spConfigs[p].supportedTokens, token))
                 config == [s.spConfigs[p].supportedTokens EXCEPT ![i] =
                               [token |-> token, pricePerBytePerEpoch |-> price,
                                isActive |-> active]]
      <4>1. s' = [s EXCEPT !.spConfigs[p].supportedTokens = config]
        BY <3>4, <1>0 DEF updateSPToken, DDOState
      <4> QED BY <4>1
    <3>5. ASSUME NEW token, removeSPToken(p, token)
          PROVE  \E config : s' = [s EXCEPT !.spConfigs[p].supportedTokens = config]
      BY <3>5 DEF removeSPToken
    <3>6. ASSUME deactivateSP(p)
          PROVE  \E config : s' = [s EXCEPT !.spConfigs[p].isActive = config]
      BY <3>6 DEF deactivateSP
    <3> QED BY <2>2, <3>1, <3>2, <3>3, <3>4, <3>5, <3>6, Zenon
  <2> QED BY <2>1, <2>3, <2>4, Zenon
<1> QED BY <1>1, <1>2

\* The reentrancy guard through every step.
LEMMA GuardStep ==
    ASSUME IInv, GuardReleased, [AnyNext]_vars
    PROVE  GuardReleased'
<1>0. s \in DDOState
  BY SoundParts
<1>1. CASE AnyAdmin \/ AnySP
  BY <1>1, OwnerChanges DEF GuardReleased, committed, Snapshot
<1>2. CASE AnyClient \/ Tick \/ UNCHANGED vars
  <2>1. s' = s /\ call' = call /\ (call = Idle \/ pay' = pay)
    BY <1>2 DEF AnyClient, ClientTransaction, AnyDeposit, withdraw, vars, Tick,
                setOperatorApproval, terminateRail, settleRail
  <2> QED BY <2>1 DEF GuardReleased, committed, Snapshot
<1>3. CASE AnyAllocation
  <2>1. CASE createRevert \/ notifyRevert \/ settleRevert
    <3>1. call # Idle /\ Revert
      BY <2>1 DEF createRevert, creating, notifyRevert, notifying, settleRevert,
                  settling, Idle
    <3> QED BY <3>1 DEF Revert, GuardReleased, committed, Snapshot, Idle
  <2>2. CASE notifyReturn \/ settleReturn
    BY <2>2 DEF notifyReturn, settleReturn, GuardReleased, committed, Snapshot, Idle
  <2>3. CASE createReturn
    <3>1. s'.reentrancyStatus = NOT_ENTERED /\ call' = Idle
      BY <1>0, <2>3 DEF createReturn, DDOState
    <3> QED BY <3>1 DEF GuardReleased, committed, Snapshot, Idle
  <2>4. ASSUME NEW client, NEW pieces, NEW ids,
               createAllocationRequests(client, pieces, ids)
        PROVE  GuardReleased'
    <3>1. s'.reentrancyStatus = ENTERED
      BY <1>0, <2>4 DEF createAllocationRequests, DDOState
    <3>2. call'.fn = "create" /\ call' # Idle /\ call'.saved.s = s
      BY <2>4 DEF createAllocationRequests, Idle, Snapshot
    <3>3. s.reentrancyStatus = NOT_ENTERED
      BY <2>4 DEF createAllocationRequests, GuardReleased, Idle
    <3> QED BY <3>1, <3>2, <3>3 DEF GuardReleased, committed
  <2>5. ASSUME s'.reentrancyStatus = s.reentrancyStatus, call # Idle, call' # Idle,
               call'.saved = call.saved, call'.fn = call.fn
        PROVE  GuardReleased'
    BY <2>5 DEF GuardReleased, committed
  <2>6. CASE createAllocation
    <3>1. s'.reentrancyStatus = s.reentrancyStatus
      BY <1>0, <2>6 DEF createAllocation, DDOState
    <3> QED BY <2>5, <2>6, <3>1, CreateFrameParts
            DEF createAllocation, creating, Continue, CreateFrame, Idle
  <2>7. CASE activatePiece
    <3>1. s'.reentrancyStatus = s.reentrancyStatus
      BY <1>0, <2>7 DEF activatePiece, DDOState
    <3>2. call' = [call EXCEPT !.i = @ + 1, !.accepted = Append(@, TRUE)]
      BY <2>7 DEF activatePiece
    <3> QED BY <2>5, <2>7, <3>1, <3>2, NotifyFrameParts
            DEF activatePiece, NotifyFrame, Idle
  <2>8. CASE rejectPiece
    <3>1. call' = [call EXCEPT !.i = @ + 1, !.accepted = Append(@, FALSE)]
      BY <2>8 DEF rejectPiece
    <3> QED BY <2>5, <2>8, <3>1, NotifyFrameParts DEF rejectPiece, NotifyFrame, Idle
  <2>9. CASE settleNext \/ settleSkip
    <3>1. call \in SettleFrame
      BY <2>9, SoundParts DEF settleNext, settleSkip, settling, Frames, Idle,
                              CreateFrame, NotifyFrame
    <3> QED BY <2>5, <2>9, <3>1 DEF settleNext, settleSkip, Continue, SettleFrame, Idle
  <2>10. ASSUME NEW miner, NEW pieces, handleSectorContentChanged(miner, pieces)
         PROVE  GuardReleased'
    BY <2>10 DEF handleSectorContentChanged, GuardReleased, committed, Snapshot, Idle
  <2>11. ASSUME NEW p, NEW until, NEW start, NEW size,
                settleSpTotalPayment(p, until, start, size)
         PROVE  GuardReleased'
    BY <2>11 DEF settleSpTotalPayment, GuardReleased, committed, Snapshot, Idle
  <2>12. ASSUME NEW a, NEW until, settleSpPayment(a, until)
         PROVE  GuardReleased'
    BY <2>12 DEF settleSpPayment, GuardReleased, committed, Snapshot, Idle
  <2> QED
    BY <1>3, <2>1, <2>2, <2>3, <2>4, <2>6, <2>7, <2>8, <2>9, <2>10, <2>11, <2>12
       DEF AnyAllocation
<1> QED BY <1>1, <1>2, <1>3 DEF AnyNext

\* The reentrancy guard is set exactly while createAllocationRequests runs and
\* is never left behind by a return or a revert, for any batch.
THEOREM GuardRelease == Spec => []GuardReleased
<1>1. Init => GuardReleased
  BY DEF Init, Initialized, GuardReleased, committed, Snapshot, Idle
<1>2. IInv /\ GuardReleased /\ [AnyNext]_vars => GuardReleased'
  BY GuardStep
<1> QED BY <1>1, <1>2, Invariance, SpecIsAny, PTL

----------------------------------------------------------------------------
\* The owner never changes the payments contract: there is one.
SingleContract == \A c, d \in PaymentsContracts : c = d

RailInv(st, pays) == RailMapInverse(st, pays) /\ RailsServe(st, pays)

\* Where there is an allocation there is a payments contract with its rail.
LEMMA AllocatedContract ==
    ASSUME NEW st \in DDOState, NEW pays, RailInv(st, pays),
           NEW a \in Allocated(st)
    PROVE  /\ st.paymentsContract \in PaymentsContracts
           /\ st.allocationInfos[a] \in AllocationInfo
           /\ st.allocationInfos[a].railId \in RailIds
BY DEF RailInv, RailMapInverse, DDOState, Allocated

\* A rail that keeps its terms serves the allocation it served.
LEMMA ServesKept ==
    ASSUME NEW old, NEW new, NEW info, Kept(old, new), ServesAllocation(old, info)
    PROVE  ServesAllocation(new, info)
BY DEF Kept, ServesAllocation

\* A step that leaves allocations and rail map alone and keeps the rails.
LEMMA RailInvKept ==
    ASSUME SingleContract, NEW st \in DDOState, NEW pays, RailInv(st, pays),
           NEW st2, NEW pays2,
           st2.allocationInfos = st.allocationInfos,
           st2.railIdToAllocationId = st.railIdToAllocationId,
           \/ st2.paymentsContract = st.paymentsContract
           \/ st2.paymentsContract \in PaymentsContracts,
           \A c \in PaymentsContracts : RailsKept(pays[c], pays2[c])
    PROVE  RailInv(st2, pays2)
<1>1. Allocated(st2) = Allocated(st)
  BY DEF Allocated
<1>2. ASSUME NEW a \in Allocated(st)
      PROVE  /\ st2.paymentsContract = st.paymentsContract
             /\ st.paymentsContract \in PaymentsContracts
             /\ RailsKept(pays[st.paymentsContract], pays2[st.paymentsContract])
             /\ st.allocationInfos[a].railId \in RailIds
  BY AllocatedContract DEF SingleContract
<1>3. RailMapInverse(st2, pays2)
  BY <1>1, <1>2 DEF RailInv, RailMapInverse, RailsKept
<1>4. RailsServe(st2, pays2)
  <2>1. ASSUME NEW a \in Allocated(st)
        PROVE  ServesAllocation(
                   pays2[st.paymentsContract].rails[st.allocationInfos[a].railId],
                   st.allocationInfos[a])
    BY <1>2, ServesKept DEF RailInv, RailsServe, RailsKept
  <2> QED BY <1>1, <1>2, <2>1 DEF RailsServe
<1> QED BY <1>3, <1>4 DEF RailInv

\* A step that changes one payments contract, keeping its rails.
LEMMA OneContractKept ==
    ASSUME IInv, NEW c, NEW q, pay' = [pay EXCEPT ![c] = q],
           c \in PaymentsContracts => RailsKept(pay[c], q)
    PROVE  \A d \in PaymentsContracts : RailsKept(pay[d], pay'[d])
<1>1. \A d \in PaymentsContracts : pay'[d] = IF d = c THEN q ELSE pay[d]
  BY SoundParts
<1> QED BY <1>1, SameRailsKept

\* A settlement keeps the rails of every payments contract.
LEMMA SettleKeeps ==
    ASSUME IInv, NEW c, NEW railId, NEW until \in Nat,
           CanSettle(c, railId, until), Settle(c, railId, until)
    PROVE  \A d \in PaymentsContracts : RailsKept(pay[d], pay'[d])
<1>1. PICK q : q = SettleRail(pay[c], railId, until, epoch, Validated(c, railId, until))
  OBVIOUS
<1>2. pay' = [pay EXCEPT ![c] = q]
  BY <1>1 DEF Settle
<1>3. c \in PaymentsContracts => RailsKept(pay[c], q)
  BY <1>1, SoundParts, SettleKeepsRails DEF CanSettle
<1> QED BY <1>2, <1>3, OneContractKept

\* The transactions of the clients keep the rails of every contract.
LEMMA ClientKeeps ==
    ASSUME IInv, AnyClient
    PROVE  \A d \in PaymentsContracts : RailsKept(pay[d], pay'[d])
<1>1. ASSUME NEW c \in PaymentsContracts, NEW k \in Clients \X Tokens,
             NEW amount \in Nat, AnyDeposit(c, k, amount)
      PROVE  \A d \in PaymentsContracts : RailsKept(pay[d], pay'[d])
  BY <1>1, SoundParts, ClientKeepsRails, OneContractKept DEF AnyDeposit
<1>2. ASSUME NEW c \in PaymentsContracts, NEW k \in Clients \X Tokens,
             NEW amount \in Nat, withdraw(c, k, amount)
      PROVE  \A d \in PaymentsContracts : RailsKept(pay[d], pay'[d])
  BY <1>2, SoundParts, ClientKeepsRails, OneContractKept DEF withdraw
<1>3. ASSUME NEW c \in PaymentsContracts, NEW k \in Clients \X Tokens,
             NEW limits \in ApprovalLimits, setOperatorApproval(c, k, limits)
      PROVE  \A d \in PaymentsContracts : RailsKept(pay[d], pay'[d])
  BY <1>3, SoundParts, ClientKeepsRails, OneContractKept DEF setOperatorApproval
<1>4. ASSUME NEW c \in PaymentsContracts, NEW r \in RailIds, terminateRail(c, r)
      PROVE  \A d \in PaymentsContracts : RailsKept(pay[d], pay'[d])
  BY <1>4, SoundParts, TerminateKeepsRails, OneContractKept DEF terminateRail
<1>5. ASSUME NEW c \in PaymentsContracts, NEW r \in RailIds, settleRail(c, r)
      PROVE  \A d \in PaymentsContracts : RailsKept(pay[d], pay'[d])
  BY <1>5, SoundParts, SettleKeeps DEF settleRail
<1> QED BY <1>1, <1>2, <1>3, <1>4, <1>5 DEF AnyClient

\* createAllocation binds a new allocation to a new rail: the id was free, the
\* rail number was never given, and the rail has the terms of a pending one.
LEMMA CreateBinds ==
    ASSUME IInv, RailInv(s, pay), s.paymentsContract # ZERO, createAllocation
    PROVE  RailInv(s', pay') /\ s'.paymentsContract = s.paymentsContract
<1> DEFINE a == call.newAllocations[call.i]
           piece == call.pieceInfos[call.i]
           c == s.paymentsContract
           p == pay[c]
           n == p.nextRailId
           info == [client |-> call.client,
                    provider |-> piece.provider,
                    activated |-> FALSE,
                    pieceCidHash |-> piece.pieceCid,
                    paymentToken |-> piece.paymentTokenAddress,
                    pieceSize |-> piece.size,
                    railId |-> n,
                    pricePerBytePerEpoch |->
                        SPPrice(piece.provider, piece.paymentTokenAddress),
                    sectorNumber |-> 0]
<1>1. /\ call.client \in Clients /\ call.client # ZERO
      /\ a \in AllocationIds /\ a # 0 /\ piece \in PieceInfo
  BY CreateFrameParts, ZeroAssumption, IdsAssumption DEF createAllocation
<1>2. s \in DDOState /\ c \in PaymentsContracts /\ PaySound(p, epoch)
  BY SoundParts DEF DDOState
<1>3. CanOpenRail(p, piece, call.client) /\ s.allocationInfos[a].client = ZERO
  BY DEF createAllocation, canCreateAllocation
<1>4. PICK q : q = OpenedRail(p, piece, call.client)
  OBVIOUS
<1>5. /\ n \in RailIds /\ n \in Nat
      /\ q.nextRailId = n + 1
      /\ \A i \in RailIds \ {n} : q.rails[i] = p.rails[i]
      /\ q.rails[n].from = call.client
      /\ q.rails[n].token = piece.paymentTokenAddress
      /\ q.rails[n].rate = 0 /\ q.rails[n].lockupPeriod = 0
  <2> HIDE DEF p, piece
  <2>1. n \in RailIds
    BY <1>1, <1>2, <1>3, OpenedRailSound
  <2>2. n \in Nat
    BY <2>1, MaxRailsAssumption DEF RailIds
  <2> QED BY <2>1, <2>2, <1>1, <1>2, <1>3, <1>4, OpenedRailServes
<1>6. pay'[c] = q
  BY <1>2, <1>4, SoundParts DEF createAllocation
<1>7. /\ s'.allocationInfos = [s.allocationInfos EXCEPT ![a] = info]
      /\ s'.railIdToAllocationId = [s.railIdToAllocationId EXCEPT ![n] = a]
      /\ s'.paymentsContract = c
  BY <1>2 DEF createAllocation, DDOState
<1>8. /\ info.client = call.client /\ info.railId = n /\ ~info.activated
      /\ info.paymentToken = piece.paymentTokenAddress
  OBVIOUS
<1> HIDE DEF info, p, piece, n, a
<1>9. /\ s'.allocationInfos[a] = info
      /\ \A b \in AllocationIds \ {a} : s'.allocationInfos[b] = s.allocationInfos[b]
      /\ s'.railIdToAllocationId[n] = a
      /\ \A r \in RailIds \ {n} :
            s'.railIdToAllocationId[r] = s.railIdToAllocationId[r]
  BY <1>1, <1>2, <1>5, <1>7 DEF DDOState
<1>10. Allocated(s') = Allocated(s) \cup {a} /\ a \notin Allocated(s)
  BY <1>1, <1>3, <1>8, <1>9 DEF Allocated
<1>11. ASSUME NEW b \in Allocated(s)
       PROVE  /\ s.allocationInfos[b].railId \in RailIds \ {n}
              /\ s.allocationInfos[b].railId < q.nextRailId
              /\ s.railIdToAllocationId[s.allocationInfos[b].railId] = b
              /\ b \in AllocationIds \ {a}
  <2>1. /\ s.allocationInfos[b].railId \in RailIds
        /\ s.allocationInfos[b].railId < n
        /\ s.railIdToAllocationId[s.allocationInfos[b].railId] = b
    BY DEF RailInv, RailMapInverse, n, p
  <2>2. s.allocationInfos[b].railId \in Nat
    BY <2>1, MaxRailsAssumption DEF RailIds
  <2> QED BY <2>1, <2>2, <1>5, <1>10 DEF Allocated
<1>12. RailMapInverse(s', pay')
  <2>1. ASSUME NEW b \in Allocated(s')
        PROVE  /\ s'.paymentsContract # ZERO
               /\ s'.allocationInfos[b].railId \in RailIds
               /\ s'.allocationInfos[b].railId < pay'[c].nextRailId
               /\ s'.railIdToAllocationId[s'.allocationInfos[b].railId] = b
    <3>1. CASE b = a
      BY <3>1, <1>5, <1>6, <1>7, <1>8, <1>9
    <3>2. CASE b # a
      BY <3>2, <1>6, <1>7, <1>9, <1>10, <1>11
    <3> QED BY <3>1, <3>2
  <2>2. ASSUME NEW r \in RailIds, s'.railIdToAllocationId[r] # 0
        PROVE  /\ s'.railIdToAllocationId[r] \in Allocated(s')
               /\ s'.allocationInfos[s'.railIdToAllocationId[r]].railId = r
    <3>1. CASE r = n
      BY <3>1, <1>8, <1>9, <1>10
    <3>2. CASE r # n
      <4>1. /\ s.railIdToAllocationId[r] \in Allocated(s)
            /\ s.allocationInfos[s.railIdToAllocationId[r]].railId = r
        BY <3>2, <2>2, <1>9 DEF RailInv, RailMapInverse
      <4> QED BY <3>2, <4>1, <1>9, <1>10, <1>11
    <3> QED BY <3>1, <3>2
  <2> QED BY <2>1, <2>2, <1>7 DEF RailMapInverse
<1>13. RailsServe(s', pay')
  <2>1. ASSUME NEW b \in Allocated(s')
        PROVE  ServesAllocation(q.rails[s'.allocationInfos[b].railId],
                                s'.allocationInfos[b])
    <3>1. CASE b = a
      BY <3>1, <1>5, <1>8, <1>9 DEF ServesAllocation
    <3>2. CASE b # a
      <4>1. ServesAllocation(p.rails[s.allocationInfos[b].railId],
                             s.allocationInfos[b])
        BY <3>2, <1>10 DEF RailInv, RailsServe, p
      <4> QED BY <3>2, <4>1, <1>5, <1>9, <1>10, <1>11
    <3> QED BY <3>1, <3>2
  <2> QED BY <2>1, <1>6, <1>7 DEF RailsServe
<1> QED BY <1>7, <1>12, <1>13 DEF RailInv

\* activatePiece starts the rail of this allocation and of no other.
LEMMA ActivateBinds ==
    ASSUME IInv, RailInv(s, pay), activatePiece
    PROVE  RailInv(s', pay') /\ s'.paymentsContract = s.paymentsContract
<1> DEFINE piece == call.pieces[call.i]
           a == piece.allocationId
           info == s.allocationInfos[a]
           n == info.railId
           c == s.paymentsContract
           p == pay[c]
           new == [info EXCEPT !.sectorNumber = piece.sectorNumber, !.activated = TRUE]
<1>1. a \in AllocationIds /\ info \in AllocationInfo /\ a \in Allocated(s)
  <2>1. a \in AllocationIds
    BY NotifyFrameParts DEF activatePiece, NotificationPiece
  <2>2. info.client # ZERO
    BY DEF activatePiece, accepts
  <2> QED BY <2>1, <2>2, SoundParts DEF DDOState, Allocated
<1>2. /\ s \in DDOState /\ c \in PaymentsContracts /\ PaySound(p, epoch)
      /\ n \in RailIds
  <2> HIDE DEF a
  <2> QED BY <1>1, SoundParts, AllocatedContract
<1>3. canActivateRail(p, info)
  BY DEF activatePiece
<1>4. PICK q : q = ActivatedRail(p, info)
  OBVIOUS
<1>5. pay'[c] = q
  BY <1>2, <1>4, SoundParts DEF activatePiece
<1>6. ServesAllocation(p.rails[n], info)
  <2> HIDE DEF a
  <2> QED BY <1>1 DEF RailInv, RailsServe
<1>7. /\ s'.allocationInfos = [s.allocationInfos EXCEPT ![a] = new]
      /\ s'.railIdToAllocationId = s.railIdToAllocationId
      /\ s'.paymentsContract = c
  BY <1>1, <1>2 DEF activatePiece, DDOState
<1>8. /\ new.client = info.client /\ new.railId = n /\ new.activated
      /\ new.paymentToken = info.paymentToken
      /\ pricePerEpoch(new) = pricePerEpoch(info)
  <2> HIDE DEF info, piece
  <2> QED BY <1>1 DEF AllocationInfo, pricePerEpoch, n
<1> HIDE DEF info, p, new, piece, a
<1>9. /\ q.nextRailId = p.nextRailId
      /\ \A i \in RailIds \ {n} : q.rails[i] = p.rails[i]
      /\ q.rails[n].from = info.client /\ q.rails[n].token = info.paymentToken
      /\ q.rails[n].rate = pricePerEpoch(info)
      /\ q.rails[n].lockupPeriod = EPOCHS_PER_MONTH /\ q.rails[n].lockupFixed = 0
  BY <1>1, <1>2, <1>3, <1>4, <1>6, ActivatedRailServes
<1>10. /\ s'.allocationInfos[a] = new
       /\ \A b \in AllocationIds \ {a} : s'.allocationInfos[b] = s.allocationInfos[b]
  BY <1>1, <1>2, <1>7 DEF DDOState
<1>11. Allocated(s') = Allocated(s)
  BY <1>1, <1>8, <1>10 DEF Allocated, info
<1>12. \A b \in AllocationIds :
           s'.allocationInfos[b].railId = s.allocationInfos[b].railId
  BY <1>8, <1>10 DEF info, n
<1>13. RailMapInverse(s', pay')
  BY <1>5, <1>7, <1>9, <1>11, <1>12 DEF RailInv, RailMapInverse, Allocated, p
<1>14. RailsServe(s', pay')
  <2>1. ASSUME NEW b \in Allocated(s')
        PROVE  ServesAllocation(q.rails[s'.allocationInfos[b].railId],
                                s'.allocationInfos[b])
    <3>1. CASE b = a
      BY <3>1, <1>8, <1>9, <1>10 DEF ServesAllocation
    <3>2. CASE b # a
      <4>1. /\ ServesAllocation(p.rails[s.allocationInfos[b].railId],
                                s.allocationInfos[b])
            /\ s.allocationInfos[b].railId \in RailIds
            /\ s.railIdToAllocationId[s.allocationInfos[b].railId] = b
            /\ s.railIdToAllocationId[n] = a
            /\ b \in AllocationIds
        BY <1>1, <1>11 DEF RailInv, RailsServe, RailMapInverse, Allocated, p, n, info
      <4> QED BY <3>2, <4>1, <1>9, <1>10
    <3> QED BY <3>1, <3>2
  <2> QED BY <2>1, <1>5, <1>7 DEF RailsServe
<1> QED BY <1>7, <1>13, <1>14 DEF RailInv

\* The invariant: the rail map is the inverse of the allocations' rails and
\* every one of those rails serves its allocation, now and in what a revert
\* would put back; a running creation has a payments contract.
AllocationInv ==
    /\ IInv
    /\ RailInv(s, pay)
    /\ RailInv(committed.s, committed.pay)
    /\ call.fn = "create" => s.paymentsContract # ZERO

\* Every step keeps the binding of allocations and rails.
LEMMA AllocationInvStep ==
    ASSUME SingleContract, AllocationInv, [AnyNext]_vars, IInv'
    PROVE  AllocationInv'
<1>0. /\ IInv /\ s \in DDOState
      /\ RailInv(s, pay)
      /\ RailInv(committed.s, committed.pay)
      /\ call.fn = "create" => s.paymentsContract # ZERO
  BY SoundParts DEF AllocationInv
<1>1. ASSUME RailInv(s', pay'), call' = Idle
      PROVE  AllocationInv'
  BY <1>1 DEF AllocationInv, committed, Snapshot, Idle
<1>2. ASSUME RailInv(s', pay'), call' # Idle, call # Idle, call'.saved = call.saved,
             call'.fn = call.fn, s'.paymentsContract = s.paymentsContract
      PROVE  AllocationInv'
  BY <1>0, <1>2 DEF AllocationInv, committed
<1>3. ASSUME call = Idle, call' # Idle, call'.saved = Snapshot, pay' = pay,
             s'.allocationInfos = s.allocationInfos,
             s'.railIdToAllocationId = s.railIdToAllocationId,
             s'.paymentsContract = s.paymentsContract,
             call'.fn = "create" => s.paymentsContract # ZERO
      PROVE  AllocationInv'
  <2>1. RailInv(s', pay')
    BY <1>0, <1>3, RailInvKept, SameRailsKept
  <2> QED BY <1>0, <1>3, <2>1 DEF AllocationInv, committed, Snapshot
<1>4. ASSUME s' = s, \A d \in PaymentsContracts : RailsKept(pay[d], pay'[d])
      PROVE  RailInv(s', pay')
  BY <1>0, <1>4, RailInvKept
<1>5. ASSUME s' = s, pay' = pay
      PROVE  RailInv(s', pay')
  BY <1>0, <1>5
<1>6. CASE AnyAdmin \/ AnySP
  <2>1. /\ s'.allocationInfos = s.allocationInfos
        /\ s'.railIdToAllocationId = s.railIdToAllocationId
        /\ pay' = pay /\ call' = Idle
        /\ s'.paymentsContract = s.paymentsContract
           \/ s'.paymentsContract \in PaymentsContracts
    BY <1>0, <1>6, OwnerChanges
  <2>2. RailInv(s', pay')
    BY <1>0, <2>1, RailInvKept, SameRailsKept
  <2> QED BY <1>1, <2>1, <2>2
<1>7. CASE AnyClient
  <2>1. s' = s /\ call' = Idle
    BY <1>7 DEF AnyClient, ClientTransaction, AnyDeposit, withdraw,
                setOperatorApproval, terminateRail, settleRail
  <2> QED BY <1>0, <1>1, <1>4, <1>7, <2>1, ClientKeeps
<1>8. CASE Tick
  BY <1>1, <1>5, <1>8 DEF Tick
<1>9. CASE UNCHANGED vars
  BY <1>0, <1>9 DEF AllocationInv, vars, committed, Snapshot
<1>10. CASE AnyAllocation
  <2>1. CASE createRevert \/ notifyRevert \/ settleRevert
    <3>1. call # Idle /\ Revert
      BY <2>1 DEF createRevert, creating, notifyRevert, notifying, settleRevert,
                  settling, Idle
    <3>2. s' = committed.s /\ pay' = committed.pay /\ call' = Idle
      BY <3>1 DEF Revert, committed
    <3> QED BY <1>0, <1>1, <3>2
  <2>2. CASE notifyReturn \/ settleReturn
    BY <1>1, <1>5, <2>2 DEF notifyReturn, settleReturn
  <2>3. CASE createReturn
    <3>1. /\ s'.allocationInfos = s.allocationInfos
          /\ s'.railIdToAllocationId = s.railIdToAllocationId
          /\ s'.paymentsContract = s.paymentsContract
          /\ pay' = pay /\ call' = Idle
      BY <1>0, <2>3 DEF createReturn, DDOState
    <3>2. RailInv(s', pay')
      BY <1>0, <3>1, RailInvKept, SameRailsKept
    <3> QED BY <1>1, <3>1, <3>2
  <2>4. ASSUME NEW client, NEW pieces, NEW ids,
               createAllocationRequests(client, pieces, ids)
        PROVE  AllocationInv'
    <3>1. /\ s'.allocationInfos = s.allocationInfos
          /\ s'.railIdToAllocationId = s.railIdToAllocationId
          /\ s'.paymentsContract = s.paymentsContract
      BY <1>0, <2>4 DEF createAllocationRequests, DDOState
    <3>2. /\ call = Idle /\ call' # Idle /\ call'.saved = Snapshot /\ pay' = pay
          /\ s.paymentsContract # ZERO
      BY <2>4 DEF createAllocationRequests, Idle
    <3> QED BY <1>3, <3>1, <3>2
  <2>5. CASE createAllocation
    <3>1. call.fn = "create" /\ call \in CreateFrame /\ Continue
      BY <1>0, <2>5, CreateFrameParts DEF createAllocation, creating
    <3>2. call # Idle /\ call' # Idle /\ call'.saved = call.saved /\ call'.fn = call.fn
      BY <3>1 DEF Continue, CreateFrame, Idle
    <3>3. RailInv(s', pay') /\ s'.paymentsContract = s.paymentsContract
      BY <1>0, <2>5, <3>1, CreateBinds
    <3> QED BY <1>2, <3>2, <3>3
  <2>6. CASE activatePiece
    <3>1. call \in NotifyFrame
          /\ call' = [call EXCEPT !.i = @ + 1, !.accepted = Append(@, TRUE)]
      BY <1>0, <2>6, NotifyFrameParts DEF activatePiece
    <3>2. call # Idle /\ call' # Idle /\ call'.saved = call.saved /\ call'.fn = call.fn
      BY <3>1, NotifyContinues
    <3> QED BY <1>0, <1>2, <2>6, <3>2, ActivateBinds
  <2>7. CASE rejectPiece
    <3>1. call \in NotifyFrame
          /\ call' = [call EXCEPT !.i = @ + 1, !.accepted = Append(@, FALSE)]
      BY <1>0, <2>7, NotifyFrameParts DEF rejectPiece
    <3>2. call # Idle /\ call' # Idle /\ call'.saved = call.saved /\ call'.fn = call.fn
      BY <3>1, NotifyContinues
    <3> QED BY <1>2, <1>5, <2>7, <3>2 DEF rejectPiece
  <2>8. CASE settleNext \/ settleSkip
    <3>1. call \in SettleFrame
      BY <1>0, <2>8, SoundParts
         DEF settleNext, settleSkip, settling, Frames, Idle, CreateFrame, NotifyFrame
    <3>2. s' = s /\ Continue
      BY <2>8 DEF settleNext, settleSkip
    <3>3. call # Idle /\ call' # Idle /\ call'.saved = call.saved /\ call'.fn = call.fn
      BY <3>1, <3>2 DEF Continue, SettleFrame, Idle
    <3>4. RailInv(s', pay')
      <4>1. CASE settleNext
        <5>1. call.untilEpoch \in Nat
          BY <3>1 DEF SettleFrame
        <5>2. PICK railId :
                /\ CanSettle(s.paymentsContract, railId, call.untilEpoch)
                /\ Settle(s.paymentsContract, railId, call.untilEpoch)
          BY <4>1 DEF settleNext
        <5> QED BY <1>0, <1>4, <3>2, <5>1, <5>2, SettleKeeps
      <4>2. CASE settleSkip
        BY <1>5, <4>2 DEF settleSkip
      <4> QED BY <2>8, <4>1, <4>2
    <3> QED BY <1>2, <3>2, <3>3, <3>4
  <2>9. ASSUME NEW miner, NEW pieces, handleSectorContentChanged(miner, pieces)
        PROVE  AllocationInv'
    <3>1. /\ call = Idle /\ call' # Idle /\ call'.saved = Snapshot
          /\ s' = s /\ pay' = pay /\ call'.fn # "create"
      BY <2>9 DEF handleSectorContentChanged, Idle
    <3> QED BY <1>3, <3>1
  <2>10. ASSUME NEW p, NEW until, NEW start, NEW size,
                settleSpTotalPayment(p, until, start, size)
         PROVE  AllocationInv'
    <3>1. /\ call = Idle /\ call' # Idle /\ call'.saved = Snapshot
          /\ s' = s /\ pay' = pay /\ call'.fn # "create"
      BY <2>10 DEF settleSpTotalPayment, Idle
    <3> QED BY <1>3, <3>1
  <2>11. ASSUME NEW a, NEW until \in Nat, settleSpPayment(a, until)
         PROVE  AllocationInv'
    <3>1. s' = s /\ call' = Idle
      BY <2>11 DEF settleSpPayment
    <3>2. PICK railId : /\ CanSettle(s.paymentsContract, railId, until)
                        /\ Settle(s.paymentsContract, railId, until)
      BY <2>11 DEF settleSpPayment
    <3> QED BY <1>0, <1>1, <1>4, <3>1, <3>2, SettleKeeps
  <2>12. ASSUME NEW until \in Nat
         PROVE  until \in Nat
    BY <1>0, SoundParts
  <2> QED
    BY <1>10, <2>1, <2>2, <2>3, <2>4, <2>5, <2>6, <2>7, <2>8, <2>9, <2>10, <2>11,
       <2>12
       DEF AnyAllocation
<1> QED BY <1>6, <1>7, <1>8, <1>9, <1>10 DEF AnyNext

\* A deployment starts without allocations and without rails.
LEMMA AllocationInvInit ==
    ASSUME Init
    PROVE  AllocationInv
<1>1. \A a \in AllocationIds : s.allocationInfos[a].client = ZERO
  BY DEF Init, Initialized, NoAllocation
<1>2. \A r \in RailIds : s.railIdToAllocationId[r] = 0
  BY DEF Init, Initialized
<1>3. Allocated(s) = {}
  BY <1>1 DEF Allocated
<1>4. RailInv(s, pay)
  BY <1>2, <1>3 DEF RailInv, RailMapInverse, RailsServe
<1>5. call = Idle
  BY DEF Init
<1> QED BY <1>4, <1>5, InitSound DEF AllocationInv, committed, Snapshot, Idle

\* With one payments contract, the binding of allocations and rails is an
\* invariant, in the running storage and in the one a revert would put back.
THEOREM AllocationInvariance ==
    ASSUME SingleContract
    PROVE  Spec => []AllocationInv
<1>1. Init => AllocationInv
  BY AllocationInvInit
<1>2. AllocationInv /\ [AnyNext]_vars /\ IInv' => AllocationInv'
  BY AllocationInvStep
<1> QED BY <1>1, <1>2, Invariance, SpecIsAny, PTL

\* With one payments contract, allocations and rails are bound one to one: the
\* validator, which is given a rail number alone, always judges the allocation
\* that number was created for.  With a second contract rail numbers repeat,
\* and the statement is false (the run migration).
THEOREM RailsBound ==
    ASSUME SingleContract
    PROVE  Spec => []RailBinding
<1>1. AllocationInv => RailBinding
  BY DEF AllocationInv, RailInv, RailBinding
<1> QED BY <1>1, AllocationInvariance, PTL

\* With one payments contract, every rail an allocation names is paid by the
\* allocation's client in its token, pending rails stream nothing and lock no
\* period, and activated ones stream the agreed price with a month locked.
THEOREM RailsAsAgreed ==
    ASSUME SingleContract
    PROVE  Spec => []RailTerms
<1>1. AllocationInv => RailTerms
  BY DEF AllocationInv, RailInv, RailTerms
<1> QED BY <1>1, AllocationInvariance, PTL
=============================================================================
