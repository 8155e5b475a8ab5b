-------------------------- MODULE PaymentsCommands --------------------------
(***************************************************************************)
(* The user's commands about money: `ddo approve-token' and                *)
(* `ddo payments' (internal/commands/approve_token.go and payments), and   *)
(* the queries of `ddo allocations', with the bindings they use            *)
(* (pkg/contract/payments, pkg/contract/token, pkg/contract/ddo).          *)
(*                                                                         *)
(* A number is in a flag, <<n>>, or left out, <<>>.                        *)
(***************************************************************************)
EXTENDS Terminal

CONSTANTS
    Environment,    \* PAYMENTS_CONTRACT_ADDRESS, or ZERO
    ContractFlags,  \* values of the flag --payments-contract, ZERO for none
    Approvals,      \* what `approve-token', ...
    AllowanceSets,  \* `payments set-operator-allowance' and ...
    Withdrawals     \* `payments withdraw' are given

ApproveFlags == [contract: ContractFlags, token: Tokens, amount: Seq(Nat),
                 unlimited: BOOLEAN, checkOnly: BOOLEAN]

\* --approved is given unless --approved=false is.
AllowanceFlags ==
    [contract: ContractFlags, token: Tokens, approved: BOOLEAN,
     rate: Seq(Nat), lockup: Seq(Nat), period: Seq(Nat),
     unlimited: BOOLEAN, checkOnly: BOOLEAN]

\* --to is given for another's address; the amount is required.
WithdrawFlags == [contract: ContractFlags, token: Tokens, amount: Seq(Nat) \ {<<>>},
                  to: BOOLEAN, checkBalance: BOOLEAN]

ASSUME PaymentsAssumption ==
    /\ Environment \in PaymentsContracts \cup {ZERO}
    /\ ContractFlags \subseteq PaymentsContracts \cup {ZERO}
    /\ Approvals \subseteq ApproveFlags
    /\ AllowanceSets \subseteq AllowanceFlags
    /\ Withdrawals \subseteq WithdrawFlags

ElseRead(flag, read) == IF flag = <<>> THEN read ELSE flag[1]

\* The flag overrides the environment; without either no command runs.
ConfiguredContract(flag) == IF flag # ZERO THEN flag ELSE Environment

StartsConfigured(t, name, flags, todo) ==
    LET contract == ConfiguredContract(flags.contract)
    IN  /\ contract # ZERO
        /\ Starts(t, name, [flags EXCEPT !.contract = contract], todo)

Target(t) == cmds[t].args.contract

\* The user's account, or approval, for the token of the command.
KeyOf(args) == <<User, args.token>>

----------------------------------------------------------------------------
(* What the node is asked.                                                 *)

GetBalance(t) == Learns(t, "balance", wallet[cmds[t].args.token].balance, Rest(t))

\* Wrong on purpose: unlimited is one more than there is.
UnlimitedTooMuch(c) ==
    IF c.args.unlimited THEN MaxUint256 + 1
    ELSE ElseRead(c.args.amount, 2 * c.read.balance)

\* The help says that no amount means no limit.
ApprovalAmount(c) ==
    IF c.args.unlimited THEN MaxUint256
    ELSE ElseRead(c.args.amount, 2 * c.read.balance)

\* Wrong on purpose: an allowance that is not the amount is replaced.
SufficientIfEqual(allowance, amount) == allowance = amount

\* Nothing is approved that is allowed: the allowance is never lowered.
Sufficient(allowance, amount) == allowance >= amount

GetAllowance(t) ==
    LET allowance == wallet[cmds[t].args.token].allowances[Target(t)]
        enough == /\ ~cmds[t].args.checkOnly
                  /\ Sufficient(allowance, ApprovalAmount(cmds[t]))
    IN  \/ Learns(t, "allowance", allowance, IF enough THEN <<"done">> ELSE Rest(t))
        \/ cmds[t].name = "approveToken" /\ Learns(t, "verify", allowance, Rest(t))

\* Wrong on purpose: the check is off by one.
ReachAlmost(account, amount) == amount <= account.funds + 1

\* "Check if withdrawal amount exceeds available funds": the locked ones are
\* among them.
Reach(account, amount) == amount <= account.funds

\* As it was last settled.
GetAccount(t) ==
    LET account == pay[Target(t)].accounts[KeyOf(cmds[t].args)]
        short == /\ cmds[t].name = "withdraw"
                 /\ ~Reach(account, cmds[t].args.amount[1])
    IN  Learns(t, "account", account, IF short THEN <<"failed">> ELSE Rest(t))

GetOperatorApproval(t) ==
    \E what \in {"approval", "verify"} :
        /\ cmds[t].name # "approveToken"
        /\ Learns(t, what, pay[Target(t)].approvals[KeyOf(cmds[t].args)], Rest(t))

\* A rail that was never there, or is finished, is an error of the call.
GetRail(t) ==
    LET p == pay[Target(t)]
        id == cmds[t].args.railId
    IN  Learns(t, "rail", p.rails[id], IF RailExists(p, id) THEN Rest(t) ELSE <<"failed">>)

GetAllocationInfo(t) ==
    LET info == s.allocationInfos[cmds[t].args.allocationId]
    IN  Learns(t, "info", info, IF info.client = ZERO THEN <<"done">> ELSE Rest(t))

\* Wrong on purpose: the rail with the allocation's number.
RailOfSameNumber(id) == id

RailOf(id) == s.allocationInfos[id].railId

\* getAllocationRailInfo asks the payments contract of the moment.
GetAllocationRailInfo(t) ==
    LET r == RailOf(cmds[t].args.allocationId)
        p == pay[s.paymentsContract]
        asks == r > 0 /\ s.paymentsContract # ZERO
    IN  Learns(t, "railInfo", IF asks THEN p.rails[r] ELSE NoRail,
               IF asks /\ ~RailExists(p, r) THEN <<"failed">> ELSE Rest(t))

GetAllocationIdsForClient(t) ==
    Learns(t, "idsOfClient", s.allocationIdsByClient[User], Rest(t))

GetAllocationIdsForProvider(t) ==
    Learns(t, "idsOfProvider", s.allocationIdsByProvider[cmds[t].args.providerId],
           Rest(t))

----------------------------------------------------------------------------
(* The commands, from their flags to their steps.                          *)

SendAndVerify == <<"send", "wait", "verify", "done">>

executeApproveToken(t, flags) ==
    StartsConfigured(t, "approveToken", flags,
        <<"balance", "allowance">> \o
        IF flags.checkOnly THEN <<"done">> ELSE SendAndVerify)

executeSetOperatorAllowance(t, flags) ==
    StartsConfigured(t, "setOperatorApproval", flags,
        <<"approval">> \o IF flags.checkOnly THEN <<"done">> ELSE SendAndVerify)

\* "1 year in epochs (assuming ~1 minute per epoch)".
UNLIMITED_PERIOD == 525600

UnlimitedAllowances(c) ==
    [isApproved |-> c.args.approved, rateAllowance |-> MaxUint256,
     lockupAllowance |-> MaxUint256, maxLockupPeriod |-> UNLIMITED_PERIOD]

\* Wrong on purpose: the lockup that is not given becomes the rate.
GivenAllowancesByRate(c) ==
    [isApproved |-> c.args.approved,
     rateAllowance |-> ElseRead(c.args.rate, c.read.approval.rateAllowance),
     lockupAllowance |-> ElseRead(c.args.lockup, c.read.approval.rateAllowance),
     maxLockupPeriod |-> ElseRead(c.args.period, c.read.approval.maxLockupPeriod)]

\* What is not given stays as it was read; approval is given if not refused.
GivenAllowances(c) ==
    [isApproved |-> c.args.approved,
     rateAllowance |-> ElseRead(c.args.rate, c.read.approval.rateAllowance),
     lockupAllowance |-> ElseRead(c.args.lockup, c.read.approval.lockupAllowance),
     maxLockupPeriod |-> ElseRead(c.args.period, c.read.approval.maxLockupPeriod)]

Allowances(c) ==
    IF c.args.unlimited THEN UnlimitedAllowances(c) ELSE GivenAllowances(c)

executeWithdraw(t, flags) ==
    StartsConfigured(t, "withdraw", flags,
        (IF flags.checkBalance THEN <<"account">> ELSE <<>>) \o
        <<"send", "wait", "done">>)

executeQueryAccount(t, flag, token) ==
    StartsConfigured(t, "queryAccount", [contract |-> flag, token |-> token],
                     <<"account", "done">>)

executeQueryOperatorApproval(t, flag, token) ==
    StartsConfigured(t, "queryOperatorApproval", [contract |-> flag, token |-> token],
                     <<"approval", "done">>)

executeQueryRail(t, flag, railId) ==
    StartsConfigured(t, "queryRail", [contract |-> flag, railId |-> railId],
                     <<"rail", "done">>)

\* Exactly one of --client-address, --provider-id and --allocation-id.
executeQuery(t) ==
    \/ Starts(t, "query", <<>>, <<"idsOfClient", "done">>)
    \/ \E p \in Providers :
          Starts(t, "query", [providerId |-> p], <<"idsOfProvider", "done">>)
    \/ \E a \in AllocationIds :
          Starts(t, "query", [allocationId |-> a], <<"info", "railInfo", "done">>)

----------------------------------------------------------------------------
(* What the bindings' transactions do when they are mined.                 *)

\* What does not fit is cut off where the call is packed.
Approve(tx) ==
    /\ tx.fn = "approveToken"
    /\ approve(tx.args.contract, tx.args.token, tx.arg.amount % (MaxUint256 + 1))

SetOperatorApprovalOf(tx) ==
    /\ tx.fn = "setOperatorApproval"
    /\ setOperatorApproval(tx.args.contract, KeyOf(tx.args), tx.arg)
    /\ UNCHANGED wallet

WithdrawOf(tx) ==
    /\ tx.fn = "withdraw" /\ ~tx.args.to
    /\ withdraw(tx.args.contract, KeyOf(tx.args), tx.args.amount[1])
    /\ wallet' = [wallet EXCEPT ![tx.args.token].balance = @ + tx.args.amount[1]]

WithdrawTo(tx) ==
    /\ tx.fn = "withdraw" /\ tx.args.to
    /\ withdraw(tx.args.contract, KeyOf(tx.args), tx.args.amount[1])
    /\ UNCHANGED wallet

PaymentsTransactions(tx) ==
    Approve(tx) \/ SetOperatorApprovalOf(tx) \/ WithdrawOf(tx) \/ WithdrawTo(tx)
=============================================================================
