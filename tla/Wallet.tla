------------------------------- MODULE Wallet -------------------------------
(***************************************************************************)
(* The tokens of the user whose key a command has, and the ERC-20          *)
(* operations on them (pkg/contract/token).  The tokens are external.      *)
(***************************************************************************)
EXTENDS Sender

CONSTANTS
    User,           \* the client whose key the commands have
    MaxUint256,     \* the largest amount
    Wallets         \* what the user may have, and have approved, at first

WalletState ==
    [Tokens -> [balance: Nat, allowances: [PaymentsContracts -> Nat]]]

ASSUME WalletAssumption == /\ User \in Clients
                           /\ MaxUint256 \in Nat
                           /\ Wallets \subseteq WalletState

VARIABLE wallet     \* the user's tokens, and what the payments contracts may take

\* The allowance is replaced, whatever it was.
approve(contract, token, amount) ==
    /\ wallet' = [wallet EXCEPT ![token].allowances[contract] = amount]
    /\ UNCHANGED chainVars

\* The payments contract can pull the amount out of the wallet.
CanPull(contract, token, amount) ==
    /\ amount <= wallet[token].balance
    /\ amount <= wallet[token].allowances[contract]

transferFrom(contract, token, amount) ==
    /\ CanPull(contract, token, amount)
    /\ wallet' = [wallet EXCEPT ![token].balance = @ - amount,
                                ![token].allowances[contract] = @ - amount]
=============================================================================
