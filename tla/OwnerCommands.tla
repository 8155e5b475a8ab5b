--------------------------- MODULE OwnerCommands ----------------------------
(***************************************************************************)
(* The commands of the diamond's owner: `ddo sp register', `update',       *)
(* `remove-token', `deactivate' (internal/commands/sp) and `ddo admin'     *)
(* (internal/commands/admin), with the bindings they use                   *)
(* (pkg/contract/ddo).                                                     *)
(*                                                                         *)
(* A flag that is not given is 0.  Prices are given in token units for a   *)
(* terabyte and a month.                                                   *)
(***************************************************************************)
EXTENDS Terminal

CONSTANTS
    BYTES_PER_TB,
    Registrations,  \* what `sp register', ...
    ConfigUpdates,  \* `sp update config', ...
    TokenUpdates,   \* `sp update token' and ...
    TokenAdditions  \* `sp update add-token' are given

TokenInput == [token: Tokens, price: Nat, isActive: BOOLEAN]

\* The tokens are in the flags, where all are active, or in a file.
RegisterFlags == [actorId: Providers, given: Terms, tokens: Seq(TokenInput),
                  file: BOOLEAN, dryRun: BOOLEAN]

UpdateConfigFlags == [actorId: Providers, given: Terms, dryRun: BOOLEAN]

\* --active is given unless --active=false is.
UpdateTokenFlags == [actorId: Providers, token: Tokens, price: Nat,
                     active: BOOLEAN, inactive: BOOLEAN]

AddTokenFlags == [actorId: Providers, token: Tokens, price: Nat]

ASSUME OwnerAssumption ==
    /\ BYTES_PER_TB \in Nat \ {0}
    /\ Registrations \subseteq RegisterFlags
    /\ ConfigUpdates \subseteq UpdateConfigFlags
    /\ TokenUpdates \subseteq UpdateTokenFlags
    /\ TokenAdditions \subseteq AddTokenFlags

----------------------------------------------------------------------------
(* Prices: token units for a terabyte and a month, and whole token units   *)
(* for a byte and an epoch (pkg/utils/payments.go).                        *)

\* The smallest price above nothing.
Step == BYTES_PER_TB * EPOCHS_PER_MONTH

\* Wrong on purpose: the price is rounded up.
ConvertTBPerMonthUp(pricePerTBPerMonth) == (pricePerTBPerMonth + Step - 1) \div Step

\* What is less than one unit a byte and epoch is dropped: a price below Step
\* becomes 0.
ConvertTBPerMonthToBytesPerEpoch(pricePerTBPerMonth) == pricePerTBPerMonth \div Step

ConvertBytesPerEpochToTBPerMonth(pricePerBytePerEpoch) ==
    pricePerBytePerEpoch * BYTES_PER_TB * EPOCHS_PER_MONTH

OnChain(input) ==
    [token |-> input.token, isActive |-> input.isActive,
     pricePerBytePerEpoch |-> ConvertTBPerMonthToBytesPerEpoch(input.price)]

----------------------------------------------------------------------------
(* GetSPConfig: two requests, the terms and then the tokens.               *)

\* The ranges the commands check before they send anything.
ValidRanges(terms) ==
    /\ terms.minPieceSize # 0 /\ terms.maxPieceSize >= terms.minPieceSize
    /\ terms.minTermLength > 0 /\ terms.maxTermLength >= terms.minTermLength

\* What a flag that is not given becomes.
Or(given, current) == IF given = 0 THEN current ELSE given

\* Wrong on purpose: the shortest term defaults to the longest.
DefaultedToMax(given, current) ==
    [paymentAddress |-> given.paymentAddress,
     minPieceSize |-> Or(given.minPieceSize, current.minPieceSize),
     maxPieceSize |-> Or(given.maxPieceSize, current.maxPieceSize),
     minTermLength |-> Or(given.minTermLength, current.maxTermLength),
     maxTermLength |-> Or(given.maxTermLength, current.maxTermLength)]

\* "Use current values as defaults if not provided": those that were read.
Defaulted(given, current) ==
    [paymentAddress |-> given.paymentAddress,
     minPieceSize |-> Or(given.minPieceSize, current.minPieceSize),
     maxPieceSize |-> Or(given.maxPieceSize, current.maxPieceSize),
     minTermLength |-> Or(given.minTermLength, current.minTermLength),
     maxTermLength |-> Or(given.maxTermLength, current.maxTermLength)]

\* The provider a command asks about: one after the other, if it lists them.
Asked(c) == IF c.name = "listSPs" THEN Head(c.read.ids) ELSE c.args.actorId

\* A provider without a payment address is not registered: GetSPConfig
\* returns nil, which the list and the second look of a dry run do not expect.
WithoutConfig(c) ==
    CASE c.name = "listSPs" -> "panicked"
      [] c.name = "registerSP" -> IF c.read = <<>> THEN "done" ELSE "panicked"
      [] c.name = "querySP" -> "done"
      [] c.name = "updateSPConfig" -> "failed"

getSPConfig(t) ==
    LET config == s.spConfigs[Asked(cmds[t])]
        terms == [config EXCEPT !.supportedTokens = <<>>]
    IN  Learns(t, "config", terms, IF isRegisteredSP(Asked(cmds[t])) THEN Rest(t)
                                   ELSE <<WithoutConfig(cmds[t])>>)

\* The list goes on with the next provider.
NextRow(c) == IF Len(c.read.ids) > 1 THEN <<"config", "tokens", "done">> ELSE <<"done">>

NextRowOf(t) ==
    cmds' = [cmds EXCEPT ![t].todo = NextRow(cmds[t]), ![t].read.ids = Tail(@)]

\* Only the update looks at the ranges again, with what it has read.
AfterTokens(c) ==
    IF c.name = "updateSPConfig" /\ ~ValidRanges(Defaulted(c.args.given, c.read.config))
    THEN <<"failed">> ELSE Tail(c.todo)

getSPSupportedTokens(t) ==
    \/ /\ cmds[t].name # "listSPs"
       /\ Learns(t, "tokens", s.spConfigs[Asked(cmds[t])].supportedTokens,
                 AfterTokens(cmds[t]))
    \/ /\ cmds[t].name = "listSPs"
       /\ At(t) = "tokens"
       /\ Asks
       /\ NextRowOf(t)

\* One of the "Example Costs" the query shows for a token.
ExampleCost(entry, size, term) == entry.pricePerBytePerEpoch * size * term

getAllSPIds(t) ==
    Learns(t, "ids", s.registeredSPIds,
           IF s.registeredSPIds = <<>> THEN <<"done">> ELSE Rest(t))

getPaused(t) == Learns(t, "paused", s.paused, Rest(t))

isSectorBlacklisted(t) ==
    Learns(t, "blacklisted", cmds[t].args.entry \in s.blacklistedSectors, Rest(t))

----------------------------------------------------------------------------
(* The commands, from their flags to their steps.                          *)

SendAndWait == <<"send", "wait", "done">>

\* A dry run of the registration asks whether the provider is registered, and
\* then how.
RegisterSteps(dryRun) ==
    IF dryRun THEN <<"config", "tokens", "config", "tokens", "done">> ELSE SendAndWait

executeRegisterSP(t, flags) ==
    /\ ValidRanges(flags.given)
    /\ ~flags.file => /\ flags.tokens # <<>>
                      /\ \A i \in DOMAIN flags.tokens : flags.tokens[i].isActive
    /\ Starts(t, "registerSP", flags, RegisterSteps(flags.dryRun))

executeUpdateSPConfig(t, flags) ==
    Starts(t, "updateSPConfig", flags,
           <<"config", "tokens">> \o IF flags.dryRun THEN <<"done">> ELSE SendAndWait)

\* A dry run of the two token commands asks and sends nothing.
\* --inactive overrides --active, and the price is given every time: an update
\* of the price alone makes the token active.
executeUpdateSPToken(t, flags) ==
    Starts(t, "updateSPToken",
           [actorId |-> flags.actorId, token |-> flags.token, price |-> flags.price,
            isActive |-> flags.active /\ ~flags.inactive], SendAndWait)

executeAddSPToken(t, flags) == Starts(t, "addSPToken", flags, SendAndWait)

executeRemoveSPToken(t, actorId, token) ==
    Starts(t, "removeSPToken", [actorId |-> actorId, token |-> token], SendAndWait)

executeDeactivateSP(t, actorId) ==
    Starts(t, "deactivateSP", [actorId |-> actorId], SendAndWait)

executeListSPs(t) == Starts(t, "listSPs", <<>>, <<"ids", "config", "tokens", "done">>)

executeQuerySP(t, actorId) ==
    Starts(t, "querySP", [actorId |-> actorId], <<"config", "tokens", "done">>)

\* The admin commands check nothing of what they are given.
setPaymentsContractCommand(t, contract) ==
    Starts(t, "setPaymentsContract", [contract |-> contract], SendAndWait)

setCommissionRateCommand(t, bps) ==
    Starts(t, "setCommissionRate", [bps |-> bps], SendAndWait)

setLockupAmountCommand(t, amount) ==
    Starts(t, "setAllocationLockupAmount", [amount |-> amount], SendAndWait)

pauseCommand(t) == Starts(t, "pause", <<>>, SendAndWait)

unpauseCommand(t) == Starts(t, "unpause", <<>>, SendAndWait)

pausedCommand(t) == Starts(t, "paused", <<>>, <<"paused", "done">>)

blacklistSectorCommand(t, entry, remove) ==
    Starts(t, "blacklistSector", [entry |-> entry, blacklisted |-> ~remove], SendAndWait)

isSectorBlacklistedCommand(t, entry) ==
    Starts(t, "isSectorBlacklisted", [entry |-> entry], <<"blacklisted", "done">>)

----------------------------------------------------------------------------
(* What the bindings' transactions do when they are mined.                 *)

RegisterSP(tx) ==
    /\ tx.fn = "registerSP"
    /\ registerSP(tx.args.actorId, tx.args.given,
                  [i \in DOMAIN tx.args.tokens |-> OnChain(tx.args.tokens[i])])

\* The terms were put together when the transaction was sent.
UpdateSPConfig(tx) ==
    tx.fn = "updateSPConfig" /\ updateSPConfig(tx.args.actorId, tx.arg)

AddSPToken(tx) ==
    /\ tx.fn = "addSPToken"
    /\ addSPToken(tx.args.actorId, tx.args.token,
                  ConvertTBPerMonthToBytesPerEpoch(tx.args.price))

UpdateSPToken(tx) ==
    /\ tx.fn = "updateSPToken"
    /\ updateSPToken(tx.args.actorId, tx.args.token,
                     ConvertTBPerMonthToBytesPerEpoch(tx.args.price), tx.args.isActive)

RemoveSPToken(tx) ==
    tx.fn = "removeSPToken" /\ removeSPToken(tx.args.actorId, tx.args.token)

DeactivateSP(tx) == tx.fn = "deactivateSP" /\ deactivateSP(tx.args.actorId)

SetPaymentsContract(tx) ==
    tx.fn = "setPaymentsContract" /\ setPaymentsContract(tx.args.contract)

SetCommissionRate(tx) ==
    tx.fn = "setCommissionRate" /\ setCommissionRate(tx.args.bps)

SetAllocationLockupAmount(tx) ==
    /\ tx.fn = "setAllocationLockupAmount"
    /\ setAllocationLockupAmount(tx.args.amount)

Pause(tx) == tx.fn = "pause" /\ pause

Unpause(tx) == tx.fn = "unpause" /\ unpause

BlacklistSector(tx) ==
    /\ tx.fn = "blacklistSector"
    /\ blacklistSector(tx.args.entry[1], tx.args.entry[2], tx.args.blacklisted)

OwnerTransactions(tx) ==
    \/ RegisterSP(tx) \/ UpdateSPConfig(tx) \/ DeactivateSP(tx)
    \/ AddSPToken(tx) \/ UpdateSPToken(tx) \/ RemoveSPToken(tx)
    \/ SetPaymentsContract(tx) \/ SetCommissionRate(tx)
    \/ SetAllocationLockupAmount(tx) \/ Pause(tx) \/ Unpause(tx)
    \/ BlacklistSector(tx)
=============================================================================
