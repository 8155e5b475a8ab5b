----------------------------- MODULE LibDiamond -----------------------------
(***************************************************************************)
(* The tables behind the diamond's fallback (libraries/LibDiamond.sol,     *)
(* Diamond.sol, DiamondCutFacet, OwnershipFacet, DiamondLoupeFacet,        *)
(* InitDiamond).  Each selector knows its facet and its position in the    *)
(* facet's array, each facet its position in the array of facets.          *)
(*                                                                         *)
(* A cut is executed one selector per step, as LibDDOStorage executes the  *)
(* loops of the other facets: `call' is the running cut with its loop      *)
(* counters, and a revert puts back the tables it began with.  A facet a   *)
(* selector is routed to is taken to implement it.                         *)
(***************************************************************************)
EXTENDS Naturals, Sequences

CONSTANTS
    Facets, Selectors, Owners, ZERO, Diamond, DiamondCut, TransferOwnership,
    CutRequests,        \* the abstract specification explains these
    CutFacet,           \* the facet the constructor routes diamondCut to
    HasCode,            \* the facets that are deployed contracts
    InitDiamond,        \* the contract whose init a cut may run
    PaymentsContracts,  \* arguments of init
    InitRequests        \* a cut's initialization: contract and argument

ASSUME AddressesAssumption == ZERO \notin Facets \cup Owners /\ CutFacet \in Facets
ASSUME SelectorsAssumption == {DiamondCut, TransferOwnership} \subseteq Selectors

FacetCut == [action: {"Add", "Replace", "Remove"},
             facetAddress: Facets \cup {ZERO}, functionSelectors: Seq(Selectors)]
InitCall == [address: {ZERO, InitDiamond} \cup Facets,
             paymentsContract: PaymentsContracts \cup {ZERO}]

ASSUME RequestsAssumption ==
    CutRequests \subseteq Seq(FacetCut) /\ InitRequests \subseteq InitCall

VARIABLES
    ds,                \* DiamondStorage
    paymentsContract,  \* the slot of DDOState that init tests and sets
    call               \* the running cut

vars == <<ds, paymentsContract, call>>

----------------------------------------------------------------------------
(* The tables.  Positions count from 0, as in the code.                    *)

NoFunction == [facetAddress |-> ZERO, functionSelectorPosition |-> 0]
NoSelectors == [functionSelectors |-> <<>>, facetAddressPosition |-> 0]

DiamondStorage ==
    [selectorToFacetAndPosition:
         [Selectors -> [facetAddress: Facets \cup {ZERO},
                        functionSelectorPosition: Nat]],
     facetFunctionSelectors:
         [Facets -> [functionSelectors: Seq(Selectors),
                     facetAddressPosition: Nat]],
     facetAddresses: Seq(Facets),
     supportedInterfaces: BOOLEAN,   \* the three flags are set together
     contractOwner: Owners]

facetAddress(d, selector) == d.selectorToFacetAndPosition[selector].facetAddress

functionsOf(d, facet) == d.facetFunctionSelectors[facet].functionSelectors

\* The last element takes the place of the removed one; i counts from 1.
SwapRemoved(list, i) ==
    [j \in 1 .. Len(list) - 1 |-> IF j = i THEN list[Len(list)] ELSE list[j]]

addFacet(d, facet) ==
    [d EXCEPT !.facetFunctionSelectors[facet].facetAddressPosition =
                  Len(d.facetAddresses),
              !.facetAddresses = Append(@, facet)]

\* Adding to a facet without functions lists the facet first.
Listed(d, facet) == IF functionsOf(d, facet) = <<>> THEN addFacet(d, facet) ELSE d

addFunction(d, selector, position, facet) ==
    [d EXCEPT !.selectorToFacetAndPosition[selector] =
                  [facetAddress |-> facet, functionSelectorPosition |-> position],
              !.facetFunctionSelectors[facet].functionSelectors =
                  Append(@, selector)]

\* Wrong on purpose: the facet that takes the place is not told its position.
removeFacetUntold(d, facet) ==
    LET position == d.facetFunctionSelectors[facet].facetAddressPosition
    IN  [d EXCEPT !.facetAddresses = SwapRemoved(@, position + 1),
                  !.facetFunctionSelectors[facet].facetAddressPosition = 0]

removeFacet(d, facet) ==
    LET position == d.facetFunctionSelectors[facet].facetAddressPosition
        last == d.facetAddresses[Len(d.facetAddresses)]
    IN  [d EXCEPT !.facetAddresses = SwapRemoved(@, position + 1),
                  !.facetFunctionSelectors[last].facetAddressPosition = position,
                  !.facetFunctionSelectors[facet].facetAddressPosition = 0]

\* Wrong on purpose: the selector that takes the place is not told.
removeSelectorUntold(d, facet, selector) ==
    LET position == d.selectorToFacetAndPosition[selector].functionSelectorPosition
    IN  [d EXCEPT !.facetFunctionSelectors[facet].functionSelectors =
                      SwapRemoved(@, position + 1),
                  !.selectorToFacetAndPosition[selector] = NoFunction]

removeSelector(d, facet, selector) ==
    LET position == d.selectorToFacetAndPosition[selector].functionSelectorPosition
        last == functionsOf(d, facet)[Len(functionsOf(d, facet))]
    IN  [d EXCEPT !.facetFunctionSelectors[facet].functionSelectors =
                      SwapRemoved(@, position + 1),
                  !.selectorToFacetAndPosition[last].functionSelectorPosition =
                      position,
                  !.selectorToFacetAndPosition[selector] = NoFunction]

\* A facet without functions is taken off the list of facets.
removeFunction(d, facet, selector) ==
    LET removed == removeSelector(d, facet, selector)
    IN  IF functionsOf(removed, facet) = <<>> THEN removeFacet(removed, facet)
                                              ELSE removed

----------------------------------------------------------------------------
(* diamondCut.                                                             *)

Idle == [fn |-> "none"]

diamondCut(caller, cuts, init) ==
    /\ call = Idle
    /\ facetAddress(ds, DiamondCut) # ZERO
    /\ caller = ds.contractOwner
    /\ call' = [fn |-> "diamondCut", cuts |-> cuts, init |-> init, facetIndex |-> 1,
                selectorIndex |-> 1, selectorPosition |-> 0, saved |-> ds]
    /\ UNCHANGED <<ds, paymentsContract>>

cutting == call.fn = "diamondCut" /\ call.facetIndex <= Len(call.cuts)

current == call.cuts[call.facetIndex]
selector == current.functionSelectors[call.selectorIndex]

\* Where the next function goes in its facet's array: read when the loop over
\* the selectors begins, and counted up from there.
selectorPosition ==
    IF call.selectorIndex = 1 THEN Len(functionsOf(ds, current.facetAddress))
    ELSE call.selectorPosition

\* Wrong on purpose: functions of the diamond itself can be taken away.
canCutImmutable ==
    /\ current.functionSelectors # <<>>
    /\ current.action = "Remove" <=> current.facetAddress = ZERO
    /\ current.action # "Remove" /\ functionsOf(ds, current.facetAddress) = <<>>
          => current.facetAddress \in HasCode
    /\ LET old == facetAddress(ds, selector)
       IN  /\ current.action = "Add" <=> old = ZERO
           /\ current.action = "Replace" => old # current.facetAddress

\* The requirements on the next selector, those on its cut included.
canCut ==
    /\ current.functionSelectors # <<>>
    /\ current.action = "Remove" <=> current.facetAddress = ZERO
    /\ current.action # "Remove" /\ functionsOf(ds, current.facetAddress) = <<>>
          => current.facetAddress \in HasCode
    /\ LET old == facetAddress(ds, selector)
       IN  /\ current.action = "Add" <=> old = ZERO
           /\ old # Diamond
           /\ current.action = "Replace" => old # current.facetAddress

\* To the next selector, or to the next cut.
Advance(position) ==
    call' = IF call.selectorIndex < Len(current.functionSelectors)
            THEN [call EXCEPT !.selectorIndex = @ + 1,
                              !.selectorPosition = position + 1]
            ELSE [call EXCEPT !.facetIndex = @ + 1, !.selectorIndex = 1,
                              !.selectorPosition = 0]

addFunctions ==
    /\ cutting
    /\ current.action = "Add"
    /\ canCut
    /\ ds' = addFunction(Listed(ds, current.facetAddress), selector,
                         selectorPosition, current.facetAddress)
    /\ Advance(selectorPosition)
    /\ UNCHANGED paymentsContract

replaceFunctions ==
    /\ cutting
    /\ current.action = "Replace"
    /\ canCut
    /\ ds' = addFunction(removeFunction(Listed(ds, current.facetAddress),
                                        facetAddress(ds, selector), selector),
                         selector, selectorPosition, current.facetAddress)
    /\ Advance(selectorPosition)
    /\ UNCHANGED paymentsContract

removeFunctions ==
    /\ cutting
    /\ current.action = "Remove"
    /\ canCut
    /\ ds' = removeFunction(ds, facetAddress(ds, selector), selector)
    /\ Advance(0)
    /\ UNCHANGED paymentsContract

\* InitDiamond.init, run by the cut in the diamond's storage.
canInit == call.init.address = InitDiamond /\ paymentsContract = ZERO

initialized == call.fn = "diamondCut" /\ ~cutting

cutReturn ==
    /\ initialized
    /\ call.init.address = ZERO
    /\ call' = Idle
    /\ UNCHANGED <<ds, paymentsContract>>

initReturn ==
    /\ initialized
    /\ canInit
    /\ ds' = [ds EXCEPT !.supportedInterfaces = TRUE]
    /\ paymentsContract' = call.init.paymentsContract
    /\ call' = Idle

cutRevert ==
    /\ \/ cutting /\ ~canCut
       \/ initialized /\ call.init.address # ZERO /\ ~canInit
    /\ ds' = call.saved
    /\ call' = Idle
    /\ UNCHANGED paymentsContract

----------------------------------------------------------------------------
(* OwnershipFacet.                                                         *)

\* Wrong on purpose: the diamond can be given to nobody.
transferOwnershipZero(caller, newOwner) ==
    /\ call = Idle
    /\ facetAddress(ds, TransferOwnership) # ZERO
    /\ caller = ds.contractOwner
    /\ ds' = [ds EXCEPT !.contractOwner = newOwner]
    /\ UNCHANGED <<paymentsContract, call>>

transferOwnership(caller, newOwner) ==
    /\ call = Idle
    /\ facetAddress(ds, TransferOwnership) # ZERO
    /\ caller = ds.contractOwner
    /\ newOwner # ZERO
    /\ ds' = [ds EXCEPT !.contractOwner = newOwner]
    /\ UNCHANGED <<paymentsContract, call>>

----------------------------------------------------------------------------
NoTables(owner) ==
    [selectorToFacetAndPosition |-> [x \in Selectors |-> NoFunction],
     facetFunctionSelectors |-> [f \in Facets |-> NoSelectors],
     facetAddresses |-> <<>>,
     supportedInterfaces |-> FALSE,
     contractOwner |-> owner]

\* The diamond's constructor.
Init ==
    /\ \E owner \in Owners :
          ds = addFunction(addFacet(NoTables(owner), CutFacet), DiamondCut, 0, CutFacet)
    /\ paymentsContract = ZERO
    /\ call = Idle

Next ==
    \/ \E caller \in Owners :
          \/ \E cuts \in CutRequests, init \in InitRequests :
                diamondCut(caller, cuts, init)
          \/ \E newOwner \in Owners \cup {ZERO} : transferOwnership(caller, newOwner)
    \/ addFunctions \/ replaceFunctions \/ removeFunctions
    \/ cutReturn \/ initReturn \/ cutRevert

Spec == Init /\ [][Next]_vars

----------------------------------------------------------------------------
(* Properties.                                                             *)

\* Every variable, and every argument and counter of a running cut, has its
\* type.
TypeOK ==
    /\ ds \in DiamondStorage
    /\ paymentsContract \in PaymentsContracts \cup {ZERO}
    /\ call \in {Idle} \cup
           [fn: {"diamondCut"}, cuts: CutRequests, init: InitRequests,
            facetIndex: Nat \ {0}, selectorIndex: Nat \ {0},
            selectorPosition: Nat, saved: DiamondStorage]

\* A routed selector is where its position says, in its facet's array and
\* nowhere else; a facet is on the list of facets exactly if it has a
\* function, where its position says and nowhere else.
Agree(d) ==
    /\ \A x \in Selectors :
          LET at == d.selectorToFacetAndPosition[x]
          IN  at.facetAddress # ZERO =>
                /\ at.functionSelectorPosition + 1
                      \in DOMAIN functionsOf(d, at.facetAddress)
                /\ functionsOf(d, at.facetAddress)[at.functionSelectorPosition + 1] = x
    /\ \A f \in Facets : \A i \in DOMAIN functionsOf(d, f) :
          LET at == d.selectorToFacetAndPosition[functionsOf(d, f)[i]]
          IN  at.facetAddress = f /\ at.functionSelectorPosition + 1 = i
    /\ \A f \in Facets :
          LET position == d.facetFunctionSelectors[f].facetAddressPosition
          IN  functionsOf(d, f) # <<>> =>
                /\ position + 1 \in DOMAIN d.facetAddresses
                /\ d.facetAddresses[position + 1] = f
    /\ \A i \in DOMAIN d.facetAddresses :
          LET f == d.facetAddresses[i]
          IN  /\ functionsOf(d, f) # <<>>
              /\ d.facetFunctionSelectors[f].facetAddressPosition + 1 = i

\* The two tables agree after every selector of every cut, and in the tables
\* a revert puts back: each removal relies on positions that earlier swaps
\* have written, so one wrong position makes a later cut remove the wrong
\* function.
TablesAgree ==
    /\ Agree(ds)
    /\ call # Idle => Agree(call.saved)

\* What the loupe's facets() answers.
facets(d) == [i \in DOMAIN d.facetAddresses |->
                 [facetAddress |-> d.facetAddresses[i],
                  functionSelectors |-> functionsOf(d, d.facetAddresses[i])]]

\* The loupe lists every routed function under the facet the fallback sends
\* it to, once, and lists nothing else.
LoupeTellsRouting ==
    LET list == facets(ds)
    IN  /\ \A x \in Selectors :
              facetAddress(ds, x) # ZERO =>
                \E i \in DOMAIN list : \E j \in DOMAIN list[i].functionSelectors :
                    list[i].functionSelectors[j] = x
        /\ \A i, k \in DOMAIN list :
              \A j \in DOMAIN list[i].functionSelectors,
                 l \in DOMAIN list[k].functionSelectors :
                /\ facetAddress(ds, list[i].functionSelectors[j]) = list[i].facetAddress
                /\ list[i].functionSelectors[j] = list[k].functionSelectors[l]
                      => i = k /\ j = l

\* Seen between transactions, the diamond is the table it promises to be.
committed == IF call = Idle THEN ds ELSE call.saved

Table == INSTANCE DiamondTable WITH
    facetOf <- [x \in Selectors |-> facetAddress(committed, x)],
    contractOwner <- committed.contractOwner

\* Cuts are atomic, do what they say and spare the diamond's own functions,
\* and without a route to diamondCut the table is final.
TableSpec == Table!Spec
=============================================================================
