---------------------------- MODULE DiamondTable ----------------------------
(***************************************************************************)
(* What a diamond promises (EIP-2535, as LibDiamond.sol implements it),    *)
(* seen from outside: a table from function selectors to facets and an     *)
(* owner.  A cut happens as a whole or not at all, and each selector ends  *)
(* up where the last entry of the cut that names it puts it.               *)
(***************************************************************************)
EXTENDS Naturals, Sequences, FiniteSetsExt

CONSTANTS
    Facets,             \* addresses that selectors may be routed to
    Selectors,          \* function selectors
    Owners,             \* addresses that may own the diamond
    ZERO,               \* address(0), the facet of a removed function
    Diamond,            \* the diamond itself: its functions are immutable
    DiamondCut,         \* the selector of diamondCut
    TransferOwnership,  \* the selector of transferOwnership
    CutRequests         \* arguments of diamondCut

VARIABLES facetOf, contractOwner

Named(cut) == {cut.functionSelectors[j] : j \in DOMAIN cut.functionSelectors}

\* A removal names address(0) as its facet, so the facet named last is the
\* outcome whatever the action.
Outcome(table, cuts) ==
    [x \in Selectors |->
        LET naming == {i \in DOMAIN cuts : x \in Named(cuts[i])}
        IN  IF naming = {} THEN table[x] ELSE cuts[Max(naming)].facetAddress]

Cut(cuts) ==
    /\ facetOf[DiamondCut] # ZERO
    /\ facetOf' = Outcome(facetOf, cuts)
    /\ \A x \in Selectors : facetOf[x] = Diamond => facetOf'[x] = Diamond
    /\ UNCHANGED contractOwner

Transfer ==
    /\ facetOf[TransferOwnership] # ZERO
    /\ contractOwner' \in Owners
    /\ UNCHANGED facetOf

\* The constructor routes diamondCut and nothing else.
Init ==
    /\ \E f \in Facets :
          facetOf = [x \in Selectors |-> IF x = DiamondCut THEN f ELSE ZERO]
    /\ contractOwner \in Owners

Next == Transfer \/ \E cuts \in CutRequests : Cut(cuts)

tableVars == <<facetOf, contractOwner>>

Spec == Init /\ [][Next]_tableVars
=============================================================================
