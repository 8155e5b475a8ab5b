--------------------------- MODULE DiamondProofs ---------------------------
(***************************************************************************)
(* The diamond's tables agree.  First what each operation on the tables    *)
(* does to their agreement, one lemma per operation; then the steps of a   *)
(* cut and the invariant TablesInv, with the position counter of the loops *)
(* (LibDiamond.sol, addFunctions and replaceFunctions).                    *)
(***************************************************************************)
EXTENDS LibDiamond, TLAPS

----------------------------------------------------------------------------
\* The tables agree, with the facets of `open' listed whether they have a
\* function or not: so they are in the middle of one selector.
Kept(d, f, open) == functionsOf(d, f) # <<>> \/ f \in open

SelectorsFound(d) ==
    \A x \in Selectors :
        LET at == d.selectorToFacetAndPosition[x]
        IN  at.facetAddress # ZERO =>
              /\ at.functionSelectorPosition + 1
                    \in DOMAIN functionsOf(d, at.facetAddress)
              /\ functionsOf(d, at.facetAddress)[at.functionSelectorPosition + 1] = x

SelectorsRouted(d) ==
    \A f \in Facets : \A i \in DOMAIN functionsOf(d, f) :
        LET at == d.selectorToFacetAndPosition[functionsOf(d, f)[i]]
        IN  at.facetAddress = f /\ at.functionSelectorPosition + 1 = i

FacetsFound(d, open) ==
    \A f \in Facets :
        LET position == d.facetFunctionSelectors[f].facetAddressPosition
        IN  Kept(d, f, open) =>
              /\ position + 1 \in DOMAIN d.facetAddresses
              /\ d.facetAddresses[position + 1] = f

FacetsKept(d, open) ==
    \A i \in DOMAIN d.facetAddresses :
        LET f == d.facetAddresses[i]
        IN  /\ Kept(d, f, open)
            /\ d.facetFunctionSelectors[f].facetAddressPosition + 1 = i

Agreeing(d, open) ==
    /\ d \in DiamondStorage
    /\ SelectorsFound(d)
    /\ SelectorsRouted(d)
    /\ FacetsFound(d, open)
    /\ FacetsKept(d, open)

\* With no facet open this is the property Agree.
LEMMA AgreeingIsAgree ==
    ASSUME NEW d
    PROVE  Agreeing(d, {}) <=> d \in DiamondStorage /\ Agree(d)
<1>1. \A f : Kept(d, f, {}) <=> functionsOf(d, f) # <<>>
  BY DEF Kept
<1> QED BY <1>1 DEF Agreeing, Agree, SelectorsFound, SelectorsRouted, FacetsFound, FacetsKept

\* What the tables hold for one facet and for one selector.
Entry == [functionSelectors: Seq(Selectors), facetAddressPosition: Nat]
Route == [facetAddress: Facets \cup {ZERO}, functionSelectorPosition: Nat]

\* The types of the tables, field by field.
LEMMA Fields ==
    ASSUME NEW d \in DiamondStorage
    PROVE  /\ d.facetFunctionSelectors \in [Facets -> Entry]
           /\ d.selectorToFacetAndPosition \in [Selectors -> Route]
           /\ d.facetAddresses \in Seq(Facets)
           /\ \A f \in Facets :
                 /\ functionsOf(d, f) \in Seq(Selectors)
                 /\ d.facetFunctionSelectors[f].facetAddressPosition \in Nat
           /\ \A x \in Selectors :
                 /\ d.selectorToFacetAndPosition[x].facetAddress \in Facets \cup {ZERO}
                 /\ d.selectorToFacetAndPosition[x].functionSelectorPosition \in Nat
BY DEF DiamondStorage, Entry, Route, functionsOf

\* Setting one facet's array of selectors.
LEMMA SelectorsSet ==
    ASSUME NEW T \in [Facets -> Entry], NEW f \in Facets, NEW l \in Seq(Selectors)
    PROVE  LET U == [T EXCEPT ![f].functionSelectors = l]
           IN  /\ U \in [Facets -> Entry]
               /\ \A g \in Facets :
                     /\ U[g].functionSelectors = IF g = f THEN l ELSE T[g].functionSelectors
                     /\ U[g].facetAddressPosition = T[g].facetAddressPosition
BY DEF Entry

\* Setting one facet's position.
LEMMA PositionSet ==
    ASSUME NEW T \in [Facets -> Entry], NEW f \in Facets, NEW n \in Nat
    PROVE  LET U == [T EXCEPT ![f].facetAddressPosition = n]
           IN  /\ U \in [Facets -> Entry]
               /\ \A g \in Facets :
                     /\ U[g].functionSelectors = T[g].functionSelectors
                     /\ U[g].facetAddressPosition =
                           IF g = f THEN n ELSE T[g].facetAddressPosition
BY DEF Entry

\* addFacet field by field.
LEMMA AddFacetFields ==
    ASSUME NEW d \in DiamondStorage, NEW f \in Facets
    PROVE  /\ addFacet(d, f) \in DiamondStorage
           /\ addFacet(d, f).selectorToFacetAndPosition = d.selectorToFacetAndPosition
           /\ \A g \in Facets : functionsOf(addFacet(d, f), g) = functionsOf(d, g)
           /\ \A g \in Facets :
                 addFacet(d, f).facetFunctionSelectors[g].facetAddressPosition =
                     IF g = f THEN Len(d.facetAddresses)
                     ELSE d.facetFunctionSelectors[g].facetAddressPosition
           /\ addFacet(d, f).facetAddresses = Append(d.facetAddresses, f)
<1> DEFINE T == [d.facetFunctionSelectors EXCEPT
                    ![f].facetAddressPosition = Len(d.facetAddresses)]
<1>1. /\ T \in [Facets -> Entry]
      /\ \A g \in Facets :
            /\ T[g].functionSelectors = d.facetFunctionSelectors[g].functionSelectors
            /\ T[g].facetAddressPosition =
                  IF g = f THEN Len(d.facetAddresses)
                  ELSE d.facetFunctionSelectors[g].facetAddressPosition
  <2>1. Len(d.facetAddresses) \in Nat
    BY Fields
  <2> QED BY <2>1, Fields, PositionSet
<1>2. addFacet(d, f) = [d EXCEPT !.facetFunctionSelectors = T,
                                 !.facetAddresses = Append(d.facetAddresses, f)]
  BY DEF addFacet, DiamondStorage
<1>3. Append(d.facetAddresses, f) \in Seq(Facets)
  BY Fields
<1> HIDE DEF T
<1> QED BY <1>1, <1>2, <1>3 DEF DiamondStorage, Entry, functionsOf

\* addFunction field by field.
LEMMA AddFunctionFields ==
    ASSUME NEW d \in DiamondStorage, NEW f \in Facets, NEW x \in Selectors, NEW n \in Nat
    PROVE  /\ addFunction(d, x, n, f) \in DiamondStorage
           /\ \A y \in Selectors :
                 addFunction(d, x, n, f).selectorToFacetAndPosition[y] =
                     IF y = x THEN [facetAddress |-> f, functionSelectorPosition |-> n]
                     ELSE d.selectorToFacetAndPosition[y]
           /\ \A g \in Facets :
                 /\ functionsOf(addFunction(d, x, n, f), g) =
                        IF g = f THEN Append(functionsOf(d, f), x) ELSE functionsOf(d, g)
                 /\ addFunction(d, x, n, f).facetFunctionSelectors[g].facetAddressPosition =
                        d.facetFunctionSelectors[g].facetAddressPosition
           /\ addFunction(d, x, n, f).facetAddresses = d.facetAddresses
<1> DEFINE T == [d.facetFunctionSelectors EXCEPT
                    ![f].functionSelectors = Append(functionsOf(d, f), x)]
           R == [d.selectorToFacetAndPosition EXCEPT
                    ![x] = [facetAddress |-> f, functionSelectorPosition |-> n]]
<1>1. /\ T \in [Facets -> Entry]
      /\ \A g \in Facets :
            /\ T[g].functionSelectors =
                  IF g = f THEN Append(functionsOf(d, f), x)
                  ELSE d.facetFunctionSelectors[g].functionSelectors
            /\ T[g].facetAddressPosition =
                  d.facetFunctionSelectors[g].facetAddressPosition
  <2>0. Append(functionsOf(d, f), x) \in Seq(Selectors)
    BY Fields
  <2>1. PICK l \in Seq(Selectors) : l = Append(functionsOf(d, f), x)
    BY <2>0
  <2>2. d.facetFunctionSelectors \in [Facets -> Entry]
    BY Fields
  <2>3. T = [d.facetFunctionSelectors EXCEPT ![f].functionSelectors = l]
    BY <2>1
  <2> HIDE DEF T
  <2>4. /\ T \in [Facets -> Entry]
        /\ \A g \in Facets :
            /\ T[g].functionSelectors =
                  IF g = f THEN l ELSE d.facetFunctionSelectors[g].functionSelectors
            /\ T[g].facetAddressPosition =
                  d.facetFunctionSelectors[g].facetAddressPosition
    BY <2>2, <2>3, SelectorsSet
  <2> QED BY <2>1, <2>4
<1>2. /\ R \in [Selectors -> Route]
      /\ \A y \in Selectors : R[y] =
            IF y = x THEN [facetAddress |-> f, functionSelectorPosition |-> n]
            ELSE d.selectorToFacetAndPosition[y]
  BY Fields DEF Route
<1>3. addFunction(d, x, n, f) = [d EXCEPT !.selectorToFacetAndPosition = R,
                                          !.facetFunctionSelectors = T]
  BY DEF addFunction, functionsOf, DiamondStorage
<1> HIDE DEF T, R
<1> QED BY <1>1, <1>2, <1>3 DEF DiamondStorage, Entry, Route, functionsOf

\* Listing the facet of an Add or Replace entry leaves it open: it is on the
\* list, perhaps without a function yet.
LEMMA ListedAgrees ==
    ASSUME NEW d, NEW f \in Facets, Agreeing(d, {})
    PROVE  /\ Agreeing(Listed(d, f), {f})
           /\ Listed(d, f).selectorToFacetAndPosition = d.selectorToFacetAndPosition
           /\ \A g \in Facets : functionsOf(Listed(d, f), g) = functionsOf(d, g)
<1>1. CASE functionsOf(d, f) # <<>>
  <2>1. Listed(d, f) = d
    BY <1>1 DEF Listed
  <2>2. Agreeing(d, {f})
    BY <1>1 DEF Agreeing, FacetsFound, FacetsKept, Kept
  <2> QED BY <2>1, <2>2
<1>2. CASE functionsOf(d, f) = <<>>
  <2>1. PICK e : e = addFacet(d, f)
    OBVIOUS
  <2>2. Listed(d, f) = e
    BY <1>2, <2>1 DEF Listed
  <2>3. /\ d \in DiamondStorage
        /\ e \in DiamondStorage
        /\ e.selectorToFacetAndPosition = d.selectorToFacetAndPosition
        /\ \A g \in Facets : functionsOf(e, g) = functionsOf(d, g)
        /\ \A g \in Facets : e.facetFunctionSelectors[g].facetAddressPosition =
              IF g = f THEN Len(d.facetAddresses)
              ELSE d.facetFunctionSelectors[g].facetAddressPosition
        /\ e.facetAddresses = Append(d.facetAddresses, f)
    BY <2>1, AddFacetFields DEF Agreeing
  <2>4. SelectorsFound(e)
    BY <2>3, AddressesAssumption DEF Agreeing, SelectorsFound, DiamondStorage
  <2>5. SelectorsRouted(e)
    BY <2>3 DEF Agreeing, SelectorsRouted
  <2>6. d.facetAddresses \in Seq(Facets)
    BY <2>3 DEF DiamondStorage
  <2>7. \A i \in DOMAIN d.facetAddresses : d.facetAddresses[i] # f
    BY <1>2 DEF Agreeing, FacetsKept, Kept
  <2>8. FacetsFound(e, {f})
    <3>1. /\ e.facetAddresses[Len(d.facetAddresses) + 1] = f
          /\ DOMAIN e.facetAddresses = 1 .. Len(d.facetAddresses) + 1
          /\ DOMAIN d.facetAddresses = 1 .. Len(d.facetAddresses)
          /\ Len(d.facetAddresses) \in Nat
          /\ \A i \in DOMAIN d.facetAddresses :
                e.facetAddresses[i] = d.facetAddresses[i]
      BY <2>3, <2>6
    <3> SUFFICES ASSUME NEW g \in Facets, Kept(e, g, {f})
                 PROVE  LET position == e.facetFunctionSelectors[g].facetAddressPosition
                        IN  /\ position + 1 \in DOMAIN e.facetAddresses
                            /\ e.facetAddresses[position + 1] = g
      BY DEF FacetsFound
    <3>2. CASE g = f
      BY <2>3, <3>1, <3>2
    <3>3. CASE g # f
      <4>1. Kept(d, g, {})
        BY <2>3, <3>3 DEF Kept
      <4>2. /\ d.facetFunctionSelectors[g].facetAddressPosition + 1
                  \in DOMAIN d.facetAddresses
            /\ d.facetAddresses[d.facetFunctionSelectors[g].facetAddressPosition + 1] = g
        BY <4>1 DEF Agreeing, FacetsFound
      <4> QED BY <2>3, <3>1, <3>3, <4>2
    <3> QED BY <3>2, <3>3
  <2>9. FacetsKept(e, {f})
    BY <2>3, <2>6, <2>7 DEF Agreeing, FacetsKept, Kept
  <2> QED BY <2>2, <2>3, <2>4, <2>5, <2>8, <2>9 DEF Agreeing
<1> QED BY <1>1, <1>2

\* A new function at the end of an open facet closes the facet.
LEMMA FunctionAdded ==
    ASSUME NEW d, NEW f \in Facets, NEW x \in Selectors,
           Agreeing(d, {f}), facetAddress(d, x) = ZERO
    PROVE  LET e == addFunction(d, x, Len(functionsOf(d, f)), f)
           IN  /\ Agreeing(e, {})
               /\ functionsOf(e, f) = Append(functionsOf(d, f), x)
<1> DEFINE n == Len(functionsOf(d, f))
<1>0. /\ d \in DiamondStorage
      /\ \A g \in Facets : functionsOf(d, g) \in Seq(Selectors)
      /\ n \in Nat
  BY DEF Agreeing, DiamondStorage, functionsOf
<1>1. PICK e : e = addFunction(d, x, n, f)
  OBVIOUS
<1>2. /\ e \in DiamondStorage
      /\ \A y \in Selectors : e.selectorToFacetAndPosition[y] =
            IF y = x THEN [facetAddress |-> f, functionSelectorPosition |-> n]
            ELSE d.selectorToFacetAndPosition[y]
      /\ \A g \in Facets :
            /\ functionsOf(e, g) =
                  IF g = f THEN Append(functionsOf(d, f), x) ELSE functionsOf(d, g)
            /\ e.facetFunctionSelectors[g].facetAddressPosition =
                  d.facetFunctionSelectors[g].facetAddressPosition
      /\ e.facetAddresses = d.facetAddresses
  BY <1>0, <1>1, AddFunctionFields
<1> HIDE DEF n
<1>3. \A g \in Facets : \A i \in DOMAIN functionsOf(d, g) : functionsOf(d, g)[i] # x
  BY AddressesAssumption DEF Agreeing, SelectorsRouted, facetAddress
<1>4. SelectorsFound(e)
  <2> SUFFICES ASSUME NEW y \in Selectors,
                      e.selectorToFacetAndPosition[y].facetAddress # ZERO
               PROVE  LET at == e.selectorToFacetAndPosition[y]
                      IN  /\ at.functionSelectorPosition + 1
                                \in DOMAIN functionsOf(e, at.facetAddress)
                          /\ functionsOf(e, at.facetAddress)
                                [at.functionSelectorPosition + 1] = y
    BY DEF SelectorsFound
  <2>1. CASE y = x
    BY <1>0, <1>2, <2>1 DEF n
  <2>2. CASE y # x
    <3>1. PICK g \in Facets, i \in Nat :
             /\ d.selectorToFacetAndPosition[y].facetAddress = g
             /\ d.selectorToFacetAndPosition[y].functionSelectorPosition = i
             /\ e.selectorToFacetAndPosition[y].facetAddress = g
             /\ e.selectorToFacetAndPosition[y].functionSelectorPosition = i
      BY <1>0, <1>2, <2>2 DEF DiamondStorage
    <3>2. i + 1 \in DOMAIN functionsOf(d, g) /\ functionsOf(d, g)[i + 1] = y
      BY <3>1, AddressesAssumption DEF Agreeing, SelectorsFound
    <3>3. i + 1 \in DOMAIN functionsOf(e, g) /\ functionsOf(e, g)[i + 1] = y
      BY <1>0, <1>2, <3>1, <3>2
    <3> QED BY <3>1, <3>3
  <2> QED BY <2>1, <2>2
<1>5. SelectorsRouted(e)
  <2> SUFFICES ASSUME NEW g \in Facets, NEW i \in DOMAIN functionsOf(e, g)
               PROVE  LET at == e.selectorToFacetAndPosition[functionsOf(e, g)[i]]
                      IN  at.facetAddress = g /\ at.functionSelectorPosition + 1 = i
    BY DEF SelectorsRouted
  <2>1. CASE g = f /\ i = n + 1
    BY <1>0, <1>2, <2>1 DEF n
  <2>2. CASE ~(g = f /\ i = n + 1)
    <3>1. /\ i \in DOMAIN functionsOf(d, g)
          /\ functionsOf(e, g)[i] = functionsOf(d, g)[i]
          /\ functionsOf(d, g)[i] \in Selectors
      BY <1>0, <1>2, <2>2 DEF n
    <3>2. e.selectorToFacetAndPosition[functionsOf(d, g)[i]] =
             d.selectorToFacetAndPosition[functionsOf(d, g)[i]]
      BY <1>2, <1>3, <3>1
    <3> QED BY <3>1, <3>2 DEF Agreeing, SelectorsRouted
  <2> QED BY <2>1, <2>2
<1>6. \A g \in Facets : Kept(e, g, {}) <=> Kept(d, g, {f})
  <2>1. Append(functionsOf(d, f), x) # <<>>
    BY <1>0
  <2> QED BY <1>2, <2>1 DEF Kept
<1>7. FacetsFound(e, {})
  BY <1>2, <1>6 DEF Agreeing, FacetsFound
<1>8. FacetsKept(e, {})
  <2>1. \A i \in DOMAIN d.facetAddresses : d.facetAddresses[i] \in Facets
    BY <1>0 DEF DiamondStorage
  <2> QED BY <1>2, <1>6, <2>1 DEF Agreeing, FacetsKept
<1> QED BY <1>1, <1>2, <1>4, <1>5, <1>7, <1>8 DEF Agreeing, n

\* Swap-and-pop keeps every element but the removed one and moves the last.
LEMMA SwapRemovedFacts ==
    ASSUME NEW S, NEW l \in Seq(S), NEW i \in DOMAIN l
    PROVE  /\ Len(l) \in Nat \ {0}
           /\ l[Len(l)] \in S
           /\ SwapRemoved(l, i) \in Seq(S)
           /\ DOMAIN SwapRemoved(l, i) = 1 .. Len(l) - 1
           /\ \A j \in 1 .. Len(l) - 1 :
                 SwapRemoved(l, i)[j] = IF j = i THEN l[Len(l)] ELSE l[j]
           /\ SwapRemoved(l, i) = <<>> <=> Len(l) = 1
<1>1. PICK n \in Nat : n = Len(l) /\ n >= 1 /\ DOMAIN l = 1 .. n /\ i \in 1 .. n
  OBVIOUS
<1>2. PICK k : k = [j \in 1 .. n - 1 |-> IF j = i THEN l[n] ELSE l[j]]
  OBVIOUS
<1>3. k = SwapRemoved(l, i)
  BY <1>1, <1>2 DEF SwapRemoved
<1>4. \A j \in 1 .. n : l[j] \in S
  BY <1>1
<1>5. k \in [1 .. n - 1 -> S]
  BY <1>1, <1>2, <1>4
<1>6. n - 1 \in Nat
  BY <1>1
<1>7. k \in Seq(S) /\ Len(k) = n - 1
  BY <1>5, <1>6
<1>8. k = <<>> <=> n = 1
  BY <1>6, <1>7
<1> QED BY <1>1, <1>2, <1>3, <1>4, <1>7, <1>8

\* removeSelector field by field.
LEMMA RemoveSelectorFields ==
    ASSUME NEW d \in DiamondStorage, NEW f \in Facets, NEW x \in Selectors,
           NEW last \in Selectors, NEW l \in Seq(Selectors), NEW p \in Nat,
           p = d.selectorToFacetAndPosition[x].functionSelectorPosition,
           l = SwapRemoved(functionsOf(d, f), p + 1),
           last = functionsOf(d, f)[Len(functionsOf(d, f))],
           NEW e, e = removeSelector(d, f, x)
    PROVE  /\ e \in DiamondStorage
           /\ \A y \in Selectors : e.selectorToFacetAndPosition[y] =
                 IF y = x THEN NoFunction
                 ELSE IF y = last
                 THEN [facetAddress |-> facetAddress(d, last), functionSelectorPosition |-> p]
                 ELSE d.selectorToFacetAndPosition[y]
           /\ \A g \in Facets :
                 /\ functionsOf(e, g) = IF g = f THEN l ELSE functionsOf(d, g)
                 /\ e.facetFunctionSelectors[g].facetAddressPosition =
                        d.facetFunctionSelectors[g].facetAddressPosition
           /\ e.facetAddresses = d.facetAddresses
<1>1. PICK T : T = [d.facetFunctionSelectors EXCEPT ![f].functionSelectors = l]
  OBVIOUS
<1>2. PICK P : P = [d.selectorToFacetAndPosition EXCEPT
                      ![last].functionSelectorPosition = p]
  OBVIOUS
<1>3. PICK R : R = [P EXCEPT ![x] = NoFunction]
  OBVIOUS
<1>4. /\ T \in [Facets -> Entry]
      /\ \A g \in Facets :
            /\ T[g].functionSelectors =
                  IF g = f THEN l ELSE d.facetFunctionSelectors[g].functionSelectors
            /\ T[g].facetAddressPosition =
                  d.facetFunctionSelectors[g].facetAddressPosition
  <2>1. d.facetFunctionSelectors \in [Facets -> Entry]
    BY Fields
  <2> QED BY <1>1, <2>1, SelectorsSet
<1>5. /\ P \in [Selectors -> Route]
      /\ \A y \in Selectors : P[y] =
            IF y = last
            THEN [facetAddress |-> facetAddress(d, last), functionSelectorPosition |-> p]
            ELSE d.selectorToFacetAndPosition[y]
  <2>1. d.selectorToFacetAndPosition \in [Selectors -> Route]
    BY Fields
  <2>2. P[last] = [facetAddress |-> facetAddress(d, last), functionSelectorPosition |-> p]
    BY <1>2, <2>1 DEF Route, facetAddress
  <2>3. P[last] \in Route
    BY <2>1, <2>2 DEF Route, facetAddress
  <2> QED BY <1>2, <2>1, <2>2, <2>3
<1>6. /\ R \in [Selectors -> Route]
      /\ \A y \in Selectors : R[y] = IF y = x THEN NoFunction ELSE P[y]
  <2>1. NoFunction \in Route
    BY DEF NoFunction, Route
  <2> QED BY <1>3, <1>5, <2>1
<1>7. e = [d EXCEPT !.facetFunctionSelectors = T, !.selectorToFacetAndPosition = R]
  BY <1>1, <1>2, <1>3 DEF removeSelector, functionsOf, DiamondStorage
<1> QED BY <1>4, <1>5, <1>6, <1>7 DEF DiamondStorage, Entry, Route, functionsOf

\* Taking a selector out of its facet tells the selector that moves into its
\* place, and leaves the facet open.
LEMMA SelectorRemoved ==
    ASSUME NEW d, NEW open, NEW f \in Facets, NEW x \in Selectors,
           Agreeing(d, open), facetAddress(d, x) = f
    PROVE  /\ Agreeing(removeSelector(d, f, x), open \cup {f})
           /\ facetAddress(removeSelector(d, f, x), x) = ZERO
           /\ \A g \in Facets \ {f} :
                 functionsOf(removeSelector(d, f, x), g) = functionsOf(d, g)
<1>1. PICK p \in Nat : p = d.selectorToFacetAndPosition[x].functionSelectorPosition
  BY Fields DEF Agreeing
<1>2. PICK l \in Seq(Selectors) : l = functionsOf(d, f)
  BY Fields DEF Agreeing
<1>3. p + 1 \in DOMAIN l /\ l[p + 1] = x
  BY <1>1, <1>2, AddressesAssumption DEF Agreeing, SelectorsFound, facetAddress
<1>4. PICK last \in Selectors : last = l[Len(l)]
  BY <1>3
<1>5. PICK k \in Seq(Selectors) : k = SwapRemoved(l, p + 1)
  BY <1>3, SwapRemovedFacts
<1>6. PICK e : e = removeSelector(d, f, x)
  OBVIOUS
<1>7. /\ e \in DiamondStorage
      /\ \A y \in Selectors : e.selectorToFacetAndPosition[y] =
            IF y = x THEN NoFunction
            ELSE IF y = last
            THEN [facetAddress |-> facetAddress(d, last), functionSelectorPosition |-> p]
            ELSE d.selectorToFacetAndPosition[y]
      /\ \A g \in Facets :
            /\ functionsOf(e, g) = IF g = f THEN k ELSE functionsOf(d, g)
            /\ e.facetFunctionSelectors[g].facetAddressPosition =
                   d.facetFunctionSelectors[g].facetAddressPosition
      /\ e.facetAddresses = d.facetAddresses
  BY <1>1, <1>2, <1>4, <1>5, <1>6, RemoveSelectorFields DEF Agreeing
<1>8. /\ Len(l) \in Nat \ {0}
      /\ DOMAIN l = 1 .. Len(l)
      /\ DOMAIN k = 1 .. Len(l) - 1
      /\ \A j \in 1 .. Len(l) - 1 : k[j] = IF j = p + 1 THEN last ELSE l[j]
  BY <1>3, <1>4, <1>5, SwapRemovedFacts
<1>9. \A i \in DOMAIN l : /\ l[i] \in Selectors
                          /\ facetAddress(d, l[i]) = f
                          /\ d.selectorToFacetAndPosition[l[i]].functionSelectorPosition + 1 = i
  BY <1>2 DEF Agreeing, SelectorsRouted, facetAddress
<1>10. SelectorsFound(e)
  <2> SUFFICES ASSUME NEW y \in Selectors,
                      e.selectorToFacetAndPosition[y].facetAddress # ZERO
               PROVE  LET at == e.selectorToFacetAndPosition[y]
                      IN  /\ at.functionSelectorPosition + 1
                                \in DOMAIN functionsOf(e, at.facetAddress)
                          /\ functionsOf(e, at.facetAddress)
                                [at.functionSelectorPosition + 1] = y
    BY DEF SelectorsFound
  <2>1. y # x
    BY <1>7 DEF NoFunction
  <2>2. CASE y = last
    <3>1. p + 1 \in 1 .. Len(l) - 1
      BY <1>3, <1>4, <1>8, <2>1, <2>2
    <3>2. facetAddress(d, last) = f
      BY <1>4, <1>8, <1>9
    <3>3. /\ e.selectorToFacetAndPosition[y].facetAddress = f
          /\ e.selectorToFacetAndPosition[y].functionSelectorPosition = p
      BY <1>7, <2>1, <2>2, <3>2
    <3> QED BY <1>7, <1>8, <2>2, <3>1, <3>3
  <2>3. CASE y # last
    <3>1. PICK g \in Facets, i \in Nat :
             /\ d.selectorToFacetAndPosition[y].facetAddress = g
             /\ d.selectorToFacetAndPosition[y].functionSelectorPosition = i
             /\ e.selectorToFacetAndPosition[y].facetAddress = g
             /\ e.selectorToFacetAndPosition[y].functionSelectorPosition = i
      BY <1>7, <2>1, <2>3, Fields DEF Agreeing
    <3>2. i + 1 \in DOMAIN functionsOf(d, g) /\ functionsOf(d, g)[i + 1] = y
      BY <3>1, AddressesAssumption DEF Agreeing, SelectorsFound
    <3>3. i + 1 \in DOMAIN functionsOf(e, g) /\ functionsOf(e, g)[i + 1] = y
      <4>1. CASE g # f
        BY <1>7, <3>2, <4>1
      <4>2. CASE g = f
        <5>1. i + 1 \in 1 .. Len(l) - 1 /\ i + 1 # p + 1
          BY <1>2, <1>3, <1>4, <1>8, <2>1, <2>3, <3>2, <4>2
        <5> QED BY <1>2, <1>7, <1>8, <3>2, <4>2, <5>1
      <4> QED BY <4>1, <4>2
    <3> QED BY <3>1, <3>3
  <2> QED BY <2>2, <2>3
<1>11. SelectorsRouted(e)
  <2> SUFFICES ASSUME NEW g \in Facets, NEW i \in DOMAIN functionsOf(e, g)
               PROVE  LET at == e.selectorToFacetAndPosition[functionsOf(e, g)[i]]
                      IN  at.facetAddress = g /\ at.functionSelectorPosition + 1 = i
    BY DEF SelectorsRouted
  <2>1. CASE g # f
    <3>1. PICK y \in Selectors : y = functionsOf(d, g)[i] /\ y = functionsOf(e, g)[i]
      BY <1>7, <2>1, Fields DEF Agreeing
    <3>2. /\ d.selectorToFacetAndPosition[y].facetAddress = g
          /\ d.selectorToFacetAndPosition[y].functionSelectorPosition + 1 = i
      BY <1>7, <2>1, <3>1 DEF Agreeing, SelectorsRouted
    <3>3. y # x /\ y # last
      BY <1>4, <1>8, <1>9, <2>1, <3>2 DEF facetAddress
    <3> QED BY <1>7, <3>1, <3>2, <3>3
  <2>2. CASE g = f
    <3>1. i \in 1 .. Len(l) - 1 /\ functionsOf(e, g)[i] = k[i]
      BY <1>7, <1>8, <2>2
    <3>2. CASE i = p + 1
      <4>1. k[i] = last /\ last # x /\ facetAddress(d, last) = f
        BY <1>3, <1>4, <1>8, <1>9, <3>1, <3>2
      <4> QED BY <1>7, <2>2, <3>1, <3>2, <4>1
    <3>3. CASE i # p + 1
      <4>1. /\ k[i] = l[i] /\ l[i] # x /\ l[i] # last
            /\ l[i] \in Selectors
            /\ d.selectorToFacetAndPosition[l[i]].facetAddress = f
            /\ d.selectorToFacetAndPosition[l[i]].functionSelectorPosition + 1 = i
        BY <1>3, <1>4, <1>8, <1>9, <3>1, <3>3 DEF facetAddress
      <4> QED BY <1>7, <2>2, <3>1, <4>1
    <3> QED BY <3>2, <3>3
  <2> QED BY <2>1, <2>2
<1>12. \A g \in Facets : Kept(e, g, open \cup {f}) <=> Kept(d, g, open)
  <2>1. functionsOf(d, f) # <<>>
    BY <1>2, <1>3
  <2> QED BY <1>7, <2>1 DEF Kept
<1>13. FacetsFound(e, open \cup {f})
  BY <1>7, <1>12 DEF Agreeing, FacetsFound
<1>14. FacetsKept(e, open \cup {f})
  <2>1. \A i \in DOMAIN d.facetAddresses : d.facetAddresses[i] \in Facets
    BY Fields DEF Agreeing
  <2> QED BY <1>7, <1>12, <2>1 DEF Agreeing, FacetsKept
<1>15. facetAddress(e, x) = ZERO
  BY <1>7 DEF facetAddress, NoFunction
<1> QED BY <1>6, <1>7, <1>10, <1>11, <1>13, <1>14, <1>15 DEF Agreeing

\* removeFacet field by field.
LEMMA RemoveFacetFields ==
    ASSUME NEW d \in DiamondStorage, NEW f \in Facets, NEW last \in Facets,
           NEW a \in Seq(Facets), NEW p \in Nat,
           p = d.facetFunctionSelectors[f].facetAddressPosition,
           a = SwapRemoved(d.facetAddresses, p + 1),
           last = d.facetAddresses[Len(d.facetAddresses)],
           NEW e, e = removeFacet(d, f)
    PROVE  /\ e \in DiamondStorage
           /\ e.selectorToFacetAndPosition = d.selectorToFacetAndPosition
           /\ \A g \in Facets :
                 /\ functionsOf(e, g) = functionsOf(d, g)
                 /\ e.facetFunctionSelectors[g].facetAddressPosition =
                       IF g = f THEN 0 ELSE IF g = last THEN p
                       ELSE d.facetFunctionSelectors[g].facetAddressPosition
           /\ e.facetAddresses = a
<1>1. PICK T : T = [d.facetFunctionSelectors EXCEPT ![last].facetAddressPosition = p]
  OBVIOUS
<1>2. PICK U : U = [T EXCEPT ![f].facetAddressPosition = 0]
  OBVIOUS
<1>3. /\ T \in [Facets -> Entry]
      /\ \A g \in Facets :
            /\ T[g].functionSelectors = d.facetFunctionSelectors[g].functionSelectors
            /\ T[g].facetAddressPosition =
                  IF g = last THEN p
                  ELSE d.facetFunctionSelectors[g].facetAddressPosition
  <2>1. d.facetFunctionSelectors \in [Facets -> Entry]
    BY Fields
  <2> QED BY <1>1, <2>1, PositionSet
<1>4. /\ U \in [Facets -> Entry]
      /\ \A g \in Facets :
            /\ U[g].functionSelectors = T[g].functionSelectors
            /\ U[g].facetAddressPosition =
                  IF g = f THEN 0 ELSE T[g].facetAddressPosition
  <2>1. PICK n \in Nat : n = 0
    OBVIOUS
  <2>2. U = [T EXCEPT ![f].facetAddressPosition = n] /\ T \in [Facets -> Entry]
    BY <1>2, <1>3, <2>1
  <2>3. /\ U \in [Facets -> Entry]
        /\ \A g \in Facets :
              /\ U[g].functionSelectors = T[g].functionSelectors
              /\ U[g].facetAddressPosition =
                    IF g = f THEN n ELSE T[g].facetAddressPosition
    BY <2>2, PositionSet
  <2> QED BY <2>1, <2>3
<1>5. e = [d EXCEPT !.facetFunctionSelectors = U, !.facetAddresses = a]
  BY <1>1, <1>2 DEF removeFacet, DiamondStorage
<1> QED BY <1>3, <1>4, <1>5 DEF DiamondStorage, Entry, functionsOf

\* Taking an open facet without functions off the list tells the facet that
\* moves into its place, and closes the facet.
LEMMA FacetRemoved ==
    ASSUME NEW d, NEW open, NEW f \in Facets, f \notin open,
           Agreeing(d, open \cup {f}), functionsOf(d, f) = <<>>
    PROVE  /\ Agreeing(removeFacet(d, f), open)
           /\ removeFacet(d, f).selectorToFacetAndPosition = d.selectorToFacetAndPosition
           /\ \A g \in Facets : functionsOf(removeFacet(d, f), g) = functionsOf(d, g)
<1>1. PICK p \in Nat : p = d.facetFunctionSelectors[f].facetAddressPosition
  BY Fields DEF Agreeing
<1>2. PICK l \in Seq(Facets) : l = d.facetAddresses
  BY Fields DEF Agreeing
<1>3. p + 1 \in DOMAIN l /\ l[p + 1] = f
  BY <1>1, <1>2 DEF Agreeing, FacetsFound, Kept
<1>4. PICK last \in Facets : last = l[Len(l)]
  BY <1>3
<1>5. PICK a \in Seq(Facets) : a = SwapRemoved(l, p + 1)
  BY <1>3, SwapRemovedFacts
<1>6. PICK e : e = removeFacet(d, f)
  OBVIOUS
<1>7. /\ e \in DiamondStorage
      /\ e.selectorToFacetAndPosition = d.selectorToFacetAndPosition
      /\ \A g \in Facets :
            /\ functionsOf(e, g) = functionsOf(d, g)
            /\ e.facetFunctionSelectors[g].facetAddressPosition =
                  IF g = f THEN 0 ELSE IF g = last THEN p
                  ELSE d.facetFunctionSelectors[g].facetAddressPosition
      /\ e.facetAddresses = a
  BY <1>1, <1>2, <1>4, <1>5, <1>6, RemoveFacetFields DEF Agreeing
<1>8. /\ Len(l) \in Nat \ {0}
      /\ DOMAIN l = 1 .. Len(l)
      /\ DOMAIN a = 1 .. Len(l) - 1
      /\ \A j \in 1 .. Len(l) - 1 : a[j] = IF j = p + 1 THEN last ELSE l[j]
  BY <1>3, <1>4, <1>5, SwapRemovedFacts
<1>9. PICK n \in Nat \ {0} : n = Len(l)
  BY <1>8
<1>10. \A j \in 1 .. n - 1 : /\ j \in 1 .. n /\ n \in 1 .. n /\ j # n
                            /\ a[j] = IF j = p + 1 THEN last ELSE l[j]
  <2>1. \A j \in 1 .. n - 1 : a[j] = IF j = p + 1 THEN last ELSE l[j]
    <3>1. 1 .. Len(l) - 1 = 1 .. n - 1
      BY <1>9
    <3> QED BY <1>8, <3>1, Zenon
  <2>2. \A j \in 1 .. n - 1 : j \in 1 .. n /\ n \in 1 .. n /\ j # n
    OBVIOUS
  <2> QED BY <2>1, <2>2
<1>11. \A i \in DOMAIN l : /\ l[i] \in Facets
                          /\ Kept(d, l[i], open \cup {f})
                          /\ d.facetFunctionSelectors[l[i]].facetAddressPosition + 1 = i
  <2>1. \A i \in DOMAIN l : l[i] \in Facets
    BY <1>2
  <2>2. \A i \in DOMAIN l :
           /\ Kept(d, l[i], open \cup {f})
           /\ d.facetFunctionSelectors[l[i]].facetAddressPosition + 1 = i
    BY <1>2, Zenon DEF Agreeing, FacetsKept
  <2> QED BY <2>1, <2>2
<1>12. \A g \in Facets : Kept(e, g, open) <=> g # f /\ Kept(d, g, open \cup {f})
  BY <1>7 DEF Kept
<1>13. SelectorsFound(e)
  BY <1>7, Fields, AddressesAssumption DEF Agreeing, SelectorsFound
<1>14. SelectorsRouted(e)
  BY <1>7 DEF Agreeing, SelectorsRouted
<1>15. FacetsFound(e, open)
  <2> SUFFICES ASSUME NEW g \in Facets, Kept(e, g, open)
               PROVE  LET position == e.facetFunctionSelectors[g].facetAddressPosition
                      IN  /\ position + 1 \in DOMAIN e.facetAddresses
                          /\ e.facetAddresses[position + 1] = g
    BY DEF FacetsFound
  <2>1. PICK q \in Nat : q = d.facetFunctionSelectors[g].facetAddressPosition
    BY Fields DEF Agreeing
  <2>2. g # f /\ q + 1 \in DOMAIN l /\ l[q + 1] = g
    BY <1>2, <1>12, <2>1 DEF Agreeing, FacetsFound
  <2>3. CASE g = last
    <3>1. p + 1 \in 1 .. Len(l) - 1
      BY <1>3, <1>4, <1>8, <2>2, <2>3
    <3>2. e.facetFunctionSelectors[g].facetAddressPosition = p
      BY <1>7, <2>2, <2>3
    <3> QED BY <1>7, <1>8, <2>3, <3>1, <3>2
  <2>4. CASE g # last
    <3>1. q + 1 \in 1 .. Len(l) - 1 /\ q + 1 # p + 1
      BY <1>3, <1>4, <1>8, <2>2, <2>4
    <3>2. e.facetFunctionSelectors[g].facetAddressPosition = q
      BY <1>7, <2>1, <2>2, <2>4
    <3> QED BY <1>7, <1>8, <2>2, <3>1, <3>2
  <2> QED BY <2>3, <2>4
<1>16. FacetsKept(e, open)
  <2> SUFFICES ASSUME NEW i \in 1 .. Len(l) - 1
               PROVE  /\ Kept(e, a[i], open)
                      /\ e.facetFunctionSelectors[a[i]].facetAddressPosition + 1 = i
    BY <1>7, <1>8 DEF FacetsKept
  <2>1. CASE i = p + 1
    <3>1. a[i] = last /\ last # f /\ Kept(d, last, open \cup {f})
      <4>1. a[i] = last /\ Len(l) \in DOMAIN l /\ Len(l) # p + 1
        BY <1>8, <1>9, <1>10, <2>1
      <4>2. d.facetFunctionSelectors[last].facetAddressPosition + 1 = Len(l)
        BY <1>4, <1>11, <4>1
      <4>3. Kept(d, last, open \cup {f})
        BY <1>4, <1>11, <4>1
      <4> QED BY <1>1, <4>1, <4>2, <4>3
    <3> QED BY <1>7, <1>12, <2>1, <3>1
  <2>2. CASE i # p + 1
    <3>1. /\ a[i] = l[i] /\ l[i] # f /\ l[i] # last
          /\ l[i] \in Facets
          /\ Kept(d, l[i], open \cup {f})
          /\ d.facetFunctionSelectors[l[i]].facetAddressPosition + 1 = i
      <4>1. a[i] = l[i] /\ i \in DOMAIN l /\ Len(l) \in DOMAIN l /\ i # Len(l)
        BY <1>8, <1>9, <1>10, <2>2
      <4>2. /\ l[i] \in Facets
            /\ Kept(d, l[i], open \cup {f})
            /\ d.facetFunctionSelectors[l[i]].facetAddressPosition + 1 = i
        BY <1>11, <4>1
      <4>3. d.facetFunctionSelectors[last].facetAddressPosition + 1 = Len(l)
        BY <1>4, <1>11, <4>1
      <4>4. l[i] # f
        BY <1>1, <2>2, <4>2
      <4>5. l[i] # last
        BY <4>1, <4>2, <4>3
      <4> QED BY <4>1, <4>2, <4>4, <4>5
    <3> QED BY <1>7, <1>12, <3>1
  <2> QED BY <2>1, <2>2
<1> QED BY <1>6, <1>7, <1>13, <1>14, <1>15, <1>16 DEF Agreeing

\* removeFunction keeps the tables in agreement, and touches no other facet's
\* functions: the counter a replacement holds stays right.
LEMMA FunctionRemoved ==
    ASSUME NEW d, NEW open, NEW f \in Facets, NEW x \in Selectors, f \notin open,
           Agreeing(d, open), facetAddress(d, x) = f
    PROVE  /\ Agreeing(removeFunction(d, f, x), open)
           /\ facetAddress(removeFunction(d, f, x), x) = ZERO
           /\ \A g \in Facets \ {f} :
                 functionsOf(removeFunction(d, f, x), g) = functionsOf(d, g)
<1>1. PICK r : r = removeSelector(d, f, x)
  OBVIOUS
<1>2. /\ Agreeing(r, open \cup {f})
      /\ facetAddress(r, x) = ZERO
      /\ \A g \in Facets \ {f} : functionsOf(r, g) = functionsOf(d, g)
  BY <1>1, SelectorRemoved
<1>3. CASE functionsOf(r, f) = <<>>
  <2>1. removeFunction(d, f, x) = removeFacet(r, f)
    BY <1>1, <1>3 DEF removeFunction
  <2>2. /\ Agreeing(removeFacet(r, f), open)
        /\ removeFacet(r, f).selectorToFacetAndPosition = r.selectorToFacetAndPosition
        /\ \A g \in Facets : functionsOf(removeFacet(r, f), g) = functionsOf(r, g)
    BY <1>2, <1>3, FacetRemoved
  <2> QED BY <1>2, <2>1, <2>2 DEF facetAddress
<1>4. CASE functionsOf(r, f) # <<>>
  <2>1. removeFunction(d, f, x) = r
    BY <1>1, <1>4 DEF removeFunction
  <2>2. Agreeing(r, open)
    BY <1>2, <1>4 DEF Agreeing, FacetsFound, FacetsKept, Kept
  <2> QED BY <1>2, <2>1, <2>2
<1> QED BY <1>3, <1>4

----------------------------------------------------------------------------
\* The position the loop counts up is the length of the target facet's array
\* whenever it is used, although removals happen in between.
Counted ==
    cutting =>
        \/ call.selectorIndex = 1
        \/ /\ call.selectorIndex \in DOMAIN current.functionSelectors
           /\ current.action # "Remove" =>
                 /\ current.facetAddress \in Facets
                 /\ call.selectorPosition = Len(functionsOf(ds, current.facetAddress))

\* TablesAgree alone is not inductive: an addition is only right at a position
\* that is right.
TablesInv == TypeOK /\ TablesAgree /\ Counted

\* A running cut.
Frame == [fn: {"diamondCut"}, cuts: CutRequests, init: InitRequests,
          facetIndex: Nat \ {0}, selectorIndex: Nat \ {0},
          selectorPosition: Nat, saved: DiamondStorage]

\* What a running cut is.
LEMMA FrameFacts ==
    ASSUME TypeOK, cutting
    PROVE  /\ call \in Frame
           /\ call # Idle
           /\ current \in FacetCut
           /\ current.functionSelectors \in Seq(Selectors)
<1>1. call \in Frame
  BY DEF TypeOK, Frame, cutting, Idle
<1>2. call # Idle
  BY DEF cutting, Idle
<1>3. call.cuts \in Seq(FacetCut) /\ call.facetIndex \in Nat \ {0}
  BY <1>1, RequestsAssumption DEF Frame
<1>4. call.facetIndex \in DOMAIN call.cuts
  BY <1>3 DEF cutting
<1>5. current \in FacetCut
  BY <1>3, <1>4 DEF current
<1> QED BY <1>1, <1>2, <1>5 DEF FacetCut

\* While selectors of a cut are left, the next one, its facet and the position
\* it would get are what they should be.
LEMMA NextSelector ==
    ASSUME TypeOK, cutting, canCut, Counted
    PROVE  /\ call.selectorIndex \in DOMAIN current.functionSelectors
           /\ selector \in Selectors
           /\ current.action # "Remove" =>
                 /\ current.facetAddress \in Facets
                 /\ selectorPosition = Len(functionsOf(ds, current.facetAddress))
<1>1. current \in FacetCut /\ current.functionSelectors \in Seq(Selectors)
  BY FrameFacts
<1>2. call.selectorIndex \in DOMAIN current.functionSelectors
  BY <1>1 DEF canCut, Counted
<1>3. selector \in Selectors
  BY <1>1, <1>2 DEF selector
<1>4. current.action # "Remove" => current.facetAddress \in Facets
  BY <1>1 DEF canCut, FacetCut
<1>5. ASSUME current.action # "Remove"
      PROVE  selectorPosition = Len(functionsOf(ds, current.facetAddress))
  BY <1>5 DEF selectorPosition, Counted
<1> QED BY <1>2, <1>3, <1>4, <1>5

\* The loop counters after a selector, when the facet has one function more.
LEMMA Advanced ==
    ASSUME TypeOK, cutting, canCut, Counted, NEW n \in Nat, Advance(n),
           current.action # "Remove" =>
              n + 1 = Len(functionsOf(ds', current.facetAddress))
    PROVE  /\ call' \in Frame
           /\ call'.saved = call.saved
           /\ Counted'
<1>1. call \in Frame /\ current.functionSelectors \in Seq(Selectors)
  BY FrameFacts
<1>2. call.selectorIndex \in DOMAIN current.functionSelectors
  BY NextSelector
<1>3. CASE call.selectorIndex < Len(current.functionSelectors)
  <2>1. call' = [call EXCEPT !.selectorIndex = @ + 1, !.selectorPosition = n + 1]
    BY <1>3 DEF Advance
  <2>2. /\ call' \in Frame
        /\ call'.saved = call.saved
        /\ call'.cuts = call.cuts
        /\ call'.facetIndex = call.facetIndex
        /\ call'.selectorIndex = call.selectorIndex + 1
        /\ call'.selectorPosition = n + 1
    <3>1. PICK j \in Nat \ {0} : j = call.selectorIndex + 1
      BY <1>1 DEF Frame
    <3>2. PICK m \in Nat : m = n + 1
      OBVIOUS
    <3>3. call' = [call EXCEPT !.selectorIndex = j, !.selectorPosition = m]
      BY <2>1, <3>1, <3>2
    <3> QED BY <1>1, <3>1, <3>2, <3>3 DEF Frame
  <2>3. current' = current
    BY <2>2 DEF current
  <2>4. call'.selectorIndex \in DOMAIN current.functionSelectors
    BY <1>1, <1>2, <1>3, <2>2
  <2>5. current.action # "Remove" => current.facetAddress \in Facets
    BY NextSelector
  <2>6. current.action # "Remove" =>
           call'.selectorPosition = Len(functionsOf(ds', current.facetAddress))
    BY <2>2
  <2> QED BY <2>2, <2>3, <2>4, <2>5, <2>6 DEF Counted, functionsOf
<1>4. CASE ~(call.selectorIndex < Len(current.functionSelectors))
  <2>1. call' = [call EXCEPT !.facetIndex = @ + 1, !.selectorIndex = 1,
                             !.selectorPosition = 0]
    BY <1>4 DEF Advance
  <2>2. call' \in Frame /\ call'.saved = call.saved /\ call'.selectorIndex = 1
    <3>1. PICK i \in Nat \ {0} : i = call.facetIndex + 1
      BY <1>1 DEF Frame
    <3>2. call' = [call EXCEPT !.facetIndex = i, !.selectorIndex = 1,
                               !.selectorPosition = 0]
      BY <2>1, <3>1
    <3>3. call' = [fn |-> call.fn, cuts |-> call.cuts, init |-> call.init,
                   facetIndex |-> i, selectorIndex |-> 1, selectorPosition |-> 0,
                   saved |-> call.saved]
      BY <1>1, <3>2 DEF Frame
    <3> QED BY <1>1, <3>1, <3>3 DEF Frame
  <2> QED BY <2>2 DEF Counted
<1> QED BY <1>3, <1>4

\* The conclusion that the three kinds of step share.
LEMMA CutStep ==
    ASSUME TablesInv, cutting, Advance(0) \/ Advance(selectorPosition),
           call' \in Frame, call'.saved = call.saved, Counted',
           Agreeing(ds', {}), UNCHANGED paymentsContract
    PROVE  TablesInv'
<1>1. ds' \in DiamondStorage /\ Agree(ds')
  BY AgreeingIsAgree
<1>2. Agree(call'.saved)
  BY FrameFacts DEF TablesInv, TablesAgree
<1>3. TablesAgree'
  BY <1>1, <1>2 DEF TablesAgree, Agree, functionsOf
<1>4. TypeOK'
  BY <1>1 DEF TablesInv, TypeOK, Frame
<1> QED BY <1>3, <1>4 DEF TablesInv

\* Adding one selector keeps the invariant.
LEMMA AddStep == ASSUME TablesInv, addFunctions PROVE TablesInv'
<1> DEFINE f == current.facetAddress
           L == Listed(ds, f)
           x == selector
<1>1. /\ cutting /\ canCut /\ current.action = "Add"
      /\ Agreeing(ds, {}) /\ TypeOK /\ Counted
      /\ UNCHANGED paymentsContract
  BY AgreeingIsAgree DEF TablesInv, TypeOK, TablesAgree, addFunctions
<1>2. /\ f \in Facets /\ x \in Selectors
      /\ selectorPosition = Len(functionsOf(ds, f))
  BY <1>1, NextSelector
<1>3. facetAddress(ds, x) = ZERO
  BY <1>1 DEF canCut
<1>4. /\ Agreeing(L, {f})
      /\ facetAddress(L, x) = ZERO
      /\ functionsOf(L, f) = functionsOf(ds, f)
  BY <1>1, <1>2, <1>3, ListedAgrees DEF facetAddress
<1>5. ds' = addFunction(L, x, Len(functionsOf(L, f)), f)
  BY <1>2, <1>4 DEF addFunctions
<1>6. /\ Agreeing(ds', {})
      /\ functionsOf(ds', f) = Append(functionsOf(ds, f), x)
  BY <1>2, <1>4, <1>5, FunctionAdded
<1>7. functionsOf(ds, f) \in Seq(Selectors)
  BY <1>1, <1>2, Fields DEF Agreeing
<1>8. selectorPosition \in Nat /\ selectorPosition + 1 = Len(functionsOf(ds', f))
  BY <1>2, <1>6, <1>7
<1>9. Advance(selectorPosition)
  BY DEF addFunctions
<1>10. /\ call' \in Frame /\ call'.saved = call.saved /\ Counted'
  BY <1>1, <1>8, <1>9, Advanced
<1> QED BY <1>1, <1>6, <1>9, <1>10, CutStep

\* Replacing one selector keeps the invariant.
LEMMA ReplaceStep == ASSUME TablesInv, replaceFunctions PROVE TablesInv'
<1> DEFINE f == current.facetAddress
           x == selector
           old == facetAddress(ds, x)
           L == Listed(ds, f)
           R == removeFunction(L, old, x)
<1>1. /\ cutting /\ canCut /\ current.action = "Replace"
      /\ Agreeing(ds, {}) /\ TypeOK /\ Counted
      /\ UNCHANGED paymentsContract
  BY AgreeingIsAgree DEF TablesInv, TypeOK, TablesAgree, replaceFunctions
<1>2. /\ f \in Facets /\ x \in Selectors
      /\ selectorPosition = Len(functionsOf(ds, f))
  BY <1>1, NextSelector
<1>3. old \in Facets \ {f}
  <2>1. old # ZERO /\ old # f
    BY <1>1 DEF canCut
  <2> QED BY <1>1, <1>2, <2>1, Fields DEF Agreeing, facetAddress
<1>4. /\ Agreeing(L, {f})
      /\ facetAddress(L, x) = old
      /\ functionsOf(L, f) = functionsOf(ds, f)
  BY <1>1, <1>2, ListedAgrees DEF facetAddress
<1>5. /\ Agreeing(R, {f})
      /\ facetAddress(R, x) = ZERO
      /\ functionsOf(R, f) = functionsOf(ds, f)
  <2>1. old \notin {f} /\ f \in Facets \ {old}
    BY <1>2, <1>3
  <2> HIDE DEF L, old, x, f
  <2> QED BY <1>2, <1>3, <1>4, <2>1, FunctionRemoved DEF R
<1>6. ds' = addFunction(R, x, Len(functionsOf(R, f)), f)
  BY <1>2, <1>5 DEF replaceFunctions
<1>7. /\ Agreeing(ds', {})
      /\ functionsOf(ds', f) = Append(functionsOf(ds, f), x)
  <2> HIDE DEF R, x, f
  <2> QED BY <1>2, <1>5, <1>6, FunctionAdded
<1>8. functionsOf(ds, f) \in Seq(Selectors)
  BY <1>1, <1>2, Fields DEF Agreeing
<1>9. selectorPosition \in Nat /\ selectorPosition + 1 = Len(functionsOf(ds', f))
  BY <1>2, <1>7, <1>8
<1>10. Advance(selectorPosition)
  BY DEF replaceFunctions
<1>11. /\ call' \in Frame /\ call'.saved = call.saved /\ Counted'
  BY <1>1, <1>9, <1>10, Advanced
<1> QED BY <1>1, <1>7, <1>10, <1>11, CutStep

\* Removing one selector keeps the invariant.
LEMMA RemoveStep == ASSUME TablesInv, removeFunctions PROVE TablesInv'
<1> DEFINE x == selector
           old == facetAddress(ds, x)
<1>1. /\ cutting /\ canCut /\ current.action = "Remove"
      /\ Agreeing(ds, {}) /\ TypeOK /\ Counted
      /\ UNCHANGED paymentsContract
  BY AgreeingIsAgree DEF TablesInv, TypeOK, TablesAgree, removeFunctions
<1>2. x \in Selectors
  BY <1>1, NextSelector
<1>3. old \in Facets
  <2>1. old # ZERO
    BY <1>1 DEF canCut
  <2> QED BY <1>1, <1>2, <2>1, Fields DEF Agreeing, facetAddress
<1>4. ds' = removeFunction(ds, old, x)
  BY DEF removeFunctions
<1>5. Agreeing(ds', {})
  <2> HIDE DEF old, x
  <2>1. facetAddress(ds, x) = old
    BY DEF old
  <2> QED BY <1>1, <1>2, <1>3, <1>4, <2>1, FunctionRemoved
<1>6. Advance(0)
  BY DEF removeFunctions
<1>7. /\ call' \in Frame /\ call'.saved = call.saved /\ Counted'
  BY <1>1, <1>6, Advanced
<1> QED BY <1>1, <1>5, <1>6, <1>7, CutStep

\* Agreement looks at the tables and at no other field.
LEMMA SameTablesAgree ==
    ASSUME NEW d, NEW e, Agree(d),
           e.selectorToFacetAndPosition = d.selectorToFacetAndPosition,
           e.facetFunctionSelectors = d.facetFunctionSelectors,
           e.facetAddresses = d.facetAddresses
    PROVE  Agree(e)
<1>1. \A f : functionsOf(e, f) = functionsOf(d, f)
  BY DEF functionsOf
<1>2. /\ SelectorsFound(d) /\ SelectorsRouted(d)
      /\ \A f \in Facets :
            LET position == d.facetFunctionSelectors[f].facetAddressPosition
            IN  functionsOf(d, f) # <<>> =>
                  /\ position + 1 \in DOMAIN d.facetAddresses
                  /\ d.facetAddresses[position + 1] = f
      /\ \A i \in DOMAIN d.facetAddresses :
            LET f == d.facetAddresses[i]
            IN  /\ functionsOf(d, f) # <<>>
                /\ d.facetFunctionSelectors[f].facetAddressPosition + 1 = i
  BY DEF Agree, SelectorsFound, SelectorsRouted
<1>3. SelectorsFound(e)
  BY <1>1, <1>2 DEF SelectorsFound
<1>4. SelectorsRouted(e)
  BY <1>1, <1>2 DEF SelectorsRouted
<1> QED BY <1>1, <1>2, <1>3, <1>4 DEF Agree, SelectorsFound, SelectorsRouted

\* The start and the three ways out of a cut, and a change of owner.
LEMMA OtherSteps ==
    ASSUME TablesInv,
           \/ \E caller \in Owners :
                 \/ \E cuts \in CutRequests, init \in InitRequests :
                       diamondCut(caller, cuts, init)
                 \/ \E newOwner \in Owners \cup {ZERO} :
                       transferOwnership(caller, newOwner)
           \/ cutReturn \/ initReturn \/ cutRevert
           \/ UNCHANGED vars
    PROVE  TablesInv'
<1>1. TypeOK /\ Agree(ds) /\ (call # Idle => Agree(call.saved)) /\ Counted
  BY DEF TablesInv, TablesAgree
<1>2. ASSUME NEW caller \in Owners, NEW cuts \in CutRequests,
             NEW init \in InitRequests, diamondCut(caller, cuts, init)
      PROVE  TablesInv'
  <2>1. ds' = ds /\ paymentsContract' = paymentsContract /\ ds \in DiamondStorage
    BY <1>1, <1>2 DEF diamondCut, TypeOK
  <2>2. call' \in Frame /\ call'.saved = ds /\ call'.selectorIndex = 1
    BY <1>2, <2>1 DEF diamondCut, Frame
  <2> QED BY <1>1, <2>1, <2>2 DEF TablesInv, TypeOK, TablesAgree, Counted, Frame
<1>3. ASSUME NEW caller \in Owners, NEW newOwner \in Owners \cup {ZERO},
             transferOwnership(caller, newOwner)
      PROVE  TablesInv'
  <2>1. /\ call = Idle /\ call' = Idle /\ paymentsContract' = paymentsContract
        /\ ds' = [ds EXCEPT !.contractOwner = newOwner]
        /\ newOwner \in Owners
        /\ ds \in DiamondStorage
    BY <1>1, <1>3 DEF transferOwnership, TypeOK
  <2>2. /\ ds' \in DiamondStorage
        /\ ds'.selectorToFacetAndPosition = ds.selectorToFacetAndPosition
        /\ ds'.facetFunctionSelectors = ds.facetFunctionSelectors
        /\ ds'.facetAddresses = ds.facetAddresses
    BY <2>1 DEF DiamondStorage
  <2>3. Agree(ds')
    BY <1>1, <2>2, SameTablesAgree
  <2> QED BY <1>1, <2>1, <2>2, <2>3 DEF TablesInv, TypeOK, TablesAgree, Counted, cutting, Idle
<1>4. CASE cutReturn
  BY <1>1, <1>4 DEF cutReturn, TablesInv, TypeOK, TablesAgree, Counted, cutting, Idle
<1>5. CASE initReturn
  <2>1. /\ call' = Idle /\ ds \in DiamondStorage
        /\ ds' = [ds EXCEPT !.supportedInterfaces = TRUE]
        /\ paymentsContract' = call.init.paymentsContract
    BY <1>1, <1>5 DEF initReturn, TypeOK
  <2>2. call.init \in InitRequests
    BY <1>1, <1>5 DEF initReturn, initialized, TypeOK, Idle
  <2>3. paymentsContract' \in PaymentsContracts \cup {ZERO}
    BY <2>1, <2>2, RequestsAssumption DEF InitCall
  <2>4. /\ ds' \in DiamondStorage
        /\ ds'.selectorToFacetAndPosition = ds.selectorToFacetAndPosition
        /\ ds'.facetFunctionSelectors = ds.facetFunctionSelectors
        /\ ds'.facetAddresses = ds.facetAddresses
    BY <2>1 DEF DiamondStorage
  <2>5. Agree(ds')
    BY <1>1, <2>4, SameTablesAgree
  <2> QED BY <2>1, <2>3, <2>4, <2>5 DEF TablesInv, TypeOK, TablesAgree, Counted, cutting, Idle
<1>6. CASE cutRevert
  <2>1. call.fn = "diamondCut" /\ call # Idle
    BY <1>6 DEF cutRevert, cutting, initialized, Idle
  <2>2. ds' = call.saved /\ call' = Idle /\ paymentsContract' = paymentsContract
    BY <1>6 DEF cutRevert
  <2>3. call.saved \in DiamondStorage
    BY <1>1, <2>1 DEF TypeOK
  <2> QED BY <1>1, <2>1, <2>2, <2>3 DEF TablesInv, TypeOK, TablesAgree, Counted, cutting, Idle
<1>7. CASE UNCHANGED vars
  BY <1>1, <1>7 DEF vars, TablesInv, TypeOK, TablesAgree, Counted, cutting, current
<1> QED BY <1>2, <1>3, <1>4, <1>5, <1>6, <1>7

\* The tables the constructor leaves agree.
LEMMA DiamondInit == ASSUME Init PROVE TablesInv
<1>1. PICK owner \in Owners :
         ds = addFunction(addFacet(NoTables(owner), CutFacet), DiamondCut, 0, CutFacet)
  BY DEF Init
<1> DEFINE d == NoTables(owner)
<1>2. d \in DiamondStorage
  BY DEF NoTables, DiamondStorage, NoFunction, NoSelectors
<1>3. \A f \in Facets : functionsOf(d, f) = <<>>
  BY DEF NoTables, NoSelectors, functionsOf
<1>4. \A x \in Selectors : d.selectorToFacetAndPosition[x] = NoFunction
  BY DEF NoTables
<1>5. Agreeing(d, {})
  <2>1. SelectorsFound(d)
    BY <1>4 DEF SelectorsFound, NoFunction
  <2>2. SelectorsRouted(d)
    BY <1>3 DEF SelectorsRouted
  <2>3. FacetsFound(d, {})
    BY <1>3 DEF FacetsFound, Kept
  <2>4. FacetsKept(d, {})
    BY DEF FacetsKept, NoTables
  <2> QED BY <1>2, <2>1, <2>2, <2>3, <2>4 DEF Agreeing
<1>6. CutFacet \in Facets /\ DiamondCut \in Selectors
  BY AddressesAssumption, SelectorsAssumption
<1>7. addFacet(d, CutFacet) = Listed(d, CutFacet)
  BY <1>3, <1>6 DEF Listed
<1> DEFINE L == Listed(d, CutFacet)
<1>8. /\ Agreeing(L, {CutFacet})
      /\ facetAddress(L, DiamondCut) = ZERO
      /\ functionsOf(L, CutFacet) = <<>>
  <2> HIDE DEF d
  <2> QED BY <1>3, <1>4, <1>5, <1>6, ListedAgrees DEF facetAddress, NoFunction
<1>9. ds = addFunction(L, DiamondCut, Len(functionsOf(L, CutFacet)), CutFacet)
  BY <1>1, <1>7, <1>8
<1>10. Agreeing(ds, {})
  <2> HIDE DEF L
  <2> QED BY <1>6, <1>8, <1>9, FunctionAdded
<1>11. ds \in DiamondStorage /\ Agree(ds)
  BY <1>10, AgreeingIsAgree
<1>12. paymentsContract = ZERO /\ call = Idle
  BY DEF Init
<1> QED BY <1>11, <1>12 DEF TablesInv, TypeOK, TablesAgree, Counted, cutting, Idle

\* The invariant holds in every state of every cut, whatever selectors, facets
\* and cuts there are.
THEOREM TablesInvariance == Spec => []TablesInv
<1>1. Init => TablesInv
  BY DiamondInit
<1>2. TablesInv /\ [Next]_vars => TablesInv'
  BY AddStep, ReplaceStep, RemoveStep, OtherSteps DEF Next
<1> QED BY <1>1, <1>2, PTL DEF Spec

\* Every variable and every counter of a running cut has its type: a cut that
\* passes its requirements never reads past an array or routes to address(0).
THEOREM DiamondTypeCorrect == Spec => []TypeOK
<1>1. TablesInv => TypeOK
  BY DEF TablesInv
<1> QED BY <1>1, TablesInvariance, PTL

\* The routing table and the arrays behind the loupe agree after every selector
\* of every cut (LibDiamond's swap-and-pop), and in what a revert puts back.
THEOREM TablesCorrect == Spec => []TablesAgree
<1>1. TablesInv => TablesAgree
  BY DEF TablesInv
<1> QED BY <1>1, TablesInvariance, PTL

\* The loupe lists what the fallback routes, each function once and under its
\* facet (DiamondLoupeFacet.facets against Diamond's fallback).
THEOREM LoupeCorrect == Spec => []LoupeTellsRouting
<1>1. ASSUME TablesInv PROVE LoupeTellsRouting
  <2>1. Agreeing(ds, {})
    BY <1>1, AgreeingIsAgree DEF TablesInv, TypeOK, TablesAgree
  <2> DEFINE list == facets(ds)
  <2>2. /\ DOMAIN list = DOMAIN ds.facetAddresses
        /\ \A i \in DOMAIN list :
              /\ list[i].facetAddress = ds.facetAddresses[i]
              /\ list[i].functionSelectors = functionsOf(ds, ds.facetAddresses[i])
              /\ ds.facetAddresses[i] \in Facets
    BY <2>1, Fields DEF facets, Agreeing
  <2> HIDE DEF list
  <2>3. ASSUME NEW x \in Selectors, facetAddress(ds, x) # ZERO
        PROVE  \E i \in DOMAIN list : \E j \in DOMAIN list[i].functionSelectors :
                  list[i].functionSelectors[j] = x
    <3>1. PICK f \in Facets, p \in Nat :
             /\ f = facetAddress(ds, x)
             /\ p = ds.selectorToFacetAndPosition[x].functionSelectorPosition
      BY <2>1, <2>3, Fields DEF facetAddress, Agreeing
    <3>2. p + 1 \in DOMAIN functionsOf(ds, f) /\ functionsOf(ds, f)[p + 1] = x
      BY <2>1, <2>3, <3>1 DEF Agreeing, SelectorsFound, facetAddress
    <3>3. PICK i \in DOMAIN ds.facetAddresses : ds.facetAddresses[i] = f
      BY <2>1, <3>2 DEF Agreeing, FacetsFound, Kept
    <3> QED BY <2>2, <3>2, <3>3
  <2>4. ASSUME NEW i \in DOMAIN list, NEW j \in DOMAIN list[i].functionSelectors
        PROVE  /\ ds.selectorToFacetAndPosition[list[i].functionSelectors[j]].facetAddress
                      = list[i].facetAddress
               /\ ds.selectorToFacetAndPosition[list[i].functionSelectors[j]]
                      .functionSelectorPosition + 1 = j
    BY <2>1, <2>2 DEF Agreeing, SelectorsRouted
  <2>5. ASSUME NEW i \in DOMAIN list, NEW k \in DOMAIN list,
               list[i].facetAddress = list[k].facetAddress
        PROVE  i = k
    BY <2>1, <2>2, <2>5 DEF Agreeing, FacetsKept
  <2> QED BY <2>3, <2>4, <2>5 DEF LoupeTellsRouting, facetAddress, list
<1> QED BY <1>1, TablesInvariance, PTL

----------------------------------------------------------------------------
(* The diamond implements DiamondTable.                                    *)

\* The tables e route x to f, and everything else as d does.
Routed(d, e, x, f) ==
    /\ e.contractOwner = d.contractOwner
    /\ \A y \in Selectors :
          facetAddress(e, y) = IF y = x THEN f ELSE facetAddress(d, y)

LEMMA ListedRoutes ==
    ASSUME NEW d \in DiamondStorage, NEW f \in Facets, NEW e, e = Listed(d, f)
    PROVE  /\ e \in DiamondStorage
           /\ e.contractOwner = d.contractOwner
           /\ \A y \in Selectors : facetAddress(e, y) = facetAddress(d, y)
<1>1. CASE functionsOf(d, f) # <<>>
  BY <1>1 DEF Listed
<1>2. CASE functionsOf(d, f) = <<>>
  <2>1. e = addFacet(d, f)
    BY <1>2 DEF Listed
  <2>2. /\ e \in DiamondStorage
        /\ e.selectorToFacetAndPosition = d.selectorToFacetAndPosition
    BY <2>1, AddFacetFields
  <2>3. e.contractOwner = d.contractOwner
    BY <2>1 DEF addFacet, DiamondStorage
  <2> QED BY <2>2, <2>3 DEF facetAddress
<1> QED BY <1>1, <1>2

LEMMA AddedRoutes ==
    ASSUME NEW d \in DiamondStorage, NEW f \in Facets, NEW x \in Selectors,
           NEW n \in Nat, NEW e, e = addFunction(d, x, n, f)
    PROVE  Routed(d, e, x, f)
<1>1. \A y \in Selectors : e.selectorToFacetAndPosition[y] =
          IF y = x THEN [facetAddress |-> f, functionSelectorPosition |-> n]
          ELSE d.selectorToFacetAndPosition[y]
  BY AddFunctionFields
<1>2. e.contractOwner = d.contractOwner
  BY DEF addFunction, DiamondStorage
<1> QED BY <1>1, <1>2 DEF Routed, facetAddress

LEMMA RemovedRoutes ==
    ASSUME NEW d, NEW open, NEW f \in Facets, NEW x \in Selectors, f \notin open,
           Agreeing(d, open), facetAddress(d, x) = f,
           NEW e, e = removeFunction(d, f, x)
    PROVE  Routed(d, e, x, ZERO)
<1>1. PICK r : r = removeSelector(d, f, x)
  OBVIOUS
<1>2. d \in DiamondStorage
  BY DEF Agreeing
<1>3. r \in DiamondStorage /\ facetAddress(r, x) = ZERO
  BY <1>1, SelectorRemoved DEF Agreeing
<1>4. PICK last, p, l :
          r = [d EXCEPT !.facetFunctionSelectors[f].functionSelectors = l,
                        !.selectorToFacetAndPosition[last].functionSelectorPosition = p,
                        !.selectorToFacetAndPosition[x] = NoFunction]
  BY <1>1 DEF removeSelector, functionsOf
<1>5. r.contractOwner = d.contractOwner
  BY <1>2, <1>4 DEF DiamondStorage
<1>6. PICK R : R = d.selectorToFacetAndPosition
  OBVIOUS
<1>7. R \in [Selectors -> Route]
  BY <1>2, <1>6, Fields
<1>8. r.selectorToFacetAndPosition =
          [R EXCEPT ![last].functionSelectorPosition = p, ![x] = NoFunction]
  BY <1>2, <1>4, <1>6 DEF DiamondStorage
<1>9. \A y \in Selectors : y # x =>
          r.selectorToFacetAndPosition[y].facetAddress = R[y].facetAddress
  BY <1>7, <1>8 DEF Route
<1>10. Routed(d, r, x, ZERO)
  BY <1>3, <1>5, <1>6, <1>9 DEF Routed, facetAddress
<1>11. CASE functionsOf(r, f) # <<>>
  BY <1>1, <1>10, <1>11 DEF removeFunction
<1>12. CASE functionsOf(r, f) = <<>>
  <2>1. e = removeFacet(r, f)
    BY <1>1, <1>12 DEF removeFunction
  <2>2. /\ e.selectorToFacetAndPosition = r.selectorToFacetAndPosition
        /\ e.contractOwner = r.contractOwner
    BY <1>3, <2>1 DEF removeFacet, DiamondStorage
  <2> QED BY <1>10, <2>2 DEF Routed, facetAddress
<1> QED BY <1>11, <1>12

\* One selector of a cut is routed to the facet its entry names.
LEMMA StepRoutes ==
    ASSUME TablesInv, addFunctions \/ replaceFunctions \/ removeFunctions
    PROVE  Routed(ds, ds', selector, current.facetAddress)
<1> DEFINE f == current.facetAddress
           x == selector
           old == facetAddress(ds, x)
           L == Listed(ds, f)
<1>1. /\ cutting /\ canCut /\ TypeOK /\ Counted /\ Agreeing(ds, {})
      /\ ds \in DiamondStorage
  BY AgreeingIsAgree
     DEF TablesInv, TypeOK, TablesAgree, addFunctions, replaceFunctions, removeFunctions
<1>2. x \in Selectors
  BY <1>1, NextSelector
<1>3. CASE addFunctions
  <2>1. /\ f \in Facets /\ selectorPosition \in Nat
    <3>1. f \in Facets /\ selectorPosition = Len(functionsOf(ds, f))
      BY <1>1, <1>3, NextSelector DEF addFunctions
    <3> QED BY <1>1, <3>1, Fields
  <2>2. ds' = addFunction(L, x, selectorPosition, f)
    BY <1>3 DEF addFunctions
  <2> HIDE DEF f, x
  <2>3. /\ L \in DiamondStorage /\ L.contractOwner = ds.contractOwner
        /\ \A y \in Selectors : facetAddress(L, y) = facetAddress(ds, y)
    BY <1>1, <2>1, ListedRoutes
  <2> HIDE DEF L
  <2>4. Routed(L, ds', x, f)
    BY <1>2, <2>1, <2>2, <2>3, AddedRoutes
  <2>5. Routed(ds, ds', x, f)
    BY <2>3, <2>4 DEF Routed
  <2> QED BY <2>5 DEF x, f
<1>4. CASE replaceFunctions
  <2>1. /\ f \in Facets /\ selectorPosition \in Nat
    <3>1. f \in Facets /\ selectorPosition = Len(functionsOf(ds, f))
      BY <1>1, <1>4, NextSelector DEF replaceFunctions
    <3> QED BY <1>1, <3>1, Fields
  <2>2. old \in Facets /\ old # f
    <3>1. old # ZERO /\ old # f
      BY <1>1, <1>4 DEF canCut, replaceFunctions
    <3> QED BY <1>1, <1>2, <3>1, Fields DEF facetAddress
  <2>3. PICK r : r = removeFunction(L, old, x)
    OBVIOUS
  <2>4. ds' = addFunction(r, x, selectorPosition, f)
    BY <1>4, <2>3 DEF replaceFunctions
  <2> HIDE DEF f, x
  <2>5. /\ L \in DiamondStorage /\ L.contractOwner = ds.contractOwner
        /\ \A y \in Selectors : facetAddress(L, y) = facetAddress(ds, y)
        /\ Agreeing(L, {f})
    BY <1>1, <2>1, ListedRoutes, ListedAgrees
  <2>6. facetAddress(L, x) = old /\ old \notin {f}
    BY <1>2, <2>2, <2>5
  <2> HIDE DEF L, old
  <2>7. Agreeing(r, {f}) /\ Routed(L, r, x, ZERO)
    BY <1>2, <2>2, <2>3, <2>5, <2>6, FunctionRemoved, RemovedRoutes
  <2>8. r \in DiamondStorage
    BY <2>7 DEF Agreeing
  <2>9. Routed(r, ds', x, f)
    BY <1>2, <2>1, <2>4, <2>8, AddedRoutes
  <2>10. Routed(ds, ds', x, f)
    BY <2>5, <2>7, <2>9 DEF Routed
  <2> QED BY <2>10 DEF x, f
<1>5. CASE removeFunctions
  <2>1. f = ZERO
    BY <1>1, <1>5 DEF removeFunctions, canCut
  <2>2. old \in Facets
    <3>1. old # ZERO
      BY <1>1, <1>5 DEF canCut, removeFunctions
    <3> QED BY <1>1, <1>2, <3>1, Fields DEF facetAddress
  <2>3. ds' = removeFunction(ds, old, x)
    BY <1>5 DEF removeFunctions
  <2> HIDE DEF f
  <2>4. Routed(ds, ds', x, ZERO)
    <3> HIDE DEF x
    <3>1. facetAddress(ds, x) = old
      OBVIOUS
    <3> HIDE DEF old
    <3> QED BY <1>1, <1>2, <2>2, <2>3, <3>1, RemovedRoutes
  <2> QED BY <2>1, <2>4 DEF f
<1> QED BY <1>3, <1>4, <1>5

\* The functions that the loop has passed, of the i-th entry of the cut, when it
\* is at the selector si of the entry fi.
Passed(cuts, fi, si, i) ==
    {cuts[i].functionSelectors[j] :
        j \in {j \in DOMAIN cuts[i].functionSelectors :
                  i < fi \/ (i = fi /\ j < si)}}

\* A function is where the last entry that named it has put it, or where it was.
SoFar(cuts, fi, si, before, now, x) ==
    \/ /\ \A i \in DOMAIN cuts : x \notin Passed(cuts, fi, si, i)
       /\ now = before
    \/ \E i \in DOMAIN cuts :
          /\ x \in Passed(cuts, fi, si, i)
          /\ \A k \in DOMAIN cuts : x \in Passed(cuts, fi, si, k) => k <= i
          /\ now = cuts[i].facetAddress

\* What a running cut has done: nothing to the owner, nothing to the diamond's
\* own functions, and to the others what the entries up to now say.
CutInv ==
    call # Idle =>
        /\ facetAddress(call.saved, DiamondCut) # ZERO
        /\ ds.contractOwner = call.saved.contractOwner
        /\ \A x \in Selectors :
              /\ SoFar(call.cuts, call.facetIndex, call.selectorIndex,
                       facetAddress(call.saved, x), facetAddress(ds, x), x)
              /\ facetAddress(call.saved, x) = Diamond => facetAddress(ds, x) = Diamond

LEMMA CutEntries ==
    ASSUME NEW cuts \in Seq(FacetCut), NEW i \in DOMAIN cuts
    PROVE  /\ i \in Nat \ {0}
           /\ cuts[i] \in FacetCut /\ cuts[i].functionSelectors \in Seq(Selectors)
<1>1. cuts[i] \in FacetCut /\ i \in Nat \ {0}
  OBVIOUS
<1> QED BY <1>1 DEF FacetCut

\* From one function to the next, or to the next entry.
Moves(l, fi, si, fi2, si2) ==
    IF si < Len(l) THEN fi2 = fi /\ si2 = si + 1 ELSE fi2 = fi + 1 /\ si2 = 1

PassesOne(cuts, x, fi, si, fi2, si2, i) ==
    /\ Passed(cuts, fi2, si2, i) =
          Passed(cuts, fi, si, i) \cup IF i = fi THEN {x} ELSE {}
    /\ i > fi => Passed(cuts, fi, si, i) = {}

\* The loop passes one function.
LEMMA PassedNext ==
    ASSUME NEW cuts \in Seq(FacetCut), NEW fi \in DOMAIN cuts,
           NEW l, l = cuts[fi].functionSelectors, NEW si \in DOMAIN l,
           NEW fi2, NEW si2, Moves(l, fi, si, fi2, si2),
           NEW i \in DOMAIN cuts
    PROVE  PassesOne(cuts, l[si], fi, si, fi2, si2, i)
<1>0. IF si < Len(l) THEN fi2 = fi /\ si2 = si + 1 ELSE fi2 = fi + 1 /\ si2 = 1
  BY DEF Moves
<1>1. /\ fi \in Nat /\ i \in Nat /\ l \in Seq(Selectors)
      /\ cuts[i].functionSelectors \in Seq(Selectors)
  BY CutEntries
<1>2. /\ si \in Nat \ {0} /\ si <= Len(l) /\ Len(l) \in Nat
      /\ \A j \in DOMAIN l : j \in Nat \ {0} /\ j <= Len(l)
  BY <1>1
<1>3. \A j \in DOMAIN cuts[i].functionSelectors : j \in Nat \ {0}
  BY <1>1
<1>4. i > fi => Passed(cuts, fi, si, i) = {}
  BY <1>1 DEF Passed
<1>5. CASE i < fi
  <2>1. i < fi2 /\ i # fi /\ ~(i > fi)
    BY <1>0, <1>1, <1>5
  <2>2. Passed(cuts, fi2, si2, i) = Passed(cuts, fi, si, i)
    BY <1>5, <2>1 DEF Passed
  <2> QED BY <2>1, <2>2 DEF PassesOne
<1>6. CASE i > fi
  <2>1. \A j \in DOMAIN cuts[i].functionSelectors :
            ~(i < fi2 \/ (i = fi2 /\ j < si2))
    BY <1>0, <1>1, <1>2, <1>3, <1>6
  <2>2. Passed(cuts, fi2, si2, i) = {}
    BY <2>1 DEF Passed
  <2>3. i # fi
    BY <1>1, <1>6
  <2> QED BY <1>4, <1>6, <2>2, <2>3 DEF PassesOne
<1>7. CASE i = fi
  <2>1. \A j \in DOMAIN l : (i < fi2 \/ (i = fi2 /\ j < si2)) <=> (j < si \/ j = si)
    BY <1>0, <1>1, <1>2, <1>7
  <2>2. \A j \in DOMAIN l : (i < fi \/ (i = fi /\ j < si)) <=> j < si
    BY <1>1, <1>7
  <2>3. Passed(cuts, fi2, si2, i) = {l[j] : j \in {j \in DOMAIN l : j < si \/ j = si}}
    BY <1>7, <2>1 DEF Passed
  <2>4. Passed(cuts, fi, si, i) = {l[j] : j \in {j \in DOMAIN l : j < si}}
    BY <1>7, <2>2 DEF Passed
  <2>5. ~(i > fi)
    BY <1>1, <1>7
  <2> QED BY <1>7, <2>3, <2>4, <2>5 DEF PassesOne
<1> QED BY <1>1, <1>5, <1>6, <1>7

\* The loop is at the selector si of the entry fi, whose selectors are l.
LoopAt(cuts, l, fi, si) ==
    /\ cuts \in Seq(FacetCut) /\ fi \in DOMAIN cuts /\ si \in DOMAIN l
    /\ l = cuts[fi].functionSelectors

\* The function x is routed to now, if it was routed to old.
Put(cuts, l, fi, si, x, old, now) ==
    now = IF x = l[si] THEN cuts[fi].facetAddress ELSE old

LEMMA SoFarNext ==
    ASSUME NEW cuts, NEW l, NEW fi, NEW si, LoopAt(cuts, l, fi, si),
           NEW fi2, NEW si2, Moves(l, fi, si, fi2, si2), NEW x, NEW before, NEW old, NEW now,
           SoFar(cuts, fi, si, before, old, x),
           Put(cuts, l, fi, si, x, old, now)
    PROVE  SoFar(cuts, fi2, si2, before, now, x)
<1>0. /\ cuts \in Seq(FacetCut) /\ fi \in DOMAIN cuts /\ si \in DOMAIN l
      /\ l = cuts[fi].functionSelectors
      /\ now = IF x = l[si] THEN cuts[fi].facetAddress ELSE old
  BY DEF LoopAt, Put
<1>1. \A i \in DOMAIN cuts :
          /\ Passed(cuts, fi2, si2, i) =
                Passed(cuts, fi, si, i) \cup IF i = fi THEN {l[si]} ELSE {}
          /\ i > fi => Passed(cuts, fi, si, i) = {}
  <2>1. \A i \in DOMAIN cuts : PassesOne(cuts, l[si], fi, si, fi2, si2, i)
    BY <1>0, PassedNext
  <2> QED BY <2>1 DEF PassesOne
<1>2. CASE x = l[si]
  <2>1. x \in Passed(cuts, fi2, si2, fi)
    BY <1>0, <1>1, <1>2
  <2>2. \A k \in DOMAIN cuts : x \in Passed(cuts, fi2, si2, k) => k <= fi
    <3> SUFFICES ASSUME NEW k \in DOMAIN cuts, x \in Passed(cuts, fi2, si2, k)
                 PROVE  k <= fi
      OBVIOUS
    <3>1. k \in Nat /\ fi \in Nat
      BY <1>0
    <3>2. ~(k > fi)
      <4> SUFFICES ASSUME k > fi PROVE FALSE
        OBVIOUS
      <4>1. k # fi
        BY <3>1
      <4> QED BY <1>1, <4>1
    <3> QED BY <3>1, <3>2
  <2> QED BY <1>0, <1>2, <2>1, <2>2 DEF SoFar
<1>3. CASE x # l[si]
  <2>1. \A i \in DOMAIN cuts :
            x \in Passed(cuts, fi2, si2, i) <=> x \in Passed(cuts, fi, si, i)
    BY <1>1, <1>3
  <2> QED BY <1>0, <1>3, <2>1 DEF SoFar
<1> QED BY <1>2, <1>3

LEMMA CutInvStep ==
    ASSUME TablesInv, CutInv, [Next]_vars
    PROVE  CutInv'
<1>1. TypeOK /\ Counted
  BY DEF TablesInv
<1>2. CASE addFunctions \/ replaceFunctions \/ removeFunctions
  <2>1. cutting /\ canCut /\ \E position : Advance(position)
    BY <1>2 DEF addFunctions, replaceFunctions, removeFunctions
  <2>2. /\ call \in Frame /\ call # Idle /\ current \in FacetCut
        /\ current.functionSelectors \in Seq(Selectors)
        /\ call.selectorIndex \in DOMAIN current.functionSelectors
        /\ selector \in Selectors
    BY <1>1, <2>1, FrameFacts, NextSelector
  <2>3. PICK cuts, fi, si, l : /\ cuts = call.cuts /\ fi = call.facetIndex
                               /\ si = call.selectorIndex
                               /\ l = current.functionSelectors
    OBVIOUS
  <2>4. /\ cuts \in Seq(FacetCut) /\ fi \in DOMAIN cuts /\ si \in DOMAIN l
        /\ l = cuts[fi].functionSelectors /\ selector = l[si]
        /\ current.facetAddress = cuts[fi].facetAddress
    BY <2>1, <2>2, <2>3, RequestsAssumption DEF Frame, cutting, current, selector
  <2>5. /\ call' # Idle /\ call'.saved = call.saved /\ call'.cuts = cuts
        /\ Moves(l, fi, si, call'.facetIndex, call'.selectorIndex)
    <3>1. PICK position : Advance(position)
      BY <2>1
    <3>2. call'.fn = "diamondCut" /\ call'.saved = call.saved /\ call'.cuts = cuts
          /\ IF si < Len(l) THEN call'.facetIndex = fi /\ call'.selectorIndex = si + 1
             ELSE call'.facetIndex = fi + 1 /\ call'.selectorIndex = 1
      BY <2>2, <2>3, <3>1 DEF Advance, Frame
    <3> QED BY <3>2 DEF Idle, Moves
  <2>6. Routed(ds, ds', selector, current.facetAddress)
    BY <1>2, StepRoutes
  <2>7. ASSUME NEW x \in Selectors
        PROVE  /\ SoFar(cuts, call'.facetIndex, call'.selectorIndex,
                        facetAddress(call.saved, x), facetAddress(ds', x), x)
               /\ facetAddress(call.saved, x) = Diamond => facetAddress(ds', x) = Diamond
    <3>1. facetAddress(ds', x) = IF x = l[si] THEN cuts[fi].facetAddress
                                 ELSE facetAddress(ds, x)
      BY <2>4, <2>6 DEF Routed
    <3>2. SoFar(cuts, fi, si, facetAddress(call.saved, x), facetAddress(ds, x), x)
      BY <2>2, <2>3 DEF CutInv
    <3>3. SoFar(cuts, call'.facetIndex, call'.selectorIndex,
                facetAddress(call.saved, x), facetAddress(ds', x), x)
      <4>1. PICK fi2, si2 : fi2 = call'.facetIndex /\ si2 = call'.selectorIndex
        OBVIOUS
      <4>2. PICK before, old, now :
                /\ before = facetAddress(call.saved, x)
                /\ old = facetAddress(ds, x) /\ now = facetAddress(ds', x)
        OBVIOUS
      <4>3. Moves(l, fi, si, fi2, si2)
        BY <2>5, <4>1
      <4>4. SoFar(cuts, fi, si, before, old, x)
        BY <3>2, <4>2
      <4>5. Put(cuts, l, fi, si, x, old, now) /\ LoopAt(cuts, l, fi, si)
        BY <2>4, <3>1, <4>2 DEF Put, LoopAt
      <4>6. SoFar(cuts, fi2, si2, before, now, x)
        BY <4>3, <4>4, <4>5, SoFarNext
      <4> QED BY <4>1, <4>2, <4>6
    <3>4. facetAddress(ds, selector) # Diamond
      BY <2>1 DEF canCut
    <3> QED BY <2>2, <2>4, <3>1, <3>3, <3>4 DEF CutInv
  <2>8. ds'.contractOwner = ds.contractOwner
    BY <2>6 DEF Routed
  <2> QED BY <2>2, <2>5, <2>7, <2>8 DEF CutInv
<1>3. ASSUME NEW caller, NEW cuts, NEW init, diamondCut(caller, cuts, init),
             cuts \in CutRequests
      PROVE  CutInv'
  <2>1. /\ ds' = ds /\ call'.saved = ds /\ call'.cuts = cuts
        /\ call'.facetIndex = 1 /\ call'.selectorIndex = 1
        /\ facetAddress(ds, DiamondCut) # ZERO
    BY <1>3 DEF diamondCut
  <2>2. cuts \in Seq(FacetCut)
    BY <1>3, RequestsAssumption
  <2>3. \A i \in DOMAIN cuts : Passed(cuts, 1, 1, i) = {}
    <3> SUFFICES ASSUME NEW i \in DOMAIN cuts,
                        NEW j \in DOMAIN cuts[i].functionSelectors
                 PROVE  ~(i < 1 \/ (i = 1 /\ j < 1))
      BY DEF Passed
    <3>1. i \in Nat \ {0} /\ cuts[i].functionSelectors \in Seq(Selectors)
      BY <2>2, CutEntries
    <3> QED BY <3>1
  <2>4. \A x \in Selectors :
            SoFar(cuts, 1, 1, facetAddress(ds, x), facetAddress(ds, x), x)
    BY <2>3 DEF SoFar
  <2> QED BY <2>1, <2>4 DEF CutInv
<1>4. CASE cutReturn \/ initReturn \/ cutRevert
  BY <1>4 DEF cutReturn, initReturn, cutRevert, CutInv
<1>5. ASSUME NEW caller, NEW newOwner, transferOwnership(caller, newOwner)
      PROVE  CutInv'
  BY <1>5 DEF transferOwnership, CutInv
<1>6. CASE UNCHANGED vars
  BY <1>6 DEF vars, CutInv
<1> QED BY <1>2, <1>3, <1>4, <1>5, <1>6 DEF Next

\* When the loop is over, the outcome is that of the whole cut.
LEMMA SoFarOutcome ==
    ASSUME NEW cuts \in Seq(FacetCut), NEW fi \in Nat, NEW si, fi > Len(cuts),
           NEW table, NEW x \in Selectors, NEW now, SoFar(cuts, fi, si, table[x], now, x)
    PROVE  now = Table!Outcome(table, cuts)[x]
<1> DEFINE naming == {i \in DOMAIN cuts : x \in Table!Named(cuts[i])}
<1>1. \A i \in DOMAIN cuts : Passed(cuts, fi, si, i) = Table!Named(cuts[i])
  <2>1. \A i \in DOMAIN cuts : i < fi
    OBVIOUS
  <2> QED BY <2>1 DEF Passed, Table!Named
<1>2. Table!Outcome(table, cuts)[x] =
          IF naming = {} THEN table[x] ELSE cuts[Table!Max(naming)].facetAddress
  BY DEF Table!Outcome
<1>3. CASE \A i \in DOMAIN cuts : x \notin Passed(cuts, fi, si, i)
  <2>1. naming = {}
    BY <1>1, <1>3
  <2>2. now = table[x]
    BY <1>3 DEF SoFar
  <2> QED BY <1>2, <2>1, <2>2
<1>4. CASE ~ \A i \in DOMAIN cuts : x \notin Passed(cuts, fi, si, i)
  <2>1. PICK i \in DOMAIN cuts :
            /\ x \in Passed(cuts, fi, si, i)
            /\ \A k \in DOMAIN cuts : x \in Passed(cuts, fi, si, k) => k <= i
            /\ now = cuts[i].facetAddress
    BY <1>4 DEF SoFar
  <2>2. i \in naming /\ \A k \in naming : k <= i
    BY <1>1, <2>1
  <2>3. naming \subseteq Nat
    OBVIOUS
  <2> HIDE DEF naming
  <2>4. \A j \in naming : (\A k \in naming : j >= k) => j = i
    BY <2>2, <2>3
  <2>5. \A k \in naming : i >= k
    BY <2>2, <2>3
  <2>6. Table!Max(naming) = i
    BY <2>2, <2>4, <2>5 DEF Table!Max
  <2>7. naming # {}
    BY <2>2
  <2> QED BY <1>2, <2>1, <2>6, <2>7
<1> QED BY <1>3, <1>4

Routes(d) == [x \in Selectors |-> facetAddress(d, x)]

\* A cut that returns.
LEMMA CutReturns ==
    ASSUME TablesInv, CutInv, cutReturn \/ initReturn
    PROVE  Table!Next
<1>1. /\ TypeOK /\ call.fn = "diamondCut" /\ ~cutting /\ call # Idle /\ call' = Idle
  BY DEF TablesInv, cutReturn, initReturn, initialized, Idle
<1>2. call \in Frame
  BY <1>1 DEF TypeOK, Frame
<1>3. PICK cuts, fi, si, saved :
          /\ cuts = call.cuts /\ fi = call.facetIndex /\ si = call.selectorIndex
          /\ saved = call.saved
  OBVIOUS
<1>4. /\ cuts \in CutRequests /\ fi \in Nat /\ saved \in DiamondStorage
      /\ ds \in DiamondStorage
  BY <1>1, <1>2, <1>3 DEF Frame, TypeOK
<1>5. cuts \in Seq(FacetCut) /\ fi > Len(cuts)
  <2>1. cuts \in Seq(FacetCut)
    BY <1>4, RequestsAssumption
  <2>2. Len(cuts) \in Nat /\ ~(fi <= Len(cuts))
    BY <1>1, <1>3, <2>1 DEF cutting
  <2> QED BY <1>4, <2>1, <2>2
<1>6. /\ ds'.selectorToFacetAndPosition = ds.selectorToFacetAndPosition
      /\ ds'.contractOwner = ds.contractOwner
  BY <1>4 DEF cutReturn, initReturn, DiamondStorage
<1>7. committed = saved /\ committed' = ds'
  BY <1>1, <1>3 DEF committed
<1>8. \A x \in Selectors : facetAddress(ds', x) = facetAddress(ds, x)
  BY <1>6 DEF facetAddress
<1>9. PICK table : table = Routes(saved)
  OBVIOUS
<1>10. PICK table2 : table2 = Routes(ds)
  OBVIOUS
<1>11. ASSUME NEW x \in Selectors
       PROVE  /\ table2[x] = Table!Outcome(table, cuts)[x]
              /\ table[x] = Diamond => table2[x] = Diamond
  <2>1. table[x] = facetAddress(saved, x) /\ table2[x] = facetAddress(ds, x)
    BY <1>9, <1>10 DEF Routes
  <2>2. SoFar(cuts, fi, si, table[x], table2[x], x)
    BY <1>1, <1>3, <2>1 DEF CutInv
  <2> QED BY <1>1, <1>3, <1>4, <1>5, <2>1, <2>2, SoFarOutcome DEF CutInv
<1>12. table2 = Table!Outcome(table, cuts)
  <2>1. /\ DOMAIN table2 = Selectors
        /\ table2 = [x \in Selectors |-> table2[x]]
    BY <1>10 DEF Routes
  <2>2. PICK outcome : outcome = Table!Outcome(table, cuts)
    OBVIOUS
  <2>3. outcome = [x \in Selectors |-> outcome[x]]
    BY <2>2 DEF Table!Outcome
  <2> QED BY <1>11, <2>1, <2>2, <2>3
<1>13. /\ [x \in Selectors |-> facetAddress(committed, x)] = table
       /\ [x \in Selectors |-> facetAddress(committed', x)] = table2
       /\ committed'.contractOwner = committed.contractOwner
       /\ DiamondCut \in Selectors /\ facetAddress(saved, DiamondCut) # ZERO
  BY <1>1, <1>3, <1>6, <1>7, <1>8, <1>9, <1>10, SelectorsAssumption DEF CutInv, Routes
<1>14. table[DiamondCut] # ZERO
  BY <1>9, <1>13 DEF Routes
<1>15. Table!Cut(cuts)
  BY <1>11, <1>12, <1>13, <1>14 DEF Table!Cut
<1> QED BY <1>4, <1>15 DEF Table!Next

LEMMA TableStep ==
    ASSUME TablesInv, CutInv, [Next]_vars
    PROVE  [Table!Next]_<<[x \in Selectors |-> facetAddress(committed, x)],
                          committed.contractOwner>>
<1>1. ASSUME committed' = committed
      PROVE  UNCHANGED <<[x \in Selectors |-> facetAddress(committed, x)],
                         committed.contractOwner>>
  BY <1>1
<1>2. CASE addFunctions \/ replaceFunctions \/ removeFunctions
  <2>1. /\ cutting /\ canCut /\ \E position : Advance(position)
    BY <1>2 DEF addFunctions, replaceFunctions, removeFunctions
  <2>2. call # Idle /\ call \in Frame
    BY <2>1, FrameFacts DEF TablesInv
  <2>3. call'.fn = "diamondCut" /\ call'.saved = call.saved
    BY <2>1, <2>2 DEF Advance, Frame
  <2>4. committed' = committed
    BY <2>2, <2>3 DEF committed, Idle
  <2> QED BY <1>1, <2>4
<1>3. ASSUME NEW caller, NEW cuts, NEW init, diamondCut(caller, cuts, init)
      PROVE  committed' = committed
  BY <1>3 DEF diamondCut, committed, Idle
<1>4. CASE cutReturn \/ initReturn
  BY <1>4, CutReturns
<1>5. CASE cutRevert
  <2>1. call # Idle /\ call' = Idle /\ ds' = call.saved
    BY <1>5 DEF cutRevert, cutting, initialized, Idle
  <2>2. committed' = committed
    BY <2>1 DEF committed
  <2> QED BY <1>1, <2>2
<1>6. ASSUME NEW caller, NEW newOwner \in Owners \cup {ZERO},
             transferOwnership(caller, newOwner)
      PROVE  Table!Next
  <2>1. /\ committed = ds /\ committed' = ds' /\ ds \in DiamondStorage
        /\ facetAddress(ds, TransferOwnership) # ZERO /\ newOwner \in Owners
        /\ ds' = [ds EXCEPT !.contractOwner = newOwner]
    BY <1>6 DEF transferOwnership, committed, TablesInv, TypeOK
  <2>2. /\ ds'.selectorToFacetAndPosition = ds.selectorToFacetAndPosition
        /\ ds'.contractOwner = newOwner
    BY <2>1 DEF DiamondStorage
  <2>3. /\ [x \in Selectors |-> facetAddress(committed, x)]' =
               [x \in Selectors |-> facetAddress(committed, x)]
        /\ [x \in Selectors |-> facetAddress(committed, x)][TransferOwnership] # ZERO
    BY <2>1, <2>2, SelectorsAssumption DEF facetAddress
  <2>4. Table!Transfer
    BY <2>1, <2>2, <2>3 DEF Table!Transfer
  <2> QED BY <2>4 DEF Table!Next
<1>7. CASE UNCHANGED vars
  <2>1. committed' = committed
    BY <1>7 DEF vars, committed
  <2> QED BY <1>1, <2>1
<1> QED BY <1>1, <1>2, <1>3, <1>4, <1>5, <1>6, <1>7 DEF Next

LEMMA TableInit ==
    ASSUME Init
    PROVE  Table!Init /\ CutInv
<1>1. PICK owner \in Owners :
         ds = addFunction(addFacet(NoTables(owner), CutFacet), DiamondCut, 0, CutFacet)
  BY DEF Init
<1>2. call = Idle /\ committed = ds
  BY DEF Init, committed
<1>3. PICK d : d = NoTables(owner)
  OBVIOUS
<1>4. /\ d \in DiamondStorage /\ d.contractOwner = owner
      /\ \A x \in Selectors : facetAddress(d, x) = ZERO
  BY <1>3 DEF NoTables, DiamondStorage, NoFunction, NoSelectors, facetAddress
<1>5. CutFacet \in Facets /\ DiamondCut \in Selectors
  BY AddressesAssumption, SelectorsAssumption
<1>6. PICK e : e = addFacet(d, CutFacet)
  OBVIOUS
<1>7. /\ e \in DiamondStorage
      /\ e.selectorToFacetAndPosition = d.selectorToFacetAndPosition
      /\ e.contractOwner = d.contractOwner
  <2>1. /\ e \in DiamondStorage
        /\ e.selectorToFacetAndPosition = d.selectorToFacetAndPosition
    BY <1>4, <1>5, <1>6, AddFacetFields
  <2>2. e.contractOwner = d.contractOwner
    BY <1>4, <1>6 DEF addFacet, DiamondStorage
  <2> QED BY <2>1, <2>2
<1>8. Routed(e, ds, DiamondCut, CutFacet)
  BY <1>1, <1>3, <1>5, <1>6, <1>7, AddedRoutes
<1>9. /\ \A x \in Selectors :
            facetAddress(ds, x) = IF x = DiamondCut THEN CutFacet ELSE ZERO
      /\ ds.contractOwner \in Owners
  <2>1. ASSUME NEW x \in Selectors
        PROVE  facetAddress(e, x) = ZERO
    BY <1>4, <1>7 DEF facetAddress
  <2>2. ASSUME NEW x \in Selectors
        PROVE  facetAddress(ds, x) = IF x = DiamondCut THEN CutFacet ELSE ZERO
    BY <2>1, <1>8 DEF Routed
  <2>3. ds.contractOwner = owner
    BY <1>4, <1>7, <1>8 DEF Routed
  <2> QED BY <2>2, <2>3
<1>10. [x \in Selectors |-> facetAddress(committed, x)] =
           [x \in Selectors |-> IF x = DiamondCut THEN CutFacet ELSE ZERO]
  BY <1>2, <1>9
<1>11. \E f \in Facets :
          [x \in Selectors |-> facetAddress(committed, x)] =
              [x \in Selectors |-> IF x = DiamondCut THEN f ELSE ZERO]
  BY <1>5, <1>10
<1>12. committed.contractOwner \in Owners
  BY <1>2, <1>9
<1>13. Table!Init
  BY <1>11, <1>12 DEF Table!Init
<1>14. CutInv
  BY <1>2 DEF CutInv
<1> QED BY <1>13, <1>14

\* The diamond implements DiamondTable: cuts are atomic whatever selectors,
\* facets and entries they have, each selector ends up where the last entry
\* naming it puts it, the diamond's own functions stay, and without a route to
\* diamondCut the table is final (LibDiamond.diamondCut, DiamondCutFacet).
THEOREM ImplementsTable == Spec => TableSpec
<1>1. Init => Table!Init /\ CutInv
  BY TableInit
<1>2. TablesInv /\ CutInv /\ [Next]_vars => CutInv'
  BY CutInvStep
<1>3. TablesInv /\ CutInv /\ [Next]_vars => [Table!Next]_Table!tableVars
  BY TableStep DEF Table!tableVars
<1>4. Spec => []CutInv
  BY <1>1, <1>2, TablesInvariance, PTL DEF Spec
<1>5. Spec => Table!Init /\ [][Table!Next]_Table!tableVars
  BY <1>1, <1>3, <1>4, TablesInvariance, PTL DEF Spec
<1> QED BY <1>5 DEF TableSpec, Table!Spec
=============================================================================
