----------------------------- MODULE MCDiamond -----------------------------
(***************************************************************************)
(* A diamond of up to four functions on two facets and itself, under cuts  *)
(* of one to three selectors, and cuts of two entries.                     *)
(***************************************************************************)
EXTENDS LibDiamond

CONSTANTS f1, f2, x, y

Request(action, facet, selectors) ==
    [action |-> action, facetAddress |-> facet, functionSelectors |-> selectors]

Singles == {<<a>> : a \in Selectors}

AddCuts == {Request("Add", f, l) : f \in Facets,
            l \in Singles \cup {<<x, y>>, <<x, TransferOwnership, y>>}}

ReplaceCuts == {Request("Replace", f, l) : f \in {f1, f2},
                l \in Singles \cup {<<x, y>>, <<y, x>>, <<x, TransferOwnership, y>>}}

RemoveCuts == {Request("Remove", ZERO, l) : l \in Singles \cup {<<x, y>>, <<y, y>>, <<>>}}

MCCutRequests ==
    {<<c>> : c \in AddCuts \cup ReplaceCuts \cup RemoveCuts}
    \cup {<<Request("Remove", ZERO, <<a>>), Request("Add", f1, <<b>>)>> :
              a \in Selectors, b \in Selectors}
    \cup {<<Request("Add", f2, <<a>>), Request("Replace", f1, <<a, b>>)>> :
              a \in {x, y}, b \in {x, TransferOwnership}}

MCInitRequests ==
    {[address |-> ZERO, paymentsContract |-> ZERO],
     [address |-> InitDiamond, paymentsContract |-> "fp"]}
=============================================================================
