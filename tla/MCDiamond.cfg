SPECIFICATION Spec
CONSTANTS
    f1 = f1
    f2 = f2
    x = x
    y = y
    ZERO = ZERO
    Diamond = self
    InitDiamond = initDiamond
    DiamondCut = diamondCut
    TransferOwnership = transferOwnership
    Facets = {f1, f2, self, empty}
    HasCode = {f1, f2, self}
    CutFacet = f1
    Selectors = {diamondCut, transferOwnership, x, y}
    Owners = {o1, o2}
    PaymentsContracts = {"fp"}
    CutRequests <- MCCutRequests
    InitRequests <- MCInitRequests
INVARIANTS
    TypeOK
    TablesAgree
    LoupeTellsRouting
PROPERTIES
    TableSpec
CHECK_DEADLOCK FALSE
