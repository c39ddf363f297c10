CONSTANTS
    a = a
    b = b
    c1 = c1
    i1 = i1
    i2 = i2
    i3 = i3
    None = None
    Char = {a, b, c1}
    Item = {i1, i2}
    OneOfAKind = {}
    Object = {1, 2, 3, 4, 5, 6}
    SlotLimit = 2
    MaxOffer = 1
    MaxMeso = 3
    Amount = {1}
    InitPurse = 0
    InitBag <- MCInitBag
    InitWorn <- MCInitWorn
    InitWallet <- MCNoWallet
SPECIFICATION Spec
INVARIANTS
    ItemsHaveOneHome
    PaidFromLockedSide
PROPERTIES
    TransferNeedsBothConfirmations
VIEW LiveState
