CONSTANTS
    a = a
    b = b
    c1 = c1
    i1 = i1
    i2 = i2
    i3 = i3
    None = None
    Char = {a, b}
    Item = {i1, i2, i3}
    OneOfAKind = {i1, i3}
    Object = {1, 2, 3}
    SlotLimit = 2
    MaxOffer = 2
    MaxMeso = 150000000
    Amount = {100000000}
    InitPurse = 100000000
    InitBag <- MCInitBag
    InitWorn <- MCInitWorn
    InitWallet <- MCInitWallet
SPECIFICATION Spec
INVARIANTS
    TypeOK
    PartnersAgree
PROPERTIES
    OfferOnlyGrows
    SecondConfirmationIsAllOrNothing
    ItemsVanishOnlyWhenRefused
    MesosOnlyTaxedOrOverflow
VIEW LiveState
