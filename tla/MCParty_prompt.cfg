CONSTANTS
    Char = {a, b, c}
    Channel = {ch1, ch2}
    Shop = Shop
    None = None
    Limit = 2
    MaxParty = 2
    Late = FALSE
SPECIFICATION Spec
INVARIANTS
    TypeOK
    PartyListsIt
    MemberKnowsIt
    OneParty
    OnlineIsShown
PROPERTIES
    KeepsTheBook
    NewPartyIsUnknown
SYMMETRY Symmetry
