CONSTANTS
    Char = {a, b}
    Channel = {ch1}
    Shop = Shop
    None = None
    Limit = 2
    MaxParty = 2
    Late = TRUE
SPECIFICATION Spec
INVARIANTS
    PartyListsIt
    SizeLimit
SYMMETRY Symmetry
