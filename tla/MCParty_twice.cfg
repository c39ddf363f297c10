CONSTANTS
    Char = {a, b}
    Channel = {ch1, ch2}
    Shop = Shop
    None = None
    Limit = 2
    MaxParty = 2
    Late = TRUE
SPECIFICATION Spec
INVARIANT
    OneParty
SYMMETRY Symmetry
