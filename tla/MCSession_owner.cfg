CONSTANTS
    Window = {w1}
    Conn = {k1, k2}
    Char = {c1}
    Channel = {ch1}
    LoginSrv = LoginSrv
    CashShop = CashShop
    Market = Market
    Shop = {CashShop, Market}
    None = None
    Gone = Gone
    Overlap = TRUE
    Prompt = FALSE
SPECIFICATION PersistentSpec
PROPERTIES
    OwnerGetsIn
