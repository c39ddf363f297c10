CONSTANTS
    Window = {w1, w2}
    Conn = {k1, k2, k3}
    Char = {c1}
    Channel = {ch1, ch2}
    LoginSrv = LoginSrv
    CashShop = CashShop
    Market = Market
    Shop = {CashShop}
    None = None
    Gone = Gone
    Overlap = FALSE
    Prompt = TRUE
SPECIFICATION Spec
INVARIANTS
    OneClientLoggedIn
