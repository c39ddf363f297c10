CONSTANTS
    Window = {w1}
    Conn = {k1, k2, k3}
    Char = {c1, c2}
    Channel = {ch1, ch2}
    LoginSrv = LoginSrv
    CashShop = CashShop
    Market = Market
    Shop = {CashShop}
    None = None
    Gone = Gone
    Overlap = FALSE
    Prompt = FALSE
SPECIFICATION Spec
INVARIANTS
    TypeOK
    OneCharacterOnline
    ShopOrChannel
    PlayingIsFound
SYMMETRY Symmetry
VIEW View
