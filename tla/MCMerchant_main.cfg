CONSTANTS
  a = a
  alt = alt
  b = b
  A = A
  B = B
  s1 = s1
  s2 = s2
  None = None
  Char = {a, alt, b}
  Account = {A, B}
  Inst = {1, 2}
  Stack = {s1, s2}
  AccountOf <- MCAccountOf
  InitBag <- MCBag
  InitPurse <- MCPurse
  Price = 100000
  MaxMeso = 220000
  SlotMax <- MCMax
  Only = {s2}
  Worn <- MCWorn
  Seats = 1
  MaxList = 2
  MaxStore = 2
SPECIFICATION Spec
INVARIANTS TypeOK OneMerchant Registered NoGhost OwnerAlone
PROPERTY KeepsConsignment
CONSTRAINT Bounds
VIEW MCView
CHECK_DEADLOCK FALSE
