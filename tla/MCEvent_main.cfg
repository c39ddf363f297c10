SPECIFICATION FairSpec
CONSTANTS
  a = a
  b = b
  d = d
  Player = {a, b, d}
  Inst = {e1, e2}
  None = None
  Overlap = FALSE
  Scripts <- Played
  TeamOf <- Teams
INVARIANTS TypeOK MembersAgree InsideBelongs KnownByName OneRunInside ClosedIsUsed
PROPERTIES OpensAgain KeepsTheRoom
